----------------------------- MODULE MCWorkspace -----------------------------
(***************************************************************************)
(* Workspace on small instances of every part, checked in one run.         *)
(***************************************************************************)
EXTENDS Workspace

\* One rule, and another one instead.
TwoRevisions == <<{"x"}, {"y"}>>

\* Two checkouts: in the coordinated workspace or not, of one remote or two.
Checkout(r, m, p, g) == [role |-> r, remote |-> m, private |-> p, member |-> g, draft |-> FALSE]
Draft(m, g) == [role |-> "manifest", remote |-> m, private |-> FALSE, member |-> g, draft |-> TRUE]
Setting(w, a, b) == [root |-> w, about |-> <<a, b>>]
How(p, b, s) == [publish |-> p, backend |-> b, scope |-> s]
TwoCheckouts == {
    Setting("origin", Checkout("content", "r1", TRUE, "exact"), Checkout("repo", "r2", FALSE, "exact")),
    Setting("origin", Checkout("content", "r1", TRUE, "exact"), Checkout("content", "r1", TRUE, "no")),
    Setting("origin", Checkout("content", "r1", TRUE, "exact"), Draft("r2", "exact")),
    Setting("local", Checkout("content", "r1", TRUE, "exact"), Checkout("manifest", "r2", FALSE, "no")),
    Setting("invalid", Checkout("content", "r1", TRUE, "exact"), Checkout("content", "r2", FALSE, "broken"))}
HowToSync == {
    How("auto", "auto", "all"), How("direct", "auto", "content"),
    How("direct", "gnit", "all"), How("never", "auto", "all")}

\* What a declaration refers to.
Referred == {{}, {"mount"}, {"tool", "service"}, {"skill", "service"}, {"role", "mount"}, {"service"}}

\* One harness with a launch root, one without, given together.
Way(f, a) == [force |-> f, as |-> a]
Both == {{"claude", "opencode"}}
ForcedOrLinked == {Way(FALSE, "link"), Way(TRUE, "copy")}

\* "a" is a member, "b" an administrator; m2 is another machine of "a".
Belongs(m) == IF m = "adm" THEN "b" ELSE "a"
Made(s, p, c, r) == [by |-> s, path |-> p, file |-> c, refs |-> r]
MadeByHand == {
    Made("a", <<"other", "", 0>>, "m1", {"r"}), Made("b", <<"accept", "a", 1>>, "absent", {}),
    Made("a", <<"accept", "a", 1>>, "m2", {})}

\* Two revisions of a source, and one of another.
Revision(s, c, d, r) == [source |-> s, catalog |-> c, defaults |-> d, roles |-> r]
Role(s, r, a) == [set |-> s, role |-> r, asks |-> a]
TwoSources == <<Revision("u1", {"r"}, {}, {"clerk"}), Revision("u1", {"r"}, {"r"}, {}), Revision("u2", {}, {}, {})>>
WithOrWithoutRole == {Role(FALSE, "none", FALSE), Role(TRUE, "clerk", FALSE)}
=============================================================================
