------------------------------- MODULE Skills -------------------------------
(***************************************************************************)
(* Skills installed into AI harnesses (internal/skills, selfskill,         *)
(* launchprofile; cli/skills.go, derived_skills.go, launch_profile.go).    *)
(* `my` shares each harness's skills directory, and the launch root's,     *)
(* with the user: it tells its entries from the user's by a link into its  *)
(* sources or a marker file in a copy, and why it made one by the scope in *)
(* the marker or, for a link, in an index beside the entries.  A stop may  *)
(* come between any two of these writes.                                   *)
(*                                                                         *)
(* "skill" is a skill of the organization, "self" the one about `my`       *)
(* itself, "old" the name it had before.  Of the organization's other      *)
(* skills it matters that the index beside the entries is written for      *)
(* them, too.                                                              *)
(***************************************************************************)
EXTENDS Naturals, Sequences, SequencesExt

CONSTANTS
    Harnesses,
    Native,       \* those that read skills from a launch root
    Root,         \* the launch root, a place beside the harnesses
    Groups,       \* the sets of harnesses a command may be given
    Ways,         \* its options: [force, as], as "link" or "copy"
    MaxCommands,  \* bound: commands
    MaxByHand,    \* bound: things done by the user, the manifest or an older release
    MaxStops      \* bound: crashes and failed writes

Places == Harnesses \cup {Root}
Names == {"skill", "self", "old"}
Scopes == {"none", "manual", "compat", "launch"}
Entry(kind, scope) == [kind |-> kind, scope |-> scope]
None == Entry("none", "none")
Own == Entry("own", "none")      \* the user's
Link == Entry("link", "none")    \* into a source of `my`
Bare == Entry("bare", "none")    \* a copy without its marker
Job(do, h, n, as, scope) == [do |-> do, place |-> h, name |-> n, as |-> as, scope |-> scope]
NoCommand == [kind |-> "none", force |-> FALSE, answer |-> "none"]

VARIABLES
    entry,     \* entry[p][n]
    index,     \* index[h]: the scope kept for the skill beside the entries of h
    declared,  \* whether the manifest declares the skill
    cmd, jobs, \* the command, and what it still has to do
    at,        \* where it is in the first of its jobs
    mine,      \* history: places with a finished manual install of the skill, the
               \* record of which no stop has torn since
    had,       \* history: harnesses that had the self-skill when the command began
    used, byHand, stops

vars == <<entry, index, declared, cmd, jobs, at, mine, had, used, byHand, stops>>
bounds == <<used, byHand, stops>>

Managed(e) == e.kind \in {"link", "copy"}
Declared == IF declared THEN {"skill"} ELSE {}
Scope(h) == IF entry[h]["skill"].scope # "none" THEN entry[h]["skill"].scope ELSE index[h]
HasSelf(h) == \E n \in {"self", "old"} : Managed(entry[h][n])

Init ==
    /\ entry = [p \in Places |-> [n \in Names |-> None]] /\ index = [h \in Harnesses |-> "none"]
    /\ declared = TRUE /\ cmd = NoCommand /\ jobs = <<>> /\ at = "none"
    /\ mine = {} /\ had = {} /\ used = 0 /\ byHand = 0 /\ stops = 0

(***************************************************************************)
(* What each command has to do.                                            *)
(***************************************************************************)
Each(do, H, n, as, scope) == SetToSeq({Job(do, h, n, as, scope) : h \in H})
\* What is done about the other skills writes the whole index again.
OtherSkills(H) == Each("reindex", H, "none", "link", "none")
Installs(H, as, scope) ==
    (IF declared THEN Each("install", H, "skill", as, scope) ELSE <<>>) \o OtherSkills(H)
Uninstalls(H) ==
    (IF declared THEN Each("uninstall", H, "skill", "link", "none") ELSE <<>>) \o OtherSkills(H)
\* Without --no-prune, managed entries that are not declared go.
SkillSync(H, as, scope) == Installs(H, as, scope) \o Each("prune", H, "none", "link", "none")
SelfInstall(H, as) == Each("migrate", H, "old", as, "none") \o Each("install", H, "self", as, "none")
SelfUninstall(H) == Each("uninstall", H, "self", "link", "none")
\* Setup, and what it derives again later: links are for harnesses that know
\* no launch root, others only get a report of what an older release left.
Compatible(H, as) == SkillSync(H \ Native, as, "compat")
Setup(H, as) == Compatible(H, as) \o SelfInstall(H, as)
Derived == Compatible(Harnesses, "link")
LegacyRemoval == Each("legacy", Native, "skill", "link", "none") \o OtherSkills(Native)
DoctorDerived == Derived \o LegacyRemoval
\* Doctor, which derives again when the manifest moved or something drifted.
DoctorSelf == Each("fix-self", Harnesses, "self", "link", "none")
Purge(H, ref) == Each("purge", H, ref, "link", "none") \o OtherSkills(H)
\* The profile of a launch (role, mounts, selector) has the skill or not; one
\* it has and the manifest does not ends the launch.
ProfileSkills(profile) ==
    IF profile = "without" THEN <<Job("unselect", Root, "skill", "copy", "launch")>>
    ELSE IF declared THEN <<Job("materialize", Root, "skill", "copy", "launch")>> ELSE <<>>
Launch(h, profile) ==
    <<Job("need-self", h, "self", "link", "none")>> \o
    (IF h \notin Native THEN SkillSync({h}, "link", "compat") ELSE ProfileSkills(profile))
\* At the start of commands, outside harnesses.
Maintain ==
    Each("migrate", {h \in Harnesses : entry[h]["old"] # None}, "old", "link", "none") \o
    Each("refresh", {h \in Harnesses : entry[h]["self"] # None}, "self", "link", "none")

Begin(kind, force, answer, todo) ==
    /\ jobs = <<>> /\ used < MaxCommands /\ todo # <<>>
    /\ cmd' = [kind |-> kind, force |-> force, answer |-> answer] /\ jobs' = todo /\ used' = used + 1
    /\ had' = {h \in Harnesses : HasSelf(h)}
    /\ UNCHANGED <<entry, index, declared, at, mine, byHand, stops>>

(***************************************************************************)
(* Jobs.                                                                   *)
(***************************************************************************)
job == Head(jobs)
Here == entry[job.place][job.name]
Doing(do) == jobs # <<>> /\ job.do = do /\ at = "none"
Slot == <<job.place, job.name>>

Continue(todo) ==
    /\ jobs' = todo /\ at' = "none"
    /\ cmd' = IF todo = <<>> THEN NoCommand ELSE cmd
    /\ had' = IF todo = <<>> THEN {} ELSE had
Done == Continue(Tail(jobs))
At(step) == at' = step /\ UNCHANGED <<jobs, cmd, had>>
SetHere(e) == entry' = [entry EXCEPT ![job.place][job.name] = e]
TakeAway == SetHere(None) /\ mine' = mine \ {Slot}

Put ==
    /\ SetHere(IF job.as = "link" THEN Link ELSE Bare) /\ UNCHANGED mine
    /\ IF job.as # "link" THEN At("mark") ELSE IF job.scope # "none" THEN At("index") ELSE Done
Install ==
    /\ Doing("install") /\ UNCHANGED <<index, declared, bounds>>
    /\ \/ Here = None /\ Put
       \/ Here # None /\ (Managed(Here) \/ cmd.force) /\ TakeAway /\ At("place")
       \* Blocked; a launch needs the self-skill.
       \/ /\ Here # None /\ ~Managed(Here) /\ ~cmd.force
          /\ Continue(IF cmd.kind = "launch" /\ job.name = "self" THEN <<>> ELSE Tail(jobs))
          /\ UNCHANGED <<entry, mine>>
Place == at = "place" /\ Put /\ UNCHANGED <<index, declared, bounds>>
Mark ==
    /\ at = "mark" /\ SetHere(Entry("copy", job.scope))
    /\ IF job.scope = "none" \/ job.place = Root THEN Done ELSE At("index")
    /\ UNCHANGED <<index, declared, mine, bounds>>
\* A plain write of the whole index: Stop may leave it empty.
Index ==
    /\ at = "index" /\ index' = [index EXCEPT ![job.place] = job.scope]
    /\ mine' = IF job.scope = "manual" THEN mine \cup {Slot} ELSE mine \ {Slot}
    /\ Done /\ UNCHANGED <<entry, declared, bounds>>

Uninstall ==
    /\ Doing("uninstall") /\ UNCHANGED <<index, declared, bounds>>
    /\ \/ Here # None /\ (Managed(Here) \/ cmd.force) /\ TakeAway /\ At("unindex")
       \/ (~Managed(Here) /\ (Here = None \/ ~cmd.force)) /\ Done /\ UNCHANGED <<entry, mine>>
Unindex ==
    /\ at = "unindex"
    /\ index' = IF job.name = "skill" THEN [index EXCEPT ![job.place] = "none"] ELSE index
    /\ Done /\ UNCHANGED <<entry, declared, mine, bounds>>
\* The same, with what it says of the skill.
Reindex == Doing("reindex") /\ Done /\ UNCHANGED <<entry, index, declared, mine, bounds>>

\* The entries of a harness that a prune, a purge or the legacy scan takes:
\* of the managed ones never the self-skill, under either name; a purge that
\* names an entry takes it whoever made it (--force decides).
SelfMade(h, n) == n \in {"self", "old"} /\ Managed(entry[h][n])
Stale(h) == {n \in Names \ Declared : Managed(entry[h][n]) /\ ~SelfMade(h, n)}
PurgeTargets(h, ref) ==
    IF ref = "none" THEN {n \in Names : Managed(entry[h][n]) /\ ~SelfMade(h, n)}
    ELSE IF SelfMade(h, ref) THEN {} ELSE {ref}
\* Mutant: the legacy scan looks at markers only, which a link has none of.
LegacyByMarker(h) == {n \in Declared : Managed(entry[h][n]) /\ entry[h][n].scope \notin {"manual", "launch", "compat"}}
Legacy(h) == {n \in Declared : Managed(entry[h][n]) /\ Scope(h) \notin {"manual", "launch", "compat"}}
List ==
    /\ \E do \in {"prune", "purge", "legacy"} :
          /\ Doing(do)
          /\ LET h == job.place
                 taken == CASE do = "prune" -> Stale(h) [] do = "purge" -> PurgeTargets(h, job.name)
                            [] do = "legacy" -> Legacy(h)
             IN  Continue(SetToSeq({Job("uninstall", h, n, "link", "none") : n \in taken}) \o Tail(jobs))
    /\ UNCHANGED <<entry, index, declared, mine, bounds>>

(***************************************************************************)
(* The self-skill.                                                         *)
(***************************************************************************)
Kind(e) == IF e.kind = "link" THEN "link" ELSE "copy"
\* A managed self-skill under its old name moves to the new one, or goes
\* where that exists already; it waits where that is the user's.
Migrate ==
    /\ Doing("migrate") /\ UNCHANGED <<index, declared, mine, used, byHand>>
    /\ LET h == job.place
           new == entry[h]["self"]
           Refresh == Job("refresh", h, "self", Kind(Here), "none")
           ensured == IF cmd.kind # "maintain" \/ \E i \in DOMAIN jobs : jobs[i].do = "refresh" /\ jobs[i].place = h
                      THEN Tail(jobs) ELSE Append(Tail(jobs), Refresh)
       IN  \/ ~Managed(Here) /\ Done /\ UNCHANGED <<entry, stops>>
           \/ /\ Managed(Here) /\ new = None /\ Continue(ensured) /\ UNCHANGED stops
              /\ entry' = [entry EXCEPT ![h]["old"] = None, ![h]["self"] = Here]
           \* The rename failed.
           \/ /\ Managed(Here) /\ new = None /\ Continue(ensured) /\ SetHere(None)
              /\ stops < MaxStops /\ stops' = stops + 1
           \/ /\ Managed(Here) /\ new # None /\ (Managed(new) \/ cmd.force)
              /\ SetHere(None) /\ Continue(ensured) /\ UNCHANGED stops
           \* What is there blocks the installation that follows, too.
           \/ /\ Managed(Here) /\ new # None /\ ~Managed(new) /\ ~cmd.force
              /\ Done /\ UNCHANGED <<entry, stops>>

\* What is there is installed again when its content or its link is of
\* another release, as the kind it was.
MaySeemStale(e) == e.kind \in {"copy", "bare", "own"}
Drifted(e) == e = None \/ MaySeemStale(e)
Again(as) == Job("install", job.place, "self", as, "none")
Refresh ==
    /\ Doing("refresh")
    /\ \/ Here = None /\ Continue(<<Again(job.as)>> \o Tail(jobs))
       \/ Here # None /\ Continue(<<Again(Kind(Here))>> \o Tail(jobs))
       \/ Here # None /\ Done
    /\ UNCHANGED <<entry, index, declared, mine, bounds>>
\* Doctor and launch install what is absent or stale.  A launch counts on
\* one result, and ends when a migration made it two.
SelfFix ==
    /\ Doing("fix-self") \/ Doing("need-self")
    /\ LET self == <<Job("migrate", job.place, "old", "link", "none"), Again("link")>>
           ends == job.do = "need-self" /\ Managed(entry[job.place]["old"])
       IN  \/ Here # None /\ Done
           \/ Drifted(Here) /\ Continue(self \o IF ends THEN <<>> ELSE Tail(jobs))
    /\ UNCHANGED <<entry, index, declared, mine, bounds>>

(***************************************************************************)
(* The launch root: collisions first, with a question for each, then what  *)
(* is no longer selected, then a fresh copy of each skill, which takes     *)
(* away what is there by then.                                             *)
(***************************************************************************)
Unselect ==
    /\ Doing("unselect") /\ Done /\ UNCHANGED <<index, declared, mine, bounds>>
    /\ IF Here.kind = "copy" THEN SetHere(None) ELSE UNCHANGED entry
Collides == Here # None /\ Here.kind # "copy"
Materialize ==
    /\ Doing("materialize") /\ UNCHANGED <<entry, index, declared, mine, bounds>>
    /\ \/ Collides /\ cmd.answer = "none" /\ Continue(<<>>)
       \/ Collides /\ cmd.answer = "skip" /\ Done
       \/ (Collides => cmd.answer = "replace") /\ At("replace")
Replace ==
    /\ at \in {"replace", "made since"} /\ UNCHANGED <<index, declared, bounds>>
    /\ \/ Here # None /\ TakeAway /\ At("place")
       \/ Here = None /\ Put

Step == \/ Install \/ Place \/ Mark \/ Index \/ Uninstall \/ Unindex \/ List
        \/ Reindex \/ Migrate \/ Refresh \/ SelfFix \/ Unselect \/ Materialize \/ Replace

\* The command dies, or one write of it fails and it goes on.  The index, when
\* that is written, may be left empty.
Indexing == at \in {"index", "unindex"} \/ Doing("reindex")
Stop ==
    /\ jobs # <<>> /\ stops < MaxStops /\ stops' = stops + 1
    /\ \/ jobs' = <<>> /\ cmd' = NoCommand
       \/ at # "none" /\ jobs' = Tail(jobs) /\ cmd' = IF Tail(jobs) = <<>> THEN NoCommand ELSE cmd
    /\ at' = "none" /\ had' = {}
    /\ \/ UNCHANGED <<index, mine>>
       \/ /\ Indexing /\ index' = [index EXCEPT ![job.place] = "none"]
          /\ mine' = {s \in mine : s[1] # job.place \/ entry[s[1]]["skill"].scope = "manual"}
    /\ UNCHANGED <<entry, declared, used, byHand>>

(***************************************************************************)
(* Between commands, and while a launch waits for an answer.               *)
(***************************************************************************)
ByHand ==
    /\ jobs = <<>> /\ byHand < MaxByHand /\ byHand' = byHand + 1
    /\ UNCHANGED <<index, cmd, jobs, at, had, used, stops>>
Change(p, n, e) == entry' = [entry EXCEPT ![p][n] = e] /\ mine' = mine \ {<<p, n>>} /\ UNCHANGED declared
UserMakes(p, n) == ByHand /\ entry[p][n] = None /\ Change(p, n, Own)
UserRemoves(p, n) == ByHand /\ entry[p][n] # None /\ Change(p, n, None)
\* A release that knew neither scopes nor the new name.
OlderRelease(h, n, e) ==
    /\ ByHand /\ (entry[h][n] = None \/ Managed(entry[h][n])) /\ entry[h][n] # e /\ Change(h, n, e)
UserMeanwhile ==
    /\ at \in {"replace", "made since"} /\ byHand < MaxByHand /\ byHand' = byHand + 1
    /\ \E e \in {None, Own} \ {Here} : SetHere(e) /\ at' = IF e = Own THEN "made since" ELSE at
    /\ UNCHANGED <<index, declared, cmd, jobs, mine, had, used, stops>>
Redeclare == ByHand /\ declared' = ~declared /\ UNCHANGED <<entry, mine>>

\* What a manifest sync that changed the manifest derives.
Rederive == Begin("setup", FALSE, "none", Derived)

Next ==
    \/ \E H \in Groups, w \in Ways :
          \/ Begin("install", w.force, "none", Installs(H, w.as, "manual"))
          \/ \E todo \in {Installs(H, w.as, "manual"), SkillSync(H, w.as, "manual")} :
                Begin("sync", w.force, "none", todo)
          \/ Begin("self-install", w.force, "none", SelfInstall(H, w.as))
          \/ Begin("setup", w.force, "none", Setup(H, w.as))
          \/ Begin("uninstall", w.force, "none", Uninstalls(H))
          \/ Begin("self-uninstall", w.force, "none", SelfUninstall(H))
          \/ \E ref \in {"none", "skill", "self"} : Begin("purge", w.force, "none", Purge(H, ref))
    \/ Rederive
    \/ \E todo \in {DoctorSelf, DoctorDerived \o DoctorSelf} : Begin("doctor", FALSE, "none", todo)
    \/ Begin("maintain", FALSE, "none", Maintain)
    \/ \E h \in Harnesses, profile \in {"with", "without"}, answer \in {"none", "skip", "replace"} :
          Begin("launch", FALSE, answer, Launch(h, profile))
    \/ Step \/ Stop
    \/ \E p \in Places, n \in Names :
          (p = Root => n = "skill") /\ (UserMakes(p, n) \/ UserRemoves(p, n))
    \/ \E h \in Harnesses, n \in {"skill", "old"}, e \in {Link, Entry("copy", "none")} : OlderRelease(h, n, e)
    \/ Redeclare \/ UserMeanwhile

Spec == Init /\ [][Next]_vars
-----------------------------------------------------------------------------
TypeOK ==
    /\ entry \in [Places -> [Names -> [kind : {"none", "own", "link", "bare", "copy"}, scope : Scopes]]]
    /\ index \in [Harnesses -> Scopes] /\ declared \in BOOLEAN
    /\ at \in {"none", "place", "mark", "index", "unindex", "replace", "made since"}
    /\ at # "none" => jobs # <<>>
    /\ \A i \in DOMAIN jobs : jobs[i].place \in Places /\ jobs[i].name \in Names \cup {"none"}
    /\ mine \subseteq Places \X Names /\ had \subseteq Harnesses

\* An entry the user made is taken away only by a command with --force or,
\* in a launch root, with the user's consent or when it was made after the
\* launch had looked; a finished manual install, for a harness with launch
\* roots, only by the commands about skills, never by what setup, doctor or a
\* launch clean up, unless a torn index lost the record that it was one; and a
\* command that runs to its end leaves no harness without the self-skill it
\* had, unless asked to.
TakesNothing ==
    byHand' = byHand =>
       /\ \A p \in Places, n \in Names :
             entry'[p][n] # entry[p][n] =>
                /\ entry[p][n] = Own => cmd.force \/ (p = Root /\ (cmd.answer = "replace" \/ at = "made since"))
                /\ <<p, n>> \in mine /\ p \in Native =>
                      cmd.kind \in {"install", "sync", "uninstall", "purge"}
       /\ jobs # <<>> /\ jobs' = <<>> /\ cmd.kind # "self-uninstall" => \A h \in had : stops' # stops \/ HasSelf(h)'
NothingTakenAway == [][TakesNothing]_vars
=============================================================================
