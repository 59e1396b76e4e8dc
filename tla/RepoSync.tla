------------------------------ MODULE RepoSync ------------------------------
(***************************************************************************)
(* `my sync` over several checkouts (internal/syncer, cli/sync.go): every  *)
(* checkout is fetched and inspected first, then fast-forwarded or, past a *)
(* row of gates, committed and pushed; by the builtin backend one by one,  *)
(* or by the coordinated one (gnit), whose push takes every member of its  *)
(* workspace along.  The gates decide on what was inspected, while users   *)
(* and other clones go on.  Pull requests are in RecordPublication, and    *)
(* holds of active sessions in WorkSession.                                *)
(*                                                                         *)
(* A change is <<who, kind>>: checkout c edits a file within its content   *)
(* paths ("in"), a new one there that nobody adopted ("new") or one        *)
(* outside ("out"); 0 is another clone.                                    *)
(***************************************************************************)
EXTENDS Naturals, FiniteSets

CONSTANTS
    Checkouts,    \* numbers, in the order they are collected
    Settings,     \* what to sync: [root, about], see the variables
    Options,      \* how: [publish, backend, scope], the scope being "all" or a role
    MaxSyncs,     \* bound: runs of `my sync`
    MaxEvents     \* bound: edits, pushes of other clones and failed calls

Kinds == {"in", "new", "out"}
Changes == (Checkouts \X Kinds) \cup {<<0, "in">>}
Remotes == {s.about[c].remote : s \in Settings, c \in Checkouts}

VARIABLES
    about,    \* about[c]: role, remote, privacy, place in the coordinated workspace, and
              \* whether it is a manifest that still names mounts of this machine (draft)
    root,     \* the workspace: "none", "origin", "local" (no remote) or "invalid" (its roster)
    head,     \* head[c]: the changes committed in the checkout
    up,       \* up[c]: what its remote-tracking branch shows
    dirty,    \* dirty[c]: kinds of uncommitted files
    remote,   \* remote[r]: the changes in the remote branch
    opt,      \* options of the running sync
    at, todo, \* its phase, and the checkouts still ahead in it
    res,      \* res[c]: inspection and result
    late,     \* history: changes made since the checkout was inspected
    syncs, events

vars == <<about, root, head, up, dirty, remote, opt, at, todo, res, late, syncs, events>>
repos == <<head, up, dirty, remote>>
setting == <<about, root, opt>>

NoResult == [status |-> "", behind |-> FALSE, changed |-> {}, dirty |-> {}]
NoOpt == [publish |-> "never", forced |-> FALSE, coordinated |-> FALSE, entries |-> {}]

Init ==
    /\ \E s \in Settings : about = s.about /\ root = s.root
    /\ head = [c \in Checkouts |-> {}] /\ up = head /\ dirty = head
    /\ remote = [r \in Remotes |-> {}]
    /\ opt = NoOpt /\ at = "idle" /\ todo = {} /\ res = [c \in Checkouts |-> NoResult]
    /\ late = {} /\ syncs = 0 /\ events = 0

\* Bound: nothing is followed beyond the last sync.
Open == at # "idle" \/ syncs < MaxSyncs
Event == events < MaxEvents /\ events' = events + 1
First == CHOOSE c \in todo : \A d \in todo : c <= d
Inspected(c) == at # "idle" /\ ~(at = "inspect" /\ c \in todo)

(***************************************************************************)
(* The user and other clones.  Each file is changed once.                  *)
(***************************************************************************)
Edit(c, k) ==
    /\ Open /\ Event
    /\ k \notin dirty[c] /\ <<c, k>> \notin head[c]
    /\ dirty' = [dirty EXCEPT ![c] = @ \cup {k}]
    /\ late' = late \cup IF Inspected(c) THEN {<<c, k>>} ELSE {}
    /\ UNCHANGED <<setting, head, up, remote, at, todo, res, syncs>>
\* A commit of the user adopts what it takes in.
Commit(c) ==
    /\ Open /\ dirty[c] # {}
    /\ LET mine == {<<c, IF k = "new" THEN "in" ELSE k>> : k \in dirty[c]}
       IN  /\ head' = [head EXCEPT ![c] = @ \cup mine]
           /\ late' = late \cup IF Inspected(c) THEN mine ELSE {}
    /\ dirty' = [dirty EXCEPT ![c] = {}]
    /\ UNCHANGED <<setting, up, remote, at, todo, res, syncs, events>>
OtherPushes(r) ==
    /\ Open /\ Event
    /\ remote' = [remote EXCEPT ![r] = @ \cup {<<0, "in">>}]
    /\ UNCHANGED <<setting, head, up, dirty, at, todo, res, late, syncs>>

(***************************************************************************)
(* Begin, and inspect: fetch, then compare.                                *)
(***************************************************************************)
Covered(scope) == {c \in Checkouts : scope \in {"all", about[c].role}}
\* A draft manifest goes through `my publish` first.
Blocked(o) == {c \in Checkouts : o.publish # "never" /\ about[c].draft}
Begin(o) ==
    /\ at = "idle" /\ syncs < MaxSyncs /\ syncs' = syncs + 1
    /\ LET coordinated == \/ o.backend = "gnit"
                          \/ o.backend = "auto" /\ o.publish # "never" /\ root # "none"
           entries == Covered(o.scope) \ Blocked(o)
       IN  /\ opt' = [publish |-> o.publish, forced |-> o.backend = "gnit",
                      coordinated |-> coordinated, entries |-> entries]
           /\ at' = IF (coordinated /\ root = "none") \/ entries = {} THEN "idle" ELSE "inspect"
           /\ todo' = entries
    /\ late' = {}
    /\ res' = [c \in Checkouts |-> NoResult]
    /\ UNCHANGED <<about, root, repos, events>>

Advance(c, next) ==
    /\ todo' = IF todo = {c} THEN (IF next = "idle" THEN {} ELSE opt.entries) ELSE todo \ {c}
    /\ at' = IF todo = {c} THEN next ELSE at
Seen(c, up1) == [status |-> IF head[c] = up1 /\ dirty[c] = {} THEN "already landed" ELSE "pending",
                 behind |-> up1 \ head[c] # {}, changed |-> head[c] \ up1, dirty |-> dirty[c]]

Inspect ==
    /\ at = "inspect"
    /\ LET c == First
           now == remote[about[c].remote]
       IN  /\ \/ /\ up' = [up EXCEPT ![c] = now]
                 /\ res' = [res EXCEPT ![c] = Seen(c, now)]
                 /\ UNCHANGED events
              \* A manifest whose contract drifted from its source is held.
              \/ /\ about[c].role = "manifest" /\ opt.publish = "direct"
                 /\ up' = [up EXCEPT ![c] = now]
                 /\ res' = [res EXCEPT ![c] = [Seen(c, now) EXCEPT !.status = "held back"]]
                 /\ UNCHANGED events
              \/ /\ Event
                 /\ res' = [res EXCEPT ![c].status = "failed"]
                 /\ UNCHANGED up
           /\ Advance(c, IF opt.coordinated THEN "inbound" ELSE "reconcile")
    /\ UNCHANGED <<setting, head, dirty, remote, late, syncs>>

(***************************************************************************)
(* Inbound.                                                                *)
(***************************************************************************)
CanPull(c) == res[c].status = "pending" /\ res[c].behind /\ res[c].changed = {} /\ res[c].dirty = {}
\* git pull --ff-only: refused after a local commit, and, perhaps, local edits.
Pull(c) ==
    LET now == remote[about[c].remote]
    IN  \/ /\ head[c] \subseteq now
           /\ head' = [head EXCEPT ![c] = now] /\ up' = [up EXCEPT ![c] = now]
           /\ res' = [res EXCEPT ![c].status = "pulled"]
        \/ /\ ~(head[c] \subseteq now) \/ dirty[c] # {}
           /\ res' = [res EXCEPT ![c].status = "failed"]
           /\ UNCHANGED <<head, up>>

Inbound ==
    /\ at = "inbound"
    /\ IF CanPull(First) THEN Pull(First) ELSE UNCHANGED <<head, up, res>>
    /\ Advance(First, "plan")
    /\ UNCHANGED <<setting, dirty, remote, late, syncs, events>>

(***************************************************************************)
(* The gates before anything is published.                                 *)
(***************************************************************************)
InContent(c, k) == about[c].role # "repo" /\ k # "out"
Touched(c) == res[c].dirty \cup {x[2] : x \in res[c].changed}
ContentOnly(c) == \A k \in Touched(c) : InContent(c, k)
PendingSibling(c) ==
    \E d \in opt.entries \ {c} : /\ about[d].remote = about[c].remote
                                 /\ res[d].changed # {} \/ res[d].dirty # {}
Passes(c) ==
    /\ ~res[c].behind /\ opt.publish # "never" /\ ~PendingSibling(c)
    /\ opt.publish = "auto" => about[c].role = "content" /\ ContentOnly(c) /\ about[c].private
    /\ ContentOnly(c) \/ res[c].dirty = {}
    /\ about[c].role = "content" => "new" \notin res[c].dirty
Unadopted(c) == about[c].role = "manifest" /\ "new" \in res[c].dirty

\* git add -A of the content paths, and a commit: with what has come since.
Committed(c) == head[c] \cup {<<c, k>> : k \in {q \in dirty[c] : InContent(c, q)}}
StillDirty(c) == {k \in dirty[c] : ~InContent(c, k)}

\* Checkouts found clean follow their sibling's push.
Follow(status, pushed, heads, remotes) ==
    [d \in Checkouts |->
        IF d \in opt.entries \ pushed /\ res[d].status = "already landed"
           /\ about[d].remote \in {about[c].remote : c \in pushed}
        THEN IF heads[d] \subseteq remotes[about[d].remote] THEN "pulled" ELSE "failed"
        ELSE status[d]]
AfterPush(pushers, results) ==
    LET remotes == [r \in Remotes |-> IF \E c \in pushers : about[c].remote = r
                                      THEN head[CHOOSE c \in pushers : about[c].remote = r] ELSE remote[r]]
        status == Follow([d \in Checkouts |-> IF d \in results THEN "pushed" ELSE res[d].status],
                         pushers \cap results, head, remotes)
    IN  /\ remote' = remotes
        /\ res' = [d \in Checkouts |-> [res[d] EXCEPT !.status = status[d]]]
        /\ head' = [d \in Checkouts |-> IF status[d] = "pulled" /\ res[d].status = "already landed"
                                        THEN remotes[about[d].remote] ELSE head[d]]
        /\ up' = [d \in Checkouts |-> IF d \in pushers \/ head'[d] # head[d] THEN remotes[about[d].remote] ELSE up[d]]

(***************************************************************************)
(* The builtin backend: one checkout after the other.                      *)
(***************************************************************************)
Reconcile ==
    /\ at = "reconcile"
    /\ LET c == First
       IN  \/ /\ res[c].status # "pending"
              /\ Advance(c, "idle") /\ UNCHANGED <<head, up, dirty, res>>
           \/ /\ CanPull(c) /\ Pull(c)
              /\ Advance(c, "idle") /\ UNCHANGED dirty
           \/ /\ res[c].status = "pending" /\ ~CanPull(c) /\ (~Passes(c) \/ Unadopted(c))
              /\ res' = [res EXCEPT ![c].status = "held back"]
              /\ Advance(c, "idle") /\ UNCHANGED <<head, up, dirty>>
           \/ /\ res[c].status = "pending" /\ ~CanPull(c) /\ Passes(c) /\ ~Unadopted(c)
              /\ IF res[c].dirty # {} /\ Committed(c) = head[c]     \* nothing to commit
                 THEN res' = [res EXCEPT ![c].status = "failed"] /\ Advance(c, "idle") /\ UNCHANGED <<head, dirty>>
                 ELSE /\ at' = "push"
                      /\ IF res[c].dirty = {} THEN UNCHANGED <<head, dirty>>
                         ELSE /\ head' = [head EXCEPT ![c] = Committed(c)]
                              /\ dirty' = [dirty EXCEPT ![c] = StillDirty(c)]
                      /\ UNCHANGED <<res, todo>>
              /\ UNCHANGED up
    /\ UNCHANGED <<setting, remote, late, syncs, events>>

Push ==
    /\ at = "push"
    /\ LET c == First
       IN  /\ \/ /\ remote[about[c].remote] \subseteq head[c]
                 /\ AfterPush({c}, {c})
              \/ /\ ~(remote[about[c].remote] \subseteq head[c])
                 /\ res' = [res EXCEPT ![c].status = "failed"]
                 /\ UNCHANGED <<head, up, remote>>
           /\ todo' = todo \ {c} /\ at' = IF todo = {c} THEN "idle" ELSE "reconcile"
    /\ UNCHANGED <<setting, dirty, late, syncs, events>>

(***************************************************************************)
(* The coordinated backend.  Routes; the gates; and, as its push takes all *)
(* members along, none may have something to push beyond those that passed.*)
(***************************************************************************)
Route(c) ==
    CASE root = "invalid" -> IF opt.forced \/ about[c].member # "no" THEN "none" ELSE "builtin"
      [] about[c].member = "broken" -> "none"
      [] about[c].member = "no" -> IF opt.forced THEN "none" ELSE "builtin"
      [] OTHER -> IF root = "local" /\ ~opt.forced THEN "builtin" ELSE "gnit"
Members == {c \in Checkouts : about[c].member # "no"}
ScopeHealthOnly(gated) == root = "origin" /\ \A m \in Members : about[m].member = "exact"
Scope(gated) ==
    /\ root = "origin"
    /\ \A m \in Members : about[m].member = "exact" /\ (head[m] # up[m] => m \in gated)

Plan ==
    /\ at = "plan"
    /\ LET pending == {c \in opt.entries : res[c].status = "pending"}
           routed == {c \in pending : Route(c) = "gnit"}
           lost == {c \in pending : Route(c) = "none"}
           abort == opt.forced /\ lost # {}
           passed == IF abort THEN {} ELSE {c \in routed : Passes(c)}
           go == IF Scope(passed) THEN passed ELSE {}
       IN  /\ res' = [c \in Checkouts |-> IF c \in lost \cup (routed \ go)
                                          THEN [res[c] EXCEPT !.status = "held back"] ELSE res[c]]
           /\ at' = IF abort THEN "idle" ELSE IF go # {} THEN "gnit commit" ELSE "reconcile"
           /\ todo' = IF abort THEN {} ELSE IF go # {} THEN go ELSE opt.entries
    /\ UNCHANGED <<setting, repos, late, syncs, events>>

GnitCommit ==
    /\ at = "gnit commit"
    /\ LET ready == {c \in todo : res[c].dirty # {}}
       IN  /\ head' = [c \in Checkouts |-> IF c \in ready THEN Committed(c) ELSE head[c]]
           /\ dirty' = [c \in Checkouts |-> IF c \in ready THEN StillDirty(c) ELSE dirty[c]]
    /\ at' = "gnit push"
    /\ UNCHANGED <<setting, up, remote, todo, res, late, syncs, events>>

\* It pushes every member, and may fail after some of them.
GnitPush ==
    /\ at = "gnit push"
    /\ LET ahead == {m \in Members : head[m] # up[m]}
           able == {m \in ahead : remote[about[m].remote] \subseteq head[m]}
       IN  \E done \in SUBSET able :
             /\ \A c, d \in done : c # d => about[c].remote # about[d].remote
             /\ IF done = ahead THEN AfterPush(done, todo) /\ UNCHANGED events
                ELSE /\ IF able = ahead THEN Event ELSE UNCHANGED events
                     /\ remote' = [r \in Remotes |-> IF \E c \in done : about[c].remote = r
                                      THEN head[CHOOSE c \in done : about[c].remote = r] ELSE remote[r]]
                     /\ up' = [d \in Checkouts |-> IF d \in done THEN head[d] ELSE up[d]]
                     /\ res' = [d \in Checkouts |-> IF d \in todo THEN [res[d] EXCEPT !.status = "failed"] ELSE res[d]]
                     /\ UNCHANGED head
    /\ at' = "reconcile" /\ todo' = opt.entries
    /\ UNCHANGED <<setting, dirty, late, syncs>>

Step == Inspect \/ Inbound \/ Reconcile \/ Push \/ Plan \/ GnitCommit \/ GnitPush
Next ==
    \/ \E o \in Options : Begin(o)
    \/ Step
    \/ \E c \in Checkouts : Commit(c)
    \/ \E c \in Checkouts, k \in Kinds : Edit(c, k)
    \/ \E r \in Remotes : OtherPushes(r)

Spec == Init /\ [][Next]_vars
-----------------------------------------------------------------------------
TypeOK ==
    /\ [root |-> root, about |-> about] \in Settings
    /\ \A f \in {head, up} : f \in [Checkouts -> SUBSET Changes]
    /\ dirty \in [Checkouts -> SUBSET Kinds] /\ remote \in [Remotes -> SUBSET Changes]
    /\ at \in {"idle", "inspect", "inbound", "reconcile", "push", "plan", "gnit commit", "gnit push"}
    /\ todo \subseteq Checkouts /\ late \subseteq Changes
    /\ res \in [Checkouts -> [status : {"", "already landed", "pending", "held back", "failed", "pulled", "pushed"},
                              behind : BOOLEAN, changed : SUBSET Changes, dirty : SUBSET Kinds]]

\* Nothing of a checkout that a sync holds back, or does not cover, is
\* published by it; in auto mode nothing but adopted content of a private
\* repository is: except for what the user wrote since the inspection.  A
\* file is adopted once a commit has it, be it one of an earlier sync.
PublishesNothingHeld ==
    \A c \in Checkouts, k \in Kinds :
       <<c, k>> \in remote'[about[c].remote] \ (remote[about[c].remote] \cup late) =>
          /\ c \in opt.entries /\ res[c].status = "pending"
          /\ opt.publish = "auto" =>
                /\ about[c].role = "content" /\ about[c].private /\ k # "out"
                /\ k = "new" => <<c, k>> \in res[c].changed
HeldStaysLocal == [][PublishesNothingHeld]_vars
=============================================================================
