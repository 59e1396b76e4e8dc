----------------------------- MODULE WorkSession -----------------------------
(***************************************************************************)
(* Isolated work sessions (internal/worksession, cli/work.go) and what     *)
(* `my sync --push` may publish while they exist.  A session is a linked   *)
(* worktree and a branch in every mount, and a registry record.  Commands  *)
(* take no lock, and each git call and each save is a step of its own: a   *)
(* crash or another command may come between any two.                      *)
(*                                                                         *)
(* Content is who wrote which path: <<s, p>> is session s's change to p,   *)
(* "user" and "other" stand for the base checkout and another clone, and   *)
(* "markers" is a file with conflict markers in it.                        *)
(***************************************************************************)
EXTENDS Integers, FiniteSets

CONSTANTS
    Sessions, Procs, Paths,
    Last,         \* the mounts are 1..Last, in the record's order
    MaxEdits,     \* bound: changes made in sessions
    MaxOutside,   \* bound: changes made in base checkouts and other clones
    MaxCrashes,   \* bound: crashes and failed git calls
    MaxCommands   \* bound: commands that were started

\* There is a mount, and no session is called like one of the other writers.
ASSUME ConstantsAssumption ==
    /\ Last \in Nat \ {0}
    /\ Sessions \cap {"none", "user", "other", "markers"} = {}

Mounts == 1..Last
Writers == Sessions \cup {"user", "other", "markers"}
Changes == Writers \X Paths
Places == {"none", "work", "sessions"}   \* no, the legacy or the present layout

VARIABLES
    rec,        \* rec[s]: the registry record, status "none" before it is saved
    tree,       \* tree[s][m]: the place of the linked worktree
    branch,     \* branch[s][m]: the name space of the session's branch
    dirty,      \* dirty[s][m]: uncommitted paths of the worktree
    commits,    \* commits[s][m]: paths with commits on the branch
    fork,       \* fork[s][m]: content of the base when the session started
    base,       \* base[m]: content of the base checkout's branch
    baseDirty,  \* baseDirty[m]: uncommitted paths of the base checkout
    merging,    \* merging[m]: the session whose merge stopped in conflict
    remote,     \* remote[m]: content of the remote branch
    op,         \* op[p]: the command process p runs
    made,       \* history: made[s][m], the paths changed in the worktree
    givenUp,    \* history: the sessions somebody asked to discard
    shared,     \* history: the sessions two commands worked on at the same time
    late,       \* history: <<p, m>>, a conflict arose in m after sync p had collected
    used        \* used: how much of each bound is spent

sessionVars == <<rec, tree, branch, dirty, commits, fork>>
baseVars == <<base, baseDirty, merging, remote>>
history == <<made, givenUp, shared, late>>
vars == <<sessionVars, baseVars, op, history, used>>

Idle == [at |-> "idle", cmd |-> "none", s |-> "none", i |-> 0, copy |-> "none",
         plan |-> {}, seen |-> {}, ok |-> TRUE]
NoRecord == [status |-> "none", outcome |-> "none", at |-> [m \in Mounts |-> "none"]]
NoMerge == [s |-> "none", adds |-> {}, clash |-> {}]
Own(s, ps) == {<<s, p>> : p \in ps}
PathsOf(cs) == {c[2] : c \in cs}

\* The record of a new session, and of one an older release made.
Active(place) == [status |-> "active", outcome |-> "none", at |-> [m \in Mounts |-> place]]

Init ==
    /\ \E old \in SUBSET Sessions :
         /\ rec = [s \in Sessions |-> IF s \in old THEN Active("work") ELSE NoRecord]
         /\ tree = [s \in Sessions |-> [m \in Mounts |-> IF s \in old THEN "work" ELSE "none"]]
         /\ branch = tree
    /\ dirty = [s \in Sessions |-> [m \in Mounts |-> {}]]
    /\ commits = dirty /\ made = dirty
    /\ fork = [s \in Sessions |-> [m \in Mounts |-> {}]]
    /\ base = [m \in Mounts |-> {}] /\ remote = base /\ baseDirty = base
    /\ merging = [m \in Mounts |-> NoMerge]
    /\ op = [p \in Procs |-> Idle]
    /\ givenUp = {} /\ shared = {} /\ late = {}
    /\ used = [edits |-> 0, outside |-> 0, crashes |-> 0, commands |-> 0]

(***************************************************************************)
(* Steps of a command.  Goto keeps the rest of the process's memory, Quit  *)
(* is every early return.                                                  *)
(***************************************************************************)
Goto(p, at) == op' = [op EXCEPT ![p].at = at]
NextMount(p, at, end) ==
    op' = [op EXCEPT ![p].i = IF @ < Last THEN @ + 1 ELSE 1,
                     ![p].at = IF op[p].i < Last THEN at ELSE end]
Quit(p) == op' = [op EXCEPT ![p] = Idle]
Spend(what) == used' = [used EXCEPT ![what] = @ + 1]

First == [status |-> "migrate", start |-> "migrate", land |-> "migrate",
          publish |-> "migrate", discard |-> "migrate", sync |-> "collect",
          close |-> "close"]
AfterMigration == [status |-> "idle", start |-> "add", land |-> "plan",
                   publish |-> "plan", discard |-> "load"]

\* Another command is at work on the session, and no lock keeps this one out.
\* (Every command migrates all legacy sessions: in the model those it does not
\* name are migrated by a status command of their own.)
Meets(p, cmd, s) ==
    \E q \in Procs \ {p} : /\ op[q].at # "idle" /\ op[q].s = s
                           /\ cmd # "sync" /\ op[q].cmd # "sync"

\* A user runs `my session ...` or `my sync --push`.
Begin(p, cmd, s) ==
    /\ op[p].at = "idle" /\ (cmd = "status" \/ used.commands < MaxCommands)
    /\ cmd = "start" => rec[s].status = "none" /\ tree[s][1] = "none" /\ branch[s][1] = "none"
    /\ op' = [op EXCEPT ![p] = [Idle EXCEPT !.at = First[cmd], !.cmd = cmd, !.s = s, !.i = 1]]
    /\ givenUp' = IF cmd = "discard" THEN givenUp \cup {s} ELSE givenUp
    /\ shared' = IF Meets(p, cmd, s) THEN shared \cup {s} ELSE shared
    /\ IF cmd = "status" THEN UNCHANGED used ELSE Spend("commands")
    /\ UNCHANGED <<sessionVars, baseVars, made, late>>

\* Every session command first migrates the active sessions of the old layout.
\* It plans all mounts and skips the session when one of them is neither here
\* nor there.
Legacy(s) == rec[s].status = "active" /\ \E m \in Mounts : rec[s].at[m] = "work"
PlanOldPlacesOnly(p) ==
    LET s == op[p].s
        whole == \A m \in Mounts : tree[s][m] = "work" /\ branch[s][m] = "work"
    IN  /\ op[p].at = "migrate"
        /\ op' = [op EXCEPT ![p].copy = rec[s],
                            ![p].at = IF Legacy(s) /\ whole THEN "rename"
                                      ELSE AfterMigration[op[p].cmd]]
        /\ UNCHANGED <<sessionVars, baseVars, history, used>>
PlanMigration(p) ==
    LET s == op[p].s
        whole == \A m \in Mounts : tree[s][m] # "none" /\ branch[s][m] # "none"
    IN  /\ op[p].at = "migrate"
        /\ op' = [op EXCEPT ![p].copy = rec[s],
                            ![p].at = IF Legacy(s) /\ whole THEN "rename"
                                      ELSE AfterMigration[op[p].cmd]]
        /\ UNCHANGED <<sessionVars, baseVars, history, used>>

RenameBranch(p) ==
    LET s == op[p].s m == op[p].i
    IN  /\ op[p].at = "rename"
        /\ IF branch[s][m] = "none" THEN UNCHANGED branch /\ Goto(p, AfterMigration[op[p].cmd])
           ELSE branch' = [branch EXCEPT ![s][m] = "sessions"] /\ Goto(p, "move")
        /\ UNCHANGED <<rec, tree, dirty, commits, fork, baseVars, history, used>>

MoveWorktree(p) ==
    LET s == op[p].s m == op[p].i
    IN  /\ op[p].at = "move"
        /\ IF tree[s][m] = "none" THEN UNCHANGED tree /\ Goto(p, AfterMigration[op[p].cmd])
           ELSE tree' = [tree EXCEPT ![s][m] = "sessions"] /\ NextMount(p, "rename", "migrated")
        /\ UNCHANGED <<rec, branch, dirty, commits, fork, baseVars, history, used>>

SaveMigrated(p) ==
    /\ op[p].at = "migrated"
    /\ rec' = [rec EXCEPT ![op[p].s] = [op[p].copy EXCEPT !.at = [m \in Mounts |-> "sessions"]]]
    /\ Goto(p, AfterMigration[op[p].cmd])
    /\ UNCHANGED <<tree, branch, dirty, commits, fork, baseVars, history, used>>

\* Start: a worktree and a branch per mount, the registry record last.  A mount
\* that fails undoes the ones before it.
AddWorktree(p) ==
    LET s == op[p].s m == op[p].i
    IN  /\ op[p].at = "add" /\ branch[s][m] = "none" /\ tree[s][m] = "none"
        /\ tree' = [tree EXCEPT ![s][m] = "sessions"]
        /\ branch' = [branch EXCEPT ![s][m] = "sessions"]
        /\ fork' = [fork EXCEPT ![s][m] = base[m]]
        /\ NextMount(p, "add", "started")
        /\ UNCHANGED <<rec, dirty, commits, baseVars, history, used>>

CleanUp(p) ==
    LET s == op[p].s
        undone == [m \in Mounts |-> IF m < op[p].i \/ op[p].at = "started" THEN "none" ELSE tree[s][m]]
    IN  /\ op[p].at \in {"add", "started"} /\ used.crashes < MaxCrashes
        /\ tree' = [tree EXCEPT ![s] = undone] /\ branch' = [branch EXCEPT ![s] = undone]
        /\ Quit(p) /\ Spend("crashes")
        /\ UNCHANGED <<rec, dirty, commits, fork, baseVars, history>>

SaveStarted(p) ==
    /\ op[p].at = "started"
    /\ rec' = [rec EXCEPT ![op[p].s] = Active("sessions")]
    /\ Quit(p)
    /\ UNCHANGED <<tree, branch, dirty, commits, fork, baseVars, history, used>>

(***************************************************************************)
(* Land.  All mounts are planned before the first is touched: worktree and *)
(* branch where the record says, the base checkout's own uncommitted work  *)
(* apart from the session's.  Then mount after mount.                      *)
(***************************************************************************)
BaseReady(s, m) == baseDirty[m] \cap (dirty[s][m] \cup commits[s][m]) = {}
Plan(p) ==
    LET s == op[p].s r == rec[s]
    IN  /\ op[p].at = "plan"
        /\ IF /\ r.status = "active"
              /\ \A m \in Mounts : /\ tree[s][m] = r.at[m] /\ branch[s][m] = r.at[m]
                                   /\ BaseReady(s, m)
           THEN op' = [op EXCEPT ![p].at = "commit", ![p].copy = r,
                                 ![p].plan = {mp \in Mounts \X Paths : mp[2] \in dirty[s][mp[1]]}]
           ELSE Quit(p)
        /\ UNCHANGED <<sessionVars, baseVars, history, used>>

CommitDirty(p) ==
    LET s == op[p].s m == op[p].i
        staged == {q \in dirty[s][m] : <<m, q>> \in op[p].plan}
    IN  /\ op[p].at = "commit"
        /\ IF tree[s][m] # op[p].copy.at[m] /\ (\E q \in Paths : <<m, q>> \in op[p].plan)
           THEN Quit(p) /\ UNCHANGED <<dirty, commits>>
           ELSE /\ dirty' = [dirty EXCEPT ![s][m] = @ \ staged]
                /\ commits' = [commits EXCEPT ![s][m] = @ \cup staged]
                /\ Goto(p, "merge")
        /\ UNCHANGED <<rec, tree, branch, fork, baseVars, history, used>>

\* A sync that has collected the holds and goes through the mounts.
Collected(p) == op[p].at \in {"inspect", "hold", "push"}

\* git merge in the base checkout.  It refuses while another merge is open or
\* when it would overwrite uncommitted work; both sides having changed a path
\* since the fork, it may stop in conflict and leave the checkout that way.
Incoming(s, m) == {q \in commits[s][m] : <<s, q>> \notin base[m]}
Contested(s, m) == Incoming(s, m) \cap PathsOf(base[m] \ fork[s][m])
Merge(p) ==
    LET s == op[p].s m == op[p].i
    IN  /\ op[p].at = "merge"
        /\ \/ /\ branch[s][m] = op[p].copy.at[m] /\ merging[m] = NoMerge
              /\ Incoming(s, m) \cap baseDirty[m] = {}
              /\ base' = [base EXCEPT ![m] = @ \cup Own(s, commits[s][m])]
              /\ Goto(p, "remove") /\ UNCHANGED <<baseDirty, merging, late>>
           \/ /\ branch[s][m] = op[p].copy.at[m] /\ merging[m] = NoMerge
              /\ Incoming(s, m) \cap baseDirty[m] = {} /\ Contested(s, m) # {}
              /\ merging' = [merging EXCEPT ![m] = [s |-> s, adds |-> commits[s][m],
                                                   clash |-> Contested(s, m)]]
              /\ baseDirty' = [baseDirty EXCEPT ![m] = @ \cup Incoming(s, m)]
              /\ late' = late \cup {<<q, m>> : q \in {q \in Procs : Collected(q)}}
              /\ Quit(p) /\ UNCHANGED base
           \/ /\ \/ branch[s][m] # op[p].copy.at[m] \/ merging[m] # NoMerge
                 \/ Incoming(s, m) \cap baseDirty[m] # {}
              /\ Quit(p) /\ UNCHANGED <<base, baseDirty, merging, late>>
        /\ UNCHANGED <<sessionVars, remote, made, givenUp, shared, used>>

RemoveWithForce(p) ==
    LET s == op[p].s m == op[p].i
    IN  /\ op[p].at = "remove"
        /\ tree' = [tree EXCEPT ![s][m] = "none"] /\ dirty' = [dirty EXCEPT ![s][m] = {}]
        /\ Goto(p, "delete")
        /\ UNCHANGED <<rec, branch, commits, fork, baseVars, history, used>>
\* `git worktree remove` without --force: a dirty worktree stays.
RemoveWorktree(p) ==
    LET s == op[p].s m == op[p].i
    IN  /\ op[p].at = "remove"
        /\ IF tree[s][m] = op[p].copy.at[m] /\ dirty[s][m] = {}
           THEN tree' = [tree EXCEPT ![s][m] = "none"] /\ Goto(p, "delete")
           ELSE Quit(p) /\ UNCHANGED tree
        /\ UNCHANGED <<rec, branch, dirty, commits, fork, baseVars, history, used>>

DeleteUnmerged(p) ==
    LET s == op[p].s m == op[p].i
    IN  /\ op[p].at = "delete"
        /\ branch' = [branch EXCEPT ![s][m] = "none"] /\ commits' = [commits EXCEPT ![s][m] = {}]
        /\ NextMount(p, "commit", "landed")
        /\ UNCHANGED <<rec, tree, dirty, fork, baseVars, history, used>>
\* `git branch -d`: refused unless the base contains every commit of it.
DeleteBranch(p) ==
    LET s == op[p].s m == op[p].i
    IN  /\ op[p].at = "delete"
        /\ IF branch[s][m] = op[p].copy.at[m] /\ Incoming(s, m) = {}
           THEN /\ branch' = [branch EXCEPT ![s][m] = "none"]
                /\ commits' = [commits EXCEPT ![s][m] = {}]
                /\ NextMount(p, "commit", "landed")
           ELSE Quit(p) /\ UNCHANGED <<branch, commits>>
        /\ UNCHANGED <<rec, tree, dirty, fork, baseVars, history, used>>

SaveLanded(p) ==
    /\ op[p].at = "landed"
    /\ rec' = [rec EXCEPT ![op[p].s] = [op[p].copy EXCEPT !.status = "finished", !.outcome = "landed"]]
    /\ IF op[p].cmd = "publish" THEN Goto(p, "collect") ELSE Quit(p)
    /\ UNCHANGED <<tree, branch, dirty, commits, fork, baseVars, history, used>>

\* Discard: worktree by force, branch by force, mount after mount, record last.
Load(p) ==
    LET r == rec[op[p].s]
    IN  /\ op[p].at = "load"
        /\ IF r.status = "active" THEN op' = [op EXCEPT ![p].copy = r, ![p].at = "force"] ELSE Quit(p)
        /\ UNCHANGED <<sessionVars, baseVars, history, used>>

ForceRemove(p) ==
    LET s == op[p].s m == op[p].i
    IN  /\ op[p].at = "force"
        /\ IF tree[s][m] = op[p].copy.at[m]
           THEN /\ tree' = [tree EXCEPT ![s][m] = "none"] /\ dirty' = [dirty EXCEPT ![s][m] = {}]
                /\ Goto(p, "forget")
           ELSE Quit(p) /\ UNCHANGED <<tree, dirty>>
        /\ UNCHANGED <<rec, branch, commits, fork, baseVars, history, used>>

ForceBranch(p) ==
    LET s == op[p].s m == op[p].i
    IN  /\ op[p].at = "forget"
        /\ IF branch[s][m] = op[p].copy.at[m]
           THEN /\ branch' = [branch EXCEPT ![s][m] = "none"] /\ commits' = [commits EXCEPT ![s][m] = {}]
                /\ NextMount(p, "force", "discarded")
           ELSE Quit(p) /\ UNCHANGED <<branch, commits>>
        /\ UNCHANGED <<rec, tree, dirty, fork, baseVars, history, used>>

SaveDiscarded(p) ==
    /\ op[p].at = "discarded"
    /\ rec' = [rec EXCEPT ![op[p].s] = [op[p].copy EXCEPT !.status = "discarded", !.outcome = "discarded"]]
    /\ Quit(p)
    /\ UNCHANGED <<tree, branch, dirty, commits, fork, baseVars, history, used>>

\* `my session close-worktree`: a clean worktree that belongs to no active
\* session; its branch is preserved.  The class is inspected, what is
\* uncommitted once more at the removal.
Leftover(s, m) == tree[s][m] # "none" /\ rec[s].status # "active"
Closable(s, m) == Leftover(s, m) /\ dirty[s][m] = {}
RemoveClean(s, m) ==
    tree' = IF tree[s][m] # "none" /\ dirty[s][m] = {} THEN [tree EXCEPT ![s][m] = "none"] ELSE tree
InspectLeftover(p) ==
    /\ op[p].at = "close"
    /\ \/ \E m \in Mounts : /\ Closable(op[p].s, m)
                             /\ op' = [op EXCEPT ![p].i = m, ![p].at = "close clean"]
       \/ (\E m \in Mounts : ~Closable(op[p].s, m)) /\ Quit(p)
    /\ UNCHANGED <<sessionVars, baseVars, history, used>>
CloseWorktree(p) ==
    /\ op[p].at = "close clean" /\ RemoveClean(op[p].s, op[p].i) /\ Quit(p)
    /\ UNCHANGED <<rec, branch, dirty, commits, fork, baseVars, history, used>>

(***************************************************************************)
(* Publishing.  The holds are collected once; each mount is inspected and  *)
(* then pushed, its uncommitted paths committed first.                     *)
(***************************************************************************)
Readable(s, m) == tree[s][m] = rec[s].at[m] /\ branch[s][m] = rec[s].at[m]
Pending(s, m) == dirty[s][m] \cup {q \in commits[s][m] : <<s, q>> \notin base[m]}
HeldUncommitted(s, m) ==
    IF rec[s].status # "active" THEN {} ELSE IF ~Readable(s, m) THEN Paths ELSE dirty[s][m]
\* The paths an active session holds in a mount: all when it cannot be read.
\* The pending paths are what the branch changed since the fork, landed or not.
HeldPaths(s, m) ==
    IF rec[s].status # "active" THEN {}
    ELSE IF ~Readable(s, m) THEN Paths
    ELSE IF Pending(s, m) = {} THEN {} ELSE dirty[s][m] \cup commits[s][m]

Collect(p) ==
    /\ op[p].at = "collect"
    /\ op' = [op EXCEPT ![p].at = "inspect", ![p].i = 1,
                        ![p].plan = {mp \in Mounts \X Paths :
                                       \E s \in Sessions : mp[2] \in HeldPaths(s, mp[1])}]
    /\ late' = {c \in late : c[1] # p}
    /\ UNCHANGED <<sessionVars, baseVars, made, givenUp, shared, used>>

SyncNext(p) == NextMount(p, "inspect", IF op[p].cmd = "publish" THEN "mark" ELSE "report")
Ahead(m) == base[m] \ remote[m]
Behind(m) == remote[m] \ base[m]
Held(p, m) == \E q \in baseDirty[m] \cup PathsOf(Ahead(m)) : <<m, q>> \in op[p].plan
Inspect(p) ==
    LET m == op[p].i
        clean == baseDirty[m] = {} /\ Ahead(m) = {}
    IN  /\ op[p].at = "inspect"
        /\ \/ /\ clean /\ Behind(m) = {}                  \* "already landed"
              /\ SyncNext(p) /\ UNCHANGED base
           \/ /\ clean /\ Behind(m) # {}                  \* fast-forward
              /\ base' = [base EXCEPT ![m] = remote[m]]
              /\ op' = [op EXCEPT ![p].at = "hold"]
           \/ /\ ~clean /\ (Behind(m) # {} \/ Held(p, m))
              /\ op' = [op EXCEPT ![p].at = "hold"] /\ UNCHANGED base
           \/ /\ ~clean /\ Behind(m) = {} /\ ~Held(p, m)
              /\ op' = [op EXCEPT ![p].at = "push", ![p].seen = baseDirty[m]]
              /\ UNCHANGED base
        /\ UNCHANGED <<sessionVars, baseDirty, merging, remote, history, used>>

HoldCounted(p) ==
    /\ op[p].at = "hold"
    /\ op' = [op EXCEPT ![p].i = IF @ < Last THEN @ + 1 ELSE 1,
                        ![p].at = IF op[p].i < Last THEN "inspect"
                                  ELSE IF op[p].cmd = "publish" THEN "mark" ELSE "report"]
    /\ UNCHANGED <<sessionVars, baseVars, history, used>>
\* A result other than "pushed" or "already landed": not fully published.
Hold(p) ==
    /\ op[p].at = "hold"
    /\ op' = [op EXCEPT ![p].ok = FALSE, ![p].i = IF @ < Last THEN @ + 1 ELSE 1,
                        ![p].at = IF op[p].i < Last THEN "inspect"
                                  ELSE IF op[p].cmd = "publish" THEN "mark" ELSE "report"]
    /\ UNCHANGED <<sessionVars, baseVars, history, used>>

\* git add of the inspected paths and git commit, which also concludes a merge
\* that was left open.
Committed(p, m) ==
    LET ps == op[p].seen \cap baseDirty[m]
    IN  IF merging[m] # NoMerge /\ ps # {}
        THEN Own(merging[m].s, merging[m].adds) \cup Own("markers", ps \cap merging[m].clash)
        ELSE Own("user", ps)
Push(p) ==
    LET m == op[p].i
        after == base[m] \cup Committed(p, m)
    IN  /\ op[p].at = "push"
        /\ base' = [base EXCEPT ![m] = after]
        /\ baseDirty' = [baseDirty EXCEPT ![m] = @ \ op[p].seen]
        /\ merging' = [merging EXCEPT ![m] = IF op[p].seen \cap baseDirty[m] # {} THEN NoMerge ELSE @]
        /\ IF remote[m] \subseteq after
           THEN remote' = [remote EXCEPT ![m] = after] /\ SyncNext(p)
           ELSE UNCHANGED remote /\ Goto(p, "hold")
        /\ UNCHANGED <<sessionVars, history, used>>

FullyPublished(p) == op[p].ok
MarkPublished(p) ==
    LET r == rec[op[p].s]
    IN  /\ op[p].at = "mark"
        /\ rec' = IF FullyPublished(p) /\ r.status = "finished"
                  THEN [rec EXCEPT ![op[p].s].outcome = "published"] ELSE rec
        /\ Quit(p)
        /\ UNCHANGED <<tree, branch, dirty, commits, fork, baseVars, history, used>>

Report(p) == op[p].at = "report" /\ Quit(p) /\ UNCHANGED <<sessionVars, baseVars, history, used>>

Step(p) ==
    \/ PlanMigration(p) \/ RenameBranch(p) \/ MoveWorktree(p) \/ SaveMigrated(p)
    \/ AddWorktree(p) \/ SaveStarted(p)
    \/ Plan(p) \/ CommitDirty(p) \/ Merge(p) \/ RemoveWorktree(p) \/ DeleteBranch(p) \/ SaveLanded(p)
    \/ Load(p) \/ ForceRemove(p) \/ ForceBranch(p) \/ SaveDiscarded(p)
    \/ InspectLeftover(p) \/ CloseWorktree(p)
    \/ Collect(p) \/ Inspect(p) \/ Hold(p) \/ Push(p) \/ MarkPublished(p) \/ Report(p)

\* The process is killed, or a call it makes fails where no cleanup is coded.
Crash(p) ==
    /\ op[p].at # "idle" /\ used.crashes < MaxCrashes
    /\ Quit(p) /\ Spend("crashes")
    /\ UNCHANGED <<sessionVars, baseVars, history>>

(***************************************************************************)
(* The people and agents that work in the checkouts.                       *)
(***************************************************************************)
EditSession(s, m, q) ==
    /\ tree[s][m] # "none" /\ rec[s].status # "none" /\ used.edits < MaxEdits
    /\ dirty' = [dirty EXCEPT ![s][m] = @ \cup {q}]
    /\ made' = [made EXCEPT ![s][m] = @ \cup {q}]
    /\ Spend("edits")
    /\ UNCHANGED <<rec, tree, branch, commits, fork, baseVars, op, givenUp, shared, late>>

CommitSession(s, m) ==
    /\ tree[s][m] # "none" /\ dirty[s][m] # {} /\ branch[s][m] # "none"
    /\ commits' = [commits EXCEPT ![s][m] = @ \cup dirty[s][m]]
    /\ dirty' = [dirty EXCEPT ![s][m] = {}]
    /\ UNCHANGED <<rec, tree, branch, fork, baseVars, op, history, used>>

EditBase(m, q) ==
    /\ used.outside < MaxOutside
    /\ baseDirty' = [baseDirty EXCEPT ![m] = @ \cup {q}]
    /\ Spend("outside")
    /\ UNCHANGED <<sessionVars, base, merging, remote, op, history>>

CommitBase(m) ==
    /\ merging[m] = NoMerge /\ baseDirty[m] # {}
    /\ base' = [base EXCEPT ![m] = @ \cup Own("user", baseDirty[m])]
    /\ baseDirty' = [baseDirty EXCEPT ![m] = {}]
    /\ UNCHANGED <<sessionVars, merging, remote, op, history, used>>

\* The user resolves the conflict and commits the merge, or aborts it.
EndMerge(m) ==
    /\ merging[m] # NoMerge
    /\ \/ base' = [base EXCEPT ![m] = @ \cup Own(merging[m].s, merging[m].adds)]
       \/ UNCHANGED base
    /\ merging' = [merging EXCEPT ![m] = NoMerge]
    /\ baseDirty' = [baseDirty EXCEPT ![m] = @ \ merging[m].adds]
    /\ UNCHANGED <<sessionVars, remote, op, history, used>>

OtherPushes(m, q) ==
    /\ used.outside < MaxOutside
    /\ remote' = [remote EXCEPT ![m] = @ \cup {<<"other", q>>}]
    /\ Spend("outside")
    /\ UNCHANGED <<sessionVars, base, baseDirty, merging, op, history>>

Next ==
    \/ \E p \in Procs, cmd \in DOMAIN First, s \in Sessions : Begin(p, cmd, s)
    \/ \E p \in Procs : Step(p) \/ CleanUp(p) \/ Crash(p)
    \/ \E s \in Sessions, m \in Mounts : CommitSession(s, m)
    \/ \E s \in Sessions, m \in Mounts, q \in Paths : EditSession(s, m, q)
    \/ \E m \in Mounts : CommitBase(m) \/ EndMerge(m)
    \/ \E m \in Mounts, q \in Paths : EditBase(m, q) \/ OtherPushes(m, q)

Spec == Init /\ [][Next]_vars

\* A command that runs goes on, and somebody asks for the status again.
FairSpec == /\ Spec
            /\ \A p \in Procs : WF_vars(Step(p))
            /\ \A p \in Procs, s \in Sessions : WF_vars(Begin(p, "status", s))
-----------------------------------------------------------------------------
Contents == SUBSET Changes
TypeOK ==
    /\ rec \in [Sessions -> [status : {"none", "active", "finished", "discarded"},
                             outcome : {"none", "landed", "published", "discarded"},
                             at : [Mounts -> Places]]]
    /\ tree \in [Sessions -> [Mounts -> Places]] /\ branch \in [Sessions -> [Mounts -> Places]]
    /\ \A f \in {dirty, commits, made} : f \in [Sessions -> [Mounts -> SUBSET Paths]]
    /\ \A f \in {base, remote} : f \in [Mounts -> Contents]
    /\ fork \in [Sessions -> [Mounts -> Contents]]
    /\ baseDirty \in [Mounts -> SUBSET Paths]
    /\ givenUp \subseteq Sessions /\ shared \subseteq Sessions /\ late \subseteq Procs \X Mounts

\* No change made in a session's worktree is lost, wherever a landing stops:
\* it is in the worktree, on the branch or in the base, unless somebody asked
\* to discard the session (Land, Migrate, close-worktree).
WorkKept ==
    \A s \in Sessions \ givenUp, m \in Mounts : \A q \in made[s][m] :
        q \in dirty[s][m] \cup commits[s][m] \/ <<s, q>> \in base[m]

\* A session recorded as finished has landed every change in every mount and
\* left neither worktree nor branch behind (Land saves the record last), unless
\* two commands worked on the session at the same time.
FinishedMeansLanded ==
    \A s \in Sessions \ shared : rec[s].status = "finished" =>
        \A m \in Mounts : /\ tree[s][m] = "none" /\ branch[s][m] = "none"
                          /\ Own(s, made[s][m]) \subseteq base[m]

\* A session recorded as published has all its changes on the remotes
\* (syncReportFullyPublished, MarkOutcome), with the same exception; other
\* sessions' commands and syncs may run at any time.
PublishedMeansPushed ==
    \A s \in Sessions \ shared : rec[s].outcome = "published" =>
        \A m \in Mounts : Own(s, made[s][m]) \subseteq remote[m]

\* While the session whose landing stopped in conflict is active, no sync
\* commits the conflict it left in the base checkout (holdActiveSession), unless
\* it arose after that sync had collected what is held, or two commands worked
\* on the session at the same time.
HoldsConflicts ==
    \A m \in Mounts, q \in Paths :
       <<"markers", q>> \in base'[m] \ base[m] =>
           \/ rec[merging[m].s].status # "active" \/ merging[m].s \in shared
           \/ \E p \in Procs : op[p].at = "push" /\ op[p].i = m /\ <<p, m>> \in late
ConflictsAreHeld == [][HoldsConflicts]_vars

\* A legacy session reaches the present layout wherever its migration was
\* interrupted, if it is asked for again ("idempotent", Migrate), unless it is
\* finished or partly removed first.
MigrationEnds ==
    \A s \in Sessions :
        Legacy(s) ~> (~Legacy(s) \/ \E m \in Mounts : tree[s][m] = "none" \/ branch[s][m] = "none")
=============================================================================
