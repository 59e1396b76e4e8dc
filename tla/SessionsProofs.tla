--------------------------- MODULE SessionsProofs ----------------------------
(***************************************************************************)
(* Proofs about two parts of module MCCheckouts, for any number of         *)
(* sessions, commands, mounts, paths and revisions and any bounds.         *)
(*                                                                         *)
(* Work sessions (WorkSession): that no work is lost, what a finished or   *)
(* published session promises, and which conflicts no sync commits, for    *)
(* any number of commands, syncs, people and agents at once.               *)
(*                                                                         *)
(* The contract's roots (ContractRoots): a root that is shown as current   *)
(* holds the active contract, whatever commands, pulls and edits overlap.  *)
(***************************************************************************)
EXTENDS MCCheckouts, TLAPS

-----------------------------------------------------------------------------
(* Types *)

Recs == [status : {"none", "active", "finished", "discarded"},
         outcome : {"none", "landed", "published", "discarded"}, at : [Mounts -> Places]]
Merges == [s : Sessions, adds : SUBSET Paths, clash : SUBSET Paths]
Cmds == {"status", "start", "land", "publish", "discard", "sync", "close"}
SessionCmds == {"status", "start", "land", "publish", "discard"}
Migrating == {"rename", "move", "migrated"}
Starting == {"add", "started"}
Landing == {"commit", "merge", "remove", "delete", "landed"}
Discarding == {"force", "forget", "discarded"}
Syncing == {"collect", "inspect", "hold", "push", "mark", "report"}
Points == UNION {Migrating, Starting, Landing, Discarding, Syncing,
                 {"idle", "migrate", "plan", "load", "close", "close clean"}}
Ops == [at : Points, cmd : Cmds \cup {"none"}, s : Sessions \cup {"none"}, i : Nat,
        copy : Recs \cup {"none"}, plan : SUBSET (Mounts \X Paths), seen : SUBSET Paths,
        ok : BOOLEAN]

\* What a command o has in memory wherever it may be.
Sound(o) ==
  /\ o.at # "idle" => o.s \in Sessions /\ o.cmd \in Cmds /\ o.i \in Mounts
  /\ o.at \in {"migrate"} \cup Migrating => o.cmd \in SessionCmds
  /\ o.at \in Migrating \cup Landing \cup Discarding => o.copy \in Recs
  /\ o.at \in {"load"} \cup Discarding => o.cmd = "discard"

\* A session that is being discarded, somebody asked to discard.
DiscardAsked == \A p \in Procs : op[p].cmd = "discard" => op[p].s \in givenUp

OpsOK == op \in [Procs -> Ops] /\ \A p \in Procs : Sound(op[p])
MergesOK == merging \in [Mounts -> Merges \cup {NoMerge}]
TypeInv == TypeOK /\ OpsOK /\ MergesOK /\ DiscardAsked

\* Mounts are numbered from one.
LEMMA MountsAreNumbers ==
  1 \in Mounts /\ Last \in Mounts /\ \A m \in Mounts : m \in Nat /\ 1 <= m /\ m <= Last
BY ConstantsAssumption DEF Mounts

\* TypeOK, variable by variable.
VarsOK ==
  /\ rec \in [Sessions -> Recs]
  /\ tree \in [Sessions -> [Mounts -> Places]] /\ branch \in [Sessions -> [Mounts -> Places]]
  /\ dirty \in [Sessions -> [Mounts -> SUBSET Paths]]
  /\ commits \in [Sessions -> [Mounts -> SUBSET Paths]]
  /\ made \in [Sessions -> [Mounts -> SUBSET Paths]]
  /\ base \in [Mounts -> Contents] /\ remote \in [Mounts -> Contents]
  /\ fork \in [Sessions -> [Mounts -> Contents]]
  /\ baseDirty \in [Mounts -> SUBSET Paths] /\ givenUp \subseteq Sessions
HistoryOK == shared \subseteq Sessions /\ late \subseteq Procs \X Mounts

\* The two say the same, of a state and of the next.
LEMMA TypeOKVars ==
  (TypeOK <=> VarsOK /\ HistoryOK) /\ (TypeOK' <=> VarsOK' /\ HistoryOK')
<1>1. TypeOK <=> VarsOK /\ HistoryOK
  BY DEF TypeOK, VarsOK, HistoryOK, Recs
<1>2. TypeOK' <=> VarsOK' /\ HistoryOK'
  BY DEF TypeOK, VarsOK, HistoryOK, Recs
<1> QED
  BY <1>1, <1>2

\* Where a command begins and where it goes after the migration.
LEMMA FirstPoints ==
  /\ DOMAIN First = Cmds
  /\ \A c \in Cmds : /\ First[c] \in {"migrate", "collect", "close"}
                     /\ First[c] = "migrate" => c \in SessionCmds
BY DEF First, Cmds, SessionCmds

\* Only `discard` loads the record after the migration, only `start` adds.
LEMMA NextPoints ==
  \A c \in SessionCmds : /\ AfterMigration[c] \in {"idle", "add", "plan", "load"}
                         /\ AfterMigration[c] = "load" => c = "discard"
                         /\ AfterMigration[c] = "add" <=> c = "start"
BY DEF AfterMigration, SessionCmds

\* A process that runs no command.
LEMMA IdleTyped == Idle \in Ops /\ Idle.at = "idle" /\ Idle.cmd = "none" /\ Idle.s = "none"
BY DEF Idle, Ops, Points, Cmds

-----------------------------------------------------------------------------
(* The steps of one command *)

Others(p) == \A q \in Procs \ {p} : op'[q] = op[q]
SameJob(p) == /\ op'[p].cmd = op[p].cmd /\ op'[p].s = op[p].s /\ op'[p].copy = op[p].copy
              /\ op'[p].plan = op[p].plan /\ op'[p].seen = op[p].seen /\ op'[p].ok = op[p].ok

\* A command p goes on with o in memory.
LEMMA OpStep ==
  ASSUME TypeInv, NEW p \in Procs, NEW o \in Ops, op' = [op EXCEPT ![p] = o], Sound(o),
         o.cmd = "discard" => o.s \in givenUp', givenUp \subseteq givenUp'
  PROVE  OpsOK' /\ DiscardAsked' /\ op'[p] = o /\ Others(p)
BY DEF TypeInv, OpsOK, DiscardAsked, Others

\* A command goes on to x with what it has in memory.
LEMMA GotoStep ==
  ASSUME TypeInv, NEW p \in Procs, NEW x \in Points, Goto(p, x), op[p].at # "idle",
         x \in {"migrate"} \cup Migrating => op[p].cmd \in SessionCmds,
         x \in Migrating \cup Landing \cup Discarding => op[p].copy \in Recs,
         x \in {"load"} \cup Discarding => op[p].cmd = "discard",
         UNCHANGED givenUp
  PROVE  /\ OpsOK' /\ DiscardAsked' /\ Others(p) /\ SameJob(p)
         /\ op'[p].at = x /\ op'[p].i = op[p].i
<1> DEFINE o == [op[p] EXCEPT !.at = x]
<1>1. op[p] \in Ops /\ Sound(op[p])
  BY DEF TypeInv, OpsOK
<1>2. /\ o \in Ops /\ o.at = x /\ o.cmd = op[p].cmd /\ o.s = op[p].s /\ o.i = op[p].i
      /\ o.copy = op[p].copy /\ o.plan = op[p].plan /\ o.seen = op[p].seen /\ o.ok = op[p].ok
  BY <1>1 DEF Ops
<1>3. op' = [op EXCEPT ![p] = o]
  BY DEF Goto
<1> HIDE DEF o
<1>4. Sound(o)
  BY <1>1, <1>2 DEF Sound
<1>5. o.cmd = "discard" => o.s \in givenUp'
  BY <1>2 DEF TypeInv, DiscardAsked
<1>6. OpsOK' /\ DiscardAsked' /\ op'[p] = o /\ Others(p)
  BY <1>2, <1>3, <1>4, <1>5, OpStep
<1> QED
  BY <1>2, <1>6 DEF SameJob

\* Mount after mount, and then to the end of the loop.
LEMMA NextMountStep ==
  ASSUME TypeInv, NEW p \in Procs, NEW x \in Points, NEW y \in Points,
         NextMount(p, x, y), op[p].at # "idle",
         \A z \in {x, y} :
           /\ z \in {"migrate"} \cup Migrating => op[p].cmd \in SessionCmds
           /\ z \in Migrating \cup Landing \cup Discarding => op[p].copy \in Recs
           /\ z \in {"load"} \cup Discarding => op[p].cmd = "discard",
         UNCHANGED givenUp
  PROVE  /\ OpsOK' /\ DiscardAsked' /\ Others(p) /\ SameJob(p)
         /\ IF op[p].i < Last THEN op'[p].at = x /\ op'[p].i = op[p].i + 1
                              ELSE op'[p].at = y /\ op'[p].i = 1 /\ op[p].i = Last
<1> DEFINE z == IF op[p].i < Last THEN x ELSE y
           k == IF op[p].i < Last THEN op[p].i + 1 ELSE 1
           o == [op[p] EXCEPT !.i = k, !.at = z]
<1>1. op[p] \in Ops /\ Sound(op[p]) /\ op[p].i \in Mounts
  BY DEF TypeInv, OpsOK, Sound
<1>2. k \in Mounts /\ k \in Nat
  BY <1>1, ConstantsAssumption DEF Mounts
<1>3. z \in Points /\ z \in {x, y}
  OBVIOUS
<1>4. op' = [op EXCEPT ![p] = o]
  BY <1>1 DEF NextMount, TypeInv, OpsOK, Ops
<1> HIDE DEF z, k
<1>5. /\ o \in Ops /\ o.at = z /\ o.cmd = op[p].cmd /\ o.s = op[p].s /\ o.i = k
      /\ o.copy = op[p].copy /\ o.plan = op[p].plan /\ o.seen = op[p].seen /\ o.ok = op[p].ok
  BY <1>1, <1>2, <1>3 DEF Ops
<1> HIDE DEF o
<1>6. Sound(o)
  BY <1>1, <1>2, <1>3, <1>5 DEF Sound
<1>7. o.cmd = "discard" => o.s \in givenUp'
  BY <1>5 DEF TypeInv, DiscardAsked
<1>8. OpsOK' /\ DiscardAsked' /\ op'[p] = o /\ Others(p)
  BY <1>4, <1>5, <1>6, <1>7, OpStep
<1>9. op[p].i >= Last => op[p].i = Last
  BY <1>1, ConstantsAssumption DEF Mounts
<1> QED
  BY <1>1, <1>5, <1>8, <1>9, ConstantsAssumption DEF SameJob, z, k, Mounts

\* Every early return.
LEMMA QuitStep ==
  ASSUME TypeInv, NEW p \in Procs, Quit(p), UNCHANGED givenUp
  PROVE  OpsOK' /\ DiscardAsked' /\ op'[p] = Idle /\ Others(p)
BY IdleTyped, OpStep DEF Quit, Sound, Migrating, Landing, Discarding

\* A command goes on with another copy of the record, plan or view of the base.
LEMMA LoadStep ==
  ASSUME TypeInv, NEW p \in Procs, op[p].at # "idle", UNCHANGED givenUp,
         NEW o \in Ops, op' = [op EXCEPT ![p] = o],
         o.cmd = op[p].cmd, o.s = op[p].s, o.i \in Mounts,
         o.at \in {"migrate"} \cup Migrating => op[p].cmd \in SessionCmds,
         o.at \in Migrating \cup Landing \cup Discarding => o.copy \in Recs,
         o.at \in {"load"} \cup Discarding => op[p].cmd = "discard"
  PROVE  OpsOK' /\ DiscardAsked' /\ Others(p) /\ op'[p] = o
<1>1. Sound(o)
  BY DEF TypeInv, OpsOK, Sound
<1>2. o.cmd = "discard" => o.s \in givenUp'
  BY DEF TypeInv, DiscardAsked
<1> QED
  BY <1>1, <1>2, OpStep

\* Where the steps of a command lead, one lemma for each kind of step.
LEMMA BeginOps ==
  ASSUME TypeInv, NEW p \in Procs, NEW c \in Cmds, NEW s \in Sessions, Begin(p, c, s)
  PROVE  /\ OpsOK' /\ DiscardAsked' /\ Others(p)
         /\ op'[p] = [Idle EXCEPT !.at = First[c], !.cmd = c, !.s = s, !.i = 1]
<1> DEFINE o == [Idle EXCEPT !.at = First[c], !.cmd = c, !.s = s, !.i = 1]
<1>1. First[c] \in {"migrate", "collect", "close"} /\ (First[c] = "migrate" => c \in SessionCmds)
  BY FirstPoints
<1>2. o \in Ops /\ o.at = First[c] /\ o.cmd = c /\ o.s = s /\ o.i = 1
  BY <1>1, IdleTyped DEF Idle, Ops, Points, Syncing
<1>3. op' = [op EXCEPT ![p] = o] /\ givenUp \subseteq givenUp' /\ (c = "discard" => s \in givenUp')
  BY DEF Begin
<1> HIDE DEF o
<1>4. 1 \in Mounts
  BY ConstantsAssumption DEF Mounts
<1>5. Sound(o)
  BY <1>1, <1>2, <1>4 DEF Sound, Migrating, Landing, Discarding
<1> QED
  BY <1>2, <1>3, <1>5, OpStep DEF o

\* The migration reads the record and renames, or the command goes on at once.
LEMMA PlanMigrationOps ==
  ASSUME TypeInv, NEW p \in Procs, PlanMigration(p)
  PROVE  /\ OpsOK' /\ DiscardAsked' /\ Others(p)
         /\ op'[p].cmd = op[p].cmd /\ op'[p].s = op[p].s /\ op'[p].i = op[p].i
         /\ op'[p].copy = rec[op[p].s]
         /\ \/ op'[p].at = "rename" /\ Legacy(op[p].s)
            \/ op'[p].at = AfterMigration[op[p].cmd]
<1> DEFINE s == op[p].s
           whole == \A m \in Mounts : tree[s][m] # "none" /\ branch[s][m] # "none"
           x == IF Legacy(s) /\ whole THEN "rename" ELSE AfterMigration[op[p].cmd]
           o == [op[p] EXCEPT !.copy = rec[s], !.at = x]
<1>1. /\ op[p].at = "migrate" /\ op[p] \in Ops /\ s \in Sessions /\ op[p].cmd \in SessionCmds
      /\ op[p].i \in Mounts
  BY DEF PlanMigration, TypeInv, OpsOK, Sound
<1>2. rec[s] \in Recs
  BY <1>1, TypeOKVars DEF TypeInv, VarsOK
<1>3. AfterMigration[op[p].cmd] \in {"idle", "add", "plan", "load"}
      /\ (AfterMigration[op[p].cmd] = "load" => op[p].cmd = "discard")
  BY <1>1, NextPoints
<1>4. x \in Points
  BY <1>3 DEF Points, Migrating, Starting
<1>5. op' = [op EXCEPT ![p] = o] /\ UNCHANGED givenUp
  BY <1>1 DEF PlanMigration, history, TypeInv, OpsOK
<1>6. x \notin Landing \cup Discarding \cup {"migrate"} /\ (x = "load" => op[p].cmd = "discard")
      /\ ((x = "rename" /\ Legacy(s)) \/ x = AfterMigration[op[p].cmd])
  BY <1>3 DEF Landing, Discarding
<1> HIDE DEF x
<1>7. /\ o \in Ops /\ o.at = x /\ o.cmd = op[p].cmd /\ o.s = s /\ o.i = op[p].i /\ o.copy = rec[s]
  BY <1>1, <1>2, <1>4 DEF Ops
<1> HIDE DEF o
<1>8. OpsOK' /\ DiscardAsked' /\ Others(p) /\ op'[p] = o
  BY <1>1, <1>2, <1>5, <1>6, <1>7, LoadStep
<1> QED
  BY <1>6, <1>7, <1>8

\* Plan and Load read the record; Plan fixes the paths it will commit.
LEMMA PlanOps ==
  ASSUME TypeInv, NEW p \in Procs, Plan(p)
  PROVE  /\ OpsOK' /\ DiscardAsked' /\ Others(p)
         /\ \/ op'[p] = Idle
            \/ /\ op'[p].cmd = op[p].cmd /\ op'[p].s = op[p].s /\ op'[p].i = op[p].i
               /\ op'[p].at = "commit" /\ op'[p].copy = rec[op[p].s]
               /\ rec[op[p].s].status = "active"
               /\ \A m \in Mounts : /\ tree[op[p].s][m] = rec[op[p].s].at[m]
                                    /\ branch[op[p].s][m] = rec[op[p].s].at[m]
<1> DEFINE s == op[p].s
           pl == {mp \in Mounts \X Paths : mp[2] \in dirty[s][mp[1]]}
           o == [op[p] EXCEPT !.at = "commit", !.copy = rec[s], !.plan = pl]
<1>1. op[p].at = "plan" /\ op[p] \in Ops /\ s \in Sessions /\ op[p].i \in Mounts
  BY DEF Plan, TypeInv, OpsOK, Sound
<1>2. rec[s] \in Recs /\ UNCHANGED givenUp
  BY <1>1, TypeOKVars DEF TypeInv, VarsOK, Plan, history
<1>3. CASE Quit(p)
  BY <1>2, <1>3, QuitStep
<1>4. CASE ~Quit(p)
  <2>1. /\ op' = [op EXCEPT ![p] = o] /\ rec[s].status = "active"
        /\ \A m \in Mounts : tree[s][m] = rec[s].at[m] /\ branch[s][m] = rec[s].at[m]
    BY <1>4 DEF Plan, TypeInv, OpsOK
  <2>2. pl \subseteq Mounts \X Paths
    OBVIOUS
  <2> HIDE DEF pl
  <2>3. /\ o \in Ops /\ o.at = "commit" /\ o.cmd = op[p].cmd /\ o.s = s /\ o.i = op[p].i
        /\ o.copy = rec[s]
    BY <1>1, <1>2, <2>2 DEF Ops, Points, Landing
  <2> HIDE DEF o
  <2>4. OpsOK' /\ DiscardAsked' /\ Others(p) /\ op'[p] = o
    BY <1>1, <1>2, <2>1, <2>3, LoadStep DEF Migrating, Discarding
  <2> QED
    BY <2>1, <2>3, <2>4
<1> QED
  BY <1>3, <1>4

\* A discard reads the record of an active session.
LEMMA LoadOps ==
  ASSUME TypeInv, NEW p \in Procs, Load(p)
  PROVE  /\ OpsOK' /\ DiscardAsked' /\ Others(p)
         /\ \/ op'[p] = Idle
            \/ /\ op'[p].cmd = op[p].cmd /\ op'[p].s = op[p].s /\ op'[p].i = op[p].i
               /\ op'[p].at = "force" /\ op'[p].copy = rec[op[p].s]
               /\ rec[op[p].s].status = "active"
<1> DEFINE s == op[p].s
           o == [op[p] EXCEPT !.copy = rec[s], !.at = "force"]
<1>1. /\ op[p].at = "load" /\ op[p] \in Ops /\ s \in Sessions /\ op[p].i \in Mounts
      /\ op[p].cmd = "discard"
  BY DEF Load, TypeInv, OpsOK, Sound
<1>2. rec[s] \in Recs /\ UNCHANGED givenUp
  BY <1>1, TypeOKVars DEF TypeInv, VarsOK, Load, history
<1>3. CASE Quit(p)
  BY <1>2, <1>3, QuitStep
<1>4. CASE ~Quit(p)
  <2>1. op' = [op EXCEPT ![p] = o] /\ rec[s].status = "active"
    BY <1>4 DEF Load, TypeInv, OpsOK
  <2>2. /\ o \in Ops /\ o.at = "force" /\ o.cmd = op[p].cmd /\ o.s = s /\ o.i = op[p].i
        /\ o.copy = rec[s]
    BY <1>1, <1>2 DEF Ops, Points, Discarding
  <2> HIDE DEF o
  <2>3. OpsOK' /\ DiscardAsked' /\ Others(p) /\ op'[p] = o
    BY <1>1, <1>2, <2>1, <2>2, LoadStep DEF Migrating, Landing
  <2> QED
    BY <2>1, <2>2, <2>3
<1> QED
  BY <1>3, <1>4

\* close-worktree picks a mount and goes to its removal.
LEMMA InspectLeftoverOps ==
  ASSUME TypeInv, NEW p \in Procs, InspectLeftover(p)
  PROVE  /\ OpsOK' /\ DiscardAsked' /\ Others(p)
         /\ \/ op'[p] = Idle
            \/ /\ op'[p].at = "close clean" /\ op'[p].cmd = op[p].cmd /\ op'[p].s = op[p].s
<1>1. op[p].at = "close" /\ op[p] \in Ops /\ UNCHANGED givenUp
  BY DEF InspectLeftover, TypeInv, OpsOK, history
<1>2. CASE Quit(p)
  BY <1>1, <1>2, QuitStep
<1>3. CASE ~Quit(p)
  <2>1. PICK m \in Mounts : op' = [op EXCEPT ![p].i = m, ![p].at = "close clean"]
    BY <1>3 DEF InspectLeftover
  <2> DEFINE o == [op[p] EXCEPT !.i = m, !.at = "close clean"]
  <2>2. op' = [op EXCEPT ![p] = o]
    BY <2>1
  <2>m. m \in Mounts /\ m \in Nat
    BY MountsAreNumbers
  <2>3. /\ o \in Ops /\ o.at = "close clean" /\ o.cmd = op[p].cmd /\ o.s = op[p].s /\ o.i = m
    BY <1>1, <2>m DEF Ops, Points
  <2> HIDE DEF o
  <2>4. OpsOK' /\ DiscardAsked' /\ Others(p) /\ op'[p] = o
    BY <1>1, <2>2, <2>3, <2>m, LoadStep DEF Migrating, Landing, Discarding
  <2> QED
    BY <2>3, <2>4
<1> QED
  BY <1>2, <1>3

\* The holds are collected once for the whole sync.
LEMMA CollectOps ==
  ASSUME TypeInv, NEW p \in Procs, Collect(p)
  PROVE  /\ OpsOK' /\ DiscardAsked' /\ Others(p)
         /\ op'[p].at = "inspect" /\ op'[p].cmd = op[p].cmd /\ op'[p].s = op[p].s
         /\ op'[p].i = 1 /\ op'[p].ok = op[p].ok
         /\ op'[p].plan = {mp \in Mounts \X Paths :
                             \E s \in Sessions : mp[2] \in HeldPaths(s, mp[1])}
<1> DEFINE pl == {mp \in Mounts \X Paths : \E s \in Sessions : mp[2] \in HeldPaths(s, mp[1])}
           o == [op[p] EXCEPT !.at = "inspect", !.i = 1, !.plan = pl]
<1>1. op[p].at = "collect" /\ op[p] \in Ops /\ UNCHANGED givenUp /\ 1 \in Mounts
  BY ConstantsAssumption DEF Collect, TypeInv, OpsOK, history, Mounts
<1>2. op' = [op EXCEPT ![p] = o]
  BY DEF Collect
<1>3. pl \subseteq Mounts \X Paths
  OBVIOUS
<1> HIDE DEF pl
<1>4. /\ o \in Ops /\ o.at = "inspect" /\ o.cmd = op[p].cmd /\ o.s = op[p].s /\ o.i = 1
      /\ o.ok = op[p].ok /\ o.plan = pl
  BY <1>1, <1>3 DEF Ops, Points, Syncing
<1> HIDE DEF o
<1>5. OpsOK' /\ DiscardAsked' /\ Others(p) /\ op'[p] = o
  BY <1>1, <1>2, <1>4, LoadStep DEF Migrating, Landing, Discarding
<1> QED
  BY <1>4, <1>5 DEF pl

\* The end of a sync: only that of `publish` has a session to mark.
SyncEnd(p) == IF op[p].cmd = "publish" THEN "mark" ELSE "report"

\* A sync goes on to the next mount, after the last to its end.
LEMMA SyncNextOps ==
  ASSUME TypeInv, NEW p \in Procs, op[p].at \in Syncing, SyncNext(p), UNCHANGED givenUp
  PROVE  /\ OpsOK' /\ DiscardAsked' /\ Others(p) /\ SameJob(p)
         /\ IF op[p].i < Last THEN op'[p].at = "inspect" /\ op'[p].i = op[p].i + 1
                              ELSE op'[p].at = SyncEnd(p) /\ op'[p].i = 1 /\ op[p].i = Last
<1>1. NextMount(p, "inspect", SyncEnd(p))
  BY DEF SyncNext, SyncEnd
<1>2. SyncEnd(p) \in {"mark", "report"} /\ "inspect" \in Points /\ SyncEnd(p) \in Points
  BY DEF SyncEnd, Points, Syncing
<1>3. \A z \in {"inspect", SyncEnd(p)} : z \notin {"migrate", "load"} \cup Migrating \cup Landing \cup Discarding
  BY <1>2 DEF Migrating, Landing, Discarding
<1> HIDE DEF SyncEnd
<1> QED
  BY <1>1, <1>2, <1>3, NextMountStep DEF Syncing

\* A mount is inspected: the sync passes it, holds it or goes on to push it.
LEMMA InspectOps ==
  ASSUME TypeInv, NEW p \in Procs, Inspect(p)
  PROVE  /\ OpsOK' /\ DiscardAsked' /\ Others(p)
         /\ op'[p].cmd = op[p].cmd /\ op'[p].s = op[p].s /\ op'[p].plan = op[p].plan
         /\ op'[p].ok = op[p].ok
         /\ \/ SyncNext(p) /\ baseDirty[op[p].i] = {} /\ Ahead(op[p].i) = {} /\ Behind(op[p].i) = {}
            \/ op'[p].at = "hold"
            \/ /\ op'[p].at = "push" /\ op'[p].i = op[p].i /\ op'[p].seen = baseDirty[op[p].i]
               /\ ~Held(p, op[p].i)
<1>1. /\ op[p].at = "inspect" /\ op[p] \in Ops /\ op[p].i \in Mounts /\ UNCHANGED givenUp
      /\ op[p].at \in Syncing
  BY DEF Inspect, TypeInv, OpsOK, Sound, history, Syncing
<1>2. CASE /\ SyncNext(p) /\ baseDirty[op[p].i] = {}
           /\ Ahead(op[p].i) = {} /\ Behind(op[p].i) = {}
  BY <1>1, <1>2, SyncNextOps DEF SameJob
<1>3. CASE op' = [op EXCEPT ![p].at = "hold"]
  <2>1. Goto(p, "hold") /\ "hold" \in Points
    BY <1>3 DEF Goto, Points, Syncing
  <2> QED
    BY <1>1, <2>1, GotoStep DEF Migrating, Landing, Discarding, SameJob
<1>4. CASE op' = [op EXCEPT ![p].at = "push", ![p].seen = baseDirty[op[p].i]] /\ ~Held(p, op[p].i)
  <2> DEFINE o == [op[p] EXCEPT !.at = "push", !.seen = baseDirty[op[p].i]]
  <2>1. op' = [op EXCEPT ![p] = o]
    BY <1>4
  <2>2. baseDirty[op[p].i] \in SUBSET Paths
    BY <1>1, TypeOKVars DEF TypeInv, VarsOK
  <2>3. /\ o \in Ops /\ o.at = "push" /\ o.seen = baseDirty[op[p].i] /\ o.cmd = op[p].cmd
        /\ o.s = op[p].s /\ o.i = op[p].i /\ o.plan = op[p].plan /\ o.ok = op[p].ok
    BY <1>1, <2>2 DEF Ops, Points, Syncing
  <2> HIDE DEF o
  <2>4. OpsOK' /\ DiscardAsked' /\ Others(p) /\ op'[p] = o
    BY <1>1, <2>1, <2>3, LoadStep DEF Migrating, Landing, Discarding
  <2> QED
    BY <1>4, <2>3, <2>4
<1> QED
  BY <1>2, <1>3, <1>4 DEF Inspect

\* A mount that is held back is counted: not fully published.
LEMMA HoldOps ==
  ASSUME TypeInv, NEW p \in Procs, Hold(p)
  PROVE  /\ OpsOK' /\ DiscardAsked' /\ Others(p)
         /\ op'[p].cmd = op[p].cmd /\ op'[p].s = op[p].s /\ op'[p].plan = op[p].plan
         /\ ~op'[p].ok /\ op'[p].at \in {"inspect", SyncEnd(p)}
<1> DEFINE k == IF op[p].i < Last THEN op[p].i + 1 ELSE 1
           x == IF op[p].i < Last THEN "inspect" ELSE SyncEnd(p)
           o == [op[p] EXCEPT !.ok = FALSE, !.i = k, !.at = x]
<1>1. op[p].at = "hold" /\ op[p] \in Ops /\ op[p].i \in Mounts /\ UNCHANGED givenUp
  BY DEF Hold, TypeInv, OpsOK, Sound, history
<1>2. k \in Mounts /\ k \in Nat
  BY <1>1, MountsAreNumbers, ConstantsAssumption DEF Mounts
<1>3. op' = [op EXCEPT ![p] = o]
  BY <1>1 DEF Hold, SyncEnd, TypeInv, OpsOK, Ops
<1>4. x \in {"inspect", SyncEnd(p)} /\ x \in {"inspect", "mark", "report"} /\ x \in Points
  BY DEF SyncEnd, Points, Syncing
<1> HIDE DEF k, x
<1>5. /\ o \in Ops /\ o.at = x /\ o.i = k /\ o.cmd = op[p].cmd /\ o.s = op[p].s
      /\ o.plan = op[p].plan /\ ~o.ok
  BY <1>1, <1>2, <1>4 DEF Ops
<1> HIDE DEF o
<1>6. OpsOK' /\ DiscardAsked' /\ Others(p) /\ op'[p] = o
  BY <1>1, <1>2, <1>3, <1>4, <1>5, LoadStep DEF Migrating, Landing, Discarding
<1> QED
  BY <1>4, <1>5, <1>6

\* A push moves on, or it is held because the remote had moved.
LEMMA PushOps ==
  ASSUME TypeInv, NEW p \in Procs, Push(p)
  PROVE  /\ OpsOK' /\ DiscardAsked' /\ Others(p) /\ SameJob(p)
         /\ \/ SyncNext(p) /\ remote' = [remote EXCEPT ![op[p].i] = base[op[p].i] \cup Committed(p, op[p].i)]
            \/ op'[p].at = "hold"
<1>1. op[p].at = "push" /\ op[p].at \in Syncing /\ UNCHANGED givenUp
  BY DEF Push, history, Syncing
<1>2. CASE SyncNext(p) /\ remote' = [remote EXCEPT ![op[p].i] = base[op[p].i] \cup Committed(p, op[p].i)]
  BY <1>1, <1>2, SyncNextOps
<1>3. CASE Goto(p, "hold")
  <2>1. "hold" \in Points
    BY DEF Points, Syncing
  <2> QED
    BY <1>1, <1>3, <2>1, GotoStep DEF Migrating, Landing, Discarding
<1> QED
  BY <1>2, <1>3 DEF Push

\* The steps that pass from mount to mount or from one call to the next.
LEMMA LoopOps ==
  ASSUME TypeInv, NEW p \in Procs,
         \/ RenameBranch(p) \/ MoveWorktree(p) \/ SaveMigrated(p) \/ AddWorktree(p) \/ SaveStarted(p)
         \/ CommitDirty(p) \/ Merge(p) \/ RemoveWorktree(p) \/ DeleteBranch(p) \/ SaveLanded(p)
         \/ ForceRemove(p) \/ ForceBranch(p) \/ SaveDiscarded(p)
         \/ CloseWorktree(p) \/ MarkPublished(p) \/ Report(p) \/ CleanUp(p) \/ Crash(p)
  PROVE  OpsOK' /\ DiscardAsked' /\ Others(p)
<1>1. op[p] \in Ops /\ Sound(op[p])
  BY DEF TypeInv, OpsOK
<1>2. UNCHANGED givenUp
  BY DEF RenameBranch, MoveWorktree, SaveMigrated, AddWorktree, SaveStarted, CommitDirty, Merge,
     RemoveWorktree, DeleteBranch, SaveLanded, ForceRemove, ForceBranch, SaveDiscarded,
     CloseWorktree, MarkPublished, Report, CleanUp, Crash, history
<1>3. CASE Quit(p)
  BY <1>2, <1>3, QuitStep
<1>4. CASE RenameBranch(p) \/ MoveWorktree(p) \/ SaveMigrated(p)
  <2>1. /\ op[p].at \in Migrating /\ op[p].cmd \in SessionCmds /\ op[p].copy \in Recs
        /\ op[p].at # "idle"
    BY <1>1, <1>4 DEF RenameBranch, MoveWorktree, SaveMigrated, Migrating, Sound
  <2> DEFINE x == AfterMigration[op[p].cmd]
  <2>2. x \in {"idle", "add", "plan", "load"} /\ (x = "load" => op[p].cmd = "discard")
    BY <2>1, NextPoints
  <2>3. x \in Points /\ x \notin {"migrate"} \cup Migrating \cup Landing \cup Discarding
    BY <2>2 DEF Points, Migrating, Landing, Discarding, Starting
  <2>4. {"rename", "move", "migrated"} \subseteq Points
        /\ {"rename", "move", "migrated"} \cap (Landing \cup Discarding \cup {"load"}) = {}
    BY DEF Points, Migrating, Landing, Discarding
  <2>5. Goto(p, x) \/ Goto(p, "move") \/ NextMount(p, "rename", "migrated")
    BY <1>4 DEF RenameBranch, MoveWorktree, SaveMigrated
  <2> HIDE DEF x
  <2>6. CASE Goto(p, x)
    BY <1>2, <2>1, <2>2, <2>3, <2>6, GotoStep
  <2>7. CASE Goto(p, "move")
    BY <1>2, <2>1, <2>4, <2>7, GotoStep
  <2>8. CASE NextMount(p, "rename", "migrated")
    BY <1>2, <2>1, <2>4, <2>8, NextMountStep
  <2> QED
    BY <2>5, <2>6, <2>7, <2>8
<1>5. CASE AddWorktree(p)
  <2>1. NextMount(p, "add", "started") /\ op[p].at = "add"
    BY <1>5 DEF AddWorktree
  <2>2. {"add", "started"} \subseteq Points
        /\ {"add", "started"} \cap UNION {Migrating, Landing, Discarding, {"load", "migrate"}} = {}
    BY DEF Points, Migrating, Landing, Discarding, Starting
  <2> QED
    BY <1>2, <2>1, <2>2, NextMountStep
<1>6. CASE (CommitDirty(p) \/ Merge(p) \/ RemoveWorktree(p) \/ DeleteBranch(p) \/ SaveLanded(p)) /\ ~Quit(p)
  <2>1. op[p].at \in Landing /\ op[p].copy \in Recs /\ op[p].at # "idle"
    BY <1>1, <1>6 DEF CommitDirty, Merge, RemoveWorktree, DeleteBranch, SaveLanded, Landing, Sound
  <2>2. Landing \cup {"collect"} \subseteq Points
        /\ (Landing \cup {"collect"}) \cap UNION {Migrating, Discarding, {"load", "migrate"}} = {}
    BY DEF Points, Migrating, Landing, Discarding, Syncing
  <2>3. \/ \E x \in Landing \cup {"collect"} : Goto(p, x)
        \/ NextMount(p, "commit", "landed")
    BY <1>6 DEF CommitDirty, Merge, RemoveWorktree, DeleteBranch, SaveLanded, Landing
  <2>4. CASE NextMount(p, "commit", "landed")
    <3>1. {"commit", "landed"} \subseteq Landing
      BY DEF Landing
    <3> QED
      BY <1>2, <2>1, <2>2, <2>4, <3>1, NextMountStep
  <2> QED
    BY <1>2, <2>1, <2>2, <2>3, <2>4, GotoStep
<1>7. CASE (ForceRemove(p) \/ ForceBranch(p)) /\ ~Quit(p)
  <2>1. /\ op[p].at \in Discarding /\ op[p].copy \in Recs /\ op[p].at # "idle"
        /\ op[p].cmd = "discard"
    BY <1>1, <1>7 DEF ForceRemove, ForceBranch, Discarding, Sound
  <2>2. Discarding \subseteq Points /\ Discarding \cap (Migrating \cup {"migrate"}) = {}
        /\ {"forget", "force", "discarded"} \subseteq Discarding
    BY DEF Points, Migrating, Discarding
  <2>3. Goto(p, "forget") \/ NextMount(p, "force", "discarded")
    BY <1>7 DEF ForceRemove, ForceBranch
  <2>4. CASE Goto(p, "forget")
    BY <1>2, <2>1, <2>2, <2>4, GotoStep
  <2>5. CASE NextMount(p, "force", "discarded")
    BY <1>2, <2>1, <2>2, <2>5, NextMountStep
  <2> QED
    BY <2>3, <2>4, <2>5
<1> QED
  BY <1>3, <1>4, <1>5, <1>6, <1>7
     DEF SaveStarted, SaveDiscarded, CloseWorktree, MarkPublished, Report, CleanUp, Crash

-----------------------------------------------------------------------------
(* Every step keeps the types *)

\* One mount of one session is changed, or one mount.
LEMMA UpdateSession ==
  ASSUME NEW S, NEW U, NEW V, NEW f \in [S -> [U -> V]], NEW x \in S, NEW y \in U, NEW v \in V
  PROVE  /\ [f EXCEPT ![x][y] = v] \in [S -> [U -> V]]
         /\ \A a \in S, b \in U : [f EXCEPT ![x][y] = v][a][b] = IF a = x /\ b = y THEN v ELSE f[a][b]
OBVIOUS

\* The same of the variables that have a value in every mount.
LEMMA UpdateMount ==
  ASSUME NEW U, NEW V, NEW f \in [U -> V], NEW y \in U, NEW v \in V
  PROVE  /\ [f EXCEPT ![y] = v] \in [U -> V]
         /\ \A b \in U : [f EXCEPT ![y] = v][b] = IF b = y THEN v ELSE f[b]
OBVIOUS

\* The new values of the variables have their types.
LEMMA OwnTyped ==
  /\ \A s \in Sessions, ps \in SUBSET Paths : Own(s, ps) \in Contents
  /\ \A ps \in SUBSET Paths : Own("user", ps) \in Contents /\ Own("markers", ps) \in Contents
  /\ \A q \in Paths : {<<"other", q>>} \in Contents
BY DEF Own, Contents, Changes, Writers

\* Records that are saved are records.
LEMMA RecsTyped ==
  /\ Active("work") \in Recs /\ Active("sessions") \in Recs /\ NoRecord \in Recs
  /\ \A r \in Recs :
       /\ [r EXCEPT !.at = [m \in Mounts |-> "sessions"]] \in Recs
       /\ [r EXCEPT !.status = "finished", !.outcome = "landed"] \in Recs
       /\ [r EXCEPT !.status = "discarded", !.outcome = "discarded"] \in Recs
       /\ [r EXCEPT !.outcome = "published"] \in Recs
BY DEF Active, NoRecord, Recs, Places

\* What a push commits: the user's work, or the merge that was left open.
LEMMA CommittedTyped ==
  ASSUME TypeInv, NEW p \in Procs, NEW m \in Mounts
  PROVE  Committed(p, m) \in Contents
<1>1. op[p].seen \cap baseDirty[m] \in SUBSET Paths
  BY TypeOKVars DEF TypeInv, OpsOK, Ops, VarsOK
<1>2. CASE merging[m] # NoMerge
  <2>1. merging[m] \in Merges
    BY <1>2 DEF TypeInv, MergesOK
  <2>2. /\ Own(merging[m].s, merging[m].adds) \in Contents
        /\ Own("markers", op[p].seen \cap baseDirty[m] \cap merging[m].clash) \in Contents
        /\ Own("user", op[p].seen \cap baseDirty[m]) \in Contents
    BY <1>1, <2>1, OwnTyped DEF Merges
  <2> QED
    BY <2>2 DEF Committed, Contents
<1>3. CASE merging[m] = NoMerge
  BY <1>1, <1>3, OwnTyped DEF Committed
<1> QED
  BY <1>2, <1>3

\* A merge, clean or stopped in conflict.
LEMMA MergeTyped ==
  ASSUME TypeInv, NEW p \in Procs, Merge(p)
  PROVE  VarsOK' /\ MergesOK'
<1> DEFINE s == op[p].s
           m == op[p].i
<1>1. VarsOK /\ MergesOK
  BY TypeOKVars DEF TypeInv
<1>2. s \in Sessions /\ m \in Mounts
  BY DEF Merge, TypeInv, OpsOK, Sound
<1>3. commits[s][m] \in SUBSET Paths /\ Incoming(s, m) \in SUBSET Paths /\ Contested(s, m) \in SUBSET Paths
  BY <1>1, <1>2 DEF VarsOK, Incoming, Contested
<1>4. /\ UNCHANGED <<rec, tree, branch, dirty, commits, fork, remote, made, givenUp>>
      /\ base' \in {base, [base EXCEPT ![m] = @ \cup Own(s, commits[s][m])]}
      /\ baseDirty' \in {baseDirty, [baseDirty EXCEPT ![m] = @ \cup Incoming(s, m)]}
      /\ merging' \in {merging, [merging EXCEPT ![m] = [s |-> s, adds |-> commits[s][m],
                                                       clash |-> Contested(s, m)]]}
  BY DEF Merge, sessionVars, history
<1>5. base' \in [Mounts -> Contents]
  <2>1. base[m] \cup Own(s, commits[s][m]) \in Contents
    BY <1>1, <1>2, <1>3, OwnTyped DEF VarsOK, Contents
  <2> QED
    BY <1>1, <1>2, <1>4, <2>1 DEF VarsOK
<1>6. baseDirty' \in [Mounts -> SUBSET Paths]
  <2>1. baseDirty \in [Mounts -> SUBSET Paths]
    BY <1>1 DEF VarsOK
  <2>2. baseDirty[m] \cup Incoming(s, m) \in SUBSET Paths
    BY <2>1, <1>2, <1>3
  <2> QED
    BY <1>2, <1>4, <2>1, <2>2
<1>7. MergesOK'
  BY <1>1, <1>2, <1>3, <1>4 DEF MergesOK, Merges
<1> QED
  BY <1>1, <1>4, <1>5, <1>6, <1>7 DEF VarsOK

\* A push, with the commit before it.
LEMMA PushTyped ==
  ASSUME TypeInv, NEW p \in Procs, Push(p)
  PROVE  VarsOK' /\ MergesOK'
<1> DEFINE m == op[p].i
           after == base[m] \cup Committed(p, m)
<1>1. VarsOK /\ MergesOK
  BY TypeOKVars DEF TypeInv
<1>2. m \in Mounts /\ op[p] \in Ops
  BY DEF Push, TypeInv, OpsOK, Sound
<1>3. after \in Contents
  BY <1>1, <1>2, CommittedTyped DEF VarsOK, Contents
<1>4. /\ UNCHANGED <<rec, tree, branch, dirty, commits, fork, made, givenUp>>
      /\ base' = [base EXCEPT ![m] = after]
      /\ baseDirty' = [baseDirty EXCEPT ![m] = @ \ op[p].seen]
      /\ merging' \in {[merging EXCEPT ![m] = NoMerge], [merging EXCEPT ![m] = @]}
      /\ remote' \in {remote, [remote EXCEPT ![m] = after]}
  BY DEF Push, sessionVars, history
<1> HIDE DEF after
<1>5. MergesOK'
  BY <1>1, <1>2, <1>4 DEF MergesOK
<1> QED
  BY <1>1, <1>2, <1>3, <1>4, <1>5 DEF VarsOK

\* Every step of a command keeps the types of the repositories and the registry.
LEMMA StepVarsTyped ==
  ASSUME TypeInv, NEW p \in Procs, Step(p) \/ CleanUp(p) \/ Crash(p)
  PROVE  VarsOK' /\ MergesOK'
<1> USE DEF sessionVars, baseVars, history
<1>1. VarsOK /\ MergesOK /\ op[p] \in Ops /\ Sound(op[p])
  BY TypeOKVars DEF TypeInv, OpsOK
<1>2. CASE \/ PlanMigration(p) \/ Plan(p) \/ Load(p) \/ InspectLeftover(p) \/ Collect(p)
           \/ Hold(p) \/ Report(p) \/ Crash(p)
  BY <1>1, <1>2 DEF PlanMigration, Plan, Load, InspectLeftover, Collect, Hold, Report, Crash,
     VarsOK, MergesOK
<1>3. CASE RenameBranch(p) \/ MoveWorktree(p) \/ RemoveWorktree(p) \/ CloseWorktree(p)
  <2> DEFINE s == op[p].s
           m == op[p].i
  <2>1. s \in Sessions /\ m \in Mounts
    BY <1>1, <1>3 DEF Sound, RenameBranch, MoveWorktree, RemoveWorktree, CloseWorktree
  <2>2. /\ UNCHANGED <<rec, dirty, commits, fork, base, baseDirty, merging, remote, made, givenUp>>
        /\ branch' = branch \/ branch' = [branch EXCEPT ![s][m] = "sessions"]
        /\ \/ tree' = tree \/ tree' = [tree EXCEPT ![s][m] = "none"]
           \/ tree' = [tree EXCEPT ![s][m] = "sessions"]
    BY <1>3 DEF RenameBranch, MoveWorktree, RemoveWorktree, CloseWorktree, RemoveClean
  <2>3. "none" \in Places /\ "sessions" \in Places
    BY DEF Places
  <2>t. tree \in [Sessions -> [Mounts -> Places]]
    BY <1>1 DEF VarsOK
  <2>b. branch \in [Sessions -> [Mounts -> Places]]
    BY <1>1 DEF VarsOK
  <2>6. tree' \in [Sessions -> [Mounts -> Places]]
    <3>1. CASE tree' = tree
      BY <2>t, <3>1
    <3>2. CASE tree' = [tree EXCEPT ![s][m] = "none"]
      BY <2>1, <2>3, <2>t, <3>2
    <3>3. CASE tree' = [tree EXCEPT ![s][m] = "sessions"]
      BY <2>1, <2>3, <2>t, <3>3
    <3> QED
      BY <2>2, <3>1, <3>2, <3>3
  <2>7. branch' \in [Sessions -> [Mounts -> Places]]
    BY <2>1, <2>2, <2>3, <2>b
  <2> QED
    BY <1>1, <2>2, <2>6, <2>7 DEF VarsOK, MergesOK
<1>4. CASE SaveMigrated(p) \/ SaveStarted(p) \/ SaveLanded(p) \/ SaveDiscarded(p) \/ MarkPublished(p)
  <2>1. op[p].s \in Sessions
    BY <1>1, <1>4 DEF Sound, SaveMigrated, SaveStarted, SaveLanded, SaveDiscarded, MarkPublished
  <2>2. op[p].at \in {"migrated", "landed", "discarded"} => op[p].copy \in Recs
    BY <1>1 DEF Sound, Migrating, Landing, Discarding
  <2>3. /\ UNCHANGED <<tree, branch, dirty, commits, fork, base, baseDirty, merging, remote, made, givenUp>>
        /\ UNCHANGED rec \/ \E r \in Recs : rec' = [rec EXCEPT ![op[p].s] = r]
    <3>1. CASE SaveMigrated(p)
      BY <2>2, <3>1, RecsTyped DEF SaveMigrated
    <3>2. CASE SaveStarted(p)
      BY <3>2, RecsTyped DEF SaveStarted
    <3>3. CASE SaveLanded(p)
      BY <2>2, <3>3, RecsTyped DEF SaveLanded
    <3>4. CASE SaveDiscarded(p)
      BY <2>2, <3>4, RecsTyped DEF SaveDiscarded
    <3>5. CASE MarkPublished(p)
      <4>1. rec[op[p].s] \in Recs
        BY <1>1, <2>1 DEF VarsOK
      <4>2. \/ UNCHANGED rec
            \/ rec' = [rec EXCEPT ![op[p].s] = [rec[op[p].s] EXCEPT !.outcome = "published"]]
        BY <1>1, <2>1, <3>5 DEF MarkPublished, VarsOK
      <4> QED
        BY <3>5, <4>1, <4>2, RecsTyped DEF MarkPublished
    <3> QED
      BY <1>4, <3>1, <3>2, <3>3, <3>4, <3>5
  <2> QED
    BY <1>1, <2>1, <2>3 DEF VarsOK, MergesOK
<1>5. CASE AddWorktree(p)
  <2>1. op[p].s \in Sessions /\ op[p].i \in Mounts
    BY <1>1, <1>5 DEF Sound, AddWorktree
  <2>2. "sessions" \in Places /\ base[op[p].i] \in Contents
    BY <1>1, <2>1 DEF Places, VarsOK
  <2>3. /\ tree' \in [Sessions -> [Mounts -> Places]] /\ branch' \in [Sessions -> [Mounts -> Places]]
        /\ fork' \in [Sessions -> [Mounts -> Contents]]
    BY <1>1, <1>5, <2>1, <2>2 DEF AddWorktree, VarsOK
  <2> QED
    BY <1>1, <1>5, <2>3 DEF AddWorktree, VarsOK, MergesOK
<1>6. CASE CleanUp(p)
  <2>1. op[p].s \in Sessions
    BY <1>1, <1>6 DEF Sound, CleanUp
  <2> DEFINE cleaned == [m \in Mounts |-> IF m < op[p].i \/ op[p].at = "started" THEN "none"
                                         ELSE tree[op[p].s][m]]
  <2>2. cleaned \in [Mounts -> Places]
    BY <1>1, <2>1 DEF Places, VarsOK
  <2>3. /\ tree' = [tree EXCEPT ![op[p].s] = cleaned] /\ branch' = [branch EXCEPT ![op[p].s] = cleaned]
        /\ UNCHANGED <<rec, dirty, commits, fork, base, baseDirty, merging, remote, made, givenUp>>
    BY <1>6 DEF CleanUp
  <2> HIDE DEF cleaned
  <2> QED
    BY <1>1, <2>1, <2>2, <2>3 DEF VarsOK, MergesOK
<1>7. CASE CommitDirty(p)
  <2> DEFINE s == op[p].s
             m == op[p].i
             staged == {q \in dirty[s][m] : <<m, q>> \in op[p].plan}
  <2>1. s \in Sessions /\ m \in Mounts
    BY <1>1, <1>7 DEF Sound, CommitDirty
  <2>2. /\ UNCHANGED <<rec, tree, branch, fork, base, baseDirty, merging, remote, made, givenUp>>
        /\ \/ UNCHANGED <<dirty, commits>>
           \/ /\ dirty' = [dirty EXCEPT ![s][m] = @ \ staged]
              /\ commits' = [commits EXCEPT ![s][m] = @ \cup staged]
    BY <1>7 DEF CommitDirty
  <2>3. staged \in SUBSET Paths
    BY <1>1, <2>1 DEF VarsOK
  <2> HIDE DEF staged
  <2>c. commits \in [Sessions -> [Mounts -> SUBSET Paths]]
    BY <1>1 DEF VarsOK
  <2>d. dirty \in [Sessions -> [Mounts -> SUBSET Paths]]
    BY <1>1 DEF VarsOK
  <2>4. dirty' \in [Sessions -> [Mounts -> SUBSET Paths]]
    BY <2>1, <2>2, <2>3, <2>d
  <2>5. commits' \in [Sessions -> [Mounts -> SUBSET Paths]]
    BY <2>1, <2>2, <2>3, <2>c
  <2> QED
    BY <1>1, <2>2, <2>4, <2>5 DEF VarsOK, MergesOK
<1>8. CASE DeleteBranch(p) \/ ForceBranch(p) \/ ForceRemove(p)
  <2> DEFINE s == op[p].s
           m == op[p].i
  <2>1. s \in Sessions /\ m \in Mounts
    BY <1>1, <1>8 DEF Sound, DeleteBranch, ForceBranch, ForceRemove
  <2>2. /\ UNCHANGED <<rec, fork, base, baseDirty, merging, remote, made, givenUp>>
        /\ branch' = branch \/ branch' = [branch EXCEPT ![s][m] = "none"]
        /\ tree' = tree \/ tree' = [tree EXCEPT ![s][m] = "none"]
        /\ commits' = commits \/ commits' = [commits EXCEPT ![s][m] = {}]
        /\ dirty' = dirty \/ dirty' = [dirty EXCEPT ![s][m] = {}]
    BY <1>8 DEF DeleteBranch, ForceBranch, ForceRemove
  <2>3. "none" \in Places
    BY DEF Places
  <2>t. tree \in [Sessions -> [Mounts -> Places]]
    BY <1>1 DEF VarsOK
  <2>b. branch \in [Sessions -> [Mounts -> Places]]
    BY <1>1 DEF VarsOK
  <2>c. commits \in [Sessions -> [Mounts -> SUBSET Paths]]
    BY <1>1 DEF VarsOK
  <2>d. dirty \in [Sessions -> [Mounts -> SUBSET Paths]]
    BY <1>1 DEF VarsOK
  <2>6. tree' \in [Sessions -> [Mounts -> Places]]
    BY <2>1, <2>2, <2>3, <2>t
  <2>7. branch' \in [Sessions -> [Mounts -> Places]]
    BY <2>1, <2>2, <2>3, <2>b
  <2>8. commits' \in [Sessions -> [Mounts -> SUBSET Paths]]
    BY <2>1, <2>2, <2>c
  <2>9. dirty' \in [Sessions -> [Mounts -> SUBSET Paths]]
    BY <2>1, <2>2, <2>d
  <2> QED
    BY <1>1, <2>2, <2>6, <2>7, <2>8, <2>9 DEF VarsOK, MergesOK
<1>9. CASE Inspect(p)
  <2>1. op[p].i \in Mounts
    BY <1>1, <1>9 DEF Sound, Inspect
  <2>2. /\ UNCHANGED <<rec, tree, branch, dirty, commits, fork, baseDirty, merging, remote, made, givenUp>>
        /\ base' \in {base, [base EXCEPT ![op[p].i] = remote[op[p].i]]}
    BY <1>9 DEF Inspect
  <2> QED
    BY <1>1, <2>1, <2>2 DEF VarsOK, MergesOK
<1> QED
  BY <1>2, <1>3, <1>4, <1>5, <1>6, <1>7, <1>8, <1>9, MergeTyped, PushTyped DEF Step

\* The people and agents that work in the checkouts change no command.
LEMMA OutsideTyped ==
  ASSUME TypeInv,
         \/ \E s \in Sessions, m \in Mounts : CommitSession(s, m)
         \/ \E s \in Sessions, m \in Mounts, q \in Paths : EditSession(s, m, q)
         \/ \E m \in Mounts : CommitBase(m) \/ EndMerge(m)
         \/ \E m \in Mounts, q \in Paths : EditBase(m, q) \/ OtherPushes(m, q)
  PROVE  TypeInv'
<1> USE DEF sessionVars, baseVars, history
<1>1. VarsOK /\ MergesOK /\ OpsOK /\ DiscardAsked
  BY TypeOKVars DEF TypeInv
<1>c. commits \in [Sessions -> [Mounts -> SUBSET Paths]]
  BY <1>1 DEF VarsOK
<1>d. dirty \in [Sessions -> [Mounts -> SUBSET Paths]]
  BY <1>1 DEF VarsOK
<1>m. made \in [Sessions -> [Mounts -> SUBSET Paths]]
  BY <1>1 DEF VarsOK
<1>b. base \in [Mounts -> Contents]
  BY <1>1 DEF VarsOK
<1>e. baseDirty \in [Mounts -> SUBSET Paths]
  BY <1>1 DEF VarsOK
<1>r. remote \in [Mounts -> Contents]
  BY <1>1 DEF VarsOK
<1>2. OpsOK' /\ DiscardAsked'
  BY <1>1 DEF CommitSession, EditSession, CommitBase, EndMerge, EditBase, OtherPushes, OpsOK, DiscardAsked
<1>3. ASSUME NEW s \in Sessions, NEW m \in Mounts, CommitSession(s, m)
      PROVE  VarsOK' /\ MergesOK'
  <2>1. commits' \in [Sessions -> [Mounts -> SUBSET Paths]]
    BY <1>3, <1>c, <1>d DEF CommitSession
  <2>2. dirty' \in [Sessions -> [Mounts -> SUBSET Paths]]
    BY <1>3, <1>d DEF CommitSession
  <2> QED
    BY <1>1, <1>3, <2>1, <2>2 DEF CommitSession, VarsOK, MergesOK
<1>4. ASSUME NEW s \in Sessions, NEW m \in Mounts, NEW q \in Paths, EditSession(s, m, q)
      PROVE  VarsOK' /\ MergesOK'
  <2>1. dirty' \in [Sessions -> [Mounts -> SUBSET Paths]]
    BY <1>4, <1>d DEF EditSession
  <2>2. made' \in [Sessions -> [Mounts -> SUBSET Paths]]
    BY <1>4, <1>m DEF EditSession
  <2> QED
    BY <1>1, <1>4, <2>1, <2>2 DEF EditSession, VarsOK, MergesOK
<1>5. ASSUME NEW m \in Mounts, CommitBase(m)
      PROVE  VarsOK' /\ MergesOK'
  <2>1. base[m] \cup Own("user", baseDirty[m]) \in Contents
    BY <1>b, <1>e, OwnTyped DEF Contents
  <2>2. base' \in [Mounts -> Contents]
    BY <1>5, <1>b, <2>1 DEF CommitBase
  <2>3. baseDirty' \in [Mounts -> SUBSET Paths]
    BY <1>5, <1>e DEF CommitBase
  <2> QED
    BY <1>1, <1>5, <2>2, <2>3 DEF CommitBase, VarsOK, MergesOK
<1>6. ASSUME NEW m \in Mounts, EndMerge(m)
      PROVE  VarsOK' /\ MergesOK'
  <2>1. merging[m] \in Merges
    BY <1>1, <1>6 DEF EndMerge, MergesOK
  <2>2. base[m] \cup Own(merging[m].s, merging[m].adds) \in Contents
    BY <1>b, <2>1, OwnTyped DEF Contents, Merges
  <2>3. base' \in [Mounts -> Contents]
    BY <1>6, <1>b, <2>2 DEF EndMerge
  <2>4. baseDirty' \in [Mounts -> SUBSET Paths]
    BY <1>6, <1>e DEF EndMerge
  <2>5. MergesOK'
    BY <1>1, <1>6 DEF EndMerge, MergesOK
  <2> QED
    BY <1>1, <1>6, <2>3, <2>4, <2>5 DEF EndMerge, VarsOK
<1>7. ASSUME NEW m \in Mounts, NEW q \in Paths, EditBase(m, q) \/ OtherPushes(m, q)
      PROVE  VarsOK' /\ MergesOK'
  <2>1. remote[m] \cup {<<"other", q>>} \in Contents
    BY <1>r, OwnTyped DEF Contents
  <2>2. CASE EditBase(m, q)
    <3>1. baseDirty' \in [Mounts -> SUBSET Paths]
      BY <1>e, <2>2 DEF EditBase
    <3> QED
      BY <1>1, <2>2, <3>1 DEF EditBase, VarsOK, MergesOK
  <2>3. CASE OtherPushes(m, q)
    <3>1. remote' \in [Mounts -> Contents]
      BY <1>r, <2>1, <2>3 DEF OtherPushes
    <3> QED
      BY <1>1, <2>3, <3>1 DEF OtherPushes, VarsOK, MergesOK
  <2> QED
    BY <1>7, <2>2, <2>3
<1>8. VarsOK' /\ MergesOK'
  BY <1>3, <1>4, <1>5, <1>6, <1>7
<1>9. HistoryOK'
  <2>1. UNCHANGED <<shared, late>> /\ HistoryOK
    BY TypeOKVars DEF CommitSession, EditSession, CommitBase, EndMerge, EditBase, OtherPushes, TypeInv
  <2> QED
    BY <2>1 DEF HistoryOK
<1> QED
  BY <1>2, <1>8, <1>9, TypeOKVars DEF TypeInv

\* Which conflicts came too late for which sync changes in two steps only: a
\* merge that stops in conflict adds some of its mount, and a sync that collects
\* the holds forgets its own.
LEMMA CommandHistory ==
  ASSUME TypeInv, NEW p \in Procs, Step(p) \/ CleanUp(p) \/ Crash(p)
  PROVE  /\ shared' = shared /\ givenUp' = givenUp /\ made' = made
         /\ \/ late' = late
            \/ Merge(p) /\ late' = late \cup {<<q, op[p].i>> : q \in {q \in Procs : Collected(q)}}
            \/ Collect(p) /\ late' = {c \in late : c[1] # p}
BY DEF Step, PlanMigration, RenameBranch, MoveWorktree, SaveMigrated, AddWorktree,
   SaveStarted, Plan, CommitDirty, Merge, RemoveWorktree, DeleteBranch, SaveLanded, Load,
   ForceRemove, ForceBranch, SaveDiscarded, InspectLeftover, CloseWorktree, Collect, Inspect,
   Hold, Push, MarkPublished, Report, CleanUp, Crash, history

\* Its type.
LEMMA CommandHistoryTyped ==
  ASSUME TypeInv, NEW p \in Procs, Step(p) \/ CleanUp(p) \/ Crash(p)
  PROVE  HistoryOK'
<1>1. HistoryOK
  BY TypeOKVars DEF TypeInv
<1>2. Merge(p) => op[p].i \in Mounts
  BY DEF Merge, TypeInv, OpsOK, Sound
<1> QED
  BY <1>1, <1>2, CommandHistory DEF HistoryOK

\* A command keeps the types, and what it has in memory is sound.
LEMMA CommandTyped ==
  ASSUME TypeInv, NEW p \in Procs, Step(p) \/ CleanUp(p) \/ Crash(p)
  PROVE  TypeInv'
<1>1. OpsOK' /\ DiscardAsked'
  BY PlanMigrationOps, PlanOps, LoadOps, InspectLeftoverOps, CollectOps, InspectOps, HoldOps,
     PushOps, LoopOps DEF Step
<1> QED
  BY <1>1, StepVarsTyped, CommandHistoryTyped, TypeOKVars DEF TypeInv

\* So does the start of a command.
LEMMA BeginTyped ==
  ASSUME TypeInv, NEW p \in Procs, NEW c \in Cmds, NEW s \in Sessions, Begin(p, c, s)
  PROVE  TypeInv'
<1>1. OpsOK' /\ DiscardAsked'
  BY BeginOps
<1>2. VarsOK /\ MergesOK /\ givenUp' \subseteq Sessions
  BY TypeOKVars DEF TypeInv, VarsOK, Begin
<1>3. VarsOK' /\ MergesOK'
  BY <1>2 DEF Begin, VarsOK, MergesOK, sessionVars, baseVars
<1>4. HistoryOK'
  <2>1. HistoryOK
    BY TypeOKVars DEF TypeInv
  <2> QED
    BY <2>1 DEF Begin, HistoryOK
<1> QED
  BY <1>1, <1>3, <1>4, TypeOKVars DEF TypeInv

\* The types are inductive,
LEMMA NextTyped ==
  ASSUME TypeInv, [Next]_vars
  PROVE  TypeInv'
<1>1. CASE UNCHANGED vars
  <2>1. VarsOK /\ HistoryOK /\ MergesOK /\ OpsOK /\ DiscardAsked
    BY TypeOKVars DEF TypeInv
  <2>2. VarsOK' /\ HistoryOK' /\ MergesOK' /\ OpsOK' /\ DiscardAsked'
    BY <1>1, <2>1 DEF vars, sessionVars, baseVars, history, VarsOK, HistoryOK, MergesOK, OpsOK, DiscardAsked
  <2> QED
    BY <2>2, TypeOKVars DEF TypeInv
<1> QED
  BY <1>1, FirstPoints, BeginTyped, CommandTyped, OutsideTyped DEF Next

\* and hold initially, whichever sessions an older release left.
LEMMA InitTyped ==
  ASSUME Init
  PROVE  TypeInv
<1>1. PICK held \in SUBSET Sessions :
        /\ rec = [s \in Sessions |-> IF s \in held THEN Active("work") ELSE NoRecord]
        /\ tree = [s \in Sessions |-> [m \in Mounts |-> IF s \in held THEN "work" ELSE "none"]]
        /\ branch = tree
  BY DEF Init
<1>2. rec \in [Sessions -> Recs]
  BY <1>1, RecsTyped
<1>3. VarsOK
  BY <1>1, <1>2 DEF Init, VarsOK, Places, Contents
<1>4. OpsOK /\ DiscardAsked
  BY IdleTyped DEF Init, OpsOK, DiscardAsked, Sound, Migrating, Landing, Discarding
<1>5. HistoryOK
  BY DEF Init, HistoryOK
<1> QED
  BY <1>3, <1>4, <1>5, TypeOKVars DEF Init, MergesOK, TypeInv

\* The types of the variables and of what the commands have in memory, for any
\* number of commands at once.
THEOREM TypeInvariant ==
  Spec => []TypeInv
<1>1. Init => TypeInv
  BY InitTyped
<1>2. TypeInv /\ [Next]_vars => TypeInv'
  BY NextTyped
<1> QED
  BY <1>1, <1>2, PTL DEF Spec

\* The variables of WorkSession have their types.
THEOREM TypeCorrect ==
  Spec => []TypeOK
<1>1. TypeInv => TypeOK
  BY DEF TypeInv
<1> QED
  BY <1>1, TypeInvariant, PTL

-----------------------------------------------------------------------------
(* No work is lost, whatever overlaps *)

Kept(s, m, q) == q \in dirty[s][m] \/ q \in commits[s][m] \/ <<s, q>> \in base[m]

\* The step is no forced removal of session s.
NotForced(s) == \A p \in Procs : ForceRemove(p) \/ ForceBranch(p) => op[p].s # s

\* What a base checkout contains it keeps: it is only ever fast-forwarded to a
\* remote branch that contains it.
LEMMA BaseGrows ==
  ASSUME TypeInv, [Next]_vars, NEW m \in Mounts
  PROVE  base[m] \subseteq base'[m]
<1>b. base \in [Mounts -> Contents]
  BY TypeOKVars DEF TypeInv, VarsOK
<1>1. ASSUME NEW p \in Procs, Step(p)
      PROVE  base[m] \subseteq base'[m]
  <2>1. CASE Inspect(p)
    <3>1. base' = base \/ (base' = [base EXCEPT ![op[p].i] = remote[op[p].i]] /\ Ahead(op[p].i) = {})
      BY <2>1 DEF Inspect
    <3> QED
      BY <1>b, <3>1 DEF Ahead
  <2>2. CASE Merge(p)
    <3>1. base' = base \/ base' = [base EXCEPT ![op[p].i] = @ \cup Own(op[p].s, commits[op[p].s][op[p].i])]
      BY <2>2 DEF Merge
    <3> QED
      BY <1>b, <3>1
  <2>3. CASE Push(p)
    <3>1. base' = [base EXCEPT ![op[p].i] = base[op[p].i] \cup Committed(p, op[p].i)]
      BY <2>3 DEF Push
    <3> QED
      BY <1>b, <3>1
  <2>4. ASSUME ~Inspect(p), ~Merge(p), ~Push(p)
        PROVE  base' = base
    BY <1>1, <2>4 DEF Step, PlanMigration, RenameBranch, MoveWorktree, SaveMigrated, AddWorktree,
       SaveStarted, Plan, CommitDirty, RemoveWorktree, DeleteBranch, SaveLanded, Load, ForceRemove,
       ForceBranch, SaveDiscarded, InspectLeftover, CloseWorktree, Collect, Hold, MarkPublished,
       Report, baseVars
  <2> QED
    BY <2>1, <2>2, <2>3, <2>4
<1>2. ASSUME NEW p \in Procs, CleanUp(p) \/ Crash(p)
      PROVE  base' = base
  BY <1>2 DEF CleanUp, Crash, baseVars
<1>3. ASSUME NEW p \in Procs, NEW c \in DOMAIN First, NEW s \in Sessions, Begin(p, c, s)
      PROVE  base' = base
  BY <1>3 DEF Begin, baseVars
<1>4. ASSUME NEW s \in Sessions, NEW n \in Mounts,
             CommitSession(s, n) \/ \E q \in Paths : EditSession(s, n, q)
      PROVE  base' = base
  BY <1>4 DEF CommitSession, EditSession, baseVars
<1>5. ASSUME NEW n \in Mounts, NEW q \in Paths, EditBase(n, q) \/ OtherPushes(n, q)
      PROVE  base' = base
  BY <1>5 DEF EditBase, OtherPushes
<1>6. ASSUME NEW n \in Mounts, CommitBase(n)
      PROVE  base[m] \subseteq base'[m]
  BY <1>6, <1>b DEF CommitBase
<1>7. ASSUME NEW n \in Mounts, EndMerge(n)
      PROVE  base[m] \subseteq base'[m]
  BY <1>7, <1>b DEF EndMerge
<1>8. CASE UNCHANGED vars
  BY <1>8 DEF vars, baseVars
<1> QED
  BY <1>1, <1>2, <1>3, <1>4, <1>5, <1>6, <1>7, <1>8 DEF Next

\* A change that is in the worktree, on the branch or in the base stays in one
\* of them, unless a discard forces it away.
LEMMA KeptStays ==
  ASSUME TypeInv, [Next]_vars, NEW s \in Sessions, NEW m \in Mounts, NEW q,
         Kept(s, m, q), NotForced(s)
  PROVE  Kept(s, m, q)'
<1>1. base[m] \subseteq base'[m]
  BY BaseGrows
<1>c. commits \in [Sessions -> [Mounts -> SUBSET Paths]]
  BY TypeOKVars DEF TypeInv, VarsOK
<1>d. dirty \in [Sessions -> [Mounts -> SUBSET Paths]]
  BY TypeOKVars DEF TypeInv, VarsOK
<1>2. ASSUME NEW p \in Procs, CommitDirty(p)
      PROVE  Kept(s, m, q)'
  <2> DEFINE staged == {x \in dirty[op[p].s][op[p].i] : <<op[p].i, x>> \in op[p].plan}
  <2>1. \/ UNCHANGED <<dirty, commits>>
        \/ /\ dirty' = [dirty EXCEPT ![op[p].s][op[p].i] = @ \ staged]
           /\ commits' = [commits EXCEPT ![op[p].s][op[p].i] = @ \cup staged]
    BY <1>2 DEF CommitDirty
  <2> HIDE DEF staged
  <2>2. q \in dirty[s][m] => q \in dirty'[s][m] \/ q \in commits'[s][m]
    <3>1. CASE UNCHANGED <<dirty, commits>>
      BY <3>1
    <3>2. CASE /\ dirty' = [dirty EXCEPT ![op[p].s][op[p].i] = @ \ staged]
               /\ commits' = [commits EXCEPT ![op[p].s][op[p].i] = @ \cup staged]
      <4>1. CASE op[p].s = s /\ op[p].i = m
        <5>1. dirty'[s][m] = dirty[s][m] \ staged
          BY <1>d, <3>2, <4>1
        <5>2. commits'[s][m] = commits[s][m] \cup staged
          BY <1>c, <3>2, <4>1
        <5> QED
          BY <5>1, <5>2
      <4>2. CASE ~(op[p].s = s /\ op[p].i = m)
        BY <1>d, <3>2, <4>2
      <4> QED
        BY <4>1, <4>2
    <3> QED
      BY <2>1, <3>1, <3>2
  <2>3. q \in commits[s][m] => q \in commits'[s][m]
    BY <1>c, <2>1
  <2> QED
    BY <1>1, <2>2, <2>3 DEF Kept
<1>3. ASSUME NEW p \in Procs, DeleteBranch(p)
      PROVE  Kept(s, m, q)'
  <2>1. \/ commits' = commits
        \/ /\ commits' = [commits EXCEPT ![op[p].s][op[p].i] = {}]
           /\ Incoming(op[p].s, op[p].i) = {}
    BY <1>3 DEF DeleteBranch
  <2>2. dirty' = dirty
    BY <1>3 DEF DeleteBranch
  <2> QED
    BY <1>1, <1>c, <2>1, <2>2 DEF Kept, Incoming
<1>4. ASSUME NEW p \in Procs, ForceRemove(p) \/ ForceBranch(p)
      PROVE  Kept(s, m, q)'
  <2>1. op[p].s # s
    BY <1>4 DEF NotForced
  <2>2. commits' = commits \/ commits' = [commits EXCEPT ![op[p].s][op[p].i] = {}]
    BY <1>4 DEF ForceRemove, ForceBranch
  <2>3. dirty' = dirty \/ dirty' = [dirty EXCEPT ![op[p].s][op[p].i] = {}]
    BY <1>4 DEF ForceRemove, ForceBranch
  <2>4. commits'[s] = commits[s] /\ dirty'[s] = dirty[s]
    BY <1>c, <1>d, <2>1, <2>2, <2>3
  <2> QED
    BY <1>1, <2>4 DEF Kept
<1>5. ASSUME NEW r \in Sessions, NEW n \in Mounts, CommitSession(r, n)
      PROVE  Kept(s, m, q)'
  <2>1. dirty' = [dirty EXCEPT ![r][n] = {}] /\ commits' = [commits EXCEPT ![r][n] = @ \cup dirty[r][n]]
    BY <1>5 DEF CommitSession
  <2> QED
    BY <1>1, <1>c, <1>d, <2>1 DEF Kept
<1>6. ASSUME NEW r \in Sessions, NEW n \in Mounts, NEW x \in Paths, EditSession(r, n, x)
      PROVE  Kept(s, m, q)'
  <2>1. dirty' = [dirty EXCEPT ![r][n] = @ \cup {x}] /\ commits' = commits
    BY <1>6 DEF EditSession
  <2> QED
    BY <1>1, <1>c, <1>d, <2>1 DEF Kept
<1>7. CASE UNCHANGED <<dirty, commits>>
  BY <1>1, <1>7 DEF Kept
<1>8. ASSUME NEW p \in Procs, Step(p),
             ~CommitDirty(p), ~DeleteBranch(p), ~ForceRemove(p), ~ForceBranch(p)
      PROVE  UNCHANGED <<dirty, commits>>
  BY <1>8 DEF Step, PlanMigration, RenameBranch, MoveWorktree, SaveMigrated, AddWorktree,
     SaveStarted, Plan, Merge, RemoveWorktree, SaveLanded, Load, SaveDiscarded, InspectLeftover,
     CloseWorktree, Collect, Inspect, Hold, Push, MarkPublished, Report, sessionVars
<1>9. ASSUME \/ \E p \in Procs, c \in DOMAIN First, r \in Sessions : Begin(p, c, r)
             \/ \E p \in Procs : CleanUp(p) \/ Crash(p)
             \/ \E n \in Mounts : CommitBase(n) \/ EndMerge(n)
             \/ \E n \in Mounts, x \in Paths : EditBase(n, x) \/ OtherPushes(n, x)
             \/ UNCHANGED vars
      PROVE  UNCHANGED <<dirty, commits>>
  BY <1>9 DEF Begin, CleanUp, Crash, CommitBase, EndMerge, EditBase, OtherPushes, sessionVars, vars
<1> QED
  BY <1>2, <1>3, <1>4, <1>5, <1>6, <1>7, <1>8, <1>9 DEF Next

\* Only an edit in a worktree makes a change, and it is in the worktree then.
LEMMA MadeStep ==
  ASSUME TypeInv, [Next]_vars, NEW s \in Sessions, NEW m \in Mounts, NEW q \in made'[s][m]
  PROVE  \/ q \in made[s][m]
         \/ /\ q \in dirty'[s][m] /\ tree[s][m] # "none" /\ rec[s].status # "none"
            /\ UNCHANGED <<rec, tree, branch, commits, fork, baseVars, op>>
<1>d. dirty \in [Sessions -> [Mounts -> SUBSET Paths]]
  BY TypeOKVars DEF TypeInv, VarsOK
<1>m. made \in [Sessions -> [Mounts -> SUBSET Paths]]
  BY TypeOKVars DEF TypeInv, VarsOK
<1>1. CASE made' = made
  BY <1>1
<1>2. ASSUME NEW r \in Sessions, NEW n \in Mounts, NEW x \in Paths, EditSession(r, n, x)
      PROVE  \/ q \in made[s][m]
             \/ /\ q \in dirty'[s][m] /\ tree[s][m] # "none" /\ rec[s].status # "none"
                /\ UNCHANGED <<rec, tree, branch, commits, fork, baseVars, op>>
  <2>1. dirty' = [dirty EXCEPT ![r][n] = @ \cup {x}] /\ made' = [made EXCEPT ![r][n] = @ \cup {x}]
    BY <1>2 DEF EditSession
  <2>2. q \in made[s][m] \/ (s = r /\ m = n /\ q = x)
    BY <1>m, <2>1
  <2>3. CASE s = r /\ m = n /\ q = x
    <3>1. q \in dirty'[s][m]
      BY <1>d, <2>1, <2>3
    <3> QED
      BY <1>2, <2>3, <3>1 DEF EditSession
  <2> QED
    BY <2>2, <2>3
<1>3. ASSUME NEW p \in Procs, Step(p)
      PROVE  made' = made
  BY <1>3 DEF Step, PlanMigration, RenameBranch, MoveWorktree, SaveMigrated, AddWorktree,
     SaveStarted, Plan, CommitDirty, Merge, RemoveWorktree, DeleteBranch, SaveLanded, Load,
     ForceRemove, ForceBranch, SaveDiscarded, InspectLeftover, CloseWorktree, Collect, Inspect,
     Hold, Push, MarkPublished, Report, history
<1>4. ASSUME \/ \E p \in Procs, c \in DOMAIN First, r \in Sessions : Begin(p, c, r)
             \/ \E p \in Procs : CleanUp(p) \/ Crash(p)
             \/ \E r \in Sessions, n \in Mounts : CommitSession(r, n)
             \/ \E n \in Mounts : CommitBase(n) \/ EndMerge(n)
             \/ \E n \in Mounts, x \in Paths : EditBase(n, x) \/ OtherPushes(n, x)
             \/ UNCHANGED vars
      PROVE  made' = made
  BY <1>4 DEF Begin, CleanUp, Crash, CommitSession, CommitBase, EndMerge, EditBase, OtherPushes,
     history, vars
<1> QED
  BY <1>1, <1>2, <1>3, <1>4 DEF Next

\* Nobody takes back that a session was to be discarded.
LEMMA GivenUpGrows ==
  ASSUME [Next]_vars
  PROVE  givenUp \subseteq givenUp'
<1>1. ASSUME NEW p \in Procs, Step(p)
      PROVE  givenUp' = givenUp
  BY <1>1 DEF Step, PlanMigration, RenameBranch, MoveWorktree, SaveMigrated, AddWorktree,
     SaveStarted, Plan, CommitDirty, Merge, RemoveWorktree, DeleteBranch, SaveLanded, Load,
     ForceRemove, ForceBranch, SaveDiscarded, InspectLeftover, CloseWorktree, Collect, Inspect,
     Hold, Push, MarkPublished, Report, history
<1>2. ASSUME ~\E p \in Procs : Step(p)
      PROVE  givenUp \subseteq givenUp'
  BY <1>2 DEF Next, Begin, CleanUp, Crash, CommitSession, EditSession, CommitBase, EndMerge,
     EditBase, OtherPushes, history, vars
<1> QED
  BY <1>1, <1>2

\* WorkKept with Kept: no change made in a session's worktree is lost, wherever
\* a landing stops and whatever else runs, unless somebody asked to discard it.
LEMMA WorkKeptStep ==
  ASSUME TypeInv, WorkKept, [Next]_vars
  PROVE  WorkKept'
<1> SUFFICES ASSUME NEW s \in Sessions, s \notin givenUp', NEW m \in Mounts, NEW q \in made'[s][m]
             PROVE  Kept(s, m, q)'
  BY DEF WorkKept, Kept
<1>1. s \notin givenUp
  BY GivenUpGrows
<1>2. NotForced(s)
  BY <1>1 DEF NotForced, ForceRemove, ForceBranch, TypeInv, OpsOK, Sound, DiscardAsked, Discarding
<1>3. CASE q \in made[s][m]
  <2>1. Kept(s, m, q)
    BY <1>1, <1>3 DEF WorkKept, Kept
  <2> QED
    BY <1>2, <2>1, KeptStays
<1>4. CASE q \in dirty'[s][m]
  BY <1>4 DEF Kept
<1> QED
  BY <1>3, <1>4, MadeStep

\* No change made in a session's worktree is lost, for any number of commands
\* that overlap and any crash between two calls: it is uncommitted in the
\* worktree, on the branch or in the base, unless the session was to be
\* discarded.
THEOREM WorkIsKept ==
  Spec => []WorkKept
<1>1. Init => WorkKept
  BY DEF Init, WorkKept
<1>2. TypeInv /\ WorkKept /\ [Next]_vars => WorkKept'
  BY WorkKeptStep
<1> QED
  BY <1>1, <1>2, TypeInvariant, PTL DEF Spec

-----------------------------------------------------------------------------
(* What commands promise of the sessions that no two worked on at once *)

\* A record is of an active session only with a place in every mount, of a
\* session that changed nothing before it exists, and published only finished.
RecordsOK ==
  \A s \in Sessions \ shared :
    /\ rec[s].status = "active" => \A m \in Mounts : rec[s].at[m] # "none"
    /\ rec[s].status = "none" => \A m \in Mounts : made[s][m] = {}
    /\ rec[s].outcome = "published" => rec[s].status = "finished"

\* Changes are lost only where the worktree is gone: a discard starts with it.
LostOnlyWithTree ==
  \A s \in Sessions \ shared, m \in Mounts : \A q \in made[s][m] :
    Kept(s, m, q) \/ tree[s][m] = "none"

\* Only `start` makes worktrees, and only of a session that has no record.
StartsNew(p) ==
  /\ op[p].cmd = "start" => /\ op[p].at \in {"migrate", "add", "started"}
                            /\ rec[op[p].s].status = "none"
  /\ op[p].at \in Starting => op[p].cmd = "start"

\* The record a command read is the record that is saved.
ReadsCurrent(p) ==
  op[p].at \in Migrating \cup Landing \cup Discarding =>
    op[p].copy = rec[op[p].s] /\ rec[op[p].s].status = "active"

\* A landing or a discard starts at the first mount; where a migration stopped
\* early the mount it stopped at keeps the landing from its plan.
StartsFirst(p) ==
  /\ op[p].at \in {"migrate", "migrated"} => op[p].i = 1
  /\ op[p].at = "plan" => \/ op[p].i = 1 \/ tree[op[p].s][op[p].i] = "none"
                          \/ branch[op[p].s][op[p].i] = "none"

\* While a landing runs no change of the session is lost, and the mounts it has
\* passed have neither worktree nor branch.
Gone(s, m) == /\ tree[s][m] = "none" /\ branch[s][m] = "none"
              /\ dirty[s][m] = {} /\ commits[s][m] = {}
LandsAll(p) ==
  op[p].at \in Landing =>
    /\ \A m \in Mounts : \A q \in made[op[p].s][m] : Kept(op[p].s, m, q)
    /\ \A m \in Mounts : m < op[p].i \/ op[p].at = "landed" => Gone(op[p].s, m)
    /\ op[p].at = "delete" => /\ tree[op[p].s][op[p].i] = "none"
                              /\ dirty[op[p].s][op[p].i] = {}
RemovesFirst(p) == op[p].at = "forget" => tree[op[p].s][op[p].i] = "none"

\* `publish` syncs a finished session, and while every mount so far was pushed
\* or had landed before, those mounts' remotes have all changes of the session.
Publishes(p) ==
  /\ op[p].cmd = "publish" /\ op[p].at \in Syncing => rec[op[p].s].status = "finished"
  /\ op[p].at = "mark" => op[p].cmd = "publish"
  /\ op[p].cmd = "publish" /\ op[p].ok /\ op[p].at \in {"inspect", "push", "mark"} =>
       \A m \in Mounts : m < op[p].i \/ op[p].at = "mark" =>
         Own(op[p].s, made[op[p].s][m]) \subseteq remote[m]

\* The conflicts of active sessions that a sync could see when it collected what
\* is held are among the paths it holds back, and what it goes on to commit is not.
HoldsActive(p) ==
  /\ op[p].at \in {"inspect", "hold", "push"} =>
       \A m \in Mounts : (/\ merging[m] # NoMerge /\ merging[m].s \notin shared
                           /\ <<p, m>> \notin late /\ rec[merging[m].s].status = "active") =>
         \A q \in merging[m].clash : <<m, q>> \in op[p].plan
  /\ op[p].at = "push" => \A q \in op[p].seen : <<op[p].i, q>> \notin op[p].plan

\* A merge that stopped in conflict: the branch has the paths in conflict, and
\* the base does not, until the branch is deleted.
MergesOpen ==
  \A m \in Mounts : merging[m] # NoMerge /\ merging[m].s \notin shared =>
    /\ rec[merging[m].s].status # "none" /\ merging[m].clash # {}
    /\ \/ branch[merging[m].s][m] = "none"
       \/ \A q \in merging[m].clash : /\ q \in commits[merging[m].s][m]
                                      /\ <<merging[m].s, q>> \notin base[m]

\* Sessions' changes and conflict markers reach a remote through the base only.
RemotesFollow ==
  \A m \in Mounts : \A c \in remote[m] : c[1] \in Sessions \cup {"markers"} => c \in base[m]

Orderly(p) == /\ StartsNew(p) /\ ReadsCurrent(p) /\ StartsFirst(p)
              /\ LandsAll(p) /\ RemovesFirst(p) /\ Publishes(p)

\* A sync works on no session, and a session that two commands are at work on
\* is shared.
SyncPoints == {"idle", "collect", "inspect", "hold", "push", "report"}
SyncsOnly(p) == op[p].cmd = "sync" => op[p].at \in SyncPoints
AtWork(p) == op[p].at # "idle" /\ op[p].cmd # "sync"
Apart ==
  \A p, q \in Procs : p # q /\ AtWork(p) /\ AtWork(q) /\ op[p].s = op[q].s => op[p].s \in shared

SessionsInv ==
  /\ RecordsOK /\ LostOnlyWithTree /\ MergesOpen /\ RemotesFollow /\ Apart
  /\ \A p \in Procs : /\ op[p].s \notin shared => Orderly(p)
                      /\ SyncsOnly(p) /\ HoldsActive(p)
  /\ FinishedMeansLanded /\ PublishedMeansPushed

-----------------------------------------------------------------------------
(* Where a step leads *)

Moves(p, x) == SameJob(p) /\ op'[p].at = x /\ op'[p].i = op[p].i
Passes(p, x, y) ==
  /\ SameJob(p)
  /\ \/ op[p].i < Last /\ op'[p].at = x /\ op'[p].i = op[p].i + 1
     \/ op[p].i >= Last /\ op'[p].at = y /\ op'[p].i = 1

\* A jump moves.
LEMMA GotoMoves ==
  ASSUME TypeInv, NEW p \in Procs, NEW x, Goto(p, x)
  PROVE  Moves(p, x)
<1>1. op \in [Procs -> Ops]
  BY DEF TypeInv, OpsOK
<1> QED
  BY <1>1 DEF Goto, Moves, SameJob, Ops

\* The end of a mount's turn passes.
LEMMA NextMountPasses ==
  ASSUME TypeInv, NEW p \in Procs, NEW x, NEW y, NextMount(p, x, y)
  PROVE  Passes(p, x, y)
<1>1. op \in [Procs -> Ops]
  BY DEF TypeInv, OpsOK
<1>2. op[p].i \in Nat /\ Last \in Nat
  BY <1>1, ConstantsAssumption DEF Ops
<1> DEFINE z == IF op[p].i < Last THEN x ELSE y
           k == IF op[p].i < Last THEN op[p].i + 1 ELSE 1
           o == [op[p] EXCEPT !.i = k, !.at = z]
<1>3. op' = [op EXCEPT ![p] = o]
  BY <1>1 DEF NextMount, Ops
<1> HIDE DEF z, k
<1>4. /\ o.at = z /\ o.cmd = op[p].cmd /\ o.s = op[p].s /\ o.i = k
      /\ o.copy = op[p].copy /\ o.plan = op[p].plan /\ o.seen = op[p].seen /\ o.ok = op[p].ok
  BY <1>1 DEF Ops
<1> HIDE DEF o
<1>5. op'[p] = o
  BY <1>1, <1>3
<1>6. SameJob(p) /\ op'[p].at = z /\ op'[p].i = k
  BY <1>4, <1>5 DEF SameJob
<1> QED
  BY <1>2, <1>6 DEF Passes, z, k

\* Where each step of a command leads, the early returns apart.
LEMMA StepLeads ==
  ASSUME TypeInv, NEW p \in Procs
  PROVE  /\ RenameBranch(p) => \/ Moves(p, "move")
                               \/ branch[op[p].s][op[p].i] = "none" /\ Moves(p, AfterMigration[op[p].cmd])
         /\ MoveWorktree(p) => \/ Passes(p, "rename", "migrated")
                               \/ tree[op[p].s][op[p].i] = "none" /\ Moves(p, AfterMigration[op[p].cmd])
         /\ SaveMigrated(p) => Moves(p, AfterMigration[op[p].cmd])
         /\ AddWorktree(p) => Passes(p, "add", "started")
         /\ CommitDirty(p) => Quit(p) \/ Moves(p, "merge")
         /\ Merge(p) => Quit(p) \/ Moves(p, "remove")
         /\ RemoveWorktree(p) => Quit(p) \/ Moves(p, "delete")
         /\ DeleteBranch(p) => Quit(p) \/ Passes(p, "commit", "landed")
         /\ SaveLanded(p) => Quit(p) \/ (op[p].cmd = "publish" /\ Moves(p, "collect"))
         /\ ForceRemove(p) => Quit(p) \/ (Moves(p, "forget") /\ tree' = [tree EXCEPT ![op[p].s][op[p].i] = "none"])
         /\ ForceBranch(p) => Quit(p) \/ Passes(p, "force", "discarded")
         /\ SaveStarted(p) \/ SaveDiscarded(p) \/ CloseWorktree(p) \/ MarkPublished(p) \/ Report(p)
              \/ CleanUp(p) \/ Crash(p) => Quit(p)
<1>2. RenameBranch(p) => \/ Moves(p, "move")
                         \/ branch[op[p].s][op[p].i] = "none" /\ Moves(p, AfterMigration[op[p].cmd])
  BY GotoMoves DEF RenameBranch
<1>3. MoveWorktree(p) => \/ Passes(p, "rename", "migrated")
                         \/ tree[op[p].s][op[p].i] = "none" /\ Moves(p, AfterMigration[op[p].cmd])
  BY GotoMoves, NextMountPasses DEF MoveWorktree
<1>4. SaveMigrated(p) => Moves(p, AfterMigration[op[p].cmd])
  BY GotoMoves DEF SaveMigrated
<1>5. AddWorktree(p) => Passes(p, "add", "started")
  BY NextMountPasses DEF AddWorktree
<1>6. /\ CommitDirty(p) => Quit(p) \/ Moves(p, "merge")
      /\ Merge(p) => Quit(p) \/ Moves(p, "remove")
      /\ RemoveWorktree(p) => Quit(p) \/ Moves(p, "delete")
  BY GotoMoves DEF CommitDirty, Merge, RemoveWorktree
<1>7. /\ DeleteBranch(p) => Quit(p) \/ Passes(p, "commit", "landed")
      /\ ForceBranch(p) => Quit(p) \/ Passes(p, "force", "discarded")
  BY NextMountPasses DEF DeleteBranch, ForceBranch
<1>8. /\ SaveLanded(p) => Quit(p) \/ (op[p].cmd = "publish" /\ Moves(p, "collect"))
      /\ ForceRemove(p) => Quit(p) \/ (Moves(p, "forget") /\ tree' = [tree EXCEPT ![op[p].s][op[p].i] = "none"])
  BY GotoMoves DEF SaveLanded, ForceRemove
<1>9. SaveStarted(p) \/ SaveDiscarded(p) \/ CloseWorktree(p) \/ MarkPublished(p) \/ Report(p)
        \/ CleanUp(p) \/ Crash(p) => Quit(p)
  BY DEF SaveStarted, SaveDiscarded, CloseWorktree, MarkPublished, Report, CleanUp, Crash
<1> QED
  BY <1>2, <1>3, <1>4, <1>5, <1>6, <1>7, <1>8, <1>9

-----------------------------------------------------------------------------
(* The step of a command *)

\* A step of command p that leaves the registry alone.
Registry(p) == SaveMigrated(p) \/ SaveStarted(p) \/ SaveLanded(p) \/ SaveDiscarded(p) \/ MarkPublished(p)

\* No other step of a command writes it.
LEMMA RegistryKept ==
  ASSUME NEW p \in Procs, Step(p) \/ CleanUp(p) \/ Crash(p), ~Registry(p)
  PROVE  rec' = rec
BY DEF Registry, Step, PlanMigration, RenameBranch, MoveWorktree, AddWorktree, Plan, CommitDirty,
   Merge, RemoveWorktree, DeleteBranch, Load, ForceRemove, ForceBranch, InspectLeftover,
   CloseWorktree, Collect, Inspect, Hold, Push, Report, CleanUp, Crash, sessionVars

\* A command that has ended promises nothing.
LEMMA IdleHolds ==
  ASSUME NEW p \in Procs, op'[p] = Idle
  PROVE  /\ StartsNew(p)' /\ ReadsCurrent(p)' /\ StartsFirst(p)' /\ LandsAll(p)'
         /\ RemovesFirst(p)' /\ Publishes(p)' /\ HoldsActive(p)'
<1>1. op'[p].at = "idle" /\ op'[p].cmd = "none"
  BY IdleTyped
<1> QED
  BY <1>1 DEF StartsNew, ReadsCurrent, StartsFirst, LandsAll, RemovesFirst, Publishes, HoldsActive,
     Starting, Migrating, Landing, Discarding, Syncing

\* What a command has in memory of its session: the record it read is current.
LEMMA CommandReads ==
  ASSUME TypeInv, NEW p \in Procs, StartsNew(p), ReadsCurrent(p), StartsFirst(p),
         Step(p) \/ CleanUp(p) \/ Crash(p)
  PROVE  StartsNew(p)' /\ ReadsCurrent(p)' /\ StartsFirst(p)'
<1> USE DEF StartsNew, ReadsCurrent, StartsFirst
<1>0. CASE Quit(p)
  <2>1. op'[p] = Idle
    BY <1>0 DEF Quit, TypeInv, OpsOK
  <2> QED
    BY <2>1, IdleHolds
<1>1. CASE PlanMigration(p)
  <2>1. op[p].at = "migrate" /\ op[p].cmd \in SessionCmds /\ rec' = rec
    BY <1>1 DEF PlanMigration, TypeInv, OpsOK, Sound, sessionVars
  <2>2. AfterMigration[op[p].cmd] \in {"idle", "add", "plan", "load"}
        /\ (AfterMigration[op[p].cmd] = "add" <=> op[p].cmd = "start")
    BY <2>1, NextPoints
  <2>3. /\ op'[p].cmd = op[p].cmd /\ op'[p].s = op[p].s /\ op'[p].i = op[p].i
        /\ op'[p].copy = rec[op[p].s]
        /\ \/ op'[p].at = "rename" /\ Legacy(op[p].s)
           \/ op'[p].at = AfterMigration[op[p].cmd]
    BY <1>1, PlanMigrationOps
  <2>4. CASE op'[p].at = "rename" /\ rec[op[p].s].status = "active"
    BY <2>1, <2>3, <2>4 DEF Starting, Migrating, Landing, Discarding
  <2>5. CASE op'[p].at = AfterMigration[op[p].cmd]
    BY <2>1, <2>2, <2>3, <2>5 DEF Starting, Migrating, Landing, Discarding
  <2> QED
    BY <2>3, <2>4, <2>5 DEF Legacy
<1>2. CASE RenameBranch(p) \/ MoveWorktree(p)
  <2>1. /\ op[p].at \in {"rename", "move"} /\ op[p].cmd \in SessionCmds /\ op[p].cmd # "start"
        /\ rec' = rec /\ op[p].at \in Migrating
    BY <1>2 DEF RenameBranch, MoveWorktree, TypeInv, OpsOK, Sound, Migrating
  <2>2. AfterMigration[op[p].cmd] \in {"idle", "plan", "load"}
    BY <2>1, NextPoints
  <2>3. /\ op'[p].cmd = op[p].cmd /\ op'[p].s = op[p].s /\ op'[p].copy = op[p].copy
        /\ \/ op'[p].at \in {"move", "rename"} \/ (op'[p].at = "migrated" /\ op'[p].i = 1)
           \/ /\ op'[p].at = AfterMigration[op[p].cmd] /\ op'[p].i = op[p].i
              /\ UNCHANGED <<tree, branch>>
              /\ tree[op[p].s][op[p].i] = "none" \/ branch[op[p].s][op[p].i] = "none"
    <3>1. CASE RenameBranch(p)
      <4>1. CASE branch[op[p].s][op[p].i] = "none"
        BY <3>1, <4>1, StepLeads DEF RenameBranch, Moves, SameJob
      <4>2. CASE branch[op[p].s][op[p].i] # "none"
        BY <3>1, <4>2, StepLeads DEF Moves, SameJob
      <4> QED
        BY <4>1, <4>2
    <3>2. CASE MoveWorktree(p)
      <4>1. CASE tree[op[p].s][op[p].i] = "none"
        BY <3>2, <4>1, GotoMoves DEF MoveWorktree, Moves, SameJob
      <4>2. CASE tree[op[p].s][op[p].i] # "none"
        BY <3>2, <4>2, StepLeads DEF Moves, Passes, SameJob
      <4> QED
        BY <4>1, <4>2
    <3> QED
      BY <1>2, <3>1, <3>2
  <2> QED
    BY <2>1, <2>2, <2>3 DEF Starting, Migrating, Landing, Discarding
<1>3. CASE SaveMigrated(p)
  <2>1. op[p].at = "migrated" /\ op[p].cmd \in SessionCmds /\ op[p].cmd # "start" /\ op[p].i = 1
    BY <1>3 DEF SaveMigrated, TypeInv, OpsOK, Sound, Migrating
  <2>2. AfterMigration[op[p].cmd] \in {"idle", "plan", "load"}
    BY <2>1, NextPoints
  <2>3. op'[p].cmd = op[p].cmd /\ op'[p].at = AfterMigration[op[p].cmd] /\ op'[p].i = 1
    BY <1>3, <2>1, StepLeads DEF Moves, SameJob
  <2> QED
    BY <2>1, <2>2, <2>3 DEF Starting, Migrating, Landing, Discarding
<1>4. CASE AddWorktree(p)
  <2>1. op[p].at = "add" /\ op[p].cmd = "start" /\ rec' = rec
    BY <1>4 DEF AddWorktree, Starting
  <2>2. op'[p].cmd = op[p].cmd /\ op'[p].s = op[p].s /\ op'[p].at \in {"add", "started"}
    BY <1>4, StepLeads DEF Passes, SameJob
  <2> QED
    BY <2>1, <2>2 DEF Starting, Migrating, Landing, Discarding
<1>5. CASE (Plan(p) \/ Load(p)) /\ ~Quit(p)
  <2>1. op[p].at \in {"plan", "load"} /\ op[p].cmd # "start" /\ rec' = rec
    BY <1>5 DEF Plan, Load, sessionVars
  <2>2. \/ op'[p] = Idle
        \/ /\ op'[p].cmd = op[p].cmd /\ op'[p].s = op[p].s /\ op'[p].at \in {"commit", "force"}
           /\ op'[p].copy = rec[op[p].s] /\ rec[op[p].s].status = "active"
    BY <1>5, PlanOps, LoadOps
  <2>3. CASE op'[p] # Idle
    BY <2>1, <2>2, <2>3 DEF Starting, Migrating, Landing, Discarding
  <2> QED
    BY <2>3, IdleHolds
<1>6. CASE /\ CommitDirty(p) \/ Merge(p) \/ RemoveWorktree(p) \/ DeleteBranch(p) \/ ForceRemove(p)
              \/ ForceBranch(p)
           /\ ~Quit(p)
  <2>1. /\ op[p].at \in Landing \cup Discarding /\ rec' = rec /\ op[p].cmd # "start"
    BY <1>6 DEF CommitDirty, Merge, RemoveWorktree, DeleteBranch, ForceRemove, ForceBranch,
       Landing, Discarding, sessionVars
  <2>2. /\ op'[p].cmd = op[p].cmd /\ op'[p].s = op[p].s /\ op'[p].copy = op[p].copy
        /\ op'[p].at \in Landing \cup Discarding
    BY <1>6, StepLeads DEF Passes, Moves, SameJob, Landing, Discarding
  <2> QED
    BY <2>1, <2>2 DEF Starting, Migrating, Landing, Discarding
<1>7. CASE SaveLanded(p) /\ ~Quit(p)
  <2>1. op'[p].cmd = "publish" /\ op'[p].at = "collect"
    BY <1>7, StepLeads DEF Moves, SameJob
  <2> QED
    BY <2>1 DEF Starting, Migrating, Landing, Discarding
<1>8. CASE InspectLeftover(p) \/ Collect(p) \/ Inspect(p) \/ Hold(p) \/ Push(p)
  <2>1. op[p].at \in {"close", "collect", "inspect", "hold", "push"} /\ op[p].cmd # "start"
    BY <1>8 DEF InspectLeftover, Collect, Inspect, Hold, Push
  <2>2. \/ op'[p] = Idle
        \/ op'[p].cmd = op[p].cmd /\ op'[p].at \in {"close clean"} \cup Syncing
    <3>1. CASE InspectLeftover(p)
      BY <3>1, InspectLeftoverOps
    <3>2. CASE Collect(p)
      BY <3>2, CollectOps DEF Syncing
    <3>3. CASE Inspect(p)
      <4>1. SyncNext(p) => op'[p].at \in {"inspect", "mark", "report"}
        BY <3>3, NextMountPasses DEF SyncNext, Passes
      <4> QED
        BY <3>3, <4>1, InspectOps DEF Syncing
    <3>4. CASE Hold(p)
      BY <3>4, HoldOps DEF SyncEnd, Syncing
    <3>5. CASE Push(p)
      <4>1. SyncNext(p) => op'[p].at \in {"inspect", "mark", "report"}
        BY NextMountPasses DEF SyncNext, Passes
      <4> QED
        BY <3>5, <4>1, PushOps DEF Syncing, SameJob
    <3> QED
      BY <1>8, <3>1, <3>2, <3>3, <3>4, <3>5
  <2>3. CASE op'[p] # Idle
    BY <2>1, <2>2, <2>3 DEF Starting, Migrating, Landing, Discarding, Syncing
  <2> QED
    BY <2>3, IdleHolds
<1> QED
  BY <1>0, <1>1, <1>2, <1>3, <1>4, <1>5, <1>6, <1>7, <1>8, StepLeads DEF Step

\* Only `start` makes a worktree or a branch where there is none.
LEMMA NoNewTree ==
  ASSUME TypeInv, NEW p \in Procs, Step(p) \/ CleanUp(p) \/ Crash(p), NEW r \in Sessions, NEW m \in Mounts,
         ~(op[p].at \in Starting /\ op[p].s = r)
  PROVE  /\ tree[r][m] = "none" => tree'[r][m] = "none"
         /\ branch[r][m] = "none" => branch'[r][m] = "none"
<1>t. tree \in [Sessions -> [Mounts -> Places]]
  BY TypeOKVars DEF TypeInv, VarsOK
<1>b. branch \in [Sessions -> [Mounts -> Places]]
  BY TypeOKVars DEF TypeInv, VarsOK
<1>1. CASE AddWorktree(p) \/ CleanUp(p)
  <2>1. op[p].at \in Starting
    BY <1>1 DEF AddWorktree, CleanUp, Starting
  <2>2. op[p].s # r
    BY <2>1
  <2>3. CASE AddWorktree(p)
    BY <1>t, <1>b, <2>2, <2>3 DEF AddWorktree
  <2>4. CASE CleanUp(p)
    <3> DEFINE cleaned == [n \in Mounts |-> IF n < op[p].i \/ op[p].at = "started" THEN "none"
                                           ELSE tree[op[p].s][n]]
    <3>1. tree' = [tree EXCEPT ![op[p].s] = cleaned] /\ branch' = [branch EXCEPT ![op[p].s] = cleaned]
      BY <2>4 DEF CleanUp
    <3> HIDE DEF cleaned
    <3> QED
      BY <1>t, <1>b, <2>2, <3>1
  <2> QED
    BY <1>1, <2>3, <2>4
<1>2. CASE RenameBranch(p)
  <2>1. tree' = tree
    BY <1>2 DEF RenameBranch
  <2>2. \/ branch' = branch
        \/ branch[op[p].s][op[p].i] # "none" /\ branch' = [branch EXCEPT ![op[p].s][op[p].i] = "sessions"]
    BY <1>2 DEF RenameBranch
  <2> QED
    BY <1>b, <2>1, <2>2
<1>3. CASE MoveWorktree(p)
  <2>1. branch' = branch
    BY <1>3 DEF MoveWorktree
  <2>2. \/ tree' = tree
        \/ tree[op[p].s][op[p].i] # "none" /\ tree' = [tree EXCEPT ![op[p].s][op[p].i] = "sessions"]
    BY <1>3 DEF MoveWorktree
  <2> QED
    BY <1>t, <2>1, <2>2
<1>4. CASE RemoveWorktree(p) \/ CloseWorktree(p) \/ ForceRemove(p)
  <2>1. branch' = branch
    BY <1>4 DEF RemoveWorktree, CloseWorktree, ForceRemove
  <2>2. tree' = tree \/ tree' = [tree EXCEPT ![op[p].s][op[p].i] = "none"]
    BY <1>4 DEF RemoveWorktree, CloseWorktree, ForceRemove, RemoveClean
  <2> QED
    BY <1>t, <2>1, <2>2
<1>5. CASE DeleteBranch(p) \/ ForceBranch(p)
  <2>1. tree' = tree
    BY <1>5 DEF DeleteBranch, ForceBranch
  <2>2. branch' = branch \/ branch' = [branch EXCEPT ![op[p].s][op[p].i] = "none"]
    BY <1>5 DEF DeleteBranch, ForceBranch
  <2> QED
    BY <1>b, <2>1, <2>2
<1>6. CASE UNCHANGED <<tree, branch>>
  BY <1>6
<1> QED
  BY <1>1, <1>2, <1>3, <1>4, <1>5, <1>6 DEF Step, PlanMigration, SaveMigrated, SaveStarted, Plan,
     CommitDirty, Merge, SaveLanded, Load, SaveDiscarded, InspectLeftover, Collect, Inspect, Hold,
     Push, MarkPublished, Report, Crash, sessionVars

\* A command saves no record but that of its session.
LEMMA RegistryElsewhere ==
  ASSUME TypeInv, NEW p \in Procs, Step(p) \/ CleanUp(p) \/ Crash(p), NEW r \in Sessions, r # op[p].s
  PROVE  rec'[r] = rec[r]
<1>r. rec \in [Sessions -> Recs]
  BY TypeOKVars DEF TypeInv, VarsOK
<1>1. CASE ~Registry(p)
  BY <1>1, RegistryKept
<1>2. CASE Registry(p)
  <2>1. rec' = rec \/ \E v : rec' = [rec EXCEPT ![op[p].s] = v]
    <3>1. CASE SaveMigrated(p)
      BY <3>1 DEF SaveMigrated
    <3>2. CASE SaveStarted(p)
      BY <3>2 DEF SaveStarted
    <3>3. CASE SaveLanded(p)
      BY <3>3 DEF SaveLanded
    <3>4. CASE SaveDiscarded(p)
      BY <3>4 DEF SaveDiscarded
    <3>5. CASE MarkPublished(p)
      BY <3>5, <1>r DEF MarkPublished, TypeInv, OpsOK, Sound
    <3> QED
      BY <1>2, <3>1, <3>2, <3>3, <3>4, <3>5 DEF Registry
  <2> QED
    BY <1>r, <2>1
<1> QED
  BY <1>1, <1>2

\* What the steps that save do to the record of their session.
LEMMA RegistrySaves ==
  ASSUME TypeInv, NEW p \in Procs, ReadsCurrent(p), Registry(p)
  PROVE  /\ op[p].s \in Sessions /\ \A r \in Sessions \ {op[p].s} : rec'[r] = rec[r]
         /\ SaveMigrated(p) => /\ rec[op[p].s].status = "active" /\ rec'[op[p].s].status = "active"
                               /\ rec'[op[p].s].outcome = rec[op[p].s].outcome
                               /\ \A m \in Mounts : rec'[op[p].s].at[m] = "sessions"
         /\ SaveStarted(p) => /\ rec'[op[p].s].status = "active" /\ rec'[op[p].s].outcome = "none"
                              /\ \A m \in Mounts : rec'[op[p].s].at[m] = "sessions"
         /\ SaveLanded(p) => rec'[op[p].s].status = "finished" /\ rec'[op[p].s].outcome = "landed"
         /\ SaveDiscarded(p) => rec'[op[p].s].status = "discarded" /\ rec'[op[p].s].outcome = "discarded"
         /\ MarkPublished(p) => \/ rec' = rec
                                \/ /\ rec[op[p].s].status = "finished" /\ rec'[op[p].s].status = "finished"
                                   /\ rec'[op[p].s].outcome = "published" /\ op[p].ok
<1> DEFINE s == op[p].s
<1>1. s \in Sessions
  BY DEF Registry, TypeInv, OpsOK, Sound, SaveMigrated, SaveStarted, SaveLanded, SaveDiscarded, MarkPublished
<1>r. rec \in [Sessions -> Recs]
  BY TypeOKVars DEF TypeInv, VarsOK
<1>2. CASE SaveMigrated(p)
  <2> DEFINE v == [op[p].copy EXCEPT !.at = [m \in Mounts |-> "sessions"]]
  <2>1. op[p].copy = rec[s] /\ rec[s].status = "active" /\ rec[s] \in Recs
    BY <1>1, <1>2, <1>r DEF SaveMigrated, ReadsCurrent, Migrating
  <2>2. v.status = "active" /\ v.outcome = rec[s].outcome /\ \A m \in Mounts : v.at[m] = "sessions"
    BY <2>1 DEF Recs
  <2>3. rec' = [rec EXCEPT ![s] = v]
    BY <1>2 DEF SaveMigrated
  <2> HIDE DEF v
  <2> QED
    BY <1>1, <1>2, <1>r, <2>1, <2>2, <2>3 DEF SaveMigrated, SaveStarted, SaveLanded, SaveDiscarded, MarkPublished
<1>3. CASE SaveStarted(p)
  BY <1>1, <1>3, <1>r DEF SaveMigrated, SaveStarted, SaveLanded, SaveDiscarded, MarkPublished, Active
<1>4. CASE SaveLanded(p)
  <2> DEFINE v == [op[p].copy EXCEPT !.status = "finished", !.outcome = "landed"]
  <2>1. op[p].copy = rec[s] /\ rec[s] \in Recs
    BY <1>1, <1>4, <1>r DEF SaveLanded, ReadsCurrent, Landing
  <2>2. v.status = "finished" /\ v.outcome = "landed"
    BY <2>1 DEF Recs
  <2>3. rec' = [rec EXCEPT ![s] = v]
    BY <1>4 DEF SaveLanded
  <2> HIDE DEF v
  <2> QED
    BY <1>1, <1>4, <1>r, <2>1, <2>2, <2>3 DEF SaveMigrated, SaveStarted, SaveLanded, SaveDiscarded, MarkPublished
<1>5. CASE SaveDiscarded(p)
  <2> DEFINE v == [op[p].copy EXCEPT !.status = "discarded", !.outcome = "discarded"]
  <2>1. op[p].copy = rec[s] /\ rec[s] \in Recs
    BY <1>1, <1>5, <1>r DEF SaveDiscarded, ReadsCurrent, Discarding
  <2>2. v.status = "discarded" /\ v.outcome = "discarded"
    BY <2>1 DEF Recs
  <2>3. rec' = [rec EXCEPT ![s] = v]
    BY <1>5 DEF SaveDiscarded
  <2> HIDE DEF v
  <2> QED
    BY <1>1, <1>5, <1>r, <2>1, <2>2, <2>3 DEF SaveMigrated, SaveStarted, SaveLanded, SaveDiscarded, MarkPublished
<1>6. CASE MarkPublished(p)
  <2> DEFINE v == [rec[s] EXCEPT !.outcome = "published"]
  <2>1. v.status = rec[s].status /\ v.outcome = "published"
    BY <1>1, <1>r DEF Recs
  <2>2. \/ rec' = rec
        \/ rec' = [rec EXCEPT ![s] = v] /\ rec[s].status = "finished" /\ op[p].ok
    BY <1>1, <1>6, <1>r DEF MarkPublished, FullyPublished
  <2> HIDE DEF v
  <2> QED
    BY <1>1, <1>6, <1>r, <2>1, <2>2 DEF SaveMigrated, SaveStarted, SaveLanded, SaveDiscarded, MarkPublished
<1> QED
  BY <1>2, <1>3, <1>4, <1>5, <1>6 DEF Registry

\* What is saved keeps the records as they are to be.
LEMMA CommandRecords ==
  ASSUME TypeInv, NEW p \in Procs, op[p].s \notin shared => ReadsCurrent(p), RecordsOK,
         Step(p) \/ CleanUp(p) \/ Crash(p)
  PROVE  RecordsOK'
<1>1. UNCHANGED <<made, shared>>
  BY CommandHistory
<1> SUFFICES ASSUME NEW r \in Sessions \ shared
             PROVE  /\ rec'[r].status = "active" => \A m \in Mounts : rec'[r].at[m] # "none"
                    /\ rec'[r].status = "none" => \A m \in Mounts : made[r][m] = {}
                    /\ rec'[r].outcome = "published" => rec'[r].status = "finished"
  BY <1>1 DEF RecordsOK
<1>2. CASE rec'[r] = rec[r]
  BY <1>2 DEF RecordsOK
<1>3. CASE rec'[r] # rec[r]
  <2>1. r = op[p].s /\ Registry(p) /\ ReadsCurrent(p)
    BY <1>3, RegistryKept, RegistryElsewhere
  <2>2. /\ rec'[r].status = "active" => \A m \in Mounts : rec'[r].at[m] # "none"
        /\ rec'[r].status = "none" => rec[r].status = "none"
        /\ rec'[r].outcome = "published" => rec'[r].status = "finished"
    BY <2>1, RegistrySaves DEF Registry, RecordsOK
  <2> QED
    BY <2>2 DEF RecordsOK
<1> QED
  BY <1>2, <1>3

\* The registry says finished of a session only when its last mount landed.
LEMMA CommandFinishes ==
  ASSUME TypeInv, NEW p \in Procs, op[p].s \notin shared => Orderly(p),
         FinishedMeansLanded, Step(p) \/ CleanUp(p) \/ Crash(p)
  PROVE  FinishedMeansLanded'
<1>1. made' = made /\ shared' = shared
  BY CommandHistory
<1>2. \A m \in Mounts : base[m] \subseteq base'[m]
  BY BaseGrows DEF Next
<1> SUFFICES ASSUME NEW r \in Sessions \ shared, rec'[r].status = "finished", NEW m \in Mounts
             PROVE  /\ tree'[r][m] = "none" /\ branch'[r][m] = "none"
                    /\ Own(r, made'[r][m]) \subseteq base'[m]
  BY <1>1 DEF FinishedMeansLanded, Own
<1>3. CASE rec[r].status = "finished"
  <2>1. ~(op[p].at \in Starting /\ op[p].s = r)
    BY <1>3 DEF Orderly, StartsNew
  <2>2. tree[r][m] = "none" /\ branch[r][m] = "none" /\ Own(r, made[r][m]) \subseteq base[m]
    BY <1>3 DEF FinishedMeansLanded
  <2>3. tree'[r][m] = "none" /\ branch'[r][m] = "none"
    BY <2>1, <2>2, NoNewTree
  <2> QED
    BY <1>1, <1>2, <2>2, <2>3
<1>4. CASE rec[r].status # "finished"
  <2>1. Registry(p) /\ r = op[p].s /\ Orderly(p)
    BY <1>4, RegistryKept, RegistryElsewhere
  <2>2. SaveLanded(p)
    BY <1>4, <2>1, RegistrySaves DEF Registry, Orderly
  <2>3. op[p].at = "landed" /\ UNCHANGED <<tree, branch>>
    BY <2>2 DEF SaveLanded
  <2>4. Gone(r, m) /\ \A q \in made[r][m] : Kept(r, m, q)
    BY <2>1, <2>3 DEF Orderly, LandsAll, Landing
  <2>5. Own(r, made[r][m]) \subseteq base[m]
    BY <2>4 DEF Gone, Kept, Own
  <2> QED
    BY <1>1, <1>2, <2>3, <2>4, <2>5 DEF Gone
<1> QED
  BY <1>3, <1>4

\* A process that stands still forces nothing away.
LEMMA StandingForcesNothing ==
  ASSUME TypeInv, NEW p \in Procs, op'[p] = op[p]
  PROVE  ~ForceRemove(p) /\ ~ForceBranch(p)
<1>1. Goto(p, "forget") => op'[p].at = "forget"
  BY GotoMoves DEF Moves
<1>2. op[p].i \in Nat /\ (Quit(p) => op'[p].at = "idle")
  BY IdleTyped DEF Quit, TypeInv, OpsOK, Ops
<1>3. NextMount(p, "force", "discarded") => op'[p].at # "forget"
  BY DEF NextMount, TypeInv, OpsOK, Ops
<1> QED
  BY <1>1, <1>2, <1>3 DEF ForceRemove, ForceBranch

\* While one command takes a step the others stand still.
LEMMA CommandOthers ==
  ASSUME TypeInv, NEW p \in Procs, Step(p) \/ CleanUp(p) \/ Crash(p)
  PROVE  Others(p)
BY PlanMigrationOps, PlanOps, LoadOps, InspectLeftoverOps, CollectOps, InspectOps, HoldOps,
   PushOps, LoopOps DEF Step

\* A discard removes the worktree of a mount before its branch.
LEMMA CommandLoses ==
  ASSUME TypeInv, NEW p \in Procs, op[p].s \notin shared => Orderly(p), RecordsOK,
         LostOnlyWithTree, Step(p) \/ CleanUp(p) \/ Crash(p)
  PROVE  LostOnlyWithTree'
<1>1. made' = made /\ shared' = shared
  BY CommandHistory
<1> SUFFICES ASSUME NEW r \in Sessions \ shared, NEW m \in Mounts, NEW q \in made[r][m]
             PROVE  Kept(r, m, q)' \/ tree'[r][m] = "none"
  BY <1>1 DEF LostOnlyWithTree
<1>c. commits \in [Sessions -> [Mounts -> SUBSET Paths]]
  BY TypeOKVars DEF TypeInv, VarsOK
<1>d. dirty \in [Sessions -> [Mounts -> SUBSET Paths]]
  BY TypeOKVars DEF TypeInv, VarsOK
<1>t. tree \in [Sessions -> [Mounts -> Places]]
  BY TypeOKVars DEF TypeInv, VarsOK
<1>2. Kept(r, m, q) \/ tree[r][m] = "none"
  BY DEF LostOnlyWithTree
<1>3. CASE tree[r][m] = "none"
  <2>1. ~(op[p].at \in Starting /\ op[p].s = r)
    BY DEF Orderly, StartsNew, RecordsOK
  <2> QED
    BY <1>3, <2>1, NoNewTree
<1>4. CASE Kept(r, m, q) /\ tree[r][m] # "none"
  <2>1. CASE NotForced(r)
    BY <1>4, <2>1, KeptStays DEF Next
  <2>2. CASE ForceRemove(p) \/ ForceBranch(p)
    <3>1. \A n \in Mounts : base[n] \subseteq base'[n]
      BY BaseGrows DEF Next
    <3>2. CASE op[p].s = r /\ op[p].i = m
      <4>1. ForceRemove(p)
        BY <1>4, <2>2, <3>2 DEF Orderly, RemovesFirst, ForceBranch
      <4>2. CASE tree' = [tree EXCEPT ![op[p].s][op[p].i] = "none"]
        BY <1>t, <3>2, <4>2
      <4>3. CASE UNCHANGED <<tree, dirty>>
        <5>1. UNCHANGED <<dirty, commits>>
          BY <4>1, <4>3 DEF ForceRemove
        <5> QED
          BY <1>4, <3>1, <5>1 DEF Kept
      <4> QED
        BY <4>1, <4>2, <4>3 DEF ForceRemove
    <3>3. CASE ~(op[p].s = r /\ op[p].i = m)
      <4>1. commits' = commits \/ commits' = [commits EXCEPT ![op[p].s][op[p].i] = {}]
        BY <2>2 DEF ForceRemove, ForceBranch
      <4>2. dirty' = dirty \/ dirty' = [dirty EXCEPT ![op[p].s][op[p].i] = {}]
        BY <2>2 DEF ForceRemove, ForceBranch
      <4>3. commits'[r][m] = commits[r][m]
        BY <1>c, <3>3, <4>1
      <4>4. dirty'[r][m] = dirty[r][m]
        BY <1>d, <3>3, <4>2
      <4> QED
        BY <1>4, <3>1, <4>3, <4>4 DEF Kept
    <3> QED
      BY <3>2, <3>3
  <2>3. CASE ~NotForced(r) /\ ~ForceRemove(p) /\ ~ForceBranch(p)
    BY <2>3, CommandOthers, StandingForcesNothing DEF NotForced, Others
  <2> QED
    BY <2>1, <2>2, <2>3
<1> QED
  BY <1>2, <1>3, <1>4

\* A command that takes a step is about a session, at a mount.
LEMMA CommandAt ==
  ASSUME TypeInv, NEW p \in Procs, Step(p) \/ CleanUp(p) \/ Crash(p)
  PROVE  op[p].s \in Sessions /\ op[p].i \in Mounts /\ op[p].at # "idle"
<1>1. op[p].at # "idle"
  BY DEF Step, PlanMigration, RenameBranch, MoveWorktree, SaveMigrated, AddWorktree,
     SaveStarted, Plan, CommitDirty, Merge, RemoveWorktree, DeleteBranch, SaveLanded, Load,
     ForceRemove, ForceBranch, SaveDiscarded, InspectLeftover, CloseWorktree, Collect, Inspect,
     Hold, Push, MarkPublished, Report, CleanUp, Crash
<1> QED
  BY <1>1 DEF TypeInv, OpsOK, Sound

\* A step of a landing leaves the mounts alone that it is not at.
LEMMA LandingElsewhere ==
  ASSUME TypeInv, NEW p \in Procs, NEW s \in Sessions, s = op[p].s,
         CommitDirty(p) \/ Merge(p) \/ RemoveWorktree(p) \/ DeleteBranch(p),
         NEW m \in Mounts, m # op[p].i, Gone(s, m)
  PROVE  Gone(s, m)'
<1>c. commits \in [Sessions -> [Mounts -> SUBSET Paths]]
  BY TypeOKVars DEF TypeInv, VarsOK
<1>d. dirty \in [Sessions -> [Mounts -> SUBSET Paths]]
  BY TypeOKVars DEF TypeInv, VarsOK
<1>t. tree \in [Sessions -> [Mounts -> Places]]
  BY TypeOKVars DEF TypeInv, VarsOK
<1>b. branch \in [Sessions -> [Mounts -> Places]]
  BY TypeOKVars DEF TypeInv, VarsOK
<1>1. CASE CommitDirty(p)
  <2> DEFINE staged == {q \in dirty[op[p].s][op[p].i] : <<op[p].i, q>> \in op[p].plan}
  <2>1. /\ UNCHANGED <<tree, branch>>
        /\ \/ UNCHANGED <<dirty, commits>>
           \/ /\ dirty' = [dirty EXCEPT ![s][op[p].i] = @ \ staged]
              /\ commits' = [commits EXCEPT ![s][op[p].i] = @ \cup staged]
    BY <1>1 DEF CommitDirty
  <2> HIDE DEF staged
  <2>2. dirty'[s][m] = dirty[s][m]
    BY <1>d, <2>1
  <2>3. commits'[s][m] = commits[s][m]
    BY <1>c, <2>1
  <2> QED
    BY <2>1, <2>2, <2>3 DEF Gone
<1>2. CASE Merge(p)
  BY <1>2 DEF Merge, sessionVars, Gone
<1>3. CASE RemoveWorktree(p)
  <2>1. /\ UNCHANGED <<branch, dirty, commits>>
        /\ tree' = tree \/ tree' = [tree EXCEPT ![s][op[p].i] = "none"]
    BY <1>3 DEF RemoveWorktree
  <2> QED
    BY <1>t, <2>1 DEF Gone
<1>4. CASE DeleteBranch(p)
  <2>1. UNCHANGED <<tree, dirty>>
    BY <1>4 DEF DeleteBranch
  <2>2. branch' = branch \/ branch' = [branch EXCEPT ![s][op[p].i] = "none"]
    BY <1>4 DEF DeleteBranch
  <2>3. commits' = commits \/ commits' = [commits EXCEPT ![s][op[p].i] = {}]
    BY <1>4 DEF DeleteBranch
  <2>4. branch'[s][m] = branch[s][m]
    BY <1>b, <2>2
  <2>5. commits'[s][m] = commits[s][m]
    BY <1>c, <2>3
  <2> QED
    BY <2>1, <2>4, <2>5 DEF Gone
<1> QED
  BY <1>1, <1>2, <1>3, <1>4

\* A landing keeps every change, and passes only mounts it has cleared.
LEMMA CommandLands ==
  ASSUME TypeInv, NEW p \in Procs, op[p].s \notin shared, StartsFirst(p), LandsAll(p), RecordsOK,
         LostOnlyWithTree, Step(p) \/ CleanUp(p) \/ Crash(p)
  PROVE  LandsAll(p)'
<1>a. op[p].s \in Sessions /\ op[p].i \in Mounts
  BY CommandAt
<1>b. PICK s \in Sessions : s = op[p].s
  BY <1>a
<1>c. PICK i \in Mounts : i = op[p].i
  BY <1>a
<1>m. made' = made
  BY CommandHistory
<1>0. op'[p] = Idle => LandsAll(p)'
  BY IdleHolds
<1>1. CASE Quit(p)
  BY <1>0, <1>1 DEF Quit, TypeInv, OpsOK
<1>2. CASE Plan(p) /\ ~Quit(p)
  <2>1. CASE op'[p] # Idle
    <3>1. /\ op'[p].s = s /\ op'[p].i = i /\ op'[p].at = "commit"
          /\ rec[s].status = "active" /\ op[p].at = "plan"
          /\ \A m \in Mounts : tree[s][m] = rec[s].at[m] /\ branch[s][m] = rec[s].at[m]
      BY <1>2, <1>b, <1>c, <2>1, PlanOps DEF Plan
    <3>3. \A m \in Mounts : tree[s][m] # "none" /\ branch[s][m] # "none"
      BY <1>b, <3>1 DEF RecordsOK
    <3>4. i = 1
      BY <1>b, <1>c, <3>1, <3>3 DEF StartsFirst
    <3>5. \A m \in Mounts : ~(m < 1)
      BY MountsAreNumbers
    <3>6. \A m \in Mounts : \A q \in made[s][m] : Kept(s, m, q)
      BY <1>b, <3>3 DEF LostOnlyWithTree
    <3>7. UNCHANGED <<dirty, commits, base>>
      BY <1>2 DEF Plan, sessionVars, baseVars
    <3>8. \A m \in Mounts : \A q \in made'[s][m] : Kept(s, m, q)'
      BY <1>m, <3>6, <3>7 DEF Kept
    <3> QED
      BY <3>1, <3>4, <3>5, <3>8 DEF LandsAll
  <2> QED
    BY <1>0, <2>1
<1>3. CASE (CommitDirty(p) \/ Merge(p) \/ RemoveWorktree(p) \/ DeleteBranch(p)) /\ ~Quit(p)
  <2>1. op[p].at \in Landing /\ op[p].at \in {"commit", "merge", "remove", "delete"}
    BY <1>3 DEF CommitDirty, Merge, RemoveWorktree, DeleteBranch, Landing
  <2>3. NotForced(s)
    BY <1>b, <2>1, CommandOthers, StandingForcesNothing DEF NotForced, Others, ForceRemove, ForceBranch
  <2>4. ASSUME NEW m \in Mounts, NEW q \in made'[s][m]
        PROVE  Kept(s, m, q)'
    <3>1. Kept(s, m, q)
      BY <1>b, <1>m, <2>1, <2>4 DEF LandsAll
    <3> QED
      BY <2>3, <3>1, KeptStays DEF Next
  <2>5. \A m \in Mounts : m < i => Gone(s, m)'
    <3>1. \A m \in Mounts : m < i => Gone(s, m) /\ m # i
      BY <1>b, <1>c, <2>1, MountsAreNumbers DEF LandsAll
    <3> QED
      BY <1>b, <1>c, <1>3, <3>1, LandingElsewhere
  <2>6. CASE CommitDirty(p) \/ Merge(p)
    <3>1. op'[p].s = s /\ op'[p].i = i /\ op'[p].at \in {"merge", "remove"}
      BY <1>b, <1>c, <1>3, <2>6, StepLeads DEF Moves, SameJob
    <3> QED
      BY <2>4, <2>5, <3>1 DEF LandsAll
  <2>7. CASE RemoveWorktree(p)
    <3>1. op'[p].s = s /\ op'[p].i = i /\ op'[p].at = "delete"
      BY <1>b, <1>c, <1>3, <2>7, StepLeads DEF Moves, SameJob
    <3>2. tree' = [tree EXCEPT ![s][i] = "none"] /\ dirty[s][i] = {} /\ dirty' = dirty
      BY <1>b, <1>c, <1>3, <2>7 DEF RemoveWorktree
    <3>t. tree \in [Sessions -> [Mounts -> Places]]
      BY TypeOKVars DEF TypeInv, VarsOK
    <3>3. tree'[s][i] = "none" /\ dirty'[s][i] = {}
      BY <3>2, <3>t
    <3> QED
      BY <2>4, <2>5, <3>1, <3>3 DEF LandsAll
  <2>8. CASE DeleteBranch(p)
    <3>1. /\ op'[p].s = s
          /\ \/ i < Last /\ op'[p].at = "commit" /\ op'[p].i = i + 1
             \/ i >= Last /\ op'[p].at = "landed"
      BY <1>b, <1>c, <1>3, <2>8, StepLeads DEF Passes, SameJob
    <3>2. /\ tree[s][i] = "none" /\ dirty[s][i] = {} /\ UNCHANGED <<tree, dirty>>
          /\ branch' = [branch EXCEPT ![s][i] = "none"]
          /\ commits' = [commits EXCEPT ![s][i] = {}]
      BY <1>b, <1>c, <1>3, <2>1, <2>8 DEF DeleteBranch, LandsAll
    <3>b. branch \in [Sessions -> [Mounts -> Places]]
      BY TypeOKVars DEF TypeInv, VarsOK
    <3>c. commits \in [Sessions -> [Mounts -> SUBSET Paths]]
      BY TypeOKVars DEF TypeInv, VarsOK
    <3>3. branch'[s][i] = "none"
      BY <3>2, <3>b
    <3>4. commits'[s][i] = {}
      BY <3>2, <3>c
    <3>5. Gone(s, i)'
      BY <3>2, <3>3, <3>4 DEF Gone
    <3>6. \A m \in Mounts : (m < i \/ m = i) => Gone(s, m)'
      BY <2>5, <3>5
    <3>n. i \in Nat /\ Last \in Nat
      BY MountsAreNumbers, ConstantsAssumption
    <3>7. CASE i < Last
      <4>0. op'[p].at = "commit" /\ op'[p].i = i + 1
        BY <3>1, <3>7, <3>n
      <4>1. \A m \in Mounts : m < i + 1 => m < i \/ m = i
        BY MountsAreNumbers
      <4>2. \A m \in Mounts : m < op'[p].i => Gone(s, m)'
        BY <3>6, <4>0, <4>1
      <4> QED
        BY <2>4, <3>1, <4>0, <4>2 DEF LandsAll, Landing
    <3>8. CASE ~(i < Last)
      <4>1. \A m \in Mounts : m < i \/ m = i
        BY <3>8, MountsAreNumbers, ConstantsAssumption
      <4>2. \A m \in Mounts : Gone(s, m)'
        BY <3>6, <4>1
      <4>3. op'[p].at = "landed"
        BY <3>1, <3>8
      <4> QED
        BY <2>4, <3>1, <4>2, <4>3 DEF LandsAll
    <3> QED
      BY <3>7, <3>8
  <2> QED
    BY <1>3, <2>6, <2>7, <2>8
<1>4. CASE ~(Plan(p) \/ CommitDirty(p) \/ Merge(p) \/ RemoveWorktree(p) \/ DeleteBranch(p)) /\ ~Quit(p)
  <2>1. op'[p].at \notin Landing
    <3>1. CASE PlanMigration(p)
      <4>1. op[p].cmd \in SessionCmds
        BY <3>1 DEF PlanMigration, TypeInv, OpsOK, Sound
      <4> QED
        BY <3>1, <4>1, NextPoints, PlanMigrationOps DEF Landing
    <3>2. CASE RenameBranch(p) \/ MoveWorktree(p) \/ SaveMigrated(p)
      <4>1. op[p].cmd \in SessionCmds
        BY <3>2 DEF RenameBranch, MoveWorktree, SaveMigrated, TypeInv, OpsOK, Sound, Migrating
      <4> QED
        BY <3>2, <4>1, NextPoints, StepLeads DEF Landing, Moves, Passes
    <3>3. CASE AddWorktree(p) \/ SaveLanded(p) \/ ForceRemove(p) \/ ForceBranch(p)
      BY <1>4, <3>3, StepLeads DEF Landing, Moves, Passes
    <3>4. CASE Load(p) \/ InspectLeftover(p) \/ Collect(p) \/ Inspect(p) \/ Hold(p) \/ Push(p)
      <4>1. "idle" \notin Landing /\ SyncEnd(p) \notin Landing
        BY DEF Landing, SyncEnd
      <4>2. SyncNext(p) => op'[p].at \notin Landing
        BY NextMountPasses DEF SyncNext, Passes, Landing
      <4> QED
        BY <3>4, <4>1, <4>2, IdleTyped, LoadOps, InspectLeftoverOps, CollectOps, InspectOps, HoldOps,
           PushOps DEF Landing
    <3> QED
      BY <1>4, <3>1, <3>2, <3>3, <3>4, StepLeads DEF Step
  <2> QED
    BY <2>1 DEF LandsAll
<1> QED
  BY <1>1, <1>2, <1>3, <1>4

\* A discard is at a mount's branch only when its worktree is gone.
LEMMA CommandRemoves ==
  ASSUME TypeInv, NEW p \in Procs, Step(p) \/ CleanUp(p) \/ Crash(p)
  PROVE  RemovesFirst(p)'
<1>1. CASE op'[p].at = "forget"
  <2>1. ~Quit(p)
    BY <1>1, IdleTyped DEF Quit, TypeInv, OpsOK
  <2>2. ForceRemove(p)
    <3>1. CASE PlanMigration(p)
      <4>1. op[p].cmd \in SessionCmds
        BY <3>1 DEF PlanMigration, TypeInv, OpsOK, Sound
      <4> QED
        BY <1>1, <3>1, <4>1, NextPoints, PlanMigrationOps
    <3>2. CASE RenameBranch(p) \/ MoveWorktree(p) \/ SaveMigrated(p)
      <4>1. op[p].cmd \in SessionCmds
        BY <3>2 DEF RenameBranch, MoveWorktree, SaveMigrated, TypeInv, OpsOK, Sound, Migrating
      <4> QED
        BY <1>1, <3>2, <4>1, NextPoints, StepLeads DEF Moves, Passes
    <3>3. CASE \/ AddWorktree(p) \/ SaveLanded(p) \/ ForceBranch(p) \/ CommitDirty(p) \/ Merge(p)
               \/ RemoveWorktree(p) \/ DeleteBranch(p)
      BY <1>1, <2>1, <3>3, StepLeads DEF Moves, Passes
    <3>4. CASE \/ Plan(p) \/ Load(p) \/ InspectLeftover(p) \/ Collect(p) \/ Inspect(p) \/ Hold(p)
               \/ Push(p)
      <4>1. SyncEnd(p) # "forget" /\ (SyncNext(p) => op'[p].at # "forget")
        BY NextMountPasses DEF SyncNext, Passes, SyncEnd
      <4> QED
        BY <1>1, <3>4, <4>1, IdleTyped, PlanOps, LoadOps, InspectLeftoverOps, CollectOps, InspectOps,
           HoldOps, PushOps
    <3> QED
      BY <2>1, <3>1, <3>2, <3>3, <3>4, StepLeads DEF Step
  <2>3. op'[p].s = op[p].s /\ op'[p].i = op[p].i /\ tree' = [tree EXCEPT ![op[p].s][op[p].i] = "none"]
    BY <2>1, <2>2, StepLeads DEF Moves, SameJob
  <2>4. op[p].s \in Sessions /\ op[p].i \in Mounts
    BY <2>2 DEF ForceRemove, TypeInv, OpsOK, Sound
  <2>t. tree \in [Sessions -> [Mounts -> Places]]
    BY TypeOKVars DEF TypeInv, VarsOK
  <2> QED
    BY <2>3, <2>4, <2>t DEF RemovesFirst
<1> QED
  BY <1>1 DEF RemovesFirst

\* A remote branch only grows, and a session's change or a conflict marker that
\* it has came from the base.
LEMMA RemoteStep ==
  ASSUME TypeInv, [Next]_vars, NEW m \in Mounts
  PROVE  /\ remote[m] \subseteq remote'[m]
         /\ \A c \in remote'[m] : c \in remote[m] \/ c \in base'[m] \/ c[1] = "other"
<1>b. base \in [Mounts -> Contents]
  BY TypeOKVars DEF TypeInv, VarsOK
<1>r. remote \in [Mounts -> Contents]
  BY TypeOKVars DEF TypeInv, VarsOK
<1>1. ASSUME NEW p \in Procs, Push(p)
      PROVE  /\ remote[m] \subseteq remote'[m]
             /\ \A c \in remote'[m] : c \in remote[m] \/ c \in base'[m]
  <2>1. \/ remote' = remote
        \/ /\ remote' = [remote EXCEPT ![op[p].i] = base[op[p].i] \cup Committed(p, op[p].i)]
           /\ base' = [base EXCEPT ![op[p].i] = base[op[p].i] \cup Committed(p, op[p].i)]
           /\ remote[op[p].i] \subseteq base[op[p].i] \cup Committed(p, op[p].i)
    BY <1>1 DEF Push
  <2> QED
    BY <1>b, <1>r, <2>1
<1>2. ASSUME NEW n \in Mounts, NEW q \in Paths, OtherPushes(n, q)
      PROVE  /\ remote[m] \subseteq remote'[m]
             /\ \A c \in remote'[m] : c \in remote[m] \/ c[1] = "other"
  <2>1. remote' = [remote EXCEPT ![n] = @ \cup {<<"other", q>>}]
    BY <1>2 DEF OtherPushes
  <2> QED
    BY <1>r, <2>1
<1>3. ASSUME NEW p \in Procs, Step(p) \/ CleanUp(p) \/ Crash(p), ~Push(p)
      PROVE  remote' = remote
  BY <1>3 DEF Step, PlanMigration, RenameBranch, MoveWorktree, SaveMigrated, AddWorktree,
     SaveStarted, Plan, CommitDirty, Merge, RemoveWorktree, DeleteBranch, SaveLanded, Load,
     ForceRemove, ForceBranch, SaveDiscarded, InspectLeftover, CloseWorktree, Collect, Inspect,
     Hold, MarkPublished, Report, CleanUp, Crash, baseVars
<1>4. ASSUME \/ \E p \in Procs, c \in DOMAIN First, r \in Sessions : Begin(p, c, r)
             \/ \E r \in Sessions, n \in Mounts : CommitSession(r, n)
             \/ \E r \in Sessions, n \in Mounts, q \in Paths : EditSession(r, n, q)
             \/ \E n \in Mounts : CommitBase(n) \/ EndMerge(n)
             \/ \E n \in Mounts, x \in Paths : EditBase(n, x)
             \/ UNCHANGED vars
      PROVE  remote' = remote
  BY <1>4 DEF Begin, CommitSession, EditSession, CommitBase, EndMerge, EditBase, baseVars, vars
<1>5. CASE remote' = remote
  BY <1>5
<1> QED
  BY <1>1, <1>2, <1>3, <1>4, <1>5 DEF Next

\* RemotesFollow is preserved, whatever overlaps.
LEMMA RemotesFollowStep ==
  ASSUME TypeInv, RemotesFollow, [Next]_vars
  PROVE  RemotesFollow'
<1> SUFFICES ASSUME NEW m \in Mounts, NEW c \in remote'[m], c[1] \in Sessions \cup {"markers"}
             PROVE  c \in base'[m]
  BY DEF RemotesFollow
<1>1. base[m] \subseteq base'[m]
  BY BaseGrows
<1>2. c[1] # "other"
  BY ConstantsAssumption
<1> QED
  BY <1>1, <1>2, RemoteStep DEF RemotesFollow

\* A sync passes a mount only when it was pushed, or when its base had nothing
\* that the remote had not.
LEMMA CommandPublishes ==
  ASSUME TypeInv, NEW p \in Procs, op[p].s \notin shared, ReadsCurrent(p), Publishes(p), FinishedMeansLanded,
         Step(p) \/ CleanUp(p) \/ Crash(p)
  PROVE  Publishes(p)'
<1>a. op[p].s \in Sessions /\ op[p].i \in Mounts
  BY CommandAt
<1>b. PICK s \in Sessions : s = op[p].s
  BY <1>a
<1>c. PICK i \in Mounts : i = op[p].i
  BY <1>a
<1>m. made' = made
  BY CommandHistory
<1>r. \A m \in Mounts : remote[m] \subseteq remote'[m]
  BY RemoteStep DEF Next
<1>n. i \in Nat /\ Last \in Nat /\ \A m \in Mounts : m \in Nat /\ 1 <= m /\ m <= Last
  BY MountsAreNumbers, ConstantsAssumption
<1>0. op'[p] = Idle => Publishes(p)'
  BY IdleHolds
<1>1. CASE op'[p].at \notin Syncing
  BY <1>1 DEF Publishes, Syncing
<1>2. CASE SaveLanded(p) /\ op'[p] # Idle
  <2>1. op'[p].at = "collect" /\ op'[p].s = s
    BY <1>2, <1>b, StepLeads DEF Moves, SameJob, Quit, TypeInv, OpsOK
  <2>2. rec'[s].status = "finished"
    BY <1>2, <1>b, RegistrySaves DEF Registry
  <2> QED
    BY <2>1, <2>2 DEF Publishes
<1>3. CASE Collect(p)
  <2>1. /\ op'[p].at = "inspect" /\ op'[p].cmd = op[p].cmd /\ op'[p].s = s /\ op'[p].i = 1
    BY <1>3, <1>b, CollectOps
  <2>2. op[p].at = "collect" /\ rec' = rec
    BY <1>3 DEF Collect, sessionVars
  <2>3. \A m \in Mounts : ~(m < 1)
    BY <1>n
  <2> QED
    BY <1>b, <2>1, <2>2, <2>3 DEF Publishes, Syncing
<1>4. CASE Hold(p)
  <2>1. /\ op'[p].cmd = op[p].cmd /\ op'[p].s = s /\ ~op'[p].ok
        /\ op'[p].at \in {"inspect", SyncEnd(p)}
    BY <1>4, <1>b, HoldOps
  <2>2. op[p].at = "hold" /\ rec' = rec
    BY <1>4 DEF Hold, sessionVars
  <2> QED
    BY <1>b, <2>1, <2>2 DEF Publishes, Syncing, SyncEnd
<1>5. CASE Inspect(p) \/ Push(p)
  <2>1. op[p].at \in {"inspect", "push"} /\ rec' = rec
    BY <1>5 DEF Inspect, Push, sessionVars
  <2>2. op'[p].cmd = op[p].cmd /\ op'[p].s = s /\ op'[p].ok = op[p].ok
    BY <1>5, <1>b, InspectOps, PushOps DEF SameJob
  <2>3. op'[p].cmd = "publish" => rec'[s].status = "finished"
    BY <1>b, <2>1, <2>2 DEF Publishes, Syncing
  <2>4. op'[p].cmd = "publish" /\ op'[p].ok =>
          \A m \in Mounts : m < i => Own(s, made'[s][m]) \subseteq remote'[m]
    BY <1>b, <1>c, <1>m, <1>r, <2>1, <2>2 DEF Publishes
  <2>5. CASE op'[p].at = "hold"
    BY <2>2, <2>3, <2>5 DEF Publishes
  <2>6. CASE op'[p].at = "push" /\ op'[p].i = i
    BY <2>2, <2>3, <2>4, <2>6 DEF Publishes
  <2>7. CASE SyncNext(p) /\ base[i] \subseteq remote'[i]
    <3>1. Passes(p, "inspect", SyncEnd(p))
      BY <2>7, NextMountPasses DEF SyncNext, SyncEnd
    <3>2. op'[p].cmd = "publish" => Own(s, made'[s][i]) \subseteq remote'[i]
      BY <1>b, <1>m, <2>1, <2>3, <2>7 DEF FinishedMeansLanded
    <3>3. CASE i < Last
      <4>1. op'[p].at = "inspect" /\ op'[p].i = i + 1
        BY <1>c, <1>n, <3>1, <3>3 DEF Passes
      <4>2. \A m \in Mounts : m < i + 1 => m < i \/ m = i
        BY <1>n
      <4>3. op'[p].cmd = "publish" /\ op'[p].ok =>
              \A m \in Mounts : m < op'[p].i => Own(s, made'[s][m]) \subseteq remote'[m]
        BY <2>4, <3>2, <4>1, <4>2
      <4> QED
        BY <2>2, <2>3, <4>1, <4>3 DEF Publishes
    <3>4. CASE ~(i < Last)
      <4>1. op'[p].at = SyncEnd(p)
        BY <1>c, <1>n, <3>1, <3>4 DEF Passes
      <4>2. \A m \in Mounts : m < i \/ m = i
        BY <1>n, <3>4
      <4>3. op'[p].cmd = "publish" /\ op'[p].ok =>
              \A m \in Mounts : Own(s, made'[s][m]) \subseteq remote'[m]
        BY <2>4, <3>2, <4>2
      <4> QED
        BY <2>2, <2>3, <4>1, <4>3 DEF Publishes, SyncEnd
    <3> QED
      BY <3>3, <3>4
  <2>8. CASE Inspect(p)
    <3>1. Ahead(i) = {} => base[i] \subseteq remote'[i]
      BY <1>r DEF Ahead
    <3> QED
      BY <1>c, <2>5, <2>6, <2>7, <2>8, <3>1, InspectOps
  <2>9. CASE Push(p)
    <3>r. remote \in [Mounts -> Contents]
      BY TypeOKVars DEF TypeInv, VarsOK
    <3>1. remote' = [remote EXCEPT ![i] = base[i] \cup Committed(p, i)] => base[i] \subseteq remote'[i]
      BY <3>r
    <3> QED
      BY <1>c, <2>5, <2>7, <2>9, <3>1, PushOps
  <2> QED
    BY <1>5, <2>8, <2>9
<1>6. CASE ~(SaveLanded(p) \/ Collect(p) \/ Hold(p) \/ Inspect(p) \/ Push(p)) /\ op'[p] # Idle
  <2>0. ~Quit(p)
    BY <1>6 DEF Quit, TypeInv, OpsOK
  <2>1. op'[p].at \notin Syncing
    <3>1. CASE PlanMigration(p)
      <4>1. op[p].cmd \in SessionCmds
        BY <3>1 DEF PlanMigration, TypeInv, OpsOK, Sound
      <4> QED
        BY <3>1, <4>1, NextPoints, PlanMigrationOps DEF Syncing
    <3>2. CASE RenameBranch(p) \/ MoveWorktree(p) \/ SaveMigrated(p)
      <4>1. op[p].cmd \in SessionCmds
        BY <3>2 DEF RenameBranch, MoveWorktree, SaveMigrated, TypeInv, OpsOK, Sound, Migrating
      <4> QED
        BY <3>2, <4>1, NextPoints, StepLeads DEF Syncing, Moves, Passes
    <3>3. CASE \/ AddWorktree(p) \/ CommitDirty(p) \/ Merge(p) \/ RemoveWorktree(p)
               \/ DeleteBranch(p) \/ ForceRemove(p) \/ ForceBranch(p)
      BY <2>0, <3>3, StepLeads DEF Syncing, Moves, Passes
    <3>4. CASE Plan(p) \/ Load(p) \/ InspectLeftover(p)
      BY <1>6, <3>4, PlanOps, LoadOps, InspectLeftoverOps DEF Syncing
    <3> QED
      BY <1>6, <2>0, <3>1, <3>2, <3>3, <3>4, StepLeads DEF Step
  <2> QED
    BY <1>1, <2>1
<1> QED
  BY <1>0, <1>2, <1>3, <1>4, <1>5, <1>6

\* A session is marked published when the sync of its `publish` held nothing.
LEMMA CommandMarks ==
  ASSUME TypeInv, NEW p \in Procs, op[p].s \notin shared => Orderly(p), PublishedMeansPushed,
         Step(p) \/ CleanUp(p) \/ Crash(p)
  PROVE  PublishedMeansPushed'
<1>m. made' = made /\ shared' = shared
  BY CommandHistory
<1>r. \A m \in Mounts : remote[m] \subseteq remote'[m]
  BY RemoteStep DEF Next
<1> SUFFICES ASSUME NEW r \in Sessions \ shared, rec'[r].outcome = "published", NEW m \in Mounts
             PROVE  Own(r, made[r][m]) \subseteq remote[m]
  BY <1>m, <1>r DEF PublishedMeansPushed, Own
<1>1. CASE rec[r].outcome = "published"
  BY <1>1 DEF PublishedMeansPushed
<1>2. CASE rec[r].outcome # "published"
  <2>1. Registry(p) /\ r = op[p].s /\ Orderly(p)
    BY <1>2, RegistryKept, RegistryElsewhere
  <2>2. MarkPublished(p) /\ op[p].ok
    BY <1>2, <2>1, RegistrySaves DEF Registry, Orderly
  <2>3. op[p].at = "mark"
    BY <2>2 DEF MarkPublished
  <2> QED
    BY <2>1, <2>2, <2>3 DEF Orderly, Publishes
<1> QED
  BY <1>1, <1>2

\* What an active session holds in a mount where its merge stopped in conflict
\* includes the conflict.
LEMMA ConflictIsHeld ==
  ASSUME TypeInv, RecordsOK, MergesOpen, NEW m \in Mounts, merging[m] # NoMerge,
         merging[m].s \notin shared, rec[merging[m].s].status = "active", NEW q \in merging[m].clash
  PROVE  q \in HeldPaths(merging[m].s, m)
<1> DEFINE g == merging[m].s
<1>1. g \in Sessions /\ q \in Paths
  BY DEF TypeInv, MergesOK, Merges
<1>2. rec[g].at[m] # "none"
  BY <1>1 DEF RecordsOK
<1>3. CASE ~Readable(g, m)
  BY <1>1, <1>3 DEF HeldPaths
<1>4. CASE Readable(g, m)
  <2>1. q \in commits[g][m] /\ <<g, q>> \notin base[m]
    BY <1>2, <1>4 DEF MergesOpen, Readable
  <2>2. q \in Pending(g, m)
    BY <2>1 DEF Pending
  <2> QED
    BY <1>4, <2>1, <2>2 DEF HeldPaths
<1> QED
  BY <1>3, <1>4

\* What a sync goes on to commit is no active session's conflict.
LEMMA CommandHolds ==
  ASSUME TypeInv, NEW p \in Procs, HoldsActive(p), RecordsOK, MergesOpen,
         Step(p) \/ CleanUp(p) \/ Crash(p)
  PROVE  HoldsActive(p)'
<1>0. op'[p] = Idle => HoldsActive(p)'
  BY IdleHolds
<1>s. shared' = shared /\ (~Collect(p) => late \subseteq late')
  BY CommandHistory
<1>1. CASE op'[p].at \notin {"inspect", "hold", "push"}
  BY <1>1 DEF HoldsActive
<1>2. CASE Collect(p)
  <2> DEFINE pl == {mp \in Mounts \X Paths : \E s \in Sessions : mp[2] \in HeldPaths(s, mp[1])}
  <2>1. op'[p].at = "inspect" /\ op'[p].plan = pl
    BY <1>2, CollectOps
  <2>2. UNCHANGED <<rec, merging>>
    BY <1>2 DEF Collect, sessionVars, baseVars
  <2>3. ASSUME NEW m \in Mounts, merging[m] # NoMerge, merging[m].s \notin shared,
               rec[merging[m].s].status = "active", NEW q \in merging[m].clash
        PROVE  <<m, q>> \in pl
    <3>1. merging[m].s \in Sessions /\ q \in Paths
      BY <2>3 DEF TypeInv, MergesOK, Merges
    <3>2. q \in HeldPaths(merging[m].s, m)
      BY <2>3, ConflictIsHeld
    <3> QED
      BY <3>1, <3>2
  <2> HIDE DEF pl
  <2> QED
    BY <1>s, <2>1, <2>2, <2>3 DEF HoldsActive
<1>3. CASE Inspect(p)
  <2>1. /\ UNCHANGED <<rec, merging>> /\ op'[p].plan = op[p].plan /\ op[p].at = "inspect"
        /\ late \subseteq late'
    BY <1>3, <1>s, InspectOps DEF Inspect, Collect, sessionVars
  <2>2. CASE op'[p].at # "push"
    BY <1>s, <2>1, <2>2 DEF HoldsActive
  <2>3. CASE op'[p].at = "push"
    <3>1. SyncNext(p) => op'[p].at \in {"inspect", "mark", "report"}
      BY NextMountPasses DEF SyncNext, Passes
    <3>2. op'[p].i = op[p].i /\ op'[p].seen = baseDirty[op[p].i] /\ ~Held(p, op[p].i)
      BY <1>3, <2>3, <3>1, InspectOps
    <3> QED
      BY <1>s, <2>1, <2>3, <3>2 DEF HoldsActive, Held
  <2> QED
    BY <2>2, <2>3
<1>4. CASE Hold(p)
  <2>1. /\ UNCHANGED <<rec, merging>> /\ op'[p].plan = op[p].plan /\ op[p].at = "hold"
        /\ late \subseteq late'
    BY <1>4, <1>s, HoldOps DEF Hold, Collect, sessionVars, baseVars
  <2>2. op'[p].at # "push"
    BY <1>4, HoldOps DEF SyncEnd
  <2> QED
    BY <1>s, <2>1, <2>2 DEF HoldsActive
<1>5. CASE Push(p)
  <2>1. rec' = rec /\ op'[p].plan = op[p].plan /\ op[p].at = "push" /\ late \subseteq late'
    BY <1>5, <1>s, PushOps DEF Push, Collect, sessionVars, SameJob
  <2>2. op'[p].at # "push"
    <3>1. SyncNext(p) => op'[p].at \in {"inspect", "mark", "report"}
      BY NextMountPasses DEF SyncNext, Passes
    <3> QED
      BY <1>5, <3>1, PushOps
  <2>3. \A m \in Mounts : merging'[m] = merging[m] \/ merging'[m] = NoMerge
    <3>1. merging \in [Mounts -> Merges \cup {NoMerge}]
      BY DEF TypeInv, MergesOK
    <3>2. \/ merging' = [merging EXCEPT ![op[p].i] = NoMerge]
          \/ merging' = [merging EXCEPT ![op[p].i] = @]
      BY <1>5 DEF Push
    <3> QED
      BY <3>1, <3>2
  <2> QED
    BY <1>s, <2>1, <2>2, <2>3 DEF HoldsActive, NoMerge
<1>6. CASE ~(Collect(p) \/ Hold(p) \/ Inspect(p) \/ Push(p)) /\ op'[p] # Idle
  <2>0. ~Quit(p)
    BY <1>6 DEF Quit, TypeInv, OpsOK
  <2>1. op'[p].at \notin {"inspect", "hold", "push"}
    <3>1. CASE PlanMigration(p)
      <4>1. op[p].cmd \in SessionCmds
        BY <3>1 DEF PlanMigration, TypeInv, OpsOK, Sound
      <4> QED
        BY <3>1, <4>1, NextPoints, PlanMigrationOps
    <3>2. CASE RenameBranch(p) \/ MoveWorktree(p) \/ SaveMigrated(p)
      <4>1. op[p].cmd \in SessionCmds
        BY <3>2 DEF RenameBranch, MoveWorktree, SaveMigrated, TypeInv, OpsOK, Sound, Migrating
      <4> QED
        BY <3>2, <4>1, NextPoints, StepLeads DEF Moves, Passes
    <3>3. CASE \/ AddWorktree(p) \/ CommitDirty(p) \/ Merge(p) \/ RemoveWorktree(p)
               \/ DeleteBranch(p) \/ ForceRemove(p) \/ ForceBranch(p) \/ SaveLanded(p)
      BY <2>0, <3>3, StepLeads DEF Moves, Passes
    <3>4. CASE Plan(p) \/ Load(p) \/ InspectLeftover(p)
      BY <1>6, <3>4, PlanOps, LoadOps, InspectLeftoverOps
    <3> QED
      BY <1>6, <2>0, <3>1, <3>2, <3>3, <3>4, StepLeads DEF Step
  <2> QED
    BY <1>1, <2>1
<1> QED
  BY <1>0, <1>2, <1>3, <1>4, <1>5, <1>6

\* A session's paths in conflict stay on its branch and out of the base: a
\* merge opens only where none is, and the commit that brings them in ends it.
LEMMA CommandMerges ==
  ASSUME TypeInv, NEW p \in Procs, op[p].s \notin shared => Orderly(p), MergesOpen, RemotesFollow,
         Step(p) \/ CleanUp(p) \/ Crash(p)
  PROVE  MergesOpen'
<1>a. op[p].s \in Sessions /\ op[p].i \in Mounts
  BY CommandAt
<1>b. PICK s \in Sessions : s = op[p].s
  BY <1>a
<1>c. PICK i \in Mounts : i = op[p].i
  BY <1>a
<1>g. merging \in [Mounts -> Merges \cup {NoMerge}]
  BY DEF TypeInv, MergesOK
<1>t. base \in [Mounts -> Contents]
  BY TypeOKVars DEF TypeInv, VarsOK
<1>o. commits \in [Sessions -> [Mounts -> SUBSET Paths]]
  BY TypeOKVars DEF TypeInv, VarsOK
<1>h. branch \in [Sessions -> [Mounts -> Places]]
  BY TypeOKVars DEF TypeInv, VarsOK
<1>1. ASSUME NEW m \in Mounts, merging'[m] # NoMerge
      PROVE  merging'[m] = merging[m] \/ (m = i /\ Merge(p) /\ merging[m] = NoMerge)
  <2>1. CASE Merge(p)
    <3>1. \/ merging' = merging
          \/ /\ merging[i] = NoMerge
             /\ merging' = [merging EXCEPT ![i] = [s |-> s, adds |-> commits[s][i],
                                                  clash |-> Contested(s, i)]]
      BY <1>b, <1>c, <2>1 DEF Merge
    <3> QED
      BY <1>g, <2>1, <3>1
  <2>2. CASE Push(p)
    <3>1. \/ merging' = [merging EXCEPT ![i] = NoMerge]
          \/ merging' = [merging EXCEPT ![i] = @]
      BY <1>c, <2>2 DEF Push
    <3> QED
      BY <1>1, <1>g, <3>1
  <2>3. CASE ~Merge(p) /\ ~Push(p)
    BY <2>3 DEF Step, PlanMigration, RenameBranch, MoveWorktree, SaveMigrated, AddWorktree,
       SaveStarted, Plan, CommitDirty, RemoveWorktree, DeleteBranch, SaveLanded, Load,
       ForceRemove, ForceBranch, SaveDiscarded, InspectLeftover, CloseWorktree, Collect, Inspect,
       Hold, MarkPublished, Report, CleanUp, Crash, baseVars
  <2> QED
    BY <2>1, <2>2, <2>3
<1>s. shared' = shared
  BY CommandHistory
<1>2. ASSUME NEW r \in Sessions \ shared, rec[r].status # "none"
      PROVE  rec'[r].status # "none"
  <2>1. CASE Registry(p) /\ r = op[p].s
    BY <1>2, <2>1, RegistrySaves DEF Registry, Orderly
  <2>2. CASE ~Registry(p)
    BY <1>2, <2>2, RegistryKept
  <2>3. CASE r # op[p].s
    BY <1>2, <2>3, RegistryElsewhere
  <2> QED
    BY <2>1, <2>2, <2>3
<1>3. ASSUME NEW m \in Mounts, merging'[m] = merging[m], merging[m] # NoMerge, merging[m].s \notin shared
      PROVE  \/ branch'[merging[m].s][m] = "none"
             \/ \A q \in merging[m].clash : /\ q \in commits'[merging[m].s][m]
                                            /\ <<merging[m].s, q>> \notin base'[m]
  <2>1. merging[m] \in Merges /\ merging[m].s \in Sessions
    BY <1>3, <1>g DEF Merges
  <2>2. PICK r \in Sessions : r = merging[m].s
    BY <2>1
  <2>3. rec[r].status # "none"
    BY <1>3, <2>2 DEF MergesOpen
  <2>n. r \notin shared
    BY <1>3, <2>2
  <2>4. CASE branch[r][m] = "none"
    <3>1. ~(op[p].at \in Starting /\ op[p].s = r)
      BY <2>3, <2>n DEF Orderly, StartsNew
    <3> QED
      BY <2>2, <2>4, <3>1, NoNewTree
  <2>5. CASE branch[r][m] # "none"
    <3>1. \A q \in merging[m].clash : q \in commits[r][m] /\ <<r, q>> \notin base[m]
      BY <1>3, <2>2, <2>5 DEF MergesOpen
    <3>2. commits[r][m] \subseteq commits'[r][m] \/ branch'[r][m] = "none"
      <4>1. CASE CommitDirty(p)
        <5> DEFINE staged == {q \in dirty[op[p].s][op[p].i] : <<op[p].i, q>> \in op[p].plan}
        <5>1. commits' = commits \/ commits' = [commits EXCEPT ![s][i] = @ \cup staged]
          BY <1>b, <1>c, <4>1 DEF CommitDirty
        <5> HIDE DEF staged
        <5> QED
          BY <1>o, <5>1
      <4>2. CASE DeleteBranch(p) \/ ForceBranch(p)
        <5>1. \/ commits' = commits
              \/ /\ commits' = [commits EXCEPT ![s][i] = {}]
                 /\ branch' = [branch EXCEPT ![s][i] = "none"]
          BY <1>b, <1>c, <4>2 DEF DeleteBranch, ForceBranch
        <5>2. CASE r = s /\ m = i
          <6>1. CASE branch' = [branch EXCEPT ![s][i] = "none"]
            BY <1>h, <5>2, <6>1
          <6> QED
            BY <5>1, <6>1
        <5>3. CASE ~(r = s /\ m = i)
          BY <1>o, <5>1, <5>3
        <5> QED
          BY <5>2, <5>3
      <4>3. CASE ~CommitDirty(p) /\ ~DeleteBranch(p) /\ ~ForceBranch(p)
        BY <4>3 DEF Step, PlanMigration, RenameBranch, MoveWorktree, SaveMigrated, AddWorktree,
           SaveStarted, Plan, Merge, RemoveWorktree, SaveLanded, Load, ForceRemove, SaveDiscarded,
           InspectLeftover, CloseWorktree, Collect, Inspect, Hold, Push, MarkPublished, Report,
           CleanUp, Crash, sessionVars
      <4> QED
        BY <4>1, <4>2, <4>3
    <3>3. ASSUME NEW q, <<r, q>> \notin base[m]
          PROVE  <<r, q>> \notin base'[m]
      <4>1. CASE Merge(p)
        <5>1. \/ base' = base
              \/ merging[i] = NoMerge /\ base' = [base EXCEPT ![i] = @ \cup Own(s, commits[s][i])]
          BY <1>b, <1>c, <4>1 DEF Merge
        <5> QED
          BY <1>3, <1>t, <3>3, <5>1
      <4>2. CASE Push(p)
        <5>1. base' = [base EXCEPT ![i] = base[i] \cup Committed(p, i)]
          BY <1>c, <4>2 DEF Push
        <5>2. CASE m = i
          <6>1. op[p].seen \cap baseDirty[i] = {}
            <7>1. op[p].seen \cap baseDirty[i] # {} => merging' = [merging EXCEPT ![i] = NoMerge]
              BY <1>c, <4>2 DEF Push
            <7>2. merging' # [merging EXCEPT ![i] = NoMerge]
              BY <1>3, <1>g, <5>2
            <7> QED
              BY <7>1, <7>2
          <6>2. Committed(p, i) = {}
            BY <6>1 DEF Committed, Own
          <6> QED
            BY <1>t, <3>3, <5>1, <5>2, <6>2
        <5>3. CASE m # i
          BY <1>t, <3>3, <5>1, <5>3
        <5> QED
          BY <5>2, <5>3
      <4>3. CASE Inspect(p)
        <5>1. base' = base \/ base' = [base EXCEPT ![i] = remote[i]]
          BY <1>c, <4>3 DEF Inspect
        <5>2. <<r, q>> \notin remote[m]
          BY <3>3 DEF RemotesFollow
        <5> QED
          BY <1>t, <3>3, <5>1, <5>2
      <4>4. CASE ~Merge(p) /\ ~Push(p) /\ ~Inspect(p)
        BY <3>3, <4>4 DEF Step, PlanMigration, RenameBranch, MoveWorktree, SaveMigrated, AddWorktree,
           SaveStarted, Plan, CommitDirty, RemoveWorktree, DeleteBranch, SaveLanded, Load,
           ForceRemove, ForceBranch, SaveDiscarded, InspectLeftover, CloseWorktree, Collect,
           Hold, MarkPublished, Report, CleanUp, Crash, baseVars
      <4> QED
        BY <4>1, <4>2, <4>3, <4>4
    <3> QED
      BY <2>2, <3>1, <3>2, <3>3
  <2> QED
    BY <2>4, <2>5
<1>4. ASSUME Merge(p), merging[i] = NoMerge, merging'[i] # NoMerge, merging'[i].s \notin shared
      PROVE  /\ merging'[i].s = s /\ rec'[s].status # "none" /\ merging'[i].clash # {}
             /\ \A q \in merging'[i].clash : q \in commits'[s][i] /\ <<s, q>> \notin base'[i]
  <2> DEFINE v == [s |-> s, adds |-> commits[s][i], clash |-> Contested(s, i)]
  <2>1. /\ merging' = [merging EXCEPT ![i] = v] /\ Contested(s, i) # {}
        /\ UNCHANGED <<base, commits, rec>>
    BY <1>4, <1>b, <1>c DEF Merge, sessionVars
  <2>2. v.s = s /\ v.clash = Contested(s, i)
    OBVIOUS
  <2> HIDE DEF v
  <2>3. merging'[i] = v
    BY <1>g, <2>1
  <2>4. \A q \in Contested(s, i) : q \in commits[s][i] /\ <<s, q>> \notin base[i]
    BY DEF Contested, Incoming
  <2>5. rec[s].status = "active"
    BY <1>4, <1>b, <2>2, <2>3 DEF Merge, Orderly, ReadsCurrent, Landing
  <2> QED
    BY <2>1, <2>2, <2>3, <2>4, <2>5
<1> SUFFICES ASSUME NEW m \in Mounts, merging'[m] # NoMerge, merging'[m].s \notin shared
             PROVE  /\ rec'[merging'[m].s].status # "none" /\ merging'[m].clash # {}
                    /\ \/ branch'[merging'[m].s][m] = "none"
                       \/ \A q \in merging'[m].clash : /\ q \in commits'[merging'[m].s][m]
                                                       /\ <<merging'[m].s, q>> \notin base'[m]
  BY <1>s DEF MergesOpen, NoMerge
<1>5. CASE merging'[m] = merging[m]
  <2>1. merging[m].s \in Sessions
    BY <1>5, <1>g DEF Merges
  <2>2. rec[merging[m].s].status # "none" /\ merging[m].clash # {}
    BY <1>5 DEF MergesOpen
  <2> QED
    BY <1>2, <1>3, <1>5, <2>1, <2>2
<1>6. CASE m = i /\ Merge(p) /\ merging[m] = NoMerge
  BY <1>4, <1>6
<1> QED
  BY <1>1, <1>5, <1>6

\* The conflict of an active session is among the paths a sync holds back, so
\* no commit of a sync has its markers; no other step of a command makes them.
LEMMA CommandConflicts ==
  ASSUME TypeInv, NEW p \in Procs, HoldsActive(p), RemotesFollow,
         Step(p) \/ CleanUp(p) \/ Crash(p)
  PROVE  HoldsConflicts
<1> SUFFICES ASSUME NEW m \in Mounts, NEW q \in Paths, <<"markers", q>> \in base'[m], <<"markers", q>> \notin base[m],
                    rec[merging[m].s].status = "active", merging[m].s \notin shared,
                    ~\E x \in Procs : op[x].at = "push" /\ op[x].i = m /\ <<x, m>> \in late
             PROVE  FALSE
  BY DEF HoldsConflicts
<1>a. op[p].s \in Sessions /\ op[p].i \in Mounts
  BY CommandAt
<1>t. base \in [Mounts -> Contents]
  BY TypeOKVars DEF TypeInv, VarsOK
<1>g. merging \in [Mounts -> Merges \cup {NoMerge}]
  BY DEF TypeInv, MergesOK
<1>1. CASE Merge(p)
  <2>1. base' = base \/ base' = [base EXCEPT ![op[p].i] = @ \cup Own(op[p].s, commits[op[p].s][op[p].i])]
    BY <1>1 DEF Merge
  <2>2. <<"markers", q>> \notin Own(op[p].s, commits[op[p].s][op[p].i])
    BY <1>a, ConstantsAssumption DEF Own
  <2> QED
    BY <1>t, <2>1, <2>2
<1>2. CASE Inspect(p)
  <2>1. base' = base \/ base' = [base EXCEPT ![op[p].i] = remote[op[p].i]]
    BY <1>2 DEF Inspect
  <2>2. <<"markers", q>> \notin remote[m]
    BY DEF RemotesFollow
  <2> QED
    BY <1>t, <2>1, <2>2
<1>3. CASE Push(p)
  <2>1. op[p].at = "push" /\ base' = [base EXCEPT ![op[p].i] = base[op[p].i] \cup Committed(p, op[p].i)]
    BY <1>3 DEF Push
  <2>2. m = op[p].i /\ <<"markers", q>> \in Committed(p, m)
    BY <1>t, <2>1
  <2>3. <<"markers", q>> \notin Own("user", op[p].seen \cap baseDirty[m])
    BY DEF Own
  <2>4. merging[m] # NoMerge
    BY <2>2, <2>3 DEF Committed
  <2>5. merging[m] \in Merges
    BY <1>g, <2>4
  <2>6. <<"markers", q>> \notin Own(merging[m].s, merging[m].adds)
    BY <2>5, ConstantsAssumption DEF Own, Merges
  <2>7. q \in op[p].seen /\ q \in merging[m].clash
    BY <2>2, <2>3, <2>6 DEF Committed, Own
  <2> QED
    BY <2>1, <2>2, <2>4, <2>7 DEF HoldsActive
<1>4. CASE ~Merge(p) /\ ~Push(p) /\ ~Inspect(p)
  BY <1>4 DEF Step, PlanMigration, RenameBranch, MoveWorktree, SaveMigrated, AddWorktree,
     SaveStarted, Plan, CommitDirty, RemoveWorktree, DeleteBranch, SaveLanded, Load,
     ForceRemove, ForceBranch, SaveDiscarded, InspectLeftover, CloseWorktree, Collect,
     Hold, MarkPublished, Report, CleanUp, Crash, baseVars
<1> QED
  BY <1>1, <1>2, <1>3, <1>4

\* A command goes on with the same job, or it has ended.
LEMMA CommandJob ==
  ASSUME TypeInv, NEW p \in Procs, Step(p) \/ CleanUp(p) \/ Crash(p)
  PROVE  op'[p] = Idle \/ (op'[p].s = op[p].s /\ op'[p].cmd = op[p].cmd)
<1>1. CASE Quit(p)
  BY <1>1 DEF Quit, TypeInv, OpsOK
<1>2. CASE PlanMigration(p) \/ Plan(p) \/ Load(p) \/ InspectLeftover(p)
  BY <1>2, PlanMigrationOps, PlanOps, LoadOps, InspectLeftoverOps
<1>3. CASE Collect(p) \/ Inspect(p) \/ Hold(p) \/ Push(p)
  BY <1>3, CollectOps, InspectOps, HoldOps, PushOps DEF SameJob
<1>4. CASE \/ RenameBranch(p) \/ MoveWorktree(p) \/ SaveMigrated(p) \/ AddWorktree(p)
           \/ CommitDirty(p) \/ Merge(p) \/ RemoveWorktree(p) \/ DeleteBranch(p) \/ SaveLanded(p)
           \/ ForceRemove(p) \/ ForceBranch(p)
  BY <1>1, <1>4, StepLeads DEF Moves, Passes, SameJob
<1> QED
  BY <1>1, <1>2, <1>3, <1>4, StepLeads DEF Step

\* A sync goes through the mounts and does nothing else; it leaves the sessions
\* alone.
LEMMA CommandSyncs ==
  ASSUME TypeInv, NEW p \in Procs, SyncsOnly(p), Step(p) \/ CleanUp(p) \/ Crash(p)
  PROVE  /\ SyncsOnly(p)'
         /\ op[p].cmd = "sync" => UNCHANGED sessionVars
<1>1. CASE op[p].cmd # "sync"
  <2>1. op'[p].cmd # "sync"
    BY <1>1, CommandJob, IdleTyped
  <2> QED
    BY <1>1, <2>1 DEF SyncsOnly
<1>2. CASE op[p].cmd = "sync"
  <2>1. Collect(p) \/ Inspect(p) \/ Hold(p) \/ Push(p) \/ Report(p) \/ Crash(p)
    BY <1>2 DEF SyncsOnly, SyncPoints, Step, PlanMigration, RenameBranch, MoveWorktree, SaveMigrated,
       AddWorktree, SaveStarted, Plan, CommitDirty, Merge, RemoveWorktree, DeleteBranch, SaveLanded,
       Load, ForceRemove, ForceBranch, SaveDiscarded, InspectLeftover, CloseWorktree, MarkPublished,
       CleanUp
  <2>2. UNCHANGED sessionVars
    BY <2>1 DEF Collect, Inspect, Hold, Push, Report, Crash
  <2>3. SyncNext(p) => op'[p].at \in {"inspect", "report"}
    BY <1>2, NextMountPasses DEF SyncNext, Passes
  <2>4. op'[p] = Idle \/ op'[p].at \in SyncPoints
    BY <1>2, <2>1, <2>3, StepLeads, CollectOps, InspectOps, HoldOps, PushOps
       DEF SyncEnd, SyncPoints, Quit, TypeInv, OpsOK
  <2> QED
    BY <2>2, <2>4, IdleTyped DEF SyncsOnly, SyncPoints
<1> QED
  BY <1>1, <1>2

\* A command leaves the sessions alone that it is not about.
LEMMA CommandElsewhere ==
  ASSUME TypeInv, NEW p \in Procs, Step(p) \/ CleanUp(p) \/ Crash(p), NEW r \in Sessions, r # op[p].s
  PROVE  /\ rec'[r] = rec[r] /\ tree'[r] = tree[r] /\ branch'[r] = branch[r]
         /\ dirty'[r] = dirty[r] /\ commits'[r] = commits[r]
<1>c. commits \in [Sessions -> [Mounts -> SUBSET Paths]]
  BY TypeOKVars DEF TypeInv, VarsOK
<1>d. dirty \in [Sessions -> [Mounts -> SUBSET Paths]]
  BY TypeOKVars DEF TypeInv, VarsOK
<1>t. tree \in [Sessions -> [Mounts -> Places]]
  BY TypeOKVars DEF TypeInv, VarsOK
<1>b. branch \in [Sessions -> [Mounts -> Places]]
  BY TypeOKVars DEF TypeInv, VarsOK
<1>1. rec'[r] = rec[r]
  BY RegistryElsewhere
<1>2. CASE AddWorktree(p) \/ CleanUp(p)
  <2>1. UNCHANGED <<dirty, commits>>
    BY <1>2 DEF AddWorktree, CleanUp
  <2>2. CASE AddWorktree(p)
    BY <1>1, <1>t, <1>b, <2>1, <2>2 DEF AddWorktree
  <2>3. CASE CleanUp(p)
    <3> DEFINE cleaned == [n \in Mounts |-> IF n < op[p].i \/ op[p].at = "started" THEN "none"
                                           ELSE tree[op[p].s][n]]
    <3>1. tree' = [tree EXCEPT ![op[p].s] = cleaned] /\ branch' = [branch EXCEPT ![op[p].s] = cleaned]
      BY <2>3 DEF CleanUp
    <3> HIDE DEF cleaned
    <3> QED
      BY <1>1, <1>t, <1>b, <2>1, <3>1
  <2> QED
    BY <1>2, <2>2, <2>3
<1>3. CASE \/ RenameBranch(p) \/ MoveWorktree(p) \/ RemoveWorktree(p) \/ CloseWorktree(p)
           \/ ForceRemove(p) \/ DeleteBranch(p) \/ ForceBranch(p)
  <2>1. /\ \/ branch' = branch \/ branch' = [branch EXCEPT ![op[p].s][op[p].i] = "none"]
           \/ branch' = [branch EXCEPT ![op[p].s][op[p].i] = "sessions"]
        /\ \/ tree' = tree \/ tree' = [tree EXCEPT ![op[p].s][op[p].i] = "none"]
           \/ tree' = [tree EXCEPT ![op[p].s][op[p].i] = "sessions"]
        /\ commits' = commits \/ commits' = [commits EXCEPT ![op[p].s][op[p].i] = {}]
        /\ dirty' = dirty \/ dirty' = [dirty EXCEPT ![op[p].s][op[p].i] = {}]
    BY <1>3 DEF RenameBranch, MoveWorktree, RemoveWorktree, CloseWorktree, RemoveClean, ForceRemove,
       DeleteBranch, ForceBranch
  <2>2. tree'[r] = tree[r]
    BY <1>t, <2>1
  <2>3. branch'[r] = branch[r]
    BY <1>b, <2>1
  <2>4. commits'[r] = commits[r]
    BY <1>c, <2>1
  <2>5. dirty'[r] = dirty[r]
    BY <1>d, <2>1
  <2> QED
    BY <1>1, <2>2, <2>3, <2>4, <2>5
<1>4. CASE CommitDirty(p)
  <2> DEFINE staged == {q \in dirty[op[p].s][op[p].i] : <<op[p].i, q>> \in op[p].plan}
  <2>1. /\ UNCHANGED <<tree, branch>>
        /\ dirty' = dirty \/ dirty' = [dirty EXCEPT ![op[p].s][op[p].i] = @ \ staged]
        /\ commits' = commits \/ commits' = [commits EXCEPT ![op[p].s][op[p].i] = @ \cup staged]
    BY <1>4 DEF CommitDirty
  <2> HIDE DEF staged
  <2>2. dirty'[r] = dirty[r]
    BY <1>d, <2>1
  <2>3. commits'[r] = commits[r]
    BY <1>c, <2>1
  <2> QED
    BY <1>1, <2>1, <2>2, <2>3
<1>5. CASE UNCHANGED <<tree, branch, dirty, commits>>
  BY <1>1, <1>5
<1> QED
  BY <1>2, <1>3, <1>4, <1>5 DEF Step, PlanMigration, SaveMigrated, SaveStarted, Plan,
     Merge, SaveLanded, Load, SaveDiscarded, InspectLeftover, Collect, Inspect, Hold,
     Push, MarkPublished, Report, Crash, sessionVars

\* What a command promises, it promises as long as nothing happens to its session.
LEMMA StandingOrderly ==
  ASSUME TypeInv, NEW q \in Procs, op'[q] = op[q], Orderly(q), NEW s \in Sessions, s = op[q].s,
         rec'[s] = rec[s], tree'[s] = tree[s], branch'[s] = branch[s],
         dirty'[s] = dirty[s], commits'[s] = commits[s], made'[s] = made[s],
         \A m \in Mounts : base[m] \subseteq base'[m] /\ remote[m] \subseteq remote'[m]
  PROVE  Orderly(q)'
<1>1. StartsNew(q)' /\ ReadsCurrent(q)' /\ StartsFirst(q)' /\ RemovesFirst(q)'
  BY DEF Orderly, StartsNew, ReadsCurrent, StartsFirst, RemovesFirst
<1>2. LandsAll(q)'
  <2>1. CASE op[q].at \notin Landing
    BY <2>1 DEF LandsAll
  <2>2. CASE op[q].at \in Landing
    <3>1. /\ \A m \in Mounts : \A x \in made[s][m] : Kept(s, m, x)
          /\ \A m \in Mounts : m < op[q].i \/ op[q].at = "landed" => Gone(s, m)
          /\ op[q].at = "delete" => tree[s][op[q].i] = "none" /\ dirty[s][op[q].i] = {}
      BY <2>2 DEF Orderly, LandsAll
    <3>2. \A m \in Mounts : \A x \in made'[s][m] : Kept(s, m, x)'
      BY <3>1 DEF Kept
    <3>3. \A m \in Mounts : Gone(s, m) => Gone(s, m)'
      BY DEF Gone
    <3> QED
      BY <3>1, <3>2, <3>3 DEF LandsAll
  <2> QED
    BY <2>1, <2>2
<1>3. Publishes(q)'
  BY DEF Orderly, Publishes, Own
<1> QED
  BY <1>1, <1>2, <1>3 DEF Orderly

\* A command that is not at work on a session promises nothing of it.
LEMMA OffWorkOrderly ==
  ASSUME TypeInv, NEW q \in Procs, op'[q] = op[q], Orderly(q), SyncsOnly(q), ~AtWork(q)
  PROVE  Orderly(q)'
<1>1. op[q].at \in SyncPoints /\ (op[q].cmd = "sync" \/ op[q].at = "idle")
  BY DEF SyncsOnly, AtWork, SyncPoints
<1>2. /\ op[q].at \notin Starting /\ op[q].at \notin Migrating
      /\ op[q].at \notin Landing /\ op[q].at \notin Discarding
      /\ op[q].at \notin {"migrate", "plan", "mark", "forget"}
  BY <1>1 DEF SyncPoints, Starting, Migrating, Landing, Discarding
<1>3. op[q].cmd # "start"
  BY <1>2 DEF Orderly, StartsNew, Starting
<1>4. ~(op[q].cmd = "publish" /\ op[q].at \in Syncing)
  BY <1>1 DEF Syncing
<1>5. StartsNew(q)' /\ ReadsCurrent(q)' /\ StartsFirst(q)' /\ LandsAll(q)' /\ RemovesFirst(q)'
  <2>1. op'[q].at = op[q].at /\ op'[q].cmd = op[q].cmd
    OBVIOUS
  <2>2. StartsNew(q)' /\ RemovesFirst(q)'
    BY <1>2, <1>3, <2>1 DEF StartsNew, RemovesFirst
  <2>3. ReadsCurrent(q)'
    BY <1>2, <2>1 DEF ReadsCurrent
  <2>4. StartsFirst(q)'
    <3>1. op'[q].at \notin {"migrate", "migrated", "plan"}
      BY <1>2, <2>1 DEF Migrating
    <3> QED
      BY <3>1 DEF StartsFirst
  <2>5. LandsAll(q)'
    BY <1>2, <2>1 DEF LandsAll
  <2> QED
    BY <2>2, <2>3, <2>4, <2>5
<1>6. Publishes(q)'
  BY <1>2, <1>4 DEF Publishes, Syncing
<1> QED
  BY <1>5, <1>6 DEF Orderly

\* The steps of one command leave what another one promises.
LEMMA OthersOrderly ==
  ASSUME TypeInv, SessionsInv, NEW p \in Procs, Step(p) \/ CleanUp(p) \/ Crash(p),
         NEW q \in Procs \ {p}, op[q].s \notin shared
  PROVE  Orderly(q)'
<1>1. op'[q] = op[q] /\ Orderly(q) /\ SyncsOnly(q) /\ SyncsOnly(p)
  BY CommandOthers DEF Others, SessionsInv
<1>2. CASE ~AtWork(q)
  BY <1>1, <1>2, OffWorkOrderly
<1>3. CASE AtWork(q)
  <2>1. op[q].s \in Sessions
    BY <1>3 DEF AtWork, TypeInv, OpsOK, Sound
  <2>2. PICK s \in Sessions : s = op[q].s
    BY <2>1
  <2>3. \A m \in Mounts : base[m] \subseteq base'[m] /\ remote[m] \subseteq remote'[m]
    BY BaseGrows, RemoteStep DEF Next
  <2>4. made' = made
    BY CommandHistory
  <2>5. op[p].cmd = "sync" \/ op[p].s # s
    BY <1>3, <2>2, CommandAt DEF SessionsInv, Apart, AtWork
  <2>6. /\ rec'[s] = rec[s] /\ tree'[s] = tree[s] /\ branch'[s] = branch[s]
        /\ dirty'[s] = dirty[s] /\ commits'[s] = commits[s]
    <3>1. CASE op[p].cmd = "sync"
      BY <1>1, <3>1, CommandSyncs DEF sessionVars
    <3>2. CASE op[p].s # s
      BY <3>2, CommandElsewhere
    <3> QED
      BY <2>5, <3>1, <3>2
  <2> QED
    BY <1>1, <2>2, <2>3, <2>4, <2>6, StandingOrderly
<1> QED
  BY <1>2, <1>3

\* What another command opens after a sync has collected is marked as late, so
\* the sync goes on to hold back what it could see.
LEMMA OthersHold ==
  ASSUME TypeInv, SessionsInv, NEW p \in Procs, Step(p) \/ CleanUp(p) \/ Crash(p), NEW q \in Procs \ {p}
  PROVE  HoldsActive(q)'
<1>1. op'[q] = op[q] /\ HoldsActive(q) /\ shared' = shared
  BY CommandOthers, CommandHistory DEF Others, SessionsInv
<1>2. ASSUME NEW m \in Mounts, <<q, m>> \in late
      PROVE  <<q, m>> \in late'
  BY <1>2, CommandHistory
<1>g. merging \in [Mounts -> Merges \cup {NoMerge}]
  BY DEF TypeInv, MergesOK
<1>3. ASSUME NEW m \in Mounts, merging'[m] # NoMerge, Collected(q), <<q, m>> \notin late'
      PROVE  merging'[m] = merging[m]
  <2>1. CASE Merge(p)
    <3>i. op[p].i \in Mounts
      BY CommandAt
    <3>1. \/ merging' = merging
          \/ /\ \E v : merging' = [merging EXCEPT ![op[p].i] = v]
             /\ late' = late \cup {<<x, op[p].i>> : x \in {x \in Procs : Collected(x)}}
      BY <2>1 DEF Merge
    <3>2. CASE /\ \E v : merging' = [merging EXCEPT ![op[p].i] = v]
               /\ late' = late \cup {<<x, op[p].i>> : x \in {x \in Procs : Collected(x)}}
      <4>1. m # op[p].i
        BY <1>3, <3>2
      <4> QED
        BY <1>g, <3>2, <4>1
    <3> QED
      BY <3>1, <3>2
  <2>2. CASE Push(p)
    <3>1. \/ merging' = [merging EXCEPT ![op[p].i] = NoMerge]
          \/ merging' = [merging EXCEPT ![op[p].i] = @]
      BY <2>2 DEF Push
    <3> QED
      BY <1>3, <1>g, <3>1
  <2>3. CASE ~Merge(p) /\ ~Push(p)
    BY <2>3 DEF Step, PlanMigration, RenameBranch, MoveWorktree, SaveMigrated, AddWorktree,
       SaveStarted, Plan, CommitDirty, RemoveWorktree, DeleteBranch, SaveLanded, Load,
       ForceRemove, ForceBranch, SaveDiscarded, InspectLeftover, CloseWorktree, Collect, Inspect,
       Hold, MarkPublished, Report, CleanUp, Crash, baseVars
  <2> QED
    BY <2>1, <2>2, <2>3
<1>4. ASSUME NEW r \in Sessions \ shared, rec[r].status # "none", rec'[r].status = "active"
      PROVE  rec[r].status = "active"
  <2>1. CASE rec'[r] = rec[r]
    BY <1>4, <2>1
  <2>2. CASE rec'[r] # rec[r]
    <3>1. Registry(p) /\ r = op[p].s /\ Orderly(p)
      BY <2>2, RegistryKept, RegistryElsewhere DEF SessionsInv
    <3>2. ~SaveStarted(p)
      BY <1>4, <3>1 DEF SaveStarted, Orderly, StartsNew, Starting
    <3> QED
      BY <1>4, <3>1, <3>2, RegistrySaves DEF Registry, Orderly
  <2> QED
    BY <2>1, <2>2
<1>5. ASSUME op[q].at \in {"inspect", "hold", "push"}, NEW m \in Mounts, merging'[m] # NoMerge,
             merging'[m].s \notin shared, <<q, m>> \notin late', rec'[merging'[m].s].status = "active",
             NEW x \in merging'[m].clash
      PROVE  <<m, x>> \in op[q].plan
  <2>1. merging'[m] = merging[m] /\ <<q, m>> \notin late
    BY <1>2, <1>3, <1>5 DEF Collected
  <2>2. merging[m].s \in Sessions \ shared /\ rec[merging[m].s].status # "none"
    BY <1>5, <1>g, <2>1 DEF Merges, SessionsInv, MergesOpen
  <2>3. rec[merging[m].s].status = "active"
    BY <1>4, <1>5, <2>1, <2>2
  <2> QED
    BY <1>1, <1>5, <2>1, <2>2, <2>3 DEF HoldsActive
<1> QED
  BY <1>1, <1>5 DEF HoldsActive, NoMerge

\* A step of a command preserves all of SessionsInv.
LEMMA CommandKeeps ==
  ASSUME TypeInv, SessionsInv, NEW p \in Procs, Step(p) \/ CleanUp(p) \/ Crash(p)
  PROVE  SessionsInv' /\ HoldsConflicts
<1>1. /\ op[p].s \notin shared => Orderly(p)
      /\ SyncsOnly(p) /\ HoldsActive(p)
      /\ RecordsOK /\ LostOnlyWithTree /\ MergesOpen /\ RemotesFollow
      /\ FinishedMeansLanded /\ PublishedMeansPushed
  BY DEF SessionsInv
<1>s. shared' = shared
  BY CommandHistory
<1>2. op'[p].s \notin shared => Orderly(p)'
  <2>1. CASE op'[p] = Idle
    BY <2>1, IdleHolds DEF Orderly
  <2>2. CASE op[p].s \notin shared
    <3>1. /\ StartsNew(p) /\ ReadsCurrent(p) /\ StartsFirst(p) /\ LandsAll(p) /\ RemovesFirst(p)
          /\ Publishes(p)
      BY <1>1, <2>2 DEF Orderly
    <3>2. StartsNew(p)' /\ ReadsCurrent(p)' /\ StartsFirst(p)'
      BY <3>1, CommandReads
    <3>3. LandsAll(p)' /\ RemovesFirst(p)'
      BY <1>1, <2>2, <3>1, CommandLands, CommandRemoves
    <3>4. Publishes(p)'
      BY <1>1, <2>2, <3>1, CommandPublishes
    <3> QED
      BY <3>2, <3>3, <3>4 DEF Orderly
  <2> QED
    BY <2>1, <2>2, CommandJob
<1>3. SyncsOnly(p)' /\ HoldsActive(p)'
  BY <1>1, CommandSyncs, CommandHolds
<1>4. \A q \in Procs \ {p} : op'[q] = op[q]
  BY CommandOthers DEF Others
<1>5. RecordsOK' /\ LostOnlyWithTree' /\ MergesOpen'
  BY <1>1, CommandRecords, CommandLoses, CommandMerges DEF Orderly
<1>6. RemotesFollow'
  BY <1>1, RemotesFollowStep DEF Next
<1>7. FinishedMeansLanded' /\ PublishedMeansPushed'
  BY <1>1, CommandFinishes, CommandMarks
<1>8. ASSUME NEW q \in Procs
      PROVE  (op'[q].s \notin shared' => Orderly(q)') /\ SyncsOnly(q)' /\ HoldsActive(q)'
  <2>1. CASE q = p
    BY <1>2, <1>3, <1>s, <2>1
  <2>2. CASE q # p
    <3>1. SyncsOnly(q)'
      BY <1>4, <2>2 DEF SessionsInv, SyncsOnly
    <3> QED
      BY <1>4, <1>s, <2>2, <3>1, OthersOrderly, OthersHold
  <2> QED
    BY <2>1, <2>2
<1>9. Apart'
  <2>1. \A q \in Procs : AtWork(q)' => AtWork(q) /\ op'[q].s = op[q].s
    <3>1. AtWork(p)' => AtWork(p) /\ op'[p].s = op[p].s
      BY CommandJob, CommandAt, IdleTyped DEF AtWork
    <3> QED
      BY <1>4, <3>1 DEF AtWork
  <2> QED
    BY <1>s, <2>1 DEF SessionsInv, Apart
<1>10. HoldsConflicts
  BY <1>1, CommandConflicts
<1> QED
  BY <1>5, <1>6, <1>7, <1>8, <1>9, <1>10 DEF SessionsInv

-----------------------------------------------------------------------------
(* The steps of people and agents, and the start of a command *)

Outside ==
  \/ \E s \in Sessions, m \in Mounts : CommitSession(s, m)
  \/ \E s \in Sessions, m \in Mounts, q \in Paths : EditSession(s, m, q)
  \/ \E m \in Mounts : CommitBase(m) \/ EndMerge(m)
  \/ \E m \in Mounts, q \in Paths : EditBase(m, q) \/ OtherPushes(m, q)

\* Nobody works in a worktree that is gone, and what a session committed stays.
LEMMA OutsideSessions ==
  ASSUME TypeInv, Outside
  PROVE  /\ UNCHANGED <<op, rec, tree, branch, shared, late>>
         /\ \A s \in Sessions : NotForced(s)
         /\ \A s \in Sessions, m \in Mounts : tree[s][m] = "none" /\ dirty[s][m] = {} =>
              dirty'[s][m] = {} /\ commits'[s][m] = commits[s][m]
         /\ \A s \in Sessions, m \in Mounts : commits[s][m] \subseteq commits'[s][m]
<1>c. commits \in [Sessions -> [Mounts -> SUBSET Paths]]
  BY TypeOKVars DEF TypeInv, VarsOK
<1>d. dirty \in [Sessions -> [Mounts -> SUBSET Paths]]
  BY TypeOKVars DEF TypeInv, VarsOK
<1>1. UNCHANGED <<op, rec, tree, branch, shared, late>>
  BY DEF Outside, CommitSession, EditSession, CommitBase, EndMerge, EditBase, OtherPushes,
     sessionVars, history
<1>2. ASSUME NEW p \in Procs
      PROVE  ~ForceRemove(p) /\ ~ForceBranch(p)
  BY <1>1, StandingForcesNothing
<1>3. ASSUME NEW s \in Sessions, NEW m \in Mounts
      PROVE  /\ tree[s][m] = "none" /\ dirty[s][m] = {} =>
                  dirty'[s][m] = {} /\ commits'[s][m] = commits[s][m]
             /\ commits[s][m] \subseteq commits'[s][m]
  <2>1. ASSUME NEW r \in Sessions, NEW n \in Mounts, CommitSession(r, n)
        PROVE  /\ dirty[s][m] = {} => dirty'[s][m] = {} /\ commits'[s][m] = commits[s][m]
               /\ commits[s][m] \subseteq commits'[s][m]
    <3>1. /\ commits' = [commits EXCEPT ![r][n] = @ \cup dirty[r][n]]
          /\ dirty' = [dirty EXCEPT ![r][n] = {}]
      BY <2>1 DEF CommitSession
    <3>2. dirty[s][m] = {} => dirty'[s][m] = {}
      BY <1>d, <3>1
    <3>3. /\ commits[s][m] \subseteq commits'[s][m]
          /\ dirty[s][m] = {} => commits'[s][m] = commits[s][m]
      BY <1>c, <1>d, <3>1
    <3> QED
      BY <3>2, <3>3
  <2>2. ASSUME NEW r \in Sessions, NEW n \in Mounts, NEW q \in Paths, EditSession(r, n, q)
        PROVE  /\ tree[s][m] = "none" => dirty'[s][m] = dirty[s][m]
               /\ commits' = commits
    <3>1. dirty' = [dirty EXCEPT ![r][n] = @ \cup {q}] /\ tree[r][n] # "none" /\ commits' = commits
      BY <2>2 DEF EditSession
    <3> QED
      BY <1>d, <3>1
  <2>3. ASSUME ~\E r \in Sessions, n \in Mounts : CommitSession(r, n),
               ~\E r \in Sessions, n \in Mounts, q \in Paths : EditSession(r, n, q)
        PROVE  UNCHANGED <<dirty, commits>>
    BY <2>3 DEF Outside, CommitBase, EndMerge, EditBase, OtherPushes, sessionVars
  <2> QED
    BY <2>1, <2>2, <2>3
<1> QED
  BY <1>1, <1>2, <1>3 DEF NotForced

\* A merge that is open stays as it is until it ends, and its mount's base too.
LEMMA OutsideMerges ==
  ASSUME TypeInv, Outside
  PROVE  /\ \A m \in Mounts : \/ merging'[m] = NoMerge
                              \/ merging'[m] = merging[m] /\ (merging[m] # NoMerge => base'[m] = base[m])
         /\ \A m \in Mounts, q \in Paths : <<"markers", q>> \in base'[m] => <<"markers", q>> \in base[m]
<1>t. base \in [Mounts -> Contents]
  BY TypeOKVars DEF TypeInv, VarsOK
<1>g. merging \in [Mounts -> Merges \cup {NoMerge}]
  BY DEF TypeInv, MergesOK
<1>1. ASSUME NEW n \in Mounts, CommitBase(n), NEW m \in Mounts
      PROVE  /\ merging'[m] = merging[m] /\ (merging[m] # NoMerge => base'[m] = base[m])
             /\ \A q \in Paths : <<"markers", q>> \in base'[m] => <<"markers", q>> \in base[m]
  <2>1. /\ merging[n] = NoMerge /\ merging' = merging
        /\ base' = [base EXCEPT ![n] = @ \cup Own("user", baseDirty[n])]
    BY <1>1 DEF CommitBase
  <2>2. \A q \in Paths : <<"markers", q>> \notin Own("user", baseDirty[n])
    BY DEF Own
  <2> QED
    BY <1>t, <2>1, <2>2
<1>2. ASSUME NEW n \in Mounts, EndMerge(n), NEW m \in Mounts
      PROVE  /\ \/ merging'[m] = NoMerge
                \/ merging'[m] = merging[m] /\ base'[m] = base[m]
             /\ \A q \in Paths : <<"markers", q>> \in base'[m] => <<"markers", q>> \in base[m]
  <2>1. /\ merging[n] # NoMerge /\ merging' = [merging EXCEPT ![n] = NoMerge]
        /\ \/ base' = [base EXCEPT ![n] = @ \cup Own(merging[n].s, merging[n].adds)]
           \/ base' = base
    BY <1>2 DEF EndMerge
  <2>2. merging[n].s \in Sessions
    BY <1>g, <2>1 DEF Merges
  <2>3. \A q \in Paths : <<"markers", q>> \notin Own(merging[n].s, merging[n].adds)
    BY <2>2, ConstantsAssumption DEF Own
  <2>4. CASE m = n
    BY <1>t, <1>g, <2>1, <2>3, <2>4
  <2>5. CASE m # n
    BY <1>t, <1>g, <2>1, <2>5
  <2> QED
    BY <2>4, <2>5
<1>3. ASSUME ~\E n \in Mounts : CommitBase(n) \/ EndMerge(n)
      PROVE  UNCHANGED <<base, merging>>
  BY <1>3 DEF Outside, CommitSession, EditSession, EditBase, OtherPushes, baseVars
<1> QED
  BY <1>1, <1>2, <1>3

\* People and agents that work in the checkouts preserve SessionsInv.
LEMMA OutsideKeeps ==
  ASSUME TypeInv, SessionsInv, Outside
  PROVE  SessionsInv' /\ HoldsConflicts
<1>0. [Next]_vars
  BY DEF Outside, Next
<1>1. UNCHANGED <<op, rec, tree, branch, shared, late>> /\ \A s \in Sessions : NotForced(s)
  BY OutsideSessions
<1>2. \A m \in Mounts : base[m] \subseteq base'[m] /\ remote[m] \subseteq remote'[m]
  BY <1>0, BaseGrows, RemoteStep
<1>3. ASSUME NEW s \in Sessions, NEW m \in Mounts, NEW q \in made'[s][m]
      PROVE  q \in made[s][m] \/ (tree[s][m] # "none" /\ rec[s].status # "none" /\ Kept(s, m, q)')
  BY <1>0, <1>3, MadeStep DEF Kept
<1>4. ASSUME NEW s \in Sessions, NEW m \in Mounts, NEW q, Kept(s, m, q)
      PROVE  Kept(s, m, q)'
  BY <1>0, <1>1, <1>4, KeptStays
<1>5. ASSUME NEW s \in Sessions, NEW m \in Mounts, Gone(s, m)
      PROVE  Gone(s, m)'
  BY <1>1, <1>5, OutsideSessions DEF Gone
<1>6. RecordsOK' /\ LostOnlyWithTree'
  <2>1. RecordsOK'
    BY <1>1, <1>3 DEF SessionsInv, RecordsOK
  <2>2. LostOnlyWithTree'
    BY <1>1, <1>3, <1>4 DEF SessionsInv, LostOnlyWithTree
  <2> QED
    BY <2>1, <2>2
<1>7. MergesOpen'
  <2> SUFFICES ASSUME NEW m \in Mounts, merging'[m] # NoMerge, merging'[m].s \notin shared
               PROVE  /\ rec'[merging'[m].s].status # "none" /\ merging'[m].clash # {}
                      /\ \/ branch'[merging'[m].s][m] = "none"
                         \/ \A q \in merging'[m].clash : /\ q \in commits'[merging'[m].s][m]
                                                         /\ <<merging'[m].s, q>> \notin base'[m]
    BY <1>1 DEF MergesOpen, NoMerge
  <2>1. merging'[m] = merging[m] /\ base'[m] = base[m] /\ merging[m] # NoMerge
    BY OutsideMerges
  <2>2. merging[m].s \in Sessions
    BY <2>1 DEF TypeInv, MergesOK, Merges
  <2>3. commits[merging[m].s][m] \subseteq commits'[merging[m].s][m]
    BY <2>2, OutsideSessions
  <2> QED
    BY <1>1, <2>1, <2>2, <2>3 DEF SessionsInv, MergesOpen
<1>8. RemotesFollow'
  BY <1>0, RemotesFollowStep DEF SessionsInv
<1>9. FinishedMeansLanded'
  <2> SUFFICES ASSUME NEW s \in Sessions \ shared, rec'[s].status = "finished", NEW m \in Mounts
               PROVE  /\ tree'[s][m] = "none" /\ branch'[s][m] = "none"
                      /\ Own(s, made'[s][m]) \subseteq base'[m]
    BY <1>1 DEF FinishedMeansLanded, Own
  <2>1. tree[s][m] = "none" /\ branch[s][m] = "none" /\ Own(s, made[s][m]) \subseteq base[m]
    BY <1>1 DEF SessionsInv, FinishedMeansLanded
  <2>2. made'[s][m] \subseteq made[s][m]
    BY <1>3, <2>1
  <2> QED
    BY <1>1, <1>2, <2>1, <2>2 DEF Own
<1>10. ASSUME NEW s \in Sessions \ shared, rec[s].status = "finished", NEW m \in Mounts
       PROVE  made'[s][m] \subseteq made[s][m]
  BY <1>3, <1>10 DEF SessionsInv, FinishedMeansLanded
<1>11. PublishedMeansPushed'
  <2> SUFFICES ASSUME NEW s \in Sessions \ shared, rec'[s].outcome = "published", NEW m \in Mounts
               PROVE  Own(s, made'[s][m]) \subseteq remote'[m]
    BY <1>1 DEF PublishedMeansPushed, Own
  <2>1. rec[s].status = "finished" /\ Own(s, made[s][m]) \subseteq remote[m]
    BY <1>1 DEF SessionsInv, RecordsOK, PublishedMeansPushed
  <2>2. made'[s][m] \subseteq made[s][m]
    BY <1>10, <2>1
  <2> QED
    BY <1>2, <2>1, <2>2 DEF Own
<1>o. ASSUME NEW p \in Procs, op[p].s \notin shared
      PROVE  /\ StartsNew(p) /\ ReadsCurrent(p) /\ StartsFirst(p) /\ LandsAll(p)
             /\ RemovesFirst(p) /\ Publishes(p)
  BY <1>o DEF SessionsInv, Orderly
<1>12. ASSUME NEW p \in Procs, op[p].s \notin shared
       PROVE  StartsNew(p)' /\ ReadsCurrent(p)' /\ StartsFirst(p)' /\ RemovesFirst(p)'
  BY <1>1, <1>o, <1>12 DEF StartsNew, ReadsCurrent, StartsFirst, RemovesFirst
<1>13. ASSUME NEW p \in Procs, op[p].s \notin shared
       PROVE  LandsAll(p)'
  <2>1. CASE op[p].at \notin Landing
    BY <1>1, <2>1 DEF LandsAll
  <2>2. CASE op[p].at \in Landing
    <3>1. op[p].s \in Sessions /\ op[p].i \in Mounts
      BY <2>2 DEF TypeInv, OpsOK, Sound, Landing
    <3>2. PICK s \in Sessions : s = op[p].s
      BY <3>1
    <3>3. PICK i \in Mounts : i = op[p].i
      BY <3>1
    <3>4. op'[p].s = s /\ op'[p].i = i /\ op'[p].at = op[p].at
      BY <1>1, <3>2, <3>3
    <3>5. LandsAll(p)
      BY <1>o, <1>13
    <3>6. \A m \in Mounts : \A q \in made'[s][m] : Kept(s, m, q)'
      BY <1>3, <1>4, <2>2, <3>2, <3>5 DEF LandsAll
    <3>7. \A m \in Mounts : m < i \/ op[p].at = "landed" => Gone(s, m)'
      BY <1>5, <2>2, <3>2, <3>3, <3>5 DEF LandsAll
    <3>8. op[p].at = "delete" => tree'[s][i] = "none" /\ dirty'[s][i] = {}
      <4>1. op[p].at = "delete" => tree[s][i] = "none" /\ dirty[s][i] = {}
        BY <2>2, <3>2, <3>3, <3>5 DEF LandsAll
      <4> QED
        BY <1>1, <4>1, OutsideSessions
    <3> QED
      BY <3>4, <3>6, <3>7, <3>8 DEF LandsAll
  <2> QED
    BY <2>1, <2>2
<1>14. ASSUME NEW p \in Procs, op[p].s \notin shared
       PROVE  Publishes(p)'
  <2>1. Publishes(p) /\ op' = op /\ rec' = rec
    BY <1>1, <1>o, <1>14
  <2>2. CASE op[p].cmd = "publish" /\ op[p].at \in Syncing
    <3>1. rec[op[p].s].status = "finished" /\ op[p].s \in Sessions
      BY <2>1, <2>2 DEF Publishes, TypeInv, OpsOK, Sound, Syncing
    <3>2. \A m \in Mounts : made'[op[p].s][m] \subseteq made[op[p].s][m]
      BY <1>10, <1>14, <3>1
    <3>3. op[p].ok /\ op[p].at \in {"inspect", "push", "mark"} =>
            \A m \in Mounts : m < op[p].i \/ op[p].at = "mark" =>
              Own(op[p].s, made[op[p].s][m]) \subseteq remote[m]
      BY <2>1, <2>2 DEF Publishes
    <3>4. op[p].ok /\ op[p].at \in {"inspect", "push", "mark"} =>
            \A m \in Mounts : m < op[p].i \/ op[p].at = "mark" =>
              Own(op[p].s, made'[op[p].s][m]) \subseteq remote'[m]
      BY <1>2, <3>2, <3>3 DEF Own
    <3> QED
      BY <2>1, <2>2, <3>1, <3>4 DEF Publishes
  <2>3. CASE ~(op[p].cmd = "publish" /\ op[p].at \in Syncing)
    BY <2>1, <2>3 DEF Publishes, Syncing
  <2> QED
    BY <2>2, <2>3
<1>15. ASSUME NEW p \in Procs
       PROVE  HoldsActive(p)'
  <2>1. HoldsActive(p) /\ op' = op /\ rec' = rec
    BY <1>1 DEF SessionsInv
  <2>2. \A m \in Mounts : merging'[m] = NoMerge \/ merging'[m] = merging[m]
    BY OutsideMerges
  <2> QED
    BY <1>1, <2>1, <2>2 DEF HoldsActive, NoMerge
<1>16. HoldsConflicts
  BY OutsideMerges DEF HoldsConflicts
<1>17. ASSUME NEW p \in Procs
       PROVE  (op'[p].s \notin shared' => Orderly(p)') /\ SyncsOnly(p)'
  <2>1. SyncsOnly(p)'
    BY <1>1 DEF SessionsInv, SyncsOnly
  <2>2. op[p].s \notin shared => Orderly(p)'
    BY <1>12, <1>13, <1>14 DEF Orderly
  <2> QED
    BY <1>1, <2>1, <2>2
<1>18. Apart'
  BY <1>1 DEF SessionsInv, Apart, AtWork
<1> QED
  BY <1>6, <1>7, <1>8, <1>9, <1>11, <1>15, <1>16, <1>17, <1>18 DEF SessionsInv

\* A command begins with nothing in memory but its session.
LEMMA BeginKeeps ==
  ASSUME TypeInv, SessionsInv, NEW p \in Procs, NEW c \in Cmds, NEW s \in Sessions, Begin(p, c, s)
  PROVE  SessionsInv' /\ HoldsConflicts
<1> DEFINE o == [Idle EXCEPT !.at = First[c], !.cmd = c, !.s = s, !.i = 1]
<1>1. op'[p] = o /\ Others(p)
  BY DEF Begin, Others, TypeInv, OpsOK
<1>2. o.at = First[c] /\ o.cmd = c /\ o.s = s /\ o.i = 1
  BY DEF Idle
<1> HIDE DEF o
<1>3. /\ First[c] \in {"migrate", "collect", "close"} /\ (c = "start" => First[c] = "migrate")
      /\ (First[c] = "collect" => c # "publish") /\ (c = "sync" => First[c] = "collect")
  BY DEF First, Cmds
<1>4. /\ UNCHANGED <<rec, tree, branch, dirty, commits, fork, base, baseDirty, merging, remote, made, late>>
      /\ shared \subseteq shared'
  BY DEF Begin, sessionVars, baseVars
<1>5. /\ RecordsOK' /\ LostOnlyWithTree' /\ MergesOpen' /\ RemotesFollow'
      /\ FinishedMeansLanded' /\ PublishedMeansPushed'
  <2>1. RecordsOK'
    BY <1>4 DEF SessionsInv, RecordsOK
  <2>2. LostOnlyWithTree'
    BY <1>4 DEF SessionsInv, LostOnlyWithTree, Kept
  <2>3. MergesOpen'
    BY <1>4 DEF SessionsInv, MergesOpen, NoMerge
  <2>4. RemotesFollow'
    BY <1>4 DEF SessionsInv, RemotesFollow
  <2>5. FinishedMeansLanded' /\ PublishedMeansPushed'
    BY <1>4 DEF SessionsInv, FinishedMeansLanded, PublishedMeansPushed, Own
  <2> QED
    BY <2>1, <2>2, <2>3, <2>4, <2>5
<1>6. Orderly(p)' /\ SyncsOnly(p)' /\ HoldsActive(p)'
  <2>1. c = "start" => rec[s].status = "none"
    BY DEF Begin
  <2>2. op'[p].at \in {"migrate", "collect", "close"} /\ op'[p].cmd = c /\ op'[p].s = s /\ op'[p].i = 1
    BY <1>1, <1>2, <1>3
  <2>3. op'[p].at \notin UNION {Starting, Migrating, Landing, Discarding}
    BY <2>2 DEF Starting, Migrating, Landing, Discarding
  <2>4. StartsNew(p)' /\ ReadsCurrent(p)' /\ StartsFirst(p)'
    BY <1>1, <1>2, <1>3, <1>4, <2>1, <2>2, <2>3 DEF StartsNew, ReadsCurrent, StartsFirst
  <2>5. LandsAll(p)' /\ RemovesFirst(p)' /\ HoldsActive(p)'
    BY <2>2, <2>3 DEF LandsAll, RemovesFirst, HoldsActive
  <2>6. Publishes(p)'
    BY <1>1, <1>2, <1>3, <2>2 DEF Publishes, Syncing
  <2>7. SyncsOnly(p)'
    BY <1>1, <1>2, <1>3 DEF SyncsOnly, SyncPoints
  <2> QED
    BY <2>4, <2>5, <2>6, <2>7 DEF Orderly
<1>7. ASSUME NEW r \in Procs \ {p}
      PROVE  (op'[r].s \notin shared' => Orderly(r)') /\ SyncsOnly(r)' /\ HoldsActive(r)'
  <2>1. op'[r] = op[r]
    BY <1>1 DEF Others
  <2>2. (op[r].s \notin shared => Orderly(r)) /\ SyncsOnly(r) /\ HoldsActive(r)
    BY DEF SessionsInv
  <2>3. HoldsActive(r)' /\ SyncsOnly(r)'
    BY <1>4, <2>1, <2>2 DEF HoldsActive, SyncsOnly, NoMerge
  <2>4. Orderly(r) => Orderly(r)'
    BY <1>4, <2>1 DEF Orderly, StartsNew, ReadsCurrent, StartsFirst, LandsAll, RemovesFirst, Publishes,
       Kept, Gone, Own
  <2> QED
    BY <1>4, <2>1, <2>2, <2>3, <2>4
<1>8. Apart'
  <2>1. ASSUME NEW q \in Procs \ {p}, AtWork(p)', AtWork(q)', op'[q].s = s
        PROVE  s \in shared'
    <3>1. op'[q] = op[q] /\ op[q].at # "idle" /\ op[q].s = s /\ op[q].cmd # "sync" /\ c # "sync"
      BY <1>1, <1>2, <2>1 DEF AtWork, Others
    <3> QED
      BY <3>1 DEF Begin, Meets
  <2>2. ASSUME NEW q \in Procs \ {p}, NEW r \in Procs \ {p}, q # r, AtWork(q)', AtWork(r)', op'[q].s = op'[r].s
        PROVE  op'[q].s \in shared'
    BY <1>1, <1>4, <2>2 DEF SessionsInv, Apart, AtWork, Others
  <2>3. op'[p].s = s
    BY <1>1, <1>2
  <2> QED
    BY <2>1, <2>2, <2>3 DEF Apart
<1>9. HoldsConflicts
  BY <1>4 DEF HoldsConflicts
<1> QED
  BY <1>5, <1>6, <1>7, <1>8, <1>9 DEF SessionsInv

\* SessionsInv is inductive, whatever the commands do at the same time,
LEMMA NextKeeps ==
  ASSUME TypeInv, SessionsInv, [Next]_vars
  PROVE  SessionsInv' /\ [HoldsConflicts]_vars
<1>1. CASE UNCHANGED vars
  <2>1. UNCHANGED <<rec, tree, branch, dirty, commits, fork, base, baseDirty, merging, remote, op, made,
                    shared, late>>
    BY <1>1 DEF vars, sessionVars, baseVars, history
  <2>2. /\ RecordsOK' /\ LostOnlyWithTree' /\ MergesOpen' /\ RemotesFollow' /\ Apart'
        /\ FinishedMeansLanded' /\ PublishedMeansPushed'
    BY <2>1 DEF SessionsInv, RecordsOK, LostOnlyWithTree, MergesOpen, RemotesFollow, FinishedMeansLanded,
       PublishedMeansPushed, Apart, AtWork, Kept
  <2>3. ASSUME NEW r \in Procs
        PROVE  (op'[r].s \notin shared' => Orderly(r)') /\ SyncsOnly(r)' /\ HoldsActive(r)'
    BY <2>1 DEF SessionsInv, Orderly, StartsNew, ReadsCurrent, StartsFirst, LandsAll, RemovesFirst,
       Publishes, SyncsOnly, HoldsActive, Kept, Gone
  <2> QED
    BY <1>1, <2>2, <2>3 DEF SessionsInv
<1>2. CASE Outside
  BY <1>2, OutsideKeeps
<1>3. CASE \E p \in Procs : Step(p) \/ CleanUp(p) \/ Crash(p)
  BY <1>3, CommandKeeps
<1>4. CASE \E p \in Procs, c \in DOMAIN First, s \in Sessions : Begin(p, c, s)
  BY <1>4, BeginKeeps, FirstPoints
<1> QED
  BY <1>1, <1>2, <1>3, <1>4 DEF Next, Outside

\* and holds initially.
LEMMA InitKeeps ==
  ASSUME Init
  PROVE  SessionsInv
<1>1. PICK held \in SUBSET Sessions :
        rec = [s \in Sessions |-> IF s \in held THEN Active("work") ELSE NoRecord]
  BY DEF Init
<1>2. \A s \in Sessions : \/ /\ rec[s].status = "active" /\ rec[s].outcome = "none"
                             /\ \A m \in Mounts : rec[s].at[m] = "work"
                          \/ rec[s].status = "none" /\ rec[s].outcome = "none"
  BY <1>1 DEF Active, NoRecord
<1>3. \A s \in Sessions, m \in Mounts : made[s][m] = {}
  BY DEF Init
<1>4. RecordsOK /\ LostOnlyWithTree /\ FinishedMeansLanded /\ PublishedMeansPushed
  BY <1>2, <1>3 DEF RecordsOK, LostOnlyWithTree, FinishedMeansLanded, PublishedMeansPushed
<1>5. MergesOpen /\ RemotesFollow
  BY DEF Init, MergesOpen, RemotesFollow
<1>6. ASSUME NEW p \in Procs
      PROVE  Orderly(p) /\ SyncsOnly(p) /\ HoldsActive(p) /\ ~AtWork(p)
  <2>1. op[p].at = "idle" /\ op[p].cmd = "none"
    BY IdleTyped DEF Init
  <2> QED
    BY <2>1 DEF Orderly, StartsNew, ReadsCurrent, StartsFirst, LandsAll, RemovesFirst, Publishes,
       SyncsOnly, HoldsActive, AtWork, Starting, Migrating, Landing, Discarding, Syncing
<1> QED
  BY <1>4, <1>5, <1>6 DEF SessionsInv, Apart

\* What commands promise of the sessions no two of them worked on at the same
\* time, with crashes between any two of their calls.
THEOREM SessionsInvariant == Spec => []SessionsInv
<1>1. Init => SessionsInv
  BY InitKeeps
<1>2. TypeInv /\ SessionsInv /\ [Next]_vars => SessionsInv'
  BY NextKeeps
<1> QED
  BY <1>1, <1>2, TypeInvariant, PTL DEF Spec

\* A session recorded as finished has landed every change in every mount and
\* left neither worktree nor branch behind, unless two commands worked on it at
\* the same time; what commands do to other sessions does not matter.
THEOREM FinishedSessionsLanded == Spec => []FinishedMeansLanded
<1>1. SessionsInv => FinishedMeansLanded
  BY DEF SessionsInv
<1> QED
  BY <1>1, SessionsInvariant, PTL

\* A session recorded as published has all its changes on the remotes, unless
\* two commands worked on it at the same time, while any number of syncs run.
THEOREM PublishedSessionsPushed == Spec => []PublishedMeansPushed
<1>1. SessionsInv => PublishedMeansPushed
  BY DEF SessionsInv
<1> QED
  BY <1>1, SessionsInvariant, PTL

\* No sync commits the conflict that an active session's landing left in a base
\* checkout before the sync collected what is held, whatever other commands do
\* meanwhile, unless two of them worked on that session at the same time.
THEOREM NoConflictIsCommitted == Spec => ConflictsAreHeld
<1>1. TypeInv /\ SessionsInv /\ [Next]_vars => [HoldsConflicts]_vars
  BY NextKeeps
<1> QED
  BY <1>1, TypeInvariant, SessionsInvariant, PTL DEF Spec, ConflictsAreHeld

(***************************************************************************)
(* The contract's roots.                                                   *)
(***************************************************************************)
\* The checkout has been pulled at least once.
Pulled == man.rev # 0

\* What a command has rendered under the lock is of the revision it expected, if
\* the checkout still is; and it is not of an edit, unless that was undone since.
\* Before that it has rendered nothing.
Rendered(p, c, over) ==
  /\ c.at \notin {"compose", "wrote"} => c.output = Roots!NoFile
  /\ c.at \in {"compose", "wrote"} => c.expected <= man.rev
  /\ c.at = "wrote" => c.output # Roots!NoFile
  /\ c.output # Roots!NoFile /\ man.rev = c.expected =>
       /\ c.output.rev = c.expected
       /\ c.output.edited => man.edited \/ p \in over
RenderedAll == \A p \in Commands : Rendered(p, cmd[p], crossed)

\* A marker records a file of the revision it names, or of an edit of it that
\* was undone while a command installed it.
MarkerTrue(m, over) ==
  m.installed # 0 => \/ m.hash = Roots!Published(m.installed)
                     \/ over /\ m.hash = Roots!Edited(m.installed)
MarkersTrue == \A r \in Roots!Roots : MarkerTrue(root[r], r \in undone)

RootsInv == Roots!TypeOK /\ Pulled /\ RenderedAll /\ MarkersTrue

-----------------------------------------------------------------------------
(* Types *)

Markers == [known : BOOLEAN, installed : 0..MaxRev, hash : Roots!Files, failed : BOOLEAN]
RootsCmds == [at : {"idle", "observed", "root", "compose", "wrote"}, expected : 0..MaxRev,
         todo : SUBSET Roots!Roots, r : Roots!Roots, output : Roots!Files]

\* The empty values and the renderings of a revision have their types.
LEMMA RootsEmptyValues ==
  /\ Roots!NoFile \in Roots!Files /\ Roots!Other \in Roots!Files /\ Roots!NoRoot \in Markers /\ Roots!IdleCmd \in RootsCmds
         /\ \A r \in 0..MaxRev : Roots!Published(r) \in Roots!Files /\ (r # 0 => Roots!Published(r) # Roots!NoFile)
<1>1. Roots!NoFile \in Roots!Files /\ Roots!Other \in Roots!Files
  BY RootsAssumption DEF Roots!Files, Roots!NoFile, Roots!Other
<1>2. Roots!NoRoot \in Markers
  BY <1>1, RootsAssumption DEF Markers, Roots!NoRoot
<1>3. Roots!IdleCmd \in RootsCmds
  BY <1>1, RootsAssumption DEF RootsCmds, Roots!IdleCmd, Roots!Roots, Roots!Umbrella
<1>4. \A r \in 0..MaxRev : Roots!Published(r) \in Roots!Files /\ (r # 0 => Roots!Published(r) # Roots!NoFile)
  BY DEF Roots!Published, Roots!Files, Roots!NoFile
<1> QED
  BY <1>1, <1>2, <1>3, <1>4

\* TypeOK with the types of the two functions named.
LEMMA RootsTypeFacts ==
  Roots!TypeOK <=> /\ man \in Roots!Files /\ live \in SUBSET Sessions /\ file \in [Roots!Roots -> Roots!Files]
             /\ active \in 0..MaxRev /\ lock \in Commands \cup {"none"} /\ old \in Roots!Files
             /\ root \in [Roots!Roots -> Markers] /\ cmd \in [Commands -> RootsCmds]
             /\ crossed \subseteq Commands /\ undone \subseteq Roots!Roots
BY DEF Roots!TypeOK, Markers, RootsCmds

\* The same of the next state.
LEMMA RootsTypesNext ==
  ASSUME man' \in Roots!Files, live' \in SUBSET Sessions, file' \in [Roots!Roots -> Roots!Files],
         active' \in 0..MaxRev, lock' \in Commands \cup {"none"}, old' \in Roots!Files,
         root' \in [Roots!Roots -> Markers], cmd' \in [Commands -> RootsCmds],
         crossed' \subseteq Commands, undone' \subseteq Roots!Roots
  PROVE  Roots!TypeOK'
BY DEF Roots!TypeOK, Markers, RootsCmds

-----------------------------------------------------------------------------
(* The initial state *)

\* No file is rendered and no marker is set.
LEMMA RootsInitInv ==
  ASSUME Roots!Init
  PROVE  RootsInv
<1>1. man \in Roots!Files /\ man.rev # 0
  BY RootsAssumption DEF Roots!Init, Roots!Files
<1>2. Roots!TypeOK
  BY <1>1, RootsEmptyValues, RootsTypeFacts, RootsAssumption DEF Roots!Init
<1>3. RenderedAll
  BY DEF Roots!Init, RenderedAll, Rendered, Roots!IdleCmd
<1>4. MarkersTrue
  BY DEF Roots!Init, MarkersTrue, MarkerTrue, Roots!NoRoot
<1> QED
  BY <1>1, <1>2, <1>3, <1>4 DEF RootsInv, Pulled

-----------------------------------------------------------------------------
(* The steps *)

\* Steps that leave the checkout, the commands and the markers alone.
LEMMA RootsCalmStep ==
  ASSUME RootsInv, UNCHANGED <<man, cmd, root, crossed, undone>>, Roots!TypeOK'
  PROVE  RootsInv'
BY DEF RootsInv, Pulled, RenderedAll, Rendered, MarkersTrue

\* The surroundings: a checkout that was edited is published only by a new
\* revision, or the commands that may have rendered the edit are noted.
LEMMA RootsSurroundingsInv ==
  ASSUME RootsInv,
         \/ Roots!NewRevision \/ Roots!EditManifest \/ Roots!UndoEdit \/ Roots!UserWrites \/ Roots!OldWriterRenders \/ Roots!OldWriterWrites
         \/ \E s \in Sessions : Roots!StartSession(s) \/ Roots!CloseSession(s)
  PROVE  RootsInv'
<1>0. /\ man \in Roots!Files /\ live \in SUBSET Sessions /\ file \in [Roots!Roots -> Roots!Files]
      /\ active \in 0..MaxRev /\ lock \in Commands \cup {"none"} /\ old \in Roots!Files
      /\ root \in [Roots!Roots -> Markers] /\ cmd \in [Commands -> RootsCmds]
      /\ crossed \subseteq Commands /\ undone \subseteq Roots!Roots
  BY RootsTypeFacts DEF RootsInv
<1>e. Roots!NoFile \in Roots!Files /\ Roots!Other \in Roots!Files /\ Roots!Umbrella \in Roots!Roots /\ Sessions \subseteq Roots!Roots
  BY RootsEmptyValues DEF Roots!Roots
<1>1. CASE Roots!NewRevision
  <2>0. UNCHANGED <<live, file, active, root, lock, cmd, old, crossed, undone>>
    BY <1>1 DEF Roots!NewRevision, Roots!store, Roots!bounds, Roots!history
  <2>1. man' \in Roots!Files /\ man'.rev = man.rev + 1 /\ man'.rev # 0 /\ man.rev \in Nat
    BY <1>0, <1>1, RootsAssumption DEF Roots!NewRevision, Roots!Files, Roots!Published
  <2>2. Roots!TypeOK'
    BY <1>0, <2>0, <2>1, RootsTypesNext
  <2>3. ASSUME NEW p \in Commands
        PROVE  Rendered(p, cmd[p], crossed)'
    <3>1. cmd[p] \in RootsCmds /\ Rendered(p, cmd[p], crossed)
      BY <1>0 DEF RootsInv, RenderedAll
    <3>2. cmd[p].expected \in Nat
      BY <3>1 DEF RootsCmds
    <3>3. cmd[p].output # Roots!NoFile => cmd[p].at \in {"compose", "wrote"}
      BY <3>1 DEF Rendered
    <3>4. cmd[p].at \in {"compose", "wrote"} => cmd[p].expected < man'.rev
      BY <2>1, <3>1, <3>2 DEF Rendered
    <3>5. cmd[p].output # Roots!NoFile => man'.rev # cmd[p].expected
      BY <2>1, <3>2, <3>3, <3>4
    <3>6. cmd[p].at \in {"compose", "wrote"} => cmd[p].expected <= man'.rev
      BY <2>1, <3>2, <3>4
    <3> QED
      BY <2>0, <3>1, <3>5, <3>6 DEF Rendered
  <2> QED
    BY <2>0, <2>1, <2>2, <2>3 DEF RootsInv, Pulled, RenderedAll, MarkersTrue, MarkerTrue
<1>2. CASE Roots!EditManifest
  <2>0. UNCHANGED <<live, file, active, root, lock, cmd, old, crossed, undone>>
    BY <1>2 DEF Roots!EditManifest, Roots!store, Roots!history
  <2>1. man' \in Roots!Files /\ man'.rev = man.rev /\ man'.edited
    BY <1>0, <1>2 DEF Roots!EditManifest, Roots!Files
  <2>2. Roots!TypeOK'
    BY <1>0, <2>0, <2>1, RootsTypesNext
  <2>3. RenderedAll'
    BY <2>0, <2>1 DEF RootsInv, RenderedAll, Rendered
  <2> QED
    BY <2>0, <2>1, <2>2, <2>3 DEF RootsInv, Pulled, MarkersTrue, MarkerTrue
<1>8. CASE Roots!UndoEdit
  <2>0. UNCHANGED <<live, file, active, root, lock, cmd, old, undone>>
    BY <1>8 DEF Roots!UndoEdit, Roots!store, Roots!bounds
  <2>1. /\ man' \in Roots!Files /\ man'.rev = man.rev
        /\ crossed' = crossed \cup {p \in Commands : cmd[p].at \in {"compose", "wrote"}}
    BY <1>0, <1>8 DEF Roots!UndoEdit, Roots!Files
  <2>2. Roots!TypeOK'
    BY <1>0, <2>0, <2>1, RootsTypesNext
  <2>3. ASSUME NEW p \in Commands
        PROVE  Rendered(p, cmd[p], crossed)'
    <3>1. Rendered(p, cmd[p], crossed)
      BY DEF RootsInv, RenderedAll
    <3>2. cmd[p].output # Roots!NoFile => p \in crossed'
      BY <2>1, <3>1 DEF Rendered
    <3> QED
      BY <2>0, <2>1, <3>1, <3>2 DEF Rendered
  <2> QED
    BY <2>0, <2>1, <2>2, <2>3 DEF RootsInv, Pulled, RenderedAll, MarkersTrue, MarkerTrue
<1>3. CASE Roots!UserWrites
  <2>1. Roots!TypeOK'
    BY <1>0, <1>3, <1>e, RootsTypeFacts DEF Roots!UserWrites, Roots!store, Roots!history, Roots!TypeOK
  <2> QED
    BY <1>3, <2>1, RootsCalmStep DEF Roots!UserWrites, Roots!store, Roots!history
<1>4. CASE Roots!OldWriterRenders
  <2>1. Roots!TypeOK'
    BY <1>0, <1>4, RootsTypeFacts DEF Roots!OldWriterRenders, Roots!tree, Roots!store, Roots!history, Roots!TypeOK
  <2> QED
    BY <1>4, <2>1, RootsCalmStep DEF Roots!OldWriterRenders, Roots!tree, Roots!store, Roots!history
<1>5. CASE Roots!OldWriterWrites
  <2>1. Roots!TypeOK'
    BY <1>0, <1>5, <1>e, RootsTypeFacts DEF Roots!OldWriterWrites, Roots!store, Roots!history, Roots!TypeOK
  <2> QED
    BY <1>5, <2>1, RootsCalmStep DEF Roots!OldWriterWrites, Roots!store, Roots!history
<1>6. ASSUME NEW s \in Sessions, Roots!StartSession(s)
      PROVE  RootsInv'
  <2>1. Roots!TypeOK'
    BY <1>0, <1>6, <1>e, RootsTypeFacts DEF Roots!StartSession, Roots!store, Roots!history, Roots!TypeOK
  <2> QED
    BY <1>6, <2>1, RootsCalmStep DEF Roots!StartSession, Roots!store, Roots!history
<1>7. ASSUME NEW s \in Sessions, Roots!CloseSession(s)
      PROVE  RootsInv'
  <2>1. Roots!TypeOK'
    BY <1>0, <1>7, <1>e, RootsTypeFacts DEF Roots!CloseSession, Roots!store, Roots!history, Roots!TypeOK
  <2> QED
    BY <1>7, <2>1, RootsCalmStep DEF Roots!CloseSession, Roots!store, Roots!history
<1> QED
  BY <1>1, <1>2, <1>3, <1>4, <1>5, <1>6, <1>7, <1>8

\* A step of one command that only moves it on, with markers that stay true.
LEMMA RootsCommandInv ==
  ASSUME RootsInv, NEW p \in Commands, NEW c \in RootsCmds, Rendered(p, c, crossed'), UNCHANGED man,
         cmd' = [cmd EXCEPT ![p] = c], crossed \ {p} \subseteq crossed', MarkersTrue', Roots!TypeOK'
  PROVE  RootsInv'
<1>1. cmd \in [Commands -> RootsCmds]
  BY RootsTypeFacts DEF RootsInv
<1>2. \A q \in Commands : cmd'[q] = IF q = p THEN c ELSE cmd[q]
  BY <1>1
<1>3. ASSUME NEW q \in Commands
      PROVE  Rendered(q, cmd[q], crossed)'
  <2>1. CASE q = p
    BY <1>2, <2>1 DEF Rendered
  <2>2. CASE q # p
    <3>1. Rendered(q, cmd[q], crossed) /\ cmd'[q] = cmd[q] /\ (q \in crossed => q \in crossed')
      BY <1>2, <2>2 DEF RootsInv, RenderedAll
    <3> QED
      BY <3>1 DEF Rendered
  <2> QED
    BY <2>1, <2>2
<1> QED
  BY <1>3 DEF RootsInv, Pulled, RenderedAll

\* A command keeps its files; it sets a marker only for the file it has just
\* written and compared with its own rendering of the checkout as expected.
LEMMA RootsStepInv ==
  ASSUME RootsInv, NEW p \in Commands, Roots!Step(p)
  PROVE  RootsInv'
<1>0. /\ man \in Roots!Files /\ live \in SUBSET Sessions /\ file \in [Roots!Roots -> Roots!Files]
      /\ active \in 0..MaxRev /\ lock \in Commands \cup {"none"} /\ old \in Roots!Files
      /\ root \in [Roots!Roots -> Markers] /\ cmd \in [Commands -> RootsCmds]
      /\ crossed \subseteq Commands /\ undone \subseteq Roots!Roots
  BY RootsTypeFacts DEF RootsInv
<1>e. Roots!NoFile \in Roots!Files /\ Roots!NoRoot \in Markers /\ Roots!IdleCmd \in RootsCmds
  BY RootsEmptyValues
<1>c. cmd[p] \in RootsCmds /\ Rendered(p, cmd[p], crossed) /\ man.rev \in 0..MaxRev
  BY <1>0 DEF RootsInv, RenderedAll, Roots!Files
<1>i. Rendered(p, Roots!IdleCmd, crossed)
  BY DEF Rendered, Roots!IdleCmd
<1>1. CASE Roots!Observe(p)
  <2>h. UNCHANGED <<crossed, undone>>
    BY <1>1 DEF Roots!Observe, Roots!history
  <2> DEFINE c == [Roots!IdleCmd EXCEPT !.at = "observed", !.expected = man.rev]
  <2>1. c \in RootsCmds
    BY <1>c, <1>e DEF RootsCmds, Roots!IdleCmd
  <2>2. Rendered(p, c, crossed')
    BY DEF Rendered, Roots!IdleCmd
  <2>3. ASSUME NEW r \in Roots!Roots
        PROVE  /\ root'[r] \in Markers
               /\ \/ root'[r] = Roots!NoRoot
                  \/ root'[r].installed = root[r].installed /\ root'[r].hash = root[r].hash
    <3>1. root[r] \in Markers
      BY <1>0
    <3>2. root'[r] = [root[r] EXCEPT !.known = TRUE] \/ root'[r] = Roots!NoRoot \/ root'[r] = root[r]
      BY <1>1 DEF Roots!Observe
    <3>3. CASE root'[r] = [root[r] EXCEPT !.known = TRUE]
      BY <3>1, <3>3 DEF Markers
    <3> QED
      BY <1>e, <3>1, <3>2, <3>3
  <2>4. root' \in [Roots!Roots -> Markers]
    BY <1>1, <2>3 DEF Roots!Observe
  <2>5. MarkersTrue'
    BY <2>3, <2>h DEF RootsInv, MarkersTrue, MarkerTrue, Roots!NoRoot
  <2>6. cmd' = [cmd EXCEPT ![p] = c]
    BY <1>1 DEF Roots!Observe
  <2>7. cmd' \in [Commands -> RootsCmds]
    BY <1>0, <2>1, <2>6
  <2>8. Roots!TypeOK'
    BY <1>0, <1>1, <1>c, <2>4, <2>7, <2>h, RootsTypesNext DEF Roots!Observe, Roots!tree
  <2>9. UNCHANGED man
    BY <1>1 DEF Roots!Observe, Roots!tree
  <2> HIDE DEF c
  <2> QED
    BY <2>1, <2>2, <2>5, <2>6, <2>8, <2>9, <2>h, RootsCommandInv
<1>2. CASE Roots!Plan(p)
  <2>h. UNCHANGED <<crossed, undone>>
    BY <1>2 DEF Roots!Plan, Roots!history
  <2>1. PICK c : cmd' = [cmd EXCEPT ![p] = c] /\ (c = Roots!IdleCmd \/ c = [cmd[p] EXCEPT !.at = "root",
                     !.todo = {r \in Roots!Known : Roots!Pending(r) \/ Roots!Stale(r)}])
    BY <1>0, <1>2 DEF Roots!Plan
  <2>2. c \in RootsCmds
    BY <1>c, <1>e, <2>1 DEF RootsCmds, Roots!Known
  <2>3. cmd[p].output = Roots!NoFile
    BY <1>2, <1>c DEF Roots!Plan, Rendered
  <2>4. Rendered(p, c, crossed')
    <3>1. CASE c = [cmd[p] EXCEPT !.at = "root", !.todo = {r \in Roots!Known : Roots!Pending(r) \/ Roots!Stale(r)}]
      <4>1. c.at = "root" /\ c.output = Roots!NoFile
        BY <1>c, <2>3, <3>1 DEF RootsCmds
      <4> QED
        BY <4>1 DEF Rendered
    <3> QED
      BY <1>i, <2>1, <2>h, <3>1
  <2>5. cmd' \in [Commands -> RootsCmds]
    BY <1>0, <2>1, <2>2
  <2>6. Roots!TypeOK'
    BY <1>0, <1>2, <2>5, <2>h, RootsTypesNext DEF Roots!Plan, Roots!tree, Roots!store, Roots!bounds
  <2>7. UNCHANGED <<man, root>>
    BY <1>2 DEF Roots!Plan, Roots!tree, Roots!store
  <2> QED
    BY <2>1, <2>2, <2>4, <2>6, <2>7, <2>h, RootsCommandInv DEF RootsInv, MarkersTrue, MarkerTrue
<1>3. CASE Roots!Compose(p)
  <2>h. UNCHANGED <<crossed, undone>>
    BY <1>3 DEF Roots!Compose, Roots!history
  <2> DEFINE c == [cmd[p] EXCEPT !.output = man]
  <2>1. c \in RootsCmds
    BY <1>0, <1>c DEF RootsCmds
  <2>2. man # Roots!NoFile
    BY DEF RootsInv, Pulled, Roots!NoFile
  <2>3. Rendered(p, c, crossed')
    BY <1>0, <1>3, <1>c, <2>2, <2>h DEF Rendered, RootsCmds, Roots!Compose, Roots!Files
  <2>4. cmd' = [cmd EXCEPT ![p] = c]
    BY <1>3 DEF Roots!Compose
  <2>5. cmd' \in [Commands -> RootsCmds]
    BY <1>0, <2>1, <2>4
  <2>6. Roots!TypeOK'
    BY <1>0, <1>3, <2>5, <2>h, RootsTypesNext DEF Roots!Compose, Roots!tree, Roots!store, Roots!bounds
  <2>7. UNCHANGED <<man, root>>
    BY <1>3 DEF Roots!Compose, Roots!tree, Roots!store
  <2> HIDE DEF c
  <2> QED
    BY <2>1, <2>3, <2>4, <2>6, <2>7, <2>h, RootsCommandInv DEF RootsInv, MarkersTrue, MarkerTrue
<1>4. CASE Roots!Write(p)
  <2>h. UNCHANGED <<crossed, undone>>
    BY <1>4 DEF Roots!Write, Roots!history
  <2> DEFINE c == [cmd[p] EXCEPT !.at = "wrote"]
  <2>1. c \in RootsCmds
    BY <1>c DEF RootsCmds
  <2>3. Rendered(p, c, crossed')
    BY <1>4, <1>c, <2>h DEF Rendered, RootsCmds, Roots!Write
  <2>4. cmd' = [cmd EXCEPT ![p] = c]
    BY <1>4 DEF Roots!Write
  <2>5. cmd' \in [Commands -> RootsCmds]
    BY <1>0, <2>1, <2>4
  <2>f. cmd[p].output \in Roots!Files
    BY <1>c DEF RootsCmds
  <2>g. file' \in [Roots!Roots -> Roots!Files]
    BY <1>0, <1>4, <2>f DEF Roots!Write
  <2>6. Roots!TypeOK'
    BY <1>0, <1>4, <2>5, <2>g, <2>h, RootsTypesNext DEF Roots!Write, Roots!store, Roots!bounds
  <2>7. UNCHANGED <<man, root>>
    BY <1>4 DEF Roots!Write, Roots!store
  <2> HIDE DEF c
  <2> QED
    BY <2>1, <2>3, <2>4, <2>6, <2>7, <2>h, RootsCommandInv DEF RootsInv, MarkersTrue, MarkerTrue
<1>5. CASE Roots!Mark(p)
  <2> DEFINE c == [cmd[p] EXCEPT !.at = "root", !.output = Roots!NoFile]
             r == cmd[p].r
             ok == man = Roots!Published(cmd[p].expected) /\ file[r] = cmd[p].output
             new == [known |-> TRUE, failed |-> ~ok,
                     installed |-> IF ok THEN cmd[p].expected ELSE root[r].installed,
                     hash |-> IF ok THEN file[r] ELSE root[r].hash]
  <2>1. c \in RootsCmds
    BY <1>c, <1>e DEF RootsCmds
  <2>3. Rendered(p, c, crossed')
    BY <1>c DEF Rendered, RootsCmds
  <2>4. cmd' = [cmd EXCEPT ![p] = c]
    BY <1>0, <1>5 DEF Roots!Mark
  <2>5. cmd' \in [Commands -> RootsCmds]
    BY <1>0, <2>1, <2>4
  <2>r. r \in Roots!Roots /\ cmd[p].expected \in 0..MaxRev
    BY <1>c DEF RootsCmds
  <2>m. root[r] \in Markers /\ file[r] \in Roots!Files
    BY <1>0, <2>r
  <2>n. new \in Markers
    BY <2>r, <2>m DEF Markers
  <2>8. root' = [root EXCEPT ![r] = new]
    BY <1>0, <1>5, <2>r DEF Roots!Mark
  <2>9. root' \in [Roots!Roots -> Markers]
    BY <1>0, <2>8, <2>n
  <2>f. cmd[p].output \in Roots!Files /\ man \in Roots!Files
    BY <1>0, <1>c DEF RootsCmds
  <2>u. undone' = Roots!Marked(p, r, ok) /\ crossed' = crossed \ {p}
    BY <1>5 DEF Roots!Mark
  <2>10. ok => \/ file[r] = Roots!Published(cmd[p].expected)
               \/ p \in crossed /\ file[r] = Roots!Edited(cmd[p].expected)
    <3>1. ok => man.rev = cmd[p].expected /\ ~man.edited /\ cmd[p].output # Roots!NoFile
      BY <1>5, <1>c DEF Roots!Mark, Rendered, Roots!Published
    <3>2. ok => cmd[p].output.rev = cmd[p].expected /\ (cmd[p].output.edited => p \in crossed)
      BY <1>c, <3>1 DEF Rendered
    <3>3. cmd[p].output = [rev |-> cmd[p].output.rev, edited |-> cmd[p].output.edited]
          /\ cmd[p].output.edited \in BOOLEAN
      BY <2>f DEF Roots!Files
    <3> QED
      BY <3>2, <3>3 DEF Roots!Published, Roots!Edited
  <2>11. MarkerTrue(root[r], r \in undone)
    BY <2>r DEF RootsInv, MarkersTrue
  <2>12. MarkerTrue(new, r \in undone')
    <3>1. CASE ok
      <4>1. new.installed = cmd[p].expected /\ new.hash = file[r]
        BY <3>1
      <4>2. p \in crossed => r \in undone'
        BY <2>u, <3>1 DEF Roots!Marked
      <4> QED
        BY <2>10, <3>1, <4>1, <4>2 DEF MarkerTrue
    <3>2. CASE ~ok
      <4>1. new.installed = root[r].installed /\ new.hash = root[r].hash /\ undone' = undone
        BY <2>u, <3>2 DEF Roots!Marked
      <4> QED
        BY <2>11, <4>1 DEF MarkerTrue
    <3> QED
      BY <3>1, <3>2
  <2>s. undone' \subseteq Roots!Roots /\ \A x \in Roots!Roots \ {r} : x \in undone' <=> x \in undone
    BY <1>0, <2>r, <2>u DEF Roots!Marked
  <2> HIDE DEF new
  <2>13. MarkersTrue'
    <3>1. root'[r] = new /\ \A x \in Roots!Roots \ {r} : root'[x] = root[x]
      BY <1>0, <2>r, <2>8
    <3>2. ASSUME NEW x \in Roots!Roots \ {r}
          PROVE  MarkerTrue(root'[x], x \in undone')
      BY <2>s, <3>1, <3>2 DEF RootsInv, MarkersTrue, MarkerTrue
    <3>3. MarkerTrue(root'[r], r \in undone')
      BY <2>12, <3>1
    <3> QED
      BY <3>2, <3>3 DEF MarkersTrue, MarkerTrue
  <2>14. UNCHANGED man
    BY <1>5 DEF Roots!Mark, Roots!tree
  <2>15. Roots!TypeOK'
    BY <1>0, <1>5, <2>5, <2>9, <2>s, <2>u, RootsTypesNext DEF Roots!Mark, Roots!tree, Roots!bounds
  <2> HIDE DEF c
  <2> QED
    BY <2>1, <2>3, <2>4, <2>13, <2>14, <2>15, <2>u, RootsCommandInv
<1>6. CASE Roots!Done(p)
  <2>h. UNCHANGED <<crossed, undone>>
    BY <1>6 DEF Roots!Done, Roots!history
  <2>1. cmd' = [cmd EXCEPT ![p] = Roots!IdleCmd]
    BY <1>6 DEF Roots!Done
  <2>2. cmd' \in [Commands -> RootsCmds]
    BY <1>0, <1>e, <2>1
  <2>3. Roots!TypeOK'
    BY <1>0, <1>6, <2>2, <2>h, RootsTypesNext DEF Roots!Done, Roots!tree, Roots!store, Roots!bounds
  <2>4. UNCHANGED <<man, root>>
    BY <1>6 DEF Roots!Done, Roots!tree, Roots!store
  <2> QED
    BY <1>e, <1>i, <2>1, <2>3, <2>4, <2>h, RootsCommandInv DEF RootsInv, MarkersTrue, MarkerTrue
<1>7. ASSUME NEW r \in Roots!Roots, Roots!Begin(p, r)
      PROVE  RootsInv'
  <2>h. UNCHANGED <<crossed, undone>>
    BY <1>7 DEF Roots!Begin, Roots!history
  <2>1. PICK c : /\ cmd' = [cmd EXCEPT ![p] = c]
                 /\ \/ c = [cmd[p] EXCEPT !.todo = cmd[p].todo \ {r}]
                    \/ /\ man = Roots!Published(cmd[p].expected)
                       /\ c = [cmd[p] EXCEPT !.at = "compose", !.r = r, !.todo = cmd[p].todo \ {r}]
    <3>1. CASE active # cmd[p].expected \/ man # Roots!Published(cmd[p].expected)
      BY <1>0, <1>7, <3>1 DEF Roots!Begin
    <3>2. CASE ~(active # cmd[p].expected \/ man # Roots!Published(cmd[p].expected)) /\ Roots!Blocked(r)
      BY <1>0, <1>7, <3>2 DEF Roots!Begin
    <3>3. CASE ~(active # cmd[p].expected \/ man # Roots!Published(cmd[p].expected)) /\ ~Roots!Blocked(r)
      BY <1>0, <1>7, <3>3 DEF Roots!Begin
    <3> QED
      BY <3>1, <3>2, <3>3
  <2>2. c \in RootsCmds
    BY <1>7, <1>c, <2>1 DEF RootsCmds
  <2>3. cmd[p].output = Roots!NoFile
    BY <1>7, <1>c DEF Roots!Begin, Rendered
  <2>e. cmd[p].expected \in Nat /\ (man = Roots!Published(cmd[p].expected) => man.rev = cmd[p].expected)
    BY <1>c DEF RootsCmds, Roots!Published
  <2>4. Rendered(p, c, crossed')
    <3>1. CASE c = [cmd[p] EXCEPT !.todo = cmd[p].todo \ {r}]
      BY <1>c, <2>h, <3>1 DEF Rendered, RootsCmds
    <3>2. CASE /\ man = Roots!Published(cmd[p].expected)
               /\ c = [cmd[p] EXCEPT !.at = "compose", !.r = r, !.todo = cmd[p].todo \ {r}]
      <4>1. c.at = "compose" /\ c.expected = cmd[p].expected /\ c.output = Roots!NoFile
        BY <1>c, <2>3, <3>2 DEF RootsCmds
      <4> QED
        BY <2>e, <3>2, <4>1 DEF Rendered
    <3> QED
      BY <2>1, <3>1, <3>2
  <2>5. cmd' \in [Commands -> RootsCmds]
    BY <1>0, <2>1, <2>2
  <2>6. root' = root \/ root' = [root EXCEPT ![r].known = TRUE, ![r].failed = TRUE]
    BY <1>7 DEF Roots!Begin
  <2>7. ASSUME NEW x \in Roots!Roots
        PROVE  /\ root'[x] \in Markers
               /\ root'[x].installed = root[x].installed /\ root'[x].hash = root[x].hash
    <3>1. root[x] \in Markers
      BY <1>0
    <3>2. root'[x] = root[x] \/ root'[x] = [root[x] EXCEPT !.known = TRUE, !.failed = TRUE]
      BY <1>0, <2>6
    <3>3. CASE root'[x] = [root[x] EXCEPT !.known = TRUE, !.failed = TRUE]
      BY <3>1, <3>3 DEF Markers
    <3> QED
      BY <3>1, <3>2, <3>3
  <2>8. root' \in [Roots!Roots -> Markers]
    BY <1>0, <2>6, <2>7
  <2>9. MarkersTrue'
    BY <2>7, <2>h DEF RootsInv, MarkersTrue, MarkerTrue
  <2>10. lock' \in Commands \cup {"none"}
    BY <1>0, <1>7 DEF Roots!Begin
  <2>11. Roots!TypeOK'
    BY <1>0, <1>7, <2>5, <2>8, <2>10, <2>h, RootsTypesNext DEF Roots!Begin, Roots!tree, Roots!bounds
  <2>12. UNCHANGED man
    BY <1>7 DEF Roots!Begin, Roots!tree
  <2> QED
    BY <2>1, <2>2, <2>4, <2>9, <2>11, <2>12, <2>h, RootsCommandInv
<1> QED
  BY <1>1, <1>2, <1>3, <1>4, <1>5, <1>6, <1>7 DEF Roots!Step

\* A command that dies leaves its markers as they were.
LEMMA RootsCrashInv ==
  ASSUME RootsInv, NEW p \in Commands, Roots!Crash(p)
  PROVE  RootsInv'
<1>0. /\ man \in Roots!Files /\ live \in SUBSET Sessions /\ file \in [Roots!Roots -> Roots!Files]
      /\ active \in 0..MaxRev /\ lock \in Commands \cup {"none"} /\ old \in Roots!Files
      /\ root \in [Roots!Roots -> Markers] /\ cmd \in [Commands -> RootsCmds]
      /\ crossed \subseteq Commands /\ undone \subseteq Roots!Roots
  BY RootsTypeFacts DEF RootsInv
<1>1. Roots!Other \in Roots!Files /\ Roots!IdleCmd \in RootsCmds /\ Rendered(p, Roots!IdleCmd, crossed')
  BY RootsEmptyValues DEF Rendered, Roots!IdleCmd
<1>2. file' \in [Roots!Roots -> Roots!Files]
  BY <1>0, <1>1 DEF Roots!Crash
<1>3. cmd' = [cmd EXCEPT ![p] = Roots!IdleCmd] /\ lock' \in Commands \cup {"none"}
  BY <1>0 DEF Roots!Crash
<1>4. cmd' \in [Commands -> RootsCmds]
  BY <1>0, <1>1, <1>3
<1>6. UNCHANGED <<man, root, undone>> /\ crossed' = crossed \ {p}
  BY DEF Roots!Crash, Roots!store
<1>5. Roots!TypeOK'
  BY <1>0, <1>2, <1>3, <1>4, <1>6, RootsTypesNext DEF Roots!Crash, Roots!store
<1> QED
  BY <1>1, <1>3, <1>5, <1>6, RootsCommandInv DEF RootsInv, MarkersTrue, MarkerTrue

\* The invariant is inductive.
LEMMA RootsNextInv ==
  ASSUME RootsInv, [Roots!Next]_(Roots!vars)
  PROVE  RootsInv'
<1>1. CASE UNCHANGED Roots!vars
  <2>1. UNCHANGED <<man, live, file, active, root, lock, cmd, old, crossed, undone>>
    BY <1>1 DEF Roots!vars, Roots!tree, Roots!store, Roots!history
  <2>2. Roots!TypeOK'
    BY <2>1 DEF RootsInv, Roots!TypeOK
  <2> QED
    BY <2>1, <2>2, RootsCalmStep
<1>2. CASE Roots!Next
  BY <1>2, RootsSurroundingsInv, RootsStepInv, RootsCrashInv DEF Roots!Next
<1> QED
  BY <1>1, <1>2

-----------------------------------------------------------------------------
(* The theorems *)

\* A marker stands for a rendering of the revision it names, whatever was
\* pulled, edited, rendered or written meanwhile, or for one of an edit that was
\* undone while it was installed (MarkInstalledOutput).
THEOREM RootsInvariant ==
  Roots!Spec => []RootsInv
<1>1. Roots!Init => RootsInv
  BY RootsInitInv
<1>2. RootsInv /\ [Roots!Next]_(Roots!vars) => RootsInv'
  BY RootsNextInv
<1> QED
  BY <1>1, <1>2, PTL DEF Roots!Spec

\* The variables keep their types.
THEOREM RootsTypeCorrect ==
  Roots!Spec => []Roots!TypeOK
<1>1. RootsInv => Roots!TypeOK
  BY DEF RootsInv
<1> QED
  BY <1>1, RootsInvariant, PTL

\* The same of the parts together: the roots do as their module says, and the
\* other parts leave them alone.
LEMMA RootsAmongParts == PartsSpec => []RootsInv
<1>1. PartsInit => RootsInv
  BY RootsInitInv DEF PartsInit
<1>2. ASSUME RootsInv, [PartsNext]_partsVars
      PROVE  RootsInv'
  <2>1. CASE UNCHANGED rootsVars
    BY <1>2, <2>1, RootsNextInv DEF rootsVars, Roots!vars
  <2>2. CASE Roots!Next
    BY <1>2, <2>2, RootsNextInv
  <2> QED
    BY <1>2, <2>1, <2>2 DEF PartsNext, OnlySessions, OnlyRoots, OnlyQuarantine, partsVars
<1> QED
  BY <1>1, <1>2, PTL DEF PartsSpec

\* A root that contract status shows as current holds the active contract, not
\* that of another checkout; the exception is an edit of the manifest that was
\* undone between its rendering and the check (MarkInstalledOutput, Pending).
THEOREM CurrentRootsAreInstalled == PartsSpec => []CurrentMeansInstalled
<1>1. RootsInv => CurrentMeansInstalled
  <2> SUFFICES ASSUME RootsInv, NEW r \in Roots!Roots, ~Roots!Pending(r), active # 0
               PROVE  \/ file[r] = Roots!Published(active)
                      \/ r \in undone /\ file[r] = Roots!Edited(active)
    BY DEF CurrentMeansInstalled, Roots!CurrentMeansInstalled, Roots!Known
  <2>1. root[r].installed = active
    BY DEF Roots!Pending
  <2>2. root[r].hash = Roots!Published(active) \/ (r \in undone /\ root[r].hash = Roots!Edited(active))
    BY <2>1 DEF RootsInv, MarkersTrue, MarkerTrue
  <2>3. Roots!Published(active) # Roots!NoFile /\ Roots!Edited(active) # Roots!NoFile
    BY DEF Roots!Published, Roots!Edited, Roots!NoFile
  <2> QED
    BY <2>2, <2>3 DEF Roots!Pending
<1> QED
  BY <1>1, RootsAmongParts, PTL

-----------------------------------------------------------------------------
(* The sessions among the other parts *)

\* Sessions do as their module says, and the other parts leave them alone.
LEMMA WorkAmongParts == PartsSpec => Spec
<1>1. PartsInit => Init
  BY DEF PartsInit
<1>2. [PartsNext]_partsVars => [Next]_vars
  BY DEF PartsNext, OnlySessions, OnlyRoots, OnlyQuarantine, partsVars
<1> QED
  BY <1>1, <1>2, PTL DEF PartsSpec, Spec

\* No change made in a session's worktree is lost, whatever overlaps.
THEOREM WorkIsKeptAmongParts == PartsSpec => []WorkKept
BY WorkAmongParts, WorkIsKept, PTL

\* What the sessions promise of finished and published sessions and of conflicts,
\* whatever the parts beside them do.
THEOREM SessionsKeepTheirWord ==
  PartsSpec => []FinishedMeansLanded /\ []PublishedMeansPushed /\ ConflictsAreHeld
<1>1. Spec => []FinishedMeansLanded
  BY FinishedSessionsLanded
<1>2. Spec => []PublishedMeansPushed
  BY PublishedSessionsPushed
<1>3. Spec => ConflictsAreHeld
  BY NoConflictIsCommitted
<1> QED
  BY <1>1, <1>2, <1>3, WorkAmongParts
=============================================================================
