----------------------------- MODULE Quarantine -----------------------------
(***************************************************************************)
(* The quarantine of one managed repository after a confirmed revocation:  *)
(* internal/access/quarantine.go, called by `my access enforce` (the       *)
(* monitor) and by the launch gate.  Several processes run it over one     *)
(* umbrella; each step that reaches the disk is one action, so that a      *)
(* crash or an error may fall between any two of them.  Checkouts are      *)
(* 1..N: the linked worktrees, then the main checkout N, which is moved    *)
(* last.  File contents are version numbers, 0 for an empty path.          *)
(***************************************************************************)
EXTENDS Integers, Functions

CONSTANTS
  N,             \* checkouts of the repository; N is the main one
  MaxTx,         \* bound: transaction directories
  MaxVersion,    \* bound: contents users write
  MaxAborts,     \* bound: crashes and I/O errors
  MaxOther,      \* bound: saves by writers of the inventory that take no lock
  Procs,         \* my-cli processes of this umbrella
  NoProc         \* the lock is free

Sources == 1..N
Txs == 1..MaxTx
Contents == 0..MaxVersion

SourceStates == {"absent", "preparing", "prepared", "moved", "verified"}
Phases == {"none", "preparing", "intent", "moving", "moved", "complete"}
Journals == [phase : Phases, st : [Sources -> SourceStates]]
NoJournal == [phase |-> "none", st |-> [s \in Sources |-> "absent"]]

\* The part of the per-user inventory file that concerns this repository:
\* whether it has an entry, whether the entry's denial is confirmed, and the
\* retained quarantine records (by transaction).
Inventories == [entry : BOOLEAN, confirmed : BOOLEAN, records : SUBSET Txs]
EmptyInventory == [entry |-> FALSE, confirmed |-> FALSE, records |-> {}]

PCs == {"idle", "checked", "capsules", "advance", "moves", "renamed",
        "load", "finalize", "event", "complete", "resume"}
Ops == [pc : PCs, tx : 0..MaxTx, j : Journals, inv : Inventories,
        resumed : BOOLEAN]
Idle == [pc |-> "idle", tx |-> 0, j |-> NoJournal, inv |-> EmptyInventory,
         resumed |-> FALSE]

VARIABLES
  orig,          \* content at each original path
  dest,          \* content at each transaction's path for each checkout
  capsule,       \* content each transaction's recovery capsule recorded
  journal,       \* the journal file of each transaction
  inventory,     \* the inventory file
  events,        \* transactions in the security event log (events.jsonl)
  lock,          \* holder of access-quarantine.lock
  op,            \* each process: program counter and what it has in memory
  other,         \* the copy of the inventory an unlocked writer has loaded
  written,       \* contents written so far
  aborts,        \* crashes and errors so far
  saves          \* saves by unlocked writers so far

disk == <<orig, dest, capsule, journal, inventory, events>>
env == <<other, written, aborts, saves>>
vars == <<disk, lock, op, env>>

Init ==
  /\ orig = [s \in Sources |-> 1]
  /\ dest = [t \in Txs |-> [s \in Sources |-> 0]]
  /\ capsule = [t \in Txs |-> [s \in Sources |-> 0]]
  /\ journal = [t \in Txs |-> NoJournal]
  /\ inventory = [entry |-> TRUE, confirmed |-> TRUE, records |-> {}]
  /\ events = {}
  /\ lock = NoProc
  /\ op = [p \in Procs |-> Idle]
  /\ other = EmptyInventory
  /\ written = 1
  /\ aborts = 0
  /\ saves = 0

-----------------------------------------------------------------------------
(* Helpers *)

\* p goes on at pc with journal j in memory.
Goto(p, pc, j) == op' = [op EXCEPT ![p].pc = pc, ![p].j = j]

\* The handler of p returns (done, error or crash): the flock goes with it.
Return(p) ==
  /\ op' = [op EXCEPT ![p] = Idle]
  /\ lock' = IF lock = p THEN NoProc ELSE lock

\* saveQuarantineJournal: temporary file, fsync, rename.
SaveJournal(t, j) == journal' = [journal EXCEPT ![t] = j]

Settled(j, s) == j.st[s] \in {"absent", "verified"}
AllSettled(j) == \A s \in Sources : Settled(j, s)
\* The loops of the code visit the sources in order.
IsNext(j, s) == ~Settled(j, s) /\ \A r \in 1..(s - 1) : Settled(j, r)

Confirmed(inv) == inv.entry /\ inv.confirmed

\* allowedRootForJournal: an active entry decides alone; without one a
\* retained record of the same journal does.
BoundToInventory(inv, t) ==
  IF inv.entry THEN inv.confirmed ELSE t \in inv.records

-----------------------------------------------------------------------------
(* QuarantineConfirmed *)

\* confirmedInventoryEntry reads path and inventory before the lock is taken.
Check(p) ==
  /\ op[p].pc = "idle"
  /\ orig[N] # 0
  /\ Confirmed(inventory)
  /\ Goto(p, "checked", NoJournal)
  /\ UNCHANGED <<disk, lock, env>>

\* The checkouts that are there: linked worktrees, the main checkout last.
Discovered == [s \in Sources |-> IF orig[s] = 0 THEN "absent" ELSE "preparing"]

\* acquireQuarantineLock does not wait; discoverQuarantineSources runs git in
\* the main checkout, skips worktrees that no longer exist and puts the main
\* checkout last; the journal is saved in phase "preparing".  (At the bound
\* MaxTx no directory can be made.)
Begin(p) ==
  /\ op[p].pc = "checked"
  /\ IF lock # NoProc \/ orig[N] = 0 \/ NoJournal \notin Range(journal)
     THEN Return(p) /\ UNCHANGED journal
     ELSE \E t \in Txs :
            LET j == [phase |-> "preparing", st |-> Discovered]
            IN /\ journal[t] = NoJournal
               /\ lock' = p
               /\ SaveJournal(t, j)
               /\ op' = [op EXCEPT ![p].pc = "capsules", ![p].tx = t, ![p].j = j]
  /\ UNCHANGED <<orig, dest, capsule, inventory, events, env>>

\* BuildRecoveryCapsule records the working tree of the next source; it fails
\* when the checkout is no longer there.
BuildCapsule(p, s) ==
  LET t == op[p].tx
      j == [op[p].j EXCEPT !.st[s] = "prepared"]
  IN /\ op[p].pc = "capsules"
     /\ op[p].j.st[s] = "preparing"
     /\ \A r \in 1..(s - 1) : op[p].j.st[r] # "preparing"
     /\ IF orig[s] = 0
        THEN Return(p) /\ UNCHANGED <<capsule, journal>>
        ELSE /\ capsule' = [capsule EXCEPT ![t][s] = orig[s]]
             /\ SaveJournal(t, j)
             /\ Goto(p, "capsules", j)
             /\ UNCHANGED lock
     /\ UNCHANGED <<orig, dest, inventory, events, env>>

Intent(p) ==
  LET j == [op[p].j EXCEPT !.phase = "intent"]
  IN /\ op[p].pc = "capsules"
     /\ \A s \in Sources : op[p].j.st[s] # "preparing"
     /\ SaveJournal(op[p].tx, j)
     /\ Goto(p, "advance", j)
     /\ UNCHANGED <<orig, dest, capsule, inventory, events, lock, env>>

(* advanceQuarantineMoves *)

StartMoves(p) ==
  LET j == [op[p].j EXCEPT !.phase = "moving"]
  IN /\ op[p].pc = "advance"
     /\ SaveJournal(op[p].tx, j)
     /\ Goto(p, "moves", j)
     /\ UNCHANGED <<orig, dest, capsule, inventory, events, lock, env>>

\* Mutant: the destination of the rename is not looked at.
RenameOverwrites(p, s) ==
  LET t == op[p].tx IN
  /\ op[p].pc = "moves"
  /\ IsNext(op[p].j, s)
  /\ op[p].j.st[s] = "prepared"
  /\ orig[s] # 0
  /\ dest' = [dest EXCEPT ![t][s] = orig[s]]
  /\ orig' = [orig EXCEPT ![s] = 0]
  /\ Goto(p, "renamed", op[p].j)
  /\ UNCHANGED <<capsule, journal, inventory, events, lock, env>>

\* Mutant: a directory that has already moved is an error, not a crash to
\* recover from.
RenameWithoutRecovery(p, s) ==
  LET t == op[p].tx IN
  /\ op[p].pc = "moves"
  /\ IsNext(op[p].j, s)
  /\ op[p].j.st[s] = "prepared"
  /\ IF orig[s] # 0 /\ dest[t][s] = 0
     THEN /\ dest' = [dest EXCEPT ![t][s] = orig[s]]
          /\ orig' = [orig EXCEPT ![s] = 0]
          /\ Goto(p, "renamed", op[p].j)
          /\ UNCHANGED lock
     ELSE Return(p) /\ UNCHANGED <<orig, dest>>
  /\ UNCHANGED <<capsule, journal, inventory, events, env>>

\* Mutant: a source that is still "preparing" is moved too.
RenameUnprepared(p, s) ==
  LET t == op[p].tx IN
  /\ op[p].pc = "moves"
  /\ IsNext(op[p].j, s)
  /\ op[p].j.st[s] \in {"prepared", "preparing"}
  /\ orig[s] # 0 /\ dest[t][s] = 0
  /\ dest' = [dest EXCEPT ![t][s] = orig[s]]
  /\ orig' = [orig EXCEPT ![s] = 0]
  /\ Goto(p, "renamed", op[p].j)
  /\ UNCHANGED <<capsule, journal, inventory, events, lock, env>>

\* The next source is moved by one rename; a rename an earlier process did
\* before it crashed is recognised by where the directory is.
Rename(p, s) ==
  LET t == op[p].tx IN
  /\ op[p].pc = "moves"
  /\ IsNext(op[p].j, s)
  /\ op[p].j.st[s] = "prepared"
  /\ CASE orig[s] # 0 /\ dest[t][s] = 0 ->
            /\ dest' = [dest EXCEPT ![t][s] = orig[s]]
            /\ orig' = [orig EXCEPT ![s] = 0]
            /\ Goto(p, "renamed", op[p].j)
            /\ UNCHANGED lock
       [] orig[s] = 0 /\ dest[t][s] # 0 ->
            Goto(p, "renamed", op[p].j) /\ UNCHANGED <<orig, dest, lock>>
       [] OTHER -> Return(p) /\ UNCHANGED <<orig, dest>>
  /\ UNCHANGED <<capsule, journal, inventory, events, env>>

\* A source that was never prepared ends the call with an error.
NotPrepared(p, s) ==
  /\ op[p].pc = "moves"
  /\ IsNext(op[p].j, s)
  /\ op[p].j.st[s] = "preparing"
  /\ Return(p)
  /\ UNCHANGED <<disk, env>>

\* Mutant: the journal gets a source state that the loader does not know.
MarkRenamed(p, s) ==
  LET j == [op[p].j EXCEPT !.st[s] = "renamed"]
  IN /\ op[p].pc = "renamed"
     /\ IsNext(op[p].j, s)
     /\ SaveJournal(op[p].tx, j)
     /\ Goto(p, "moves", j)
     /\ UNCHANGED <<orig, dest, capsule, inventory, events, lock, env>>

MarkMoved(p, s) ==
  LET j == [op[p].j EXCEPT !.st[s] = "moved"]
  IN /\ op[p].pc = "renamed"
     /\ IsNext(op[p].j, s)
     /\ SaveJournal(op[p].tx, j)
     /\ Goto(p, "moves", j)
     /\ UNCHANGED <<orig, dest, capsule, inventory, events, lock, env>>

\* Mutant: the moved checkout is not compared with its capsule.
VerifyPresence(p, s) ==
  LET t == op[p].tx
      j == [op[p].j EXCEPT !.st[s] = "verified"]
  IN /\ op[p].pc = "moves"
     /\ IsNext(op[p].j, s)
     /\ op[p].j.st[s] = "moved"
     /\ IF orig[s] = 0 /\ dest[t][s] # 0
        THEN SaveJournal(t, j) /\ Goto(p, "moves", j) /\ UNCHANGED lock
        ELSE Return(p) /\ UNCHANGED journal
     /\ UNCHANGED <<orig, dest, capsule, inventory, events, env>>

\* The files of the moved checkout, by kind, mode and digest, are those the
\* capsule records.
MatchesCapsule(t, s) == dest[t][s] # 0 /\ dest[t][s] = capsule[t][s]

\* VerifyQuarantinedCheckout compares the moved bytes with the capsule.
Verify(p, s) ==
  LET t == op[p].tx
      j == [op[p].j EXCEPT !.st[s] = "verified"]
  IN /\ op[p].pc = "moves"
     /\ IsNext(op[p].j, s)
     /\ op[p].j.st[s] = "moved"
     /\ IF orig[s] = 0 /\ MatchesCapsule(t, s)
        THEN SaveJournal(t, j) /\ Goto(p, "moves", j) /\ UNCHANGED lock
        ELSE Return(p) /\ UNCHANGED journal
     /\ UNCHANGED <<orig, dest, capsule, inventory, events, env>>

EndMoves(p) ==
  LET j == [op[p].j EXCEPT !.phase = "moved"]
  IN /\ op[p].pc = "moves"
     /\ AllSettled(op[p].j)
     /\ SaveJournal(op[p].tx, j)
     /\ Goto(p, IF op[p].resumed THEN "finalize" ELSE "load", j)
     /\ UNCHANGED <<orig, dest, capsule, inventory, events, lock, env>>

(* finalizeQuarantineInventory, appendQuarantineSecurityEvent *)

Reload(p) ==
  /\ op[p].pc = "load"
  /\ op' = [op EXCEPT ![p].pc = "finalize", ![p].inv = inventory]
  /\ UNCHANGED <<disk, lock, env>>

\* Works on the copy loaded before: idempotent by journal path, otherwise the
\* entry is replaced by a retained record and the whole file is saved.
Finalize(p) ==
  LET t == op[p].tx
      inv == op[p].inv
  IN /\ op[p].pc = "finalize"
     /\ CASE t \in inv.records ->
               Goto(p, "event", op[p].j) /\ UNCHANGED <<inventory, lock>>
          [] t \notin inv.records /\ inv.entry ->
               /\ inventory' = [entry |-> FALSE, confirmed |-> FALSE,
                                records |-> inv.records \cup {t}]
               /\ Goto(p, "event", op[p].j)
               /\ UNCHANGED lock
          [] OTHER -> Return(p) /\ UNCHANGED inventory
     /\ UNCHANGED <<orig, dest, capsule, journal, events, env>>

\* Appended once: the event id is the journal path.
AppendEvent(p) ==
  /\ op[p].pc = "event"
  /\ events' = events \cup {op[p].tx}
  /\ Goto(p, "complete", op[p].j)
  /\ UNCHANGED <<orig, dest, capsule, journal, inventory, lock, env>>

\* A journal that was loaded complete is not saved again.
Complete(p) ==
  /\ op[p].pc = "complete"
  /\ IF op[p].j.phase = "complete"
     THEN UNCHANGED journal
     ELSE SaveJournal(op[p].tx, [op[p].j EXCEPT !.phase = "complete"])
  /\ Return(p)
  /\ UNCHANGED <<orig, dest, capsule, inventory, events, env>>

-----------------------------------------------------------------------------
(* ResumeQuarantine (no caller in internal/cli; the tests call it) *)

\* The journal is read before the lock.
ResumeLoad(p, t) ==
  /\ op[p].pc = "idle"
  /\ journal[t] # NoJournal
  /\ BoundToInventory(inventory, t)
  /\ op' = [op EXCEPT ![p].pc = "resume", ![p].tx = t, ![p].j = journal[t],
                      ![p].resumed = TRUE]
  /\ UNCHANGED <<disk, lock, env>>

\* Under the lock the inventory is read again, the journal is not.
ResumeLocked(p) ==
  /\ op[p].pc = "resume"
  /\ IF lock = NoProc /\ BoundToInventory(inventory, op[p].tx)
     THEN /\ lock' = p
          /\ op' = [op EXCEPT
               ![p].pc = IF op[p].j.phase = "complete" THEN "finalize" ELSE "advance",
               ![p].inv = inventory]
     ELSE Return(p)
  /\ UNCHANGED <<disk, env>>

-----------------------------------------------------------------------------
(* The rest of the machine *)

\* A crash or an I/O error between two steps of a handler.
Abort(p) ==
  /\ op[p].pc # "idle"
  /\ aborts < MaxAborts
  /\ aborts' = aborts + 1
  /\ Return(p)
  /\ UNCHANGED <<disk, other, written, saves>>

\* A user edits a checkout, or clones it again where it was taken away.
UserWrites(s) ==
  /\ written < MaxVersion
  /\ written' = written + 1
  /\ orig' = [orig EXCEPT ![s] = written + 1]
  /\ UNCHANGED <<dest, capsule, journal, inventory, events, lock, op, other,
                 aborts, saves>>

\* RecordObservation, RecordPositiveBatch and quarantines of other umbrellas
\* load and save the same per-user file without this umbrella's lock.
OtherLoads ==
  /\ saves < MaxOther
  /\ other' = inventory
  /\ UNCHANGED <<disk, lock, op, written, aborts, saves>>

\* They keep what they loaded of this repository, change its evidence, or add
\* an entry (activation of an existing checkout).
OtherSaves ==
  /\ saves < MaxOther
  /\ saves' = saves + 1
  /\ \/ inventory' = other
     \/ other.entry /\ \E c \in BOOLEAN : inventory' = [other EXCEPT !.confirmed = c]
     \/ ~other.entry /\ orig[N] # 0 /\ inventory' = [other EXCEPT !.entry = TRUE]
  /\ other # EmptyInventory
  /\ other' = EmptyInventory
  /\ UNCHANGED <<orig, dest, capsule, journal, events, lock, op, written, aborts>>

-----------------------------------------------------------------------------
Advance(p) ==
  \/ StartMoves(p)
  \/ \E s \in Sources : Rename(p, s) \/ NotPrepared(p, s) \/ MarkMoved(p, s) \/ Verify(p, s)
  \/ EndMoves(p)

\* Every step a process takes by itself once it has begun.
Continue(p) ==
  \/ Begin(p)
  \/ \E s \in Sources : BuildCapsule(p, s)
  \/ Intent(p)
  \/ Advance(p)
  \/ Reload(p) \/ Finalize(p) \/ AppendEvent(p) \/ Complete(p)
  \/ ResumeLocked(p)

Environment ==
  \/ \E p \in Procs : Abort(p)
  \/ \E s \in Sources : UserWrites(s)
  \/ OtherLoads
  \/ OtherSaves

\* What the shipped commands do.
Production ==
  \/ \E p \in Procs : Check(p) \/ Continue(p)
  \/ Environment

\* The package's whole interface.
Next ==
  \/ Production
  \/ \E p \in Procs, t \in Txs : ResumeLoad(p, t)

Spec == Init /\ [][Next]_vars

\* The monitor's timer runs enforcement again and again, and a running
\* process keeps running.
ProductionSpec ==
  /\ Init /\ [][Production]_vars
  /\ \A p \in Procs : WF_vars(Check(p)) /\ WF_vars(Continue(p))
-----------------------------------------------------------------------------
(* Properties *)

TypeOK ==
  /\ orig \in [Sources -> Contents]
  /\ dest \in [Txs -> [Sources -> Contents]]
  /\ capsule \in [Txs -> [Sources -> Contents]]
  /\ journal \in [Txs -> Journals]
  /\ inventory \in Inventories
  /\ events \in SUBSET Txs
  /\ lock \in Procs \cup {NoProc}
  /\ op \in [Procs -> Ops]
  /\ other \in Inventories
  /\ written \in 1..MaxVersion
  /\ aborts \in 0..MaxAborts
  /\ saves \in 0..MaxOther

InTx(t, s) == journal[t].st[s] # "absent"

\* A transaction that the inventory retains or the security log reports holds
\* every checkout of its journal, with the bytes its recovery capsule recorded
\* (finalizeQuarantineInventory runs only after VerifyQuarantinedCheckout),
\* whatever crashes, resumes and concurrent quarantines came before.
AccountedMeansHeld ==
  \A t \in inventory.records \cup events, s \in Sources :
    InTx(t, s) => dest[t][s] # 0 /\ dest[t][s] = capsule[t][s]

\* No checkout leaves its path before its own recovery capsule is written and
\* the journal on disk says that moves have begun.  (Not before the capsules of
\* all of them: ResumeQuarantine of a journal left in phase "preparing" moves
\* the prepared sources before it stops at the first that is not.)
CapsuleBeforeMove ==
  \A t \in Txs, s \in Sources :
    dest[t][s] # 0 =>
      /\ capsule[t][s] # 0
      /\ journal[t].phase \in {"moving", "moved", "complete"}

\* A journal past its intent that the inventory still binds, whose sources are
\* each in exactly one place with the recorded bytes.
Resumable(t) ==
  /\ journal[t].phase \in {"intent", "moving", "moved"}
  /\ BoundToInventory(inventory, t)
  /\ \A s \in Sources : InTx(t, s) =>
       \/ orig[s] = 0 /\ dest[t][s] # 0 /\ dest[t][s] = capsule[t][s]
       \/ journal[t].st[s] = "prepared" /\ dest[t][s] = 0 /\ orig[s] # 0
                                        /\ orig[s] = capsule[t][s]

\* ResumeQuarantine converges (quarantine.go:161): repeated, it does not leave
\* a resumable journal incomplete for ever, wherever the crash fell.
ResumeConverges == \A t \in Txs : []<>~Resumable(t)

\* "Every automatic removal writes a local security event"
\* (docs/plans/2026-07-16-governed-organizations.md:468): eventually, once the
\* main checkout has been moved.
EveryRemovalReported == \A t \in Txs : dest[t][N] # 0 ~> t \in events
=============================================================================
