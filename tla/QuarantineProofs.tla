-------------------------- MODULE QuarantineProofs --------------------------
(***************************************************************************)
(* Proofs about module Quarantine, as the instance Q of MCCheckouts: for   *)
(* any number of checkouts, processes and transactions, a transaction that *)
(* is accounted for holds every checkout with the recorded bytes, nothing  *)
(* is moved before its capsule is written, and the quarantine implements   *)
(* module Custody.                                                         *)
(***************************************************************************)
EXTENDS MCCheckouts, TLAPS

-----------------------------------------------------------------------------
(* The inductive invariant *)

\* A moved checkout has the bytes of its capsule: held and caps are the rows of
\* dest and capsule of one transaction.
Matching(held, caps, s) == held[s] # 0 /\ held[s] = caps[s]

\* What a journal, on disk or in the memory of a process, may say of the files.
Backed(j, held, caps) ==
  /\ \A s \in Q!Sources :
       /\ j.st[s] \in {"prepared", "moved", "verified"} => caps[s] # 0
       /\ j.st[s] = "verified" => Matching(held, caps, s)
  /\ j.phase \in {"moved", "complete"} => Q!AllSettled(j)
  /\ j # Q!NoJournal => j.st[N] # "absent"

\* The checkouts of a transaction are those its first journal names.
SameCheckouts(i, j) == \A s \in Q!Sources : i.st[s] = "absent" <=> j.st[s] = "absent"

\* A process o that has a journal in memory: its copy may be older than the
\* journal j on disk, but what it says is still true.
WorksOn(o, j, held, caps) ==
  /\ o.tx \in Q!Txs
  /\ Backed(o.j, held, caps)
  /\ o.j.st[N] # "absent"
  /\ SameCheckouts(o.j, j)
  /\ o.pc = "capsules" => o.j.phase = "preparing" /\ \A s \in Q!Sources : held[s] = 0
  /\ o.pc \in {"moves", "renamed"} => o.j.phase = "moving" /\ j.phase = "moving"
  /\ o.pc = "renamed" => \A s \in Q!Sources : Q!IsNext(o.j, s) => o.j.st[s] = "prepared"
  /\ o.pc \in {"load", "finalize", "event", "complete"} => o.j.phase \in {"moved", "complete"}

\* A transaction that holds all its checkouts, the main one among them.
Holds(j, held, caps) ==
  /\ j.st[N] # "absent"
  /\ \A s \in Q!Sources : j.st[s] # "absent" => Matching(held, caps, s)

\* Only the holder of the lock works past the loading of a journal.
HolderWorks == \A p \in Monitors : mover[p].pc \notin {"idle", "checked", "resume"} => flock = p

JournalsBacked == \A t \in Q!Txs : Backed(journal[t], dest[t], capsule[t])

ProcsWork ==
  \A p \in Monitors : mover[p].pc \notin {"idle", "checked"} =>
    WorksOn(mover[p], journal[mover[p].tx], dest[mover[p].tx], capsule[mover[p].tx])

\* Transactions that the inventory, any copy of it or the event log names.
Accounted == {t \in Q!Txs :
  \/ t \in inventory.records \cup events \cup other.records
  \/ \E p \in Monitors : t \in mover[p].inv.records}

AccountedHeld == \A t \in Accounted : Holds(journal[t], dest[t], capsule[t])

\* The main checkout of a transaction is moved after the linked worktrees.
MainLast ==
  \A t \in Q!Txs : dest[t][N] # 0 => \A s \in Q!Sources : Q!InTx(t, s) => dest[t][s] # 0

QuarantineInv ==
  /\ Q!TypeOK
  /\ HolderWorks
  /\ JournalsBacked
  /\ ProcsWork
  /\ AccountedHeld
  /\ Q!CapsuleBeforeMove
  /\ MainLast

-----------------------------------------------------------------------------
(* Type correctness *)

\* The empty values have their types, and the main checkout is a source.
LEMMA EmptyValues ==
  /\ Q!NoJournal \in Q!Journals
  /\ Q!EmptyInventory \in Q!Inventories
  /\ Q!Idle \in Q!Ops
  /\ N \in Q!Sources
BY QuarantineAssumption DEF Q!NoJournal, Q!Journals, Q!Phases, Q!SourceStates, Q!EmptyInventory,
   Q!Inventories, Q!Idle, Q!Ops, Q!PCs, Q!Sources

\* Goto and Return keep the type of op and of lock.
LEMMA GotoTyped ==
  ASSUME Q!TypeOK, NEW p \in Monitors, NEW pc \in Q!PCs, NEW j \in Q!Journals, Q!Goto(p, pc, j)
  PROVE  mover' \in [Monitors -> Q!Ops]
BY DEF Q!TypeOK, Q!Goto, Q!Ops

\* A return keeps the types of op and of lock.
LEMMA ReturnTyped ==
  ASSUME Q!TypeOK, NEW p \in Monitors, Q!Return(p)
  PROVE  mover' \in [Monitors -> Q!Ops] /\ flock' \in Monitors \cup {NoProc}
BY EmptyValues DEF Q!TypeOK, Q!Return

\* The initial values have their types.
LEMMA InitTyped == Q!Init => Q!TypeOK
BY EmptyValues, QuarantineAssumption DEF Q!Init, Q!TypeOK, Q!Contents, Q!Inventories

\* A journal with one source or its phase changed is a journal.
LEMMA JournalTyped ==
  ASSUME NEW j \in Q!Journals
  PROVE  /\ \A s \in Q!Sources, x \in Q!SourceStates : [j EXCEPT !.st[s] = x] \in Q!Journals
         /\ \A x \in Q!Phases : [j EXCEPT !.phase = x] \in Q!Journals
BY DEF Q!Journals

\* Saving a journal keeps the type of the journal files.
LEMMA SaveTyped ==
  ASSUME Q!TypeOK, NEW t, NEW j \in Q!Journals, Q!SaveJournal(t, j)
  PROVE  journal' \in [Q!Txs -> Q!Journals]
BY DEF Q!TypeOK, Q!SaveJournal

\* Every step keeps the types.
LEMMA StepTyped ==
  ASSUME Q!TypeOK, ProcsWork, [Q!Next]_Q!vars
  PROVE  Q!TypeOK'
<1> USE DEF Q!disk, Q!env
<1>j. ASSUME NEW p \in Monitors
      PROVE  /\ mover[p] \in Q!Ops /\ mover[p].j \in Q!Journals /\ mover[p].inv \in Q!Inventories
             /\ mover[p].tx \in 0..MaxTx
  BY DEF Q!TypeOK, Q!Ops
<1>t. ASSUME NEW p \in Monitors, mover[p].pc \notin {"idle", "checked"}
      PROVE  mover[p].tx \in Q!Txs
  BY <1>t DEF ProcsWork, WorksOn
<1>1. ASSUME NEW p \in Monitors, Q!Check(p) PROVE Q!TypeOK'
  <2>1. mover' \in [Monitors -> Q!Ops]
    BY <1>1, EmptyValues, GotoTyped DEF Q!Check, Q!PCs
  <2> QED
    BY <1>1, <2>1 DEF Q!Check, Q!TypeOK
<1>2. ASSUME NEW p \in Monitors, Q!Begin(p) PROVE Q!TypeOK'
  <2>1. CASE flock # NoProc \/ orig[N] = 0 \/ Q!NoJournal \notin Q!Range(journal)
    <3>1. Q!Return(p) /\ UNCHANGED <<orig, dest, capsule, journal, inventory, events, Q!env>>
      BY <1>2, <2>1 DEF Q!Begin
    <3> QED
      BY <3>1, ReturnTyped DEF Q!TypeOK
  <2>2. CASE ~(flock # NoProc \/ orig[N] = 0 \/ Q!NoJournal \notin Q!Range(journal))
    <3> DEFINE j == [phase |-> "preparing", st |-> Q!Discovered]
    <3>1. PICK t \in Q!Txs :
            /\ flock' = p
            /\ Q!SaveJournal(t, j)
            /\ mover' = [mover EXCEPT ![p].pc = "capsules", ![p].tx = t, ![p].j = j]
      BY <1>2, <2>2 DEF Q!Begin
    <3>2. j \in Q!Journals
      BY DEF Q!Journals, Q!Phases, Q!SourceStates, Q!Discovered
    <3>3. t \in 0..MaxTx
      BY QuarantineAssumption DEF Q!Txs
    <3> HIDE DEF j
    <3>4. mover' \in [Monitors -> Q!Ops]
      BY <1>j, <3>1, <3>2, <3>3 DEF Q!TypeOK, Q!Ops, Q!PCs
    <3> QED
      BY <1>2, <3>1, <3>2, <3>4, SaveTyped DEF Q!Begin, Q!TypeOK
  <2> QED
    BY <2>1, <2>2
<1>3. ASSUME NEW p \in Monitors, NEW s \in Q!Sources, Q!BuildCapsule(p, s) PROVE Q!TypeOK'
  <2>1. CASE orig[s] = 0
    <3>1. Q!Return(p) /\ UNCHANGED <<orig, dest, capsule, journal, inventory, events, Q!env>>
      BY <1>3, <2>1 DEF Q!BuildCapsule
    <3> QED
      BY <3>1, ReturnTyped DEF Q!TypeOK
  <2>2. CASE orig[s] # 0
    <3> DEFINE j == [mover[p].j EXCEPT !.st[s] = "prepared"]
    <3>1. /\ capsule' = [capsule EXCEPT ![mover[p].tx][s] = orig[s]]
          /\ Q!SaveJournal(mover[p].tx, j)
          /\ Q!Goto(p, "capsules", j)
          /\ UNCHANGED <<orig, dest, inventory, events, flock, Q!env>>
      BY <1>3, <2>2 DEF Q!BuildCapsule
    <3>2. j \in Q!Journals
      BY <1>j, JournalTyped DEF Q!SourceStates
    <3> HIDE DEF j
    <3>3. mover' \in [Monitors -> Q!Ops] /\ journal' \in [Q!Txs -> Q!Journals]
      BY <3>1, <3>2, GotoTyped, SaveTyped DEF Q!PCs
    <3>4. capsule' \in [Q!Txs -> [Q!Sources -> Q!Contents]]
      BY <3>1 DEF Q!TypeOK
    <3> QED
      BY <3>1, <3>3, <3>4 DEF Q!TypeOK
  <2> QED
    BY <2>1, <2>2
<1>4. ASSUME NEW p \in Monitors, Q!Intent(p) PROVE Q!TypeOK'
  <2> DEFINE j == [mover[p].j EXCEPT !.phase = "intent"]
  <2>1. j \in Q!Journals
    BY <1>j, JournalTyped DEF Q!Phases
  <2>2. Q!SaveJournal(mover[p].tx, j) /\ Q!Goto(p, "advance", j)
    BY <1>4 DEF Q!Intent
  <2> HIDE DEF j
  <2>3. mover' \in [Monitors -> Q!Ops] /\ journal' \in [Q!Txs -> Q!Journals]
    BY <2>1, <2>2, GotoTyped, SaveTyped DEF Q!PCs
  <2> QED
    BY <1>4, <2>3 DEF Q!Intent, Q!TypeOK
<1>5. ASSUME NEW p \in Monitors, Q!StartMoves(p) PROVE Q!TypeOK'
  <2> DEFINE j == [mover[p].j EXCEPT !.phase = "moving"]
  <2>1. j \in Q!Journals
    BY <1>j, JournalTyped DEF Q!Phases
  <2>2. Q!SaveJournal(mover[p].tx, j) /\ Q!Goto(p, "moves", j)
    BY <1>5 DEF Q!StartMoves
  <2> HIDE DEF j
  <2>3. mover' \in [Monitors -> Q!Ops] /\ journal' \in [Q!Txs -> Q!Journals]
    BY <2>1, <2>2, GotoTyped, SaveTyped DEF Q!PCs
  <2> QED
    BY <1>5, <2>3 DEF Q!StartMoves, Q!TypeOK
<1>6. ASSUME NEW p \in Monitors, NEW s \in Q!Sources, Q!Rename(p, s) PROVE Q!TypeOK'
  <2>1. CASE orig[s] # 0 /\ dest[mover[p].tx][s] = 0
    <3>1. /\ dest' = [dest EXCEPT ![mover[p].tx][s] = orig[s]]
          /\ orig' = [orig EXCEPT ![s] = 0]
          /\ Q!Goto(p, "renamed", mover[p].j)
          /\ UNCHANGED <<capsule, journal, inventory, events, flock, Q!env>>
      BY <1>6, <2>1 DEF Q!Rename
    <3>2. mover' \in [Monitors -> Q!Ops]
      BY <1>j, <3>1, GotoTyped DEF Q!PCs
    <3>3. dest' \in [Q!Txs -> [Q!Sources -> Q!Contents]] /\ orig' \in [Q!Sources -> Q!Contents]
      <4>1. orig[s] \in Q!Contents /\ 0 \in Q!Contents
        BY QuarantineAssumption DEF Q!TypeOK, Q!Contents
      <4> QED
        BY <3>1, <4>1 DEF Q!TypeOK
    <3> QED
      BY <3>1, <3>2, <3>3 DEF Q!TypeOK
  <2>2. CASE orig[s] = 0 /\ dest[mover[p].tx][s] # 0
    <3>1. Q!Goto(p, "renamed", mover[p].j) /\ UNCHANGED <<Q!disk, flock, Q!env>>
      BY <1>6, <2>2 DEF Q!Rename
    <3>2. mover' \in [Monitors -> Q!Ops]
      BY <1>j, <3>1, GotoTyped DEF Q!PCs
    <3> QED
      BY <3>1, <3>2 DEF Q!TypeOK
  <2>3. CASE ~(orig[s] # 0 /\ dest[mover[p].tx][s] = 0) /\ ~(orig[s] = 0 /\ dest[mover[p].tx][s] # 0)
    <3>1. Q!Return(p) /\ UNCHANGED <<Q!disk, Q!env>>
      BY <1>6, <2>3 DEF Q!Rename
    <3> QED
      BY <3>1, ReturnTyped DEF Q!TypeOK
  <2> QED
    BY <2>1, <2>2, <2>3
<1>7. ASSUME NEW p \in Monitors, NEW s \in Q!Sources, Q!NotPrepared(p, s) PROVE Q!TypeOK'
  BY <1>7, ReturnTyped DEF Q!NotPrepared, Q!TypeOK
<1>8. ASSUME NEW p \in Monitors, NEW s \in Q!Sources, Q!MarkMoved(p, s) PROVE Q!TypeOK'
  <2> DEFINE j == [mover[p].j EXCEPT !.st[s] = "moved"]
  <2>1. j \in Q!Journals
    BY <1>j, JournalTyped DEF Q!SourceStates
  <2>2. Q!SaveJournal(mover[p].tx, j) /\ Q!Goto(p, "moves", j)
    BY <1>8 DEF Q!MarkMoved
  <2> HIDE DEF j
  <2>3. mover' \in [Monitors -> Q!Ops] /\ journal' \in [Q!Txs -> Q!Journals]
    BY <2>1, <2>2, GotoTyped, SaveTyped DEF Q!PCs
  <2> QED
    BY <1>8, <2>3 DEF Q!MarkMoved, Q!TypeOK
<1>9. ASSUME NEW p \in Monitors, NEW s \in Q!Sources, Q!Verify(p, s) PROVE Q!TypeOK'
  <2> DEFINE j == [mover[p].j EXCEPT !.st[s] = "verified"]
  <2>1. j \in Q!Journals
    BY <1>j, JournalTyped DEF Q!SourceStates
  <2>2. \/ Q!SaveJournal(mover[p].tx, j) /\ Q!Goto(p, "moves", j) /\ UNCHANGED flock
        \/ Q!Return(p) /\ UNCHANGED journal
    BY <1>9 DEF Q!Verify
  <2> HIDE DEF j
  <2>3. /\ mover' \in [Monitors -> Q!Ops] /\ journal' \in [Q!Txs -> Q!Journals]
        /\ flock' \in Monitors \cup {NoProc}
    BY <2>1, <2>2, GotoTyped, ReturnTyped, SaveTyped DEF Q!PCs, Q!TypeOK
  <2> QED
    BY <1>9, <2>3 DEF Q!Verify, Q!TypeOK
<1>10. ASSUME NEW p \in Monitors, Q!EndMoves(p) PROVE Q!TypeOK'
  <2> DEFINE j == [mover[p].j EXCEPT !.phase = "moved"]
             pc == IF mover[p].resumed THEN "finalize" ELSE "load"
  <2>1. j \in Q!Journals /\ pc \in Q!PCs
    BY <1>j, JournalTyped DEF Q!Phases, Q!PCs
  <2>2. Q!SaveJournal(mover[p].tx, j) /\ Q!Goto(p, pc, j)
    BY <1>10 DEF Q!EndMoves
  <2> HIDE DEF j, pc
  <2>3. mover' \in [Monitors -> Q!Ops] /\ journal' \in [Q!Txs -> Q!Journals]
    BY <2>1, <2>2, GotoTyped, SaveTyped
  <2> QED
    BY <1>10, <2>3 DEF Q!EndMoves, Q!TypeOK
<1>11. ASSUME NEW p \in Monitors, Q!Reload(p) PROVE Q!TypeOK'
  <2>1. mover' \in [Monitors -> Q!Ops]
    BY <1>j, <1>11 DEF Q!Reload, Q!TypeOK, Q!Ops, Q!PCs
  <2> QED
    BY <1>11, <2>1 DEF Q!Reload, Q!TypeOK
<1>12. ASSUME NEW p \in Monitors, Q!Finalize(p) PROVE Q!TypeOK'
  <2>1. mover[p].tx \in Q!Txs /\ mover[p].inv.records \subseteq Q!Txs
    BY <1>12, <1>t, <1>j DEF Q!Finalize, Q!Inventories
  <2> DEFINE inv == [entry |-> FALSE, confirmed |-> FALSE, records |-> mover[p].inv.records \cup {mover[p].tx}]
  <2>2. inv \in Q!Inventories
    BY <2>1 DEF Q!Inventories
  <2>3. \/ Q!Goto(p, "event", mover[p].j) /\ UNCHANGED <<inventory, flock>>
        \/ inventory' = inv /\ Q!Goto(p, "event", mover[p].j) /\ UNCHANGED flock
        \/ Q!Return(p) /\ UNCHANGED inventory
    BY <1>12 DEF Q!Finalize
  <2> HIDE DEF inv
  <2>4. /\ mover' \in [Monitors -> Q!Ops] /\ flock' \in Monitors \cup {NoProc}
        /\ inventory' \in Q!Inventories
    BY <1>j, <2>2, <2>3, GotoTyped, ReturnTyped DEF Q!PCs, Q!TypeOK
  <2> QED
    BY <1>12, <2>4 DEF Q!Finalize, Q!TypeOK
<1>13. ASSUME NEW p \in Monitors, Q!AppendEvent(p) PROVE Q!TypeOK'
  <2>1. mover[p].tx \in Q!Txs
    BY <1>13, <1>t DEF Q!AppendEvent
  <2>2. mover' \in [Monitors -> Q!Ops]
    BY <1>13, <1>j, GotoTyped DEF Q!AppendEvent, Q!PCs
  <2> QED
    BY <1>13, <2>1, <2>2 DEF Q!AppendEvent, Q!TypeOK
<1>14. ASSUME NEW p \in Monitors, Q!Complete(p) PROVE Q!TypeOK'
  <2> DEFINE j == [mover[p].j EXCEPT !.phase = "complete"]
  <2>1. j \in Q!Journals
    BY <1>j, JournalTyped DEF Q!Phases
  <2>2. UNCHANGED journal \/ Q!SaveJournal(mover[p].tx, j)
    BY <1>14 DEF Q!Complete
  <2> HIDE DEF j
  <2>3. journal' \in [Q!Txs -> Q!Journals]
    BY <2>1, <2>2, SaveTyped DEF Q!TypeOK
  <2> QED
    BY <1>14, <2>3, ReturnTyped DEF Q!Complete, Q!TypeOK
<1>15. ASSUME NEW p \in Monitors, NEW t \in Q!Txs, Q!ResumeLoad(p, t) PROVE Q!TypeOK'
  <2>1. journal[t] \in Q!Journals /\ t \in 0..MaxTx
    BY QuarantineAssumption DEF Q!TypeOK, Q!Txs
  <2> DEFINE o == [mover[p] EXCEPT !.pc = "resume", !.tx = t, !.j = journal[t], !.resumed = TRUE]
  <2>2. o \in Q!Ops
    BY <1>j, <2>1 DEF Q!Ops, Q!PCs
  <2>3. mover' = [mover EXCEPT ![p] = o]
    BY <1>15 DEF Q!ResumeLoad
  <2> HIDE DEF o
  <2>4. mover' \in [Monitors -> Q!Ops]
    BY <2>2, <2>3 DEF Q!TypeOK
  <2> QED
    BY <1>15, <2>4 DEF Q!ResumeLoad, Q!TypeOK
<1>16. ASSUME NEW p \in Monitors, Q!ResumeLocked(p) PROVE Q!TypeOK'
  <2>1. CASE flock = NoProc /\ Q!BoundToInventory(inventory, mover[p].tx)
    <3> DEFINE pc == IF mover[p].j.phase = "complete" THEN "finalize" ELSE "advance"
    <3>1. /\ flock' = p /\ mover' = [mover EXCEPT ![p].pc = pc, ![p].inv = inventory]
          /\ UNCHANGED <<Q!disk, Q!env>>
      BY <1>16, <2>1 DEF Q!ResumeLocked
    <3>2. pc \in Q!PCs
      BY DEF Q!PCs
    <3> HIDE DEF pc
    <3>3. mover' \in [Monitors -> Q!Ops]
      BY <1>j, <3>1, <3>2 DEF Q!TypeOK, Q!Ops
    <3> QED
      BY <3>1, <3>3 DEF Q!TypeOK
  <2>2. CASE ~(flock = NoProc /\ Q!BoundToInventory(inventory, mover[p].tx))
    <3>1. Q!Return(p) /\ UNCHANGED <<Q!disk, Q!env>>
      BY <1>16, <2>2 DEF Q!ResumeLocked
    <3> QED
      BY <3>1, ReturnTyped DEF Q!TypeOK
  <2> QED
    BY <2>1, <2>2
<1>17. ASSUME NEW p \in Monitors, Q!Abort(p) PROVE Q!TypeOK'
  BY <1>17, ReturnTyped, QuarantineAssumption DEF Q!Abort, Q!TypeOK
<1>18. ASSUME NEW s \in Q!Sources, Q!UserWrites(s) PROVE Q!TypeOK'
  BY <1>18, QuarantineAssumption DEF Q!UserWrites, Q!TypeOK, Q!Contents
<1>19. ASSUME Q!OtherLoads PROVE Q!TypeOK'
  BY <1>19 DEF Q!OtherLoads, Q!TypeOK
<1>20. ASSUME Q!OtherSaves PROVE Q!TypeOK'
  <2>1. inventory' \in Q!Inventories
    BY <1>20 DEF Q!OtherSaves, Q!TypeOK, Q!Inventories
  <2>2. other' \in Q!Inventories /\ saves' \in 0..MaxOther
    BY <1>20, EmptyValues, QuarantineAssumption DEF Q!OtherSaves, Q!TypeOK
  <2> QED
    BY <1>20, <2>1, <2>2 DEF Q!OtherSaves, Q!TypeOK
<1>21. CASE UNCHANGED Q!vars
  BY <1>21 DEF Q!vars, Q!TypeOK
<1> QED
  BY <1>1, <1>2, <1>3, <1>4, <1>5, <1>6, <1>7, <1>8, <1>9, <1>10, <1>11, <1>12, <1>13, <1>14,
     <1>15, <1>16, <1>17, <1>18, <1>19, <1>20, <1>21
     DEF Q!Next, Q!Production, Q!Environment, Q!Continue, Q!Advance

-----------------------------------------------------------------------------
(* What the invariant says of one transaction lasts *)

\* From held, caps, j to held2, caps2, j2: nothing recorded or moved is undone.
Grows(held, caps, j, held2, caps2, j2) ==
  /\ \A s \in Q!Sources : /\ Matching(held, caps, s) => Matching(held2, caps2, s)
                          /\ caps[s] # 0 => caps2[s] # 0
  /\ j.st[N] # "absent" => SameCheckouts(j, j2)

\* No step undoes what a transaction has.
Grown == \A t \in Q!Txs :
  Grows(dest[t], capsule[t], journal[t], dest'[t], capsule'[t], journal'[t])

\* What a journal says stays true, however old the copy.
LEMMA BackedGrows ==
  ASSUME NEW i, NEW held, NEW caps, NEW j, NEW held2, NEW caps2, NEW j2,
         Grows(held, caps, j, held2, caps2, j2), Backed(i, held, caps)
  PROVE  Backed(i, held2, caps2)
BY DEF Grows, Backed

\* What a transaction holds it keeps.
LEMMA HoldsGrows ==
  ASSUME NEW held, NEW caps, NEW j, NEW held2, NEW caps2, NEW j2,
         Grows(held, caps, j, held2, caps2, j2), Holds(j, held, caps), N \in Q!Sources
  PROVE  Holds(j2, held2, caps2)
BY DEF Grows, Holds, SameCheckouts

\* A journal that has moved everything makes its transaction hold everything.
LEMMA SettledHolds ==
  ASSUME NEW i, NEW held, NEW caps, NEW j,
         Backed(i, held, caps), i.phase \in {"moved", "complete"},
         i.st[N] # "absent", SameCheckouts(i, j), N \in Q!Sources
  PROVE  Holds(j, held, caps)
BY DEF Backed, Q!AllSettled, Q!Settled, Holds, SameCheckouts

\* What a process waiting for the lock has in memory stays true.
LEMMA WaitingWorks ==
  ASSUME NEW o, NEW held, NEW caps, NEW j, NEW held2, NEW caps2, NEW j2,
         Grows(held, caps, j, held2, caps2, j2), o.pc = "resume", N \in Q!Sources,
         WorksOn(o, j, held, caps)
  PROVE  WorksOn(o, j2, held2, caps2)
<1>1. Backed(o.j, held2, caps2)
  BY BackedGrows DEF WorksOn
<1>2. SameCheckouts(o.j, j2)
  BY DEF WorksOn, SameCheckouts, Grows
<1> QED
  BY <1>1, <1>2 DEF WorksOn

-----------------------------------------------------------------------------
(* Steps of one process *)

\* Process p alone moves, and the lock changes hands only with it.
OnlyMoves(p) ==
  /\ \A q \in Monitors \ {p} : mover'[q] = mover[q]
  /\ flock' = flock \/ (flock \in {p, NoProc} /\ flock' \in {p, NoProc})
  /\ mover'[p].pc \notin {"idle", "checked", "resume"} => flock' = p

\* After the step, p has what its program counter promises.
StillWorks(p) ==
  mover'[p].pc \notin {"idle", "checked"} =>
    WorksOn(mover'[p], journal'[mover'[p].tx], dest'[mover'[p].tx], capsule'[mover'[p].tx])

\* Nobody else's work is disturbed: the files of the transactions change only
\* under the lock.
LEMMA OthersWork ==
  ASSUME QuarantineInv, NEW p \in Monitors, OnlyMoves(p), StillWorks(p), Grown,
         flock \in {p, NoProc} \/ UNCHANGED <<dest, capsule, journal>>
  PROVE  HolderWorks' /\ ProcsWork'
<1> NoProc \notin Monitors /\ N \in Q!Sources
  BY QuarantineAssumption, EmptyValues
<1>1. HolderWorks'
  <2> SUFFICES ASSUME NEW q \in Monitors, mover'[q].pc \notin {"idle", "checked", "resume"}
               PROVE  flock' = q
    BY DEF HolderWorks
  <2>1. CASE q = p
    BY <2>1 DEF OnlyMoves
  <2>2. CASE q # p
    <3>1. mover'[q] = mover[q]
      BY <2>2 DEF OnlyMoves
    <3>2. flock = q
      BY <3>1 DEF QuarantineInv, HolderWorks
    <3> QED
      BY <2>2, <3>2 DEF OnlyMoves
  <2> QED
    BY <2>1, <2>2
<1>2. ProcsWork'
  <2> SUFFICES ASSUME NEW q \in Monitors, mover'[q].pc \notin {"idle", "checked"}
               PROVE  WorksOn(mover'[q], journal'[mover'[q].tx], dest'[mover'[q].tx], capsule'[mover'[q].tx])
    BY DEF ProcsWork
  <2>1. CASE q = p
    BY <2>1 DEF StillWorks
  <2>2. CASE q # p
    <3>1. mover'[q] = mover[q]
      BY <2>2 DEF OnlyMoves
    <3>2. /\ WorksOn(mover[q], journal[mover[q].tx], dest[mover[q].tx], capsule[mover[q].tx])
          /\ mover[q].tx \in Q!Txs
      BY <3>1 DEF QuarantineInv, ProcsWork, WorksOn
    <3>3. CASE mover[q].pc = "resume"
      <4>1. Grows(dest[mover[q].tx], capsule[mover[q].tx], journal[mover[q].tx],
                  dest'[mover[q].tx], capsule'[mover[q].tx], journal'[mover[q].tx])
        BY <3>2 DEF Grown
      <4> QED
        BY <3>1, <3>2, <3>3, <4>1, WaitingWorks
    <3>4. CASE mover[q].pc # "resume"
      <4>1. flock = q
        BY <3>1, <3>4 DEF QuarantineInv, HolderWorks
      <4>2. UNCHANGED <<dest, capsule, journal>>
        BY <2>2, <4>1
      <4> QED
        BY <3>1, <3>2, <4>2
    <3> QED
      BY <3>3, <3>4
  <2> QED
    BY <2>1, <2>2
<1> QED
  BY <1>1, <1>2

\* When the files of the transactions do not change, only what p has in memory
\* and what becomes accounted for needs looking at.
LEMMA QuietStep ==
  ASSUME QuarantineInv, Q!TypeOK', NEW p \in Monitors, OnlyMoves(p), StillWorks(p),
         UNCHANGED <<dest, capsule, journal>>,
         \A t \in Accounted' : t \in Accounted \/ Holds(journal[t], dest[t], capsule[t])
  PROVE  QuarantineInv'
<1>1. Grown
  BY DEF Grown, Grows, SameCheckouts
<1>2. HolderWorks' /\ ProcsWork'
  BY <1>1, OthersWork
<1>3. JournalsBacked' /\ Q!CapsuleBeforeMove' /\ MainLast'
  BY DEF QuarantineInv, JournalsBacked, Q!CapsuleBeforeMove, MainLast, Q!InTx
<1>4. AccountedHeld'
  BY DEF QuarantineInv, AccountedHeld
<1> QED
  BY <1>2, <1>3, <1>4 DEF QuarantineInv

\* The holder of the lock changes the files of one transaction.
LEMMA HolderStep ==
  ASSUME QuarantineInv, Q!TypeOK', NEW p \in Monitors, OnlyMoves(p), StillWorks(p),
         flock \in {p, NoProc}, NEW t \in Q!Txs,
         \A u \in Q!Txs \ {t} :
           dest'[u] = dest[u] /\ capsule'[u] = capsule[u] /\ journal'[u] = journal[u],
         Grows(dest[t], capsule[t], journal[t], dest'[t], capsule'[t], journal'[t]),
         Backed(journal'[t], dest'[t], capsule'[t]),
         \A s \in Q!Sources : dest'[t][s] # 0 =>
           capsule'[t][s] # 0 /\ journal'[t].phase \in {"moving", "moved", "complete"},
         dest'[t][N] # 0 => \A s \in Q!Sources : journal'[t].st[s] # "absent" => dest'[t][s] # 0,
         Accounted' \subseteq Accounted
  PROVE  QuarantineInv'
<1>1. Grown
  <2> SUFFICES ASSUME NEW u \in Q!Txs, u # t
               PROVE  Grows(dest[u], capsule[u], journal[u], dest'[u], capsule'[u], journal'[u])
    BY DEF Grown
  <2>1. dest'[u] = dest[u] /\ capsule'[u] = capsule[u] /\ journal'[u] = journal[u]
    OBVIOUS
  <2> QED
    BY <2>1 DEF Grows, SameCheckouts
<1>2. HolderWorks' /\ ProcsWork'
  BY <1>1, OthersWork
<1>3. JournalsBacked'
  BY DEF QuarantineInv, JournalsBacked
<1>4. Q!CapsuleBeforeMove'
  BY DEF QuarantineInv, Q!CapsuleBeforeMove
<1>5. MainLast'
  BY DEF QuarantineInv, MainLast, Q!InTx
<1>6. AccountedHeld'
  <2> SUFFICES ASSUME NEW u \in Accounted'
               PROVE  Holds(journal'[u], dest'[u], capsule'[u])
    BY DEF AccountedHeld
  <2>1. u \in Q!Txs
    BY DEF Accounted
  <2>2. Holds(journal[u], dest[u], capsule[u])
    BY DEF QuarantineInv, AccountedHeld
  <2> QED
    BY <1>1, <2>1, <2>2, HoldsGrows, EmptyValues DEF Grown
<1> QED
  BY <1>2, <1>3, <1>4, <1>5, <1>6 DEF QuarantineInv

-----------------------------------------------------------------------------
(* The invariant holds in the initial state *)

\* A journal that says nothing is true of any files.
LEMMA NothingSaid ==
  ASSUME NEW held, NEW caps
  PROVE  Backed(Q!NoJournal, held, caps)
BY DEF Backed, Q!NoJournal

\* Nothing is moved, recorded or accounted for at the start.
LEMMA InitInvariant == Q!Init => QuarantineInv
<1> SUFFICES ASSUME Q!Init PROVE QuarantineInv
  OBVIOUS
<1> N \in Q!Sources
  BY EmptyValues
<1>1. Q!TypeOK
  BY InitTyped
<1>2. HolderWorks /\ ProcsWork
  BY DEF Q!Init, Q!Idle, HolderWorks, ProcsWork
<1>3. JournalsBacked
  BY NothingSaid DEF Q!Init, JournalsBacked
<1>4. AccountedHeld
  BY DEF Q!Init, Q!Idle, Q!EmptyInventory, AccountedHeld, Accounted
<1>5. Q!CapsuleBeforeMove /\ MainLast
  BY DEF Q!Init, Q!CapsuleBeforeMove, MainLast
<1> QED
  BY <1>1, <1>2, <1>3, <1>4, <1>5 DEF QuarantineInv

-----------------------------------------------------------------------------
(* The ways a handler goes on *)

\* Goto and Return move one process.
LEMMA GotoMoves ==
  ASSUME QuarantineInv, NEW p \in Monitors, NEW pc \in Q!PCs, NEW j \in Q!Journals,
         mover[p].pc \notin {"idle", "checked", "resume"},
         Q!Goto(p, pc, j), UNCHANGED flock
  PROVE  /\ OnlyMoves(p)
         /\ flock = p
         /\ mover'[p] = [mover[p] EXCEPT !.pc = pc, !.j = j]
         /\ mover'[p].pc = pc /\ mover'[p].j = j /\ mover'[p].tx = mover[p].tx /\ mover'[p].inv = mover[p].inv
<1>1. flock = p
  BY DEF QuarantineInv, HolderWorks
<1>2. mover \in [Monitors -> Q!Ops] /\ mover[p] \in Q!Ops
  BY DEF QuarantineInv, Q!TypeOK
<1>3. mover' = [mover EXCEPT ![p] = [mover[p] EXCEPT !.pc = pc, !.j = j]]
  BY DEF Q!Goto
<1>4. mover'[p] = [mover[p] EXCEPT !.pc = pc, !.j = j]
  BY <1>2, <1>3
<1>5. mover'[p].pc = pc /\ mover'[p].j = j /\ mover'[p].tx = mover[p].tx /\ mover'[p].inv = mover[p].inv
  BY <1>2, <1>4 DEF Q!Ops
<1> QED
  BY <1>1, <1>2, <1>3, <1>4, <1>5 DEF OnlyMoves

\* A return leaves the process idle, with nothing to vouch for.
LEMMA ReturnMoves ==
  ASSUME QuarantineInv, NEW p \in Monitors, Q!Return(p)
  PROVE  OnlyMoves(p) /\ StillWorks(p) /\ mover'[p] = Q!Idle
<1>1. mover'[p] = Q!Idle /\ \A q \in Monitors \ {p} : mover'[q] = mover[q]
  BY DEF QuarantineInv, Q!TypeOK, Q!Return
<1>2. Q!Idle.pc = "idle"
  BY DEF Q!Idle
<1> QED
  BY <1>1, <1>2 DEF Q!Return, OnlyMoves, StillWorks

\* What is accounted for grows with what the inventory, its copies and the log
\* of events gain.
LEMMA NothingNew ==
  ASSUME NEW p \in Monitors, \A q \in Monitors \ {p} : mover'[q] = mover[q],
         mover'[p].inv = mover[p].inv \/ mover'[p] = Q!Idle,
         UNCHANGED <<inventory, events, other>>
  PROVE  Accounted' \subseteq Accounted
<1>1. Q!Idle.inv.records = {}
  BY DEF Q!Idle, Q!EmptyInventory
<1> QED
  BY <1>1 DEF Accounted

\* Giving up, by an early return or by an error, is always safe.
LEMMA ReturnStep ==
  ASSUME QuarantineInv, Q!TypeOK', NEW p \in Monitors, Q!Return(p),
         UNCHANGED <<dest, capsule, journal, inventory, events, other>>
  PROVE  QuarantineInv'
<1>1. OnlyMoves(p) /\ StillWorks(p) /\ mover'[p] = Q!Idle
  BY ReturnMoves
<1>2. Accounted' \subseteq Accounted
  BY <1>1, NothingNew DEF OnlyMoves
<1> QED
  BY <1>1, <1>2, QuietStep

\* The holder of the lock saves a journal j that says no more than is true, and
\* goes on with it or returns.
LEMMA SaveStep ==
  ASSUME QuarantineInv, Q!TypeOK', NEW p \in Monitors, NEW j \in Q!Journals, NEW pc \in Q!PCs,
         mover[p].pc \notin {"idle", "checked", "resume"},
         Q!SaveJournal(mover[p].tx, j),
         UNCHANGED <<dest, capsule, inventory, events, other>>,
         SameCheckouts(mover[p].j, j),
         Backed(j, dest[mover[p].tx], capsule[mover[p].tx]),
         \/ j.phase \in {"moving", "moved", "complete"}
         \/ \A s \in Q!Sources : dest[mover[p].tx][s] = 0,
         \/ /\ Q!Goto(p, pc, j) /\ UNCHANGED flock
            /\ pc \in {"advance", "moves", "load", "finalize"}
            /\ pc = "moves" => j.phase = "moving"
            /\ pc \in {"load", "finalize"} => j.phase = "moved"
         \/ Q!Return(p)
  PROVE  QuarantineInv'
<1> DEFINE t == mover[p].tx
<1> N \in Q!Sources
  BY EmptyValues
<1>1. /\ flock = p /\ t \in Q!Txs
      /\ mover[p].j.st[N] # "absent" /\ SameCheckouts(mover[p].j, journal[t])
  BY DEF QuarantineInv, HolderWorks, ProcsWork, WorksOn
<1>2. /\ journal' = [journal EXCEPT ![t] = j] /\ journal'[t] = j
      /\ \A u \in Q!Txs \ {t} : journal'[u] = journal[u]
  BY <1>1 DEF Q!SaveJournal, QuarantineInv, Q!TypeOK
<1>3. j.st[N] # "absent" /\ SameCheckouts(journal[t], j) /\ SameCheckouts(j, j)
  BY <1>1 DEF SameCheckouts
<1>4. OnlyMoves(p) /\ StillWorks(p) /\ (mover'[p].inv = mover[p].inv \/ mover'[p] = Q!Idle)
  <2>1. CASE Q!Return(p)
    BY <2>1, ReturnMoves
  <2>2. CASE /\ Q!Goto(p, pc, j) /\ UNCHANGED flock
             /\ pc \in {"advance", "moves", "load", "finalize"}
             /\ pc = "moves" => j.phase = "moving"
             /\ pc \in {"load", "finalize"} => j.phase = "moved"
    <3>1. /\ OnlyMoves(p)
          /\ mover'[p].pc = pc /\ mover'[p].j = j /\ mover'[p].tx = t /\ mover'[p].inv = mover[p].inv
      BY <2>2, GotoMoves
    <3>2. WorksOn(mover'[p], j, dest[t], capsule[t])
      BY <1>1, <1>3, <2>2, <3>1 DEF WorksOn
    <3> QED
      BY <1>2, <3>1, <3>2 DEF StillWorks
  <2> QED
    BY <2>1, <2>2
<1>5. Accounted' \subseteq Accounted
  BY <1>4, NothingNew DEF OnlyMoves
<1>6. Grows(dest[t], capsule[t], journal[t], dest'[t], capsule'[t], journal'[t])
  BY <1>2, <1>3 DEF Grows
<1>7. \A s \in Q!Sources : dest'[t][s] # 0 =>
        capsule'[t][s] # 0 /\ journal'[t].phase \in {"moving", "moved", "complete"}
  BY <1>1, <1>2 DEF QuarantineInv, Q!CapsuleBeforeMove
<1>8. dest'[t][N] # 0 => \A s \in Q!Sources : journal'[t].st[s] # "absent" => dest'[t][s] # 0
  BY <1>1, <1>2, <1>3 DEF QuarantineInv, MainLast, Q!InTx, SameCheckouts
<1>9. Backed(journal'[t], dest'[t], capsule'[t])
  BY <1>2
<1> HIDE DEF t
<1> QED
  BY <1>1, <1>2, <1>4, <1>5, <1>6, <1>7, <1>8, <1>9, HolderStep

\* A process goes on at pc with the journal it has, and the files of the
\* transactions stay as they are.
LEMMA QuietGoto ==
  ASSUME QuarantineInv, Q!TypeOK', NEW p \in Monitors, NEW pc \in Q!PCs,
         mover[p].pc \notin {"idle", "checked", "resume"},
         Q!Goto(p, pc, mover[p].j), UNCHANGED <<dest, capsule, journal, flock>>,
         \/ pc = "renamed" /\ mover[p].pc = "moves" /\ \A s \in Q!Sources : Q!IsNext(mover[p].j, s) => mover[p].j.st[s] = "prepared"
         \/ pc \in {"event", "complete"} /\ mover[p].pc \in {"finalize", "event"},
         \A t \in Accounted' : t \in Accounted \/ Holds(journal[t], dest[t], capsule[t])
  PROVE  QuarantineInv'
<1>1. mover[p].j \in Q!Journals
  BY DEF QuarantineInv, Q!TypeOK, Q!Ops
<1>2. /\ OnlyMoves(p) /\ mover'[p].pc = pc /\ mover'[p].j = mover[p].j /\ mover'[p].tx = mover[p].tx
  BY <1>1, GotoMoves
<1>3. WorksOn(mover[p], journal[mover[p].tx], dest[mover[p].tx], capsule[mover[p].tx])
  BY DEF QuarantineInv, ProcsWork
<1>4. StillWorks(p)
  BY <1>2, <1>3 DEF StillWorks, WorksOn
<1> QED
  BY <1>2, <1>4, QuietStep

\* A journal may enter another phase, once all is settled for the last two.
LEMMA PhaseChange ==
  ASSUME NEW j \in Q!Journals, NEW held, NEW caps, NEW x \in Q!Phases,
         Backed(j, held, caps), j.st[N] # "absent",
         x \in {"moved", "complete"} => Q!AllSettled(j)
  PROVE  LET i == [j EXCEPT !.phase = x]
         IN  /\ i \in Q!Journals
             /\ SameCheckouts(j, i) /\ Backed(i, held, caps)
<1> DEFINE i == [j EXCEPT !.phase = x]
<1>1. i \in Q!Journals /\ i.phase = x /\ i.st = j.st
  BY DEF Q!Journals
<1> HIDE DEF i
<1>2. SameCheckouts(j, i) /\ Backed(i, held, caps)
  BY <1>1 DEF SameCheckouts, Backed, Q!AllSettled, Q!Settled
<1> QED
  BY <1>1, <1>2 DEF i

\* And a source of it another state, if the files are there.
LEMMA SourceChange ==
  ASSUME NEW j \in Q!Journals, NEW held, NEW caps, NEW s \in Q!Sources,
         NEW x \in {"prepared", "moved", "verified"},
         Backed(j, held, caps), j.st[s] # "absent", j.st[N] # "absent",
         j.phase \notin {"moved", "complete"},
         caps[s] # 0, x = "verified" => Matching(held, caps, s)
  PROVE  LET i == [j EXCEPT !.st[s] = x]
         IN  /\ i \in Q!Journals
             /\ SameCheckouts(j, i) /\ Backed(i, held, caps)
<1> DEFINE i == [j EXCEPT !.st[s] = x]
<1>1. /\ i \in Q!Journals /\ i.phase = j.phase /\ i.st[s] = x
      /\ \A r \in Q!Sources \ {s} : i.st[r] = j.st[r]
  BY DEF Q!Journals, Q!SourceStates
<1> HIDE DEF i
<1> N \in Q!Sources
  BY EmptyValues
<1>2. SameCheckouts(j, i)
  BY <1>1 DEF SameCheckouts
<1>3. Backed(i, held, caps)
  BY <1>1 DEF Backed
<1> QED
  BY <1>1, <1>2, <1>3 DEF i

-----------------------------------------------------------------------------
(* The operations keep the invariant *)

\* The check before the lock keeps nothing but the decision to go on.
LEMMA CheckKeeps ==
  ASSUME QuarantineInv, Q!TypeOK', NEW p \in Monitors, Q!Check(p)
  PROVE  QuarantineInv'
<1> USE DEF Q!disk, Q!env
<1>1. /\ mover'[p].pc = "checked" /\ mover'[p].inv = mover[p].inv
      /\ \A q \in Monitors \ {p} : mover'[q] = mover[q]
  BY DEF Q!Check, Q!Goto, QuarantineInv, Q!TypeOK, Q!Ops
<1>2. OnlyMoves(p) /\ StillWorks(p)
  BY <1>1 DEF OnlyMoves, StillWorks, Q!Check
<1>3. Accounted' \subseteq Accounted
  BY <1>1, NothingNew DEF Q!Check
<1> QED
  BY <1>2, <1>3, QuietStep DEF Q!Check

\* A new transaction starts from an unused journal, whose destinations are empty.
LEMMA BeginKeeps ==
  ASSUME QuarantineInv, Q!TypeOK', NEW p \in Monitors, Q!Begin(p)
  PROVE  QuarantineInv'
<1> USE DEF Q!disk, Q!env
<1> N \in Q!Sources
  BY EmptyValues
<1>1. CASE flock # NoProc \/ orig[N] = 0 \/ Q!NoJournal \notin Q!Range(journal)
  <2>1. Q!Return(p) /\ UNCHANGED <<dest, capsule, journal, inventory, events, other>>
    BY <1>1 DEF Q!Begin
  <2> QED
    BY <2>1, ReturnStep
<1>2. CASE ~(flock # NoProc \/ orig[N] = 0 \/ Q!NoJournal \notin Q!Range(journal))
  <2> DEFINE j == [phase |-> "preparing", st |-> Q!Discovered]
  <2>1. PICK t \in Q!Txs :
          /\ journal[t] = Q!NoJournal
          /\ flock' = p
          /\ Q!SaveJournal(t, j)
          /\ mover' = [mover EXCEPT ![p].pc = "capsules", ![p].tx = t, ![p].j = j]
    BY <1>2 DEF Q!Begin
  <2>2. /\ j.phase = "preparing" /\ j.st[N] = "preparing"
        /\ \A s \in Q!Sources : j.st[s] \in {"absent", "preparing"}
    BY <1>2 DEF Q!Discovered
  <2> HIDE DEF j
  <2>3. /\ mover'[p].pc = "capsules" /\ mover'[p].tx = t /\ mover'[p].j = j /\ mover'[p].inv = mover[p].inv
        /\ \A q \in Monitors \ {p} : mover'[q] = mover[q]
    BY <2>1 DEF QuarantineInv, Q!TypeOK, Q!Ops
  <2>4. /\ journal'[t] = j /\ \A u \in Q!Txs \ {t} : journal'[u] = journal[u]
        /\ flock = NoProc /\ UNCHANGED <<dest, capsule, inventory, events, other>>
    BY <1>2, <2>1 DEF QuarantineInv, Q!TypeOK, Q!SaveJournal, Q!Begin
  <2>5. \A s \in Q!Sources : dest[t][s] = 0
    BY <2>1 DEF QuarantineInv, Q!CapsuleBeforeMove, Q!NoJournal
  <2>6. Backed(j, dest[t], capsule[t])
    BY <2>2 DEF Backed
  <2>7. OnlyMoves(p)
    BY <2>1, <2>3, <2>4 DEF OnlyMoves
  <2>8. StillWorks(p)
    BY <2>2, <2>3, <2>4, <2>5, <2>6 DEF StillWorks, WorksOn, SameCheckouts
  <2>9. Accounted' \subseteq Accounted
    BY <2>3, <2>4, NothingNew
  <2>10. Grows(dest[t], capsule[t], journal[t], dest'[t], capsule'[t], journal'[t])
    BY <2>1, <2>4 DEF Grows, Q!NoJournal
  <2> QED
    BY <2>4, <2>5, <2>6, <2>7, <2>8, <2>9, <2>10, HolderStep
<1> QED
  BY <1>1, <1>2

\* A capsule is written while nothing of the transaction has moved yet.
LEMMA BuildCapsuleKeeps ==
  ASSUME QuarantineInv, Q!TypeOK', NEW p \in Monitors, NEW s \in Q!Sources, Q!BuildCapsule(p, s)
  PROVE  QuarantineInv'
<1> USE DEF Q!disk, Q!env
<1> N \in Q!Sources
  BY EmptyValues
<1>1. CASE orig[s] = 0
  <2>1. Q!Return(p) /\ UNCHANGED <<dest, capsule, journal, inventory, events, other>>
    BY <1>1 DEF Q!BuildCapsule
  <2> QED
    BY <2>1, ReturnStep
<1>2. CASE orig[s] # 0
  <2> DEFINE t == mover[p].tx
             j == [mover[p].j EXCEPT !.st[s] = "prepared"]
  <2>1. /\ mover[p].pc = "capsules" /\ mover[p].j.st[s] = "preparing"
        /\ capsule' = [capsule EXCEPT ![t][s] = orig[s]]
        /\ Q!SaveJournal(t, j) /\ Q!Goto(p, "capsules", j)
        /\ UNCHANGED <<dest, inventory, events, other, flock>>
    BY <1>2 DEF Q!BuildCapsule
  <2>2. /\ t \in Q!Txs /\ mover[p].j \in Q!Journals /\ mover[p].j.st[N] # "absent"
        /\ SameCheckouts(mover[p].j, journal[t]) /\ Backed(mover[p].j, dest[t], capsule[t])
        /\ mover[p].j.phase = "preparing" /\ \A r \in Q!Sources : dest[t][r] = 0
    BY <2>1 DEF QuarantineInv, ProcsWork, WorksOn, Q!TypeOK, Q!Ops
  <2>3. /\ capsule'[t][s] # 0 /\ \A r \in Q!Sources \ {s} : capsule'[t][r] = capsule[t][r]
        /\ \A u \in Q!Txs \ {t} : capsule'[u] = capsule[u]
    BY <1>2, <2>1, <2>2 DEF QuarantineInv, Q!TypeOK
  <2>4. Grows(dest[t], capsule[t], journal[t], dest[t], capsule'[t], journal[t])
    BY <2>2, <2>3 DEF Grows, Matching, SameCheckouts
  <2>5. Backed(mover[p].j, dest[t], capsule'[t])
    BY <2>2, <2>4, BackedGrows
  <2>a. j.phase = "preparing"
    BY <2>2 DEF Q!Journals
  <2>b. /\ j \in Q!Journals /\ SameCheckouts(mover[p].j, j) /\ Backed(j, dest[t], capsule'[t])
    <3>1. /\ "prepared" \in {"prepared", "moved", "verified"}
          /\ mover[p].j.st[s] # "absent" /\ mover[p].j.phase \notin {"moved", "complete"}
      BY <2>1, <2>2
    <3> QED
      BY <2>2, <2>3, <2>5, <3>1, SourceChange
  <2>6. /\ j \in Q!Journals /\ j.phase = "preparing"
        /\ SameCheckouts(mover[p].j, j) /\ Backed(j, dest[t], capsule'[t])
    BY <2>a, <2>b
  <2> HIDE DEF j, t
  <2>7. journal'[t] = j /\ \A u \in Q!Txs \ {t} : journal'[u] = journal[u]
    BY <2>1, <2>2 DEF QuarantineInv, Q!TypeOK, Q!SaveJournal
  <2>8. /\ OnlyMoves(p) /\ flock = p
        /\ mover'[p].pc = "capsules" /\ mover'[p].j = j /\ mover'[p].tx = t /\ mover'[p].inv = mover[p].inv
    BY <2>1, <2>6, GotoMoves DEF Q!PCs, t
  <2>9. j.st[N] # "absent" /\ SameCheckouts(j, j)
    BY <2>2, <2>6 DEF SameCheckouts
  <2>10. StillWorks(p)
    BY <2>1, <2>2, <2>6, <2>7, <2>8, <2>9 DEF StillWorks, WorksOn
  <2>11. Accounted' \subseteq Accounted
    BY <2>1, <2>8, NothingNew DEF OnlyMoves
  <2>12. Grows(dest[t], capsule[t], journal[t], dest'[t], capsule'[t], journal'[t])
    BY <2>1, <2>2, <2>4, <2>6, <2>7 DEF Grows, SameCheckouts
  <2> QED
    BY <2>1, <2>2, <2>3, <2>6, <2>7, <2>8, <2>10, <2>11, <2>12, HolderStep
<1> QED
  BY <1>1, <1>2

\* The intent is saved before any move.
LEMMA IntentKeeps ==
  ASSUME QuarantineInv, Q!TypeOK', NEW p \in Monitors, Q!Intent(p)
  PROVE  QuarantineInv'
<1> USE DEF Q!disk, Q!env
<1> DEFINE j == [mover[p].j EXCEPT !.phase = "intent"]
<1>1. /\ mover[p].pc = "capsules" /\ Q!SaveJournal(mover[p].tx, j) /\ Q!Goto(p, "advance", j)
      /\ UNCHANGED <<dest, capsule, inventory, events, other, flock>>
  BY DEF Q!Intent
<1>2. /\ mover[p].j \in Q!Journals /\ mover[p].j.st[N] # "absent"
      /\ Backed(mover[p].j, dest[mover[p].tx], capsule[mover[p].tx])
      /\ \A s \in Q!Sources : dest[mover[p].tx][s] = 0
  BY <1>1 DEF QuarantineInv, ProcsWork, WorksOn, Q!TypeOK, Q!Ops
<1>3. /\ j \in Q!Journals
      /\ SameCheckouts(mover[p].j, j) /\ Backed(j, dest[mover[p].tx], capsule[mover[p].tx])
  BY <1>2, PhaseChange DEF Q!Phases
<1> HIDE DEF j
<1> QED
  BY <1>1, <1>2, <1>3, SaveStep DEF Q!PCs

\* A resumed journal may go back from "moved" to "moving": what it says of each
\* source is still true.
LEMMA StartMovesKeeps ==
  ASSUME QuarantineInv, Q!TypeOK', NEW p \in Monitors, Q!StartMoves(p)
  PROVE  QuarantineInv'
<1> USE DEF Q!disk, Q!env
<1> DEFINE j == [mover[p].j EXCEPT !.phase = "moving"]
<1>1. /\ mover[p].pc = "advance" /\ Q!SaveJournal(mover[p].tx, j) /\ Q!Goto(p, "moves", j)
      /\ UNCHANGED <<dest, capsule, inventory, events, other, flock>>
  BY DEF Q!StartMoves
<1>2. /\ mover[p].j \in Q!Journals /\ mover[p].j.st[N] # "absent"
      /\ Backed(mover[p].j, dest[mover[p].tx], capsule[mover[p].tx])
  BY <1>1 DEF QuarantineInv, ProcsWork, WorksOn, Q!TypeOK, Q!Ops
<1>3. /\ j \in Q!Journals
      /\ SameCheckouts(mover[p].j, j) /\ Backed(j, dest[mover[p].tx], capsule[mover[p].tx])
  BY <1>2, PhaseChange DEF Q!Phases
<1>4. j.phase = "moving"
  BY <1>2 DEF Q!Journals
<1> HIDE DEF j
<1> QED
  BY <1>1, <1>2, <1>3, <1>4, SaveStep DEF Q!PCs

\* The rename.  The destination is empty, so nothing that is held is lost, and
\* the capsule of a prepared source is written.
LEMMA RenameKeeps ==
  ASSUME QuarantineInv, Q!TypeOK', NEW p \in Monitors, NEW s \in Q!Sources, Q!Rename(p, s)
  PROVE  QuarantineInv'
<1> USE DEF Q!disk, Q!env
<1> N \in Q!Sources
  BY EmptyValues
<1> DEFINE t == mover[p].tx
           j == mover[p].j
<1>1. mover[p].pc = "moves" /\ Q!IsNext(j, s) /\ j.st[s] = "prepared"
  BY DEF Q!Rename
<1>2. /\ t \in Q!Txs /\ j \in Q!Journals /\ j.st[N] # "absent"
      /\ SameCheckouts(j, journal[t]) /\ Backed(j, dest[t], capsule[t])
      /\ j.phase = "moving" /\ journal[t].phase = "moving"
  BY <1>1 DEF QuarantineInv, ProcsWork, WorksOn, Q!TypeOK, Q!Ops
<1>3. \A r \in Q!Sources : Q!IsNext(j, r) => j.st[r] = "prepared"
  <2> SUFFICES ASSUME NEW r \in Q!Sources, Q!IsNext(j, r) PROVE r = s
    BY <1>1
  <2> QED
    BY <1>1 DEF Q!IsNext, Q!Sources
<1>4. CASE orig[s] # 0 /\ dest[t][s] = 0
  <2>1. /\ dest' = [dest EXCEPT ![t][s] = orig[s]]
        /\ Q!Goto(p, "renamed", j)
        /\ UNCHANGED <<capsule, journal, inventory, events, other, flock>>
    BY <1>4 DEF Q!Rename
  <2>2. /\ dest'[t][s] # 0 /\ \A r \in Q!Sources \ {s} : dest'[t][r] = dest[t][r]
        /\ \A u \in Q!Txs \ {t} : dest'[u] = dest[u]
    BY <1>2, <1>4, <2>1 DEF QuarantineInv, Q!TypeOK
  <2>3. Grows(dest[t], capsule[t], journal[t], dest'[t], capsule'[t], journal'[t])
    BY <1>4, <2>1, <2>2 DEF Grows, Matching, SameCheckouts
  <2>4. Backed(j, dest'[t], capsule'[t])
    BY <1>2, <2>3, BackedGrows
  <2>5. Backed(journal'[t], dest'[t], capsule'[t])
    BY <1>2, <2>1, <2>3, BackedGrows DEF QuarantineInv, JournalsBacked
  <2>6. /\ OnlyMoves(p) /\ flock = p
        /\ mover'[p].pc = "renamed" /\ mover'[p].j = j /\ mover'[p].tx = t /\ mover'[p].inv = mover[p].inv
    BY <1>1, <1>2, <2>1, GotoMoves DEF Q!PCs
  <2>7. StillWorks(p)
    BY <1>2, <1>3, <2>1, <2>4, <2>6 DEF StillWorks, WorksOn
  <2>8. Accounted' \subseteq Accounted
    BY <2>1, <2>6, NothingNew DEF OnlyMoves
  <2>9. \A r \in Q!Sources : dest'[t][r] # 0 =>
          capsule'[t][r] # 0 /\ journal'[t].phase \in {"moving", "moved", "complete"}
    <3> SUFFICES ASSUME NEW r \in Q!Sources, dest'[t][r] # 0 PROVE capsule[t][r] # 0
      BY <1>2, <2>1
    <3>1. CASE r = s
      BY <1>1, <1>2, <3>1 DEF Backed
    <3>2. CASE r # s
      BY <1>2, <2>2, <3>2 DEF QuarantineInv, Q!CapsuleBeforeMove
    <3> QED
      BY <3>1, <3>2
  <2>10. dest'[t][N] # 0 => \A r \in Q!Sources : journal'[t].st[r] # "absent" => dest'[t][r] # 0
    <3> SUFFICES ASSUME dest'[t][N] # 0, NEW r \in Q!Sources, r # s, journal[t].st[r] # "absent"
                 PROVE  dest[t][r] # 0
      BY <2>1, <2>2
    <3>1. CASE s = N
      <4>1. r \in 1..(s - 1)
        BY <3>1 DEF Q!Sources
      <4>2. j.st[r] = "verified"
        BY <1>1, <1>2, <4>1 DEF Q!IsNext, Q!Settled, SameCheckouts
      <4> QED
        BY <1>2, <4>2 DEF Backed, Matching
    <3>2. CASE s # N
      BY <1>2, <2>2, <3>2 DEF QuarantineInv, MainLast, Q!InTx
    <3> QED
      BY <3>1, <3>2
  <2> HIDE DEF t, j
  <2> QED
    BY <1>2, <2>1, <2>2, <2>3, <2>5, <2>6, <2>7, <2>8, <2>9, <2>10, HolderStep
<1>5. CASE orig[s] = 0 /\ dest[t][s] # 0
  <2>1. /\ Q!Goto(p, "renamed", j)
        /\ UNCHANGED <<dest, capsule, journal, inventory, events, other, flock>>
    BY <1>5 DEF Q!Rename
  <2>2. OnlyMoves(p) /\ mover'[p].inv = mover[p].inv
    BY <1>1, <1>2, <2>1, GotoMoves DEF Q!PCs
  <2>3. Accounted' \subseteq Accounted
    BY <2>1, <2>2, NothingNew DEF OnlyMoves
  <2> QED
    BY <1>1, <1>3, <2>1, <2>3, QuietGoto DEF Q!PCs
<1>6. CASE ~(orig[s] # 0 /\ dest[t][s] = 0) /\ ~(orig[s] = 0 /\ dest[t][s] # 0)
  <2>1. Q!Return(p) /\ UNCHANGED <<dest, capsule, journal, inventory, events, other>>
    BY <1>6 DEF Q!Rename
  <2> QED
    BY <2>1, ReturnStep
<1> QED
  BY <1>4, <1>5, <1>6

\* A source that was never prepared ends the call.
LEMMA NotPreparedKeeps ==
  ASSUME QuarantineInv, Q!TypeOK', NEW p \in Monitors, NEW s \in Q!Sources, Q!NotPrepared(p, s)
  PROVE  QuarantineInv'
BY ReturnStep DEF Q!NotPrepared, Q!disk, Q!env

\* The source marked as moved is the prepared one that was renamed.
LEMMA MarkMovedKeeps ==
  ASSUME QuarantineInv, Q!TypeOK', NEW p \in Monitors, NEW s \in Q!Sources, Q!MarkMoved(p, s)
  PROVE  QuarantineInv'
<1> USE DEF Q!disk, Q!env
<1> DEFINE j == [mover[p].j EXCEPT !.st[s] = "moved"]
           t == mover[p].tx
<1>1. /\ mover[p].pc = "renamed" /\ Q!IsNext(mover[p].j, s)
      /\ Q!SaveJournal(t, j) /\ Q!Goto(p, "moves", j)
      /\ UNCHANGED <<dest, capsule, inventory, events, other, flock>>
  BY DEF Q!MarkMoved
<1>2. /\ mover[p].j \in Q!Journals /\ mover[p].j.st[N] # "absent" /\ mover[p].j.phase = "moving"
      /\ Backed(mover[p].j, dest[t], capsule[t]) /\ mover[p].j.st[s] = "prepared"
  BY <1>1 DEF QuarantineInv, ProcsWork, WorksOn, Q!TypeOK, Q!Ops
<1>3. capsule[t][s] # 0 /\ mover[p].j.st[s] # "absent" /\ mover[p].j.phase \notin {"moved", "complete"}
  BY <1>2 DEF Backed
<1>4. j \in Q!Journals /\ SameCheckouts(mover[p].j, j) /\ Backed(j, dest[t], capsule[t])
  BY <1>2, <1>3, SourceChange
<1>5. j.phase = "moving"
  BY <1>2 DEF Q!Journals
<1> HIDE DEF j
<1> QED
  BY <1>1, <1>4, <1>5, SaveStep DEF Q!PCs

\* Only bytes that match their capsule are marked as verified.
LEMMA VerifyKeeps ==
  ASSUME QuarantineInv, Q!TypeOK', NEW p \in Monitors, NEW s \in Q!Sources, Q!Verify(p, s)
  PROVE  QuarantineInv'
<1> USE DEF Q!disk, Q!env
<1> DEFINE j == [mover[p].j EXCEPT !.st[s] = "verified"]
           t == mover[p].tx
<1>1. CASE orig[s] = 0 /\ Q!MatchesCapsule(t, s)
  <2>1. /\ mover[p].pc = "moves" /\ mover[p].j.st[s] = "moved"
        /\ Q!SaveJournal(t, j) /\ Q!Goto(p, "moves", j)
        /\ UNCHANGED <<dest, capsule, inventory, events, other, flock>>
    BY <1>1 DEF Q!Verify
  <2>2. /\ mover[p].j \in Q!Journals /\ mover[p].j.st[N] # "absent" /\ mover[p].j.phase = "moving"
        /\ Backed(mover[p].j, dest[t], capsule[t])
    BY <2>1 DEF QuarantineInv, ProcsWork, WorksOn, Q!TypeOK, Q!Ops
  <2>3. /\ capsule[t][s] # 0 /\ Matching(dest[t], capsule[t], s)
        /\ mover[p].j.st[s] # "absent" /\ mover[p].j.phase \notin {"moved", "complete"}
    BY <1>1, <2>1, <2>2 DEF Q!MatchesCapsule, Matching
  <2>4. j \in Q!Journals /\ SameCheckouts(mover[p].j, j) /\ Backed(j, dest[t], capsule[t])
    BY <2>2, <2>3, SourceChange
  <2>5. j.phase = "moving"
    BY <2>2 DEF Q!Journals
  <2> HIDE DEF j
  <2> QED
    BY <2>1, <2>4, <2>5, SaveStep DEF Q!PCs
<1>2. CASE ~(orig[s] = 0 /\ Q!MatchesCapsule(t, s))
  <2>1. Q!Return(p) /\ UNCHANGED <<dest, capsule, journal, inventory, events, other>>
    BY <1>2 DEF Q!Verify
  <2> QED
    BY <2>1, ReturnStep
<1> QED
  BY <1>1, <1>2

\* The phase "moved" is saved when every source is settled.
LEMMA EndMovesKeeps ==
  ASSUME QuarantineInv, Q!TypeOK', NEW p \in Monitors, Q!EndMoves(p)
  PROVE  QuarantineInv'
<1> USE DEF Q!disk, Q!env
<1> DEFINE j == [mover[p].j EXCEPT !.phase = "moved"]
           pc == IF mover[p].resumed THEN "finalize" ELSE "load"
<1>1. /\ mover[p].pc = "moves" /\ Q!AllSettled(mover[p].j)
      /\ Q!SaveJournal(mover[p].tx, j) /\ Q!Goto(p, pc, j)
      /\ UNCHANGED <<dest, capsule, inventory, events, other, flock>>
  BY DEF Q!EndMoves
<1>2. /\ mover[p].j \in Q!Journals /\ mover[p].j.st[N] # "absent"
      /\ Backed(mover[p].j, dest[mover[p].tx], capsule[mover[p].tx])
  BY <1>1 DEF QuarantineInv, ProcsWork, WorksOn, Q!TypeOK, Q!Ops
<1>3. /\ j \in Q!Journals
      /\ SameCheckouts(mover[p].j, j) /\ Backed(j, dest[mover[p].tx], capsule[mover[p].tx])
  BY <1>1, <1>2, PhaseChange DEF Q!Phases
<1>4. j.phase = "moved" /\ pc \in {"load", "finalize"}
  BY <1>2 DEF Q!Journals
<1> HIDE DEF j, pc
<1> QED
  BY <1>1, <1>3, <1>4, SaveStep DEF Q!PCs

\* The inventory is read into memory.
LEMMA ReloadKeeps ==
  ASSUME QuarantineInv, Q!TypeOK', NEW p \in Monitors, Q!Reload(p)
  PROVE  QuarantineInv'
<1> USE DEF Q!disk, Q!env
<1>1. /\ mover[p].pc = "load" /\ mover'[p].pc = "finalize"
      /\ mover'[p].j = mover[p].j /\ mover'[p].tx = mover[p].tx /\ mover'[p].inv = inventory
      /\ \A q \in Monitors \ {p} : mover'[q] = mover[q]
      /\ UNCHANGED <<dest, capsule, journal, inventory, events, other, flock>>
  BY DEF Q!Reload, QuarantineInv, Q!TypeOK, Q!Ops
<1>2. flock = p /\ WorksOn(mover[p], journal[mover[p].tx], dest[mover[p].tx], capsule[mover[p].tx])
  BY <1>1 DEF QuarantineInv, ProcsWork, HolderWorks
<1>3. OnlyMoves(p) /\ StillWorks(p)
  BY <1>1, <1>2 DEF OnlyMoves, StillWorks, WorksOn
<1>4. Accounted' \subseteq Accounted
  BY <1>1 DEF Accounted
<1> QED
  BY <1>1, <1>3, <1>4, QuietStep

\* What p has reached by the end of the moves: its transaction holds all.
LEMMA MovedHolds ==
  ASSUME QuarantineInv, NEW p \in Monitors,
         mover[p].pc \in {"load", "finalize", "event", "complete"}
  PROVE  Holds(journal[mover[p].tx], dest[mover[p].tx], capsule[mover[p].tx])
BY SettledHolds, EmptyValues DEF QuarantineInv, ProcsWork, WorksOn

\* The copy that is saved names the transaction of p and those named before.
LEMMA FinalizeKeeps ==
  ASSUME QuarantineInv, Q!TypeOK', NEW p \in Monitors, Q!Finalize(p)
  PROVE  QuarantineInv'
<1> USE DEF Q!disk, Q!env
<1>1. /\ mover[p].pc = "finalize"
      /\ UNCHANGED <<dest, capsule, journal, events, other>>
  BY DEF Q!Finalize
<1>2. CASE Q!Return(p) /\ UNCHANGED inventory
  BY <1>1, <1>2, ReturnStep
<1>3. CASE /\ Q!Goto(p, "event", mover[p].j) /\ UNCHANGED flock
           /\ \/ UNCHANGED inventory
              \/ inventory' = [entry |-> FALSE, confirmed |-> FALSE,
                               records |-> mover[p].inv.records \cup {mover[p].tx}]
  <2>1. mover[p].j \in Q!Journals
    BY DEF QuarantineInv, Q!TypeOK, Q!Ops
  <2>2. OnlyMoves(p) /\ mover'[p].inv = mover[p].inv
    BY <1>1, <1>3, <2>1, GotoMoves DEF Q!PCs
  <2>3. ASSUME NEW t \in Accounted' PROVE t \in Accounted \/ t = mover[p].tx
    <3>1. \/ UNCHANGED inventory
          \/ inventory'.records = mover[p].inv.records \cup {mover[p].tx}
      BY <1>3
    <3>2. \A q \in Monitors : mover'[q].inv = mover[q].inv
      BY <2>2 DEF OnlyMoves
    <3> QED
      BY <1>1, <3>1, <3>2 DEF Accounted
  <2>4. \A t \in Accounted' : t \in Accounted \/ Holds(journal[t], dest[t], capsule[t])
    BY <1>1, <2>3, MovedHolds
  <2> QED
    BY <1>1, <1>3, <2>4, QuietGoto DEF Q!PCs
<1> QED
  BY <1>2, <1>3 DEF Q!Finalize

\* The event names the transaction of p.
LEMMA AppendEventKeeps ==
  ASSUME QuarantineInv, Q!TypeOK', NEW p \in Monitors, Q!AppendEvent(p)
  PROVE  QuarantineInv'
<1> USE DEF Q!disk, Q!env
<1>1. /\ mover[p].pc = "event" /\ Q!Goto(p, "complete", mover[p].j)
      /\ events' = events \cup {mover[p].tx}
      /\ UNCHANGED <<dest, capsule, journal, inventory, other, flock>>
  BY DEF Q!AppendEvent
<1>2. mover[p].j \in Q!Journals
  BY DEF QuarantineInv, Q!TypeOK, Q!Ops
<1>3. OnlyMoves(p) /\ mover'[p].inv = mover[p].inv
  BY <1>1, <1>2, GotoMoves DEF Q!PCs
<1>4. ASSUME NEW t \in Accounted' PROVE t \in Accounted \/ t = mover[p].tx
  <2>1. \A q \in Monitors : mover'[q].inv = mover[q].inv
    BY <1>3 DEF OnlyMoves
  <2> QED
    BY <1>1, <2>1 DEF Accounted
<1>5. \A t \in Accounted' : t \in Accounted \/ Holds(journal[t], dest[t], capsule[t])
  BY <1>1, <1>4, MovedHolds
<1> QED
  BY <1>1, <1>5, QuietGoto DEF Q!PCs

\* The last save of the journal, unless it was loaded complete.
LEMMA CompleteKeeps ==
  ASSUME QuarantineInv, Q!TypeOK', NEW p \in Monitors, Q!Complete(p)
  PROVE  QuarantineInv'
<1> USE DEF Q!disk, Q!env
<1> DEFINE j == [mover[p].j EXCEPT !.phase = "complete"]
<1>1. /\ mover[p].pc = "complete" /\ Q!Return(p)
      /\ UNCHANGED <<dest, capsule, inventory, events, other>>
      /\ UNCHANGED journal \/ Q!SaveJournal(mover[p].tx, j)
  BY DEF Q!Complete
<1>2. CASE UNCHANGED journal
  BY <1>1, <1>2, ReturnStep
<1>3. CASE Q!SaveJournal(mover[p].tx, j)
  <2>1. /\ mover[p].j \in Q!Journals /\ mover[p].j.st[N] # "absent"
        /\ Backed(mover[p].j, dest[mover[p].tx], capsule[mover[p].tx])
        /\ mover[p].j.phase \in {"moved", "complete"}
    BY <1>1 DEF QuarantineInv, ProcsWork, WorksOn, Q!TypeOK, Q!Ops
  <2>2. Q!AllSettled(mover[p].j)
    BY <2>1 DEF Backed
  <2>3. /\ j \in Q!Journals
        /\ SameCheckouts(mover[p].j, j) /\ Backed(j, dest[mover[p].tx], capsule[mover[p].tx])
    BY <2>1, <2>2, PhaseChange DEF Q!Phases
  <2>4. j.phase = "complete"
    BY <2>1 DEF Q!Journals
  <2> HIDE DEF j
  <2>5. "idle" \in Q!PCs
    BY DEF Q!PCs
  <2> QED
    BY <1>1, <1>3, <2>3, <2>4, <2>5, SaveStep
<1> QED
  BY <1>1, <1>2, <1>3

\* A journal is loaded before the lock is taken: by the time it is used it may
\* be old, and is still true.
LEMMA ResumeLoadKeeps ==
  ASSUME QuarantineInv, Q!TypeOK', NEW p \in Monitors, NEW t \in Q!Txs, Q!ResumeLoad(p, t)
  PROVE  QuarantineInv'
<1> USE DEF Q!disk, Q!env
<1>1. /\ journal[t] # Q!NoJournal
      /\ mover'[p].pc = "resume" /\ mover'[p].j = journal[t] /\ mover'[p].tx = t
      /\ mover'[p].inv = mover[p].inv
      /\ \A q \in Monitors \ {p} : mover'[q] = mover[q]
      /\ UNCHANGED <<dest, capsule, journal, inventory, events, other, flock>>
  BY DEF Q!ResumeLoad, QuarantineInv, Q!TypeOK, Q!Ops
<1>2. Backed(journal[t], dest[t], capsule[t])
  BY DEF QuarantineInv, JournalsBacked
<1>3. journal[t].st[N] # "absent"
  BY <1>1, <1>2 DEF Backed
<1>4. OnlyMoves(p) /\ StillWorks(p)
  BY <1>1, <1>2, <1>3 DEF OnlyMoves, StillWorks, WorksOn, SameCheckouts
<1>5. Accounted' \subseteq Accounted
  BY <1>1, NothingNew
<1> QED
  BY <1>1, <1>4, <1>5, QuietStep

\* Under the lock the journal loaded before it is used.
LEMMA ResumeLockedKeeps ==
  ASSUME QuarantineInv, Q!TypeOK', NEW p \in Monitors, Q!ResumeLocked(p)
  PROVE  QuarantineInv'
<1> USE DEF Q!disk, Q!env
<1>1. CASE flock = NoProc /\ Q!BoundToInventory(inventory, mover[p].tx)
  <2>1. /\ mover[p].pc = "resume" /\ flock = NoProc /\ flock' = p
        /\ mover'[p].pc = IF mover[p].j.phase = "complete" THEN "finalize" ELSE "advance"
        /\ mover'[p].j = mover[p].j /\ mover'[p].tx = mover[p].tx /\ mover'[p].inv = inventory
        /\ \A q \in Monitors \ {p} : mover'[q] = mover[q]
        /\ UNCHANGED <<dest, capsule, journal, inventory, events, other>>
    BY <1>1 DEF Q!ResumeLocked, QuarantineInv, Q!TypeOK, Q!Ops
  <2>2. WorksOn(mover[p], journal[mover[p].tx], dest[mover[p].tx], capsule[mover[p].tx])
    BY <2>1 DEF QuarantineInv, ProcsWork
  <2>3. OnlyMoves(p) /\ StillWorks(p)
    BY <2>1, <2>2 DEF OnlyMoves, StillWorks, WorksOn
  <2>4. Accounted' \subseteq Accounted
    BY <2>1 DEF Accounted
  <2> QED
    BY <2>1, <2>3, <2>4, QuietStep
<1>2. CASE ~(flock = NoProc /\ Q!BoundToInventory(inventory, mover[p].tx))
  BY <1>2, ReturnStep DEF Q!ResumeLocked
<1> QED
  BY <1>1, <1>2

\* Users and the writers of the inventory that take no lock: what they write
\* back they have loaded before, and it names no transaction that was not named.
LEMMA EnvironmentKeeps ==
  ASSUME QuarantineInv, Q!TypeOK', UNCHANGED <<dest, capsule, journal, flock, mover, events>>,
         \/ UNCHANGED <<inventory, other>>
         \/ UNCHANGED inventory /\ other' = inventory
         \/ inventory'.records = other.records /\ other' = Q!EmptyInventory
  PROVE  QuarantineInv'
<1>1. Q!EmptyInventory.records = {}
  BY DEF Q!EmptyInventory
<1>2. Accounted' \subseteq Accounted
  BY <1>1 DEF Accounted
<1>3. AccountedHeld'
  BY <1>2 DEF QuarantineInv, AccountedHeld
<1>4. HolderWorks' /\ ProcsWork'
  BY DEF QuarantineInv, HolderWorks, ProcsWork
<1>5. JournalsBacked' /\ Q!CapsuleBeforeMove' /\ MainLast'
  BY DEF QuarantineInv, JournalsBacked, Q!CapsuleBeforeMove, MainLast, Q!InTx
<1> QED
  BY <1>3, <1>4, <1>5 DEF QuarantineInv

\* So is a save by such a writer.
LEMMA OtherSavesKeeps ==
  ASSUME QuarantineInv, Q!TypeOK', Q!OtherSaves
  PROVE  QuarantineInv'
<1>1. inventory'.records = other.records /\ other' = Q!EmptyInventory
  BY DEF Q!OtherSaves, QuarantineInv, Q!TypeOK, Q!Inventories
<1> QED
  BY <1>1, EnvironmentKeeps DEF Q!OtherSaves

\* Every step keeps the invariant.
LEMMA StepKeeps ==
  ASSUME QuarantineInv, [Q!Next]_Q!vars
  PROVE  QuarantineInv'
<1>1. Q!TypeOK'
  BY StepTyped DEF QuarantineInv
<1>2. ASSUME NEW p \in Monitors, Q!Abort(p) PROVE QuarantineInv'
  BY <1>1, <1>2, ReturnStep DEF Q!Abort, Q!disk
<1>3. ASSUME NEW s \in Q!Sources, Q!UserWrites(s) PROVE QuarantineInv'
  BY <1>1, <1>3, EnvironmentKeeps DEF Q!UserWrites
<1>4. ASSUME Q!OtherLoads PROVE QuarantineInv'
  BY <1>1, <1>4, EnvironmentKeeps DEF Q!OtherLoads, Q!disk
<1>5. CASE UNCHANGED Q!vars
  BY <1>1, <1>5, EnvironmentKeeps DEF Q!vars, Q!disk, Q!env
<1> QED
  BY <1>1, <1>2, <1>3, <1>4, <1>5, CheckKeeps, BeginKeeps, BuildCapsuleKeeps, IntentKeeps,
     StartMovesKeeps, RenameKeeps, NotPreparedKeeps, MarkMovedKeeps, VerifyKeeps,
     EndMovesKeeps, ReloadKeeps, FinalizeKeeps, AppendEventKeeps, CompleteKeeps,
     ResumeLoadKeeps, ResumeLockedKeeps, OtherSavesKeeps
     DEF Q!Next, Q!Production, Q!Environment, Q!Continue, Q!Advance

-----------------------------------------------------------------------------
(* Theorems *)

\* QuarantineInv holds in every behaviour of the package's whole interface,
\* ResumeQuarantine and the unlocked writers of the inventory included.
THEOREM QuarantineInvariant == Q!Spec => []QuarantineInv
<1>1. QuarantineInv /\ [Q!Next]_Q!vars => QuarantineInv'
  BY StepKeeps
<1> QED
  BY InitInvariant, <1>1, PTL DEF Q!Spec

\* Quarantines do as their module says, and the parts beside them leave the
\* checkouts alone.
LEMMA QuarantineAmongParts == PartsSpec => Q!Spec
<1>1. PartsInit => Q!Init
  BY DEF PartsInit
<1>2. [PartsNext]_partsVars => [Q!Next]_Q!vars
  BY DEF PartsNext, OnlySessions, OnlyRoots, OnlyQuarantine, partsVars, removalVars,
     Q!vars, Q!disk, Q!env
<1> QED
  BY <1>1, <1>2, PTL DEF PartsSpec, Q!Spec

\* Journals, inventory, lock and every process keep their types.
THEOREM TypeCorrect == Q!Spec => []Q!TypeOK
<1>1. QuarantineInv => Q!TypeOK
  BY DEF QuarantineInv
<1> QED
  BY QuarantineInvariant, <1>1, PTL

\* A transaction that the inventory retains or the event log reports holds every
\* checkout of its journal with the bytes of its capsule.
THEOREM AccountedTransactionsHold == PartsSpec => []AccountedMeansHeld
<1>1. QuarantineInv => AccountedMeansHeld
  <2> SUFFICES ASSUME QuarantineInv, NEW t \in inventory.records \cup events
               PROVE  \A s \in Q!Sources : Q!InTx(t, s) => dest[t][s] # 0 /\ dest[t][s] = capsule[t][s]
    BY DEF AccountedMeansHeld, Q!AccountedMeansHeld
  <2>1. t \in Q!Txs
    BY DEF QuarantineInv, Q!TypeOK, Q!Inventories
  <2>2. t \in Accounted
    BY <2>1 DEF Accounted
  <2>3. Holds(journal[t], dest[t], capsule[t])
    BY <2>2 DEF QuarantineInv, AccountedHeld
  <2> QED
    BY <2>3 DEF Holds, Matching, Q!InTx
<1> QED
  BY QuarantineAmongParts, QuarantineInvariant, <1>1, PTL

\* No checkout leaves its path before its capsule is written and its journal
\* says that moves have begun.
THEOREM CapsulesComeFirst == PartsSpec => []CapsuleBeforeMove
<1>1. QuarantineInv => CapsuleBeforeMove
  BY DEF QuarantineInv, CapsuleBeforeMove
<1> QED
  BY QuarantineAmongParts, QuarantineInvariant, <1>1, PTL

-----------------------------------------------------------------------------
(* The quarantine keeps the promise of module Custody *)

\* All checkouts are in place at the start and nothing is held.
LEMMA CustodyInit == Q!Init => C!Init
BY QuarantineAssumption DEF Q!Init, C!Init, C!Sources, C!Txs, Q!Sources, Q!Txs

\* The rename is the Take of Custody: the transaction does not hold the source
\* yet, nor therefore the main checkout, which it takes last.
LEMMA RenameTakes ==
  ASSUME QuarantineInv, NEW p \in Monitors, NEW s \in Q!Sources, Q!Rename(p, s)
  PROVE  [C!Next]_C!vars
<1> DEFINE t == mover[p].tx
<1>1. CASE orig[s] # 0 /\ dest[t][s] = 0
  <2>1. /\ mover[p].pc = "moves" /\ mover[p].j.st[s] = "prepared"
        /\ dest' = [dest EXCEPT ![t][s] = orig[s]]
        /\ orig' = [orig EXCEPT ![s] = 0]
        /\ UNCHANGED events
    BY <1>1 DEF Q!Rename
  <2>2. t \in Q!Txs /\ SameCheckouts(mover[p].j, journal[t])
    BY <2>1 DEF QuarantineInv, ProcsWork, WorksOn
  <2>3. Q!InTx(t, s)
    BY <2>1, <2>2 DEF SameCheckouts, Q!InTx
  <2>4. dest[t][N] = 0
    BY <1>1, <2>2, <2>3 DEF QuarantineInv, MainLast
  <2>5. C!Take(t, s)
    BY <1>1, <2>1, <2>4 DEF C!Take
  <2> QED
    BY <2>2, <2>5 DEF C!Next, C!Sources, C!Txs, Q!Sources, Q!Txs
<1>2. CASE ~(orig[s] # 0 /\ dest[t][s] = 0)
  BY <1>2 DEF Q!Rename, C!vars
<1> QED
  BY <1>1, <1>2

\* A report follows the move of the main checkout.
LEMMA AppendEventReports ==
  ASSUME QuarantineInv, NEW p \in Monitors, Q!AppendEvent(p)
  PROVE  [C!Next]_C!vars
<1> DEFINE t == mover[p].tx
<1>1. mover[p].pc = "event" /\ events' = events \cup {t} /\ UNCHANGED <<orig, dest>>
  BY DEF Q!AppendEvent
<1>2. t \in Q!Txs /\ Holds(journal[t], dest[t], capsule[t])
  BY <1>1, MovedHolds DEF QuarantineInv, ProcsWork, WorksOn
<1>3. dest[t][N] # 0
  BY <1>2, EmptyValues DEF Holds, Matching
<1>4. C!Report(t)
  BY <1>1, <1>3 DEF C!Report
<1> QED
  BY <1>2, <1>4 DEF C!Next, C!Txs, Q!Txs

\* What users do to the checkouts is allowed to them.
LEMMA UserWritesWrites ==
  ASSUME QuarantineInv, NEW s \in Q!Sources, Q!UserWrites(s)
  PROVE  [C!Next]_C!vars
<1>1. written + 1 \in 1..MaxVersion
  BY QuarantineAssumption DEF Q!UserWrites, QuarantineInv, Q!TypeOK
<1>2. C!Write(s)
  BY <1>1 DEF Q!UserWrites, C!Write
<1> QED
  BY <1>2 DEF C!Next, C!Sources, Q!Sources

\* Every other step leaves the checkouts and the reports alone.
LEMMA StepRefines ==
  ASSUME QuarantineInv, [Q!Next]_Q!vars
  PROVE  [C!Next]_C!vars
<1> USE DEF Q!disk, Q!env, C!vars
<1>1. ASSUME NEW p \in Monitors, Q!Check(p) \/ Q!Begin(p) PROVE UNCHANGED C!vars
  BY <1>1 DEF Q!Check, Q!Begin
<1>2. ASSUME NEW p \in Monitors, NEW s \in Q!Sources,
             Q!BuildCapsule(p, s) \/ Q!NotPrepared(p, s) \/ Q!MarkMoved(p, s) \/ Q!Verify(p, s)
      PROVE  UNCHANGED C!vars
  BY <1>2 DEF Q!BuildCapsule, Q!NotPrepared, Q!MarkMoved, Q!Verify
<1>3. ASSUME NEW p \in Monitors,
             \/ Q!Intent(p) \/ Q!StartMoves(p) \/ Q!EndMoves(p) \/ Q!Reload(p)
             \/ Q!Finalize(p) \/ Q!Complete(p) \/ Q!ResumeLocked(p) \/ Q!Abort(p)
      PROVE  UNCHANGED C!vars
  BY <1>3 DEF Q!Intent, Q!StartMoves, Q!EndMoves, Q!Reload, Q!Finalize, Q!Complete, Q!ResumeLocked, Q!Abort
<1>4. ASSUME NEW p \in Monitors, NEW t \in Q!Txs, Q!ResumeLoad(p, t) PROVE UNCHANGED C!vars
  BY <1>4 DEF Q!ResumeLoad
<1>5. ASSUME Q!OtherLoads \/ Q!OtherSaves PROVE UNCHANGED C!vars
  BY <1>5 DEF Q!OtherLoads, Q!OtherSaves
<1>6. CASE UNCHANGED Q!vars
  BY <1>6 DEF Q!vars
<1> QED
  BY <1>1, <1>2, <1>3, <1>4, <1>5, <1>6, RenameTakes, AppendEventReports, UserWritesWrites
     DEF Q!Next, Q!Production, Q!Environment, Q!Continue, Q!Advance

\* The quarantine, with its journal, lock, inventory, crashes, resumes and
\* unlocked writers, implements Custody: a move is lossless and never
\* overwrites, the main checkout goes last, a report follows its move.
THEOREM QuarantineKeepsCustody == PartsSpec => IsCustody
<1>1. QuarantineInv /\ [Q!Next]_Q!vars => [C!Next]_C!vars
  BY StepRefines
<1> QED
  BY CustodyInit, QuarantineAmongParts, QuarantineInvariant, <1>1, PTL DEF Q!Spec, IsCustody, C!Spec
=============================================================================
