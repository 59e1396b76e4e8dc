-------------------------- MODULE OutboxLogProofs --------------------------
(***************************************************************************)
(* Proofs about module OutboxLog, for any number of commands, any length   *)
(* of the log, any number of clock set-backs and torn files: the types,    *)
(* that appends one after another keep the log readable, and that the log  *)
(* implements the item of module OutboxItem.                               *)
(***************************************************************************)
EXTENDS OutboxLog, WellFoundedInduction, TLAPS

-----------------------------------------------------------------------------
(* Types *)

OpTypes == [pc : {"idle", "read", "write"}, slot : 0..MaxSlot,
            to : EventStates \cup {"free"}, stale : BOOLEAN]

\* A command without an append in progress is a value of its type.
LEMMA IdleType == Idle \in OpTypes
<1>1. FALSE \in BOOLEAN
  OBVIOUS
<1>2. 0 \in 0..MaxSlot
  BY ConstantsAssumption
<1> QED
  BY <1>1, <1>2 DEF Idle, OpTypes

\* A file that appears is of the type of the log, and the commands stay so.
LEMMA AppearType ==
  ASSUME TypeOK, NEW p \in Procs, NEW c \in EventStates \cup {"free", "torn"}, Appear(p, c)
  PROVE  /\ log' \in [Slots -> EventStates \cup {"free", "torn"}]
         /\ op' \in [Procs -> OpTypes]
         /\ raced' \in BOOLEAN
<1>1. log' \in [Slots -> EventStates \cup {"free", "torn"}]
  BY DEF Appear, TypeOK
<1>2. \A q \in Procs : op[q] \in OpTypes
  BY DEF TypeOK, OpTypes
<1>3. \A q \in Procs : [op[q] EXCEPT !.stale = TRUE] \in OpTypes
  BY <1>2 DEF OpTypes
<1>4. op' \in [Procs -> OpTypes]
  BY <1>2, <1>3, IdleType DEF Appear
<1>5. raced' \in BOOLEAN
  BY Zenon DEF Appear
<1> QED
  BY <1>1, <1>4, <1>5

\* Every step of an append keeps the types of the outbox log.
LEMMA TypeStep == TypeOK /\ [Next]_vars => TypeOK'
<1> SUFFICES ASSUME TypeOK, [Next]_vars PROVE TypeOK'
  OBVIOUS
<1> USE ConstantsAssumption DEF TypeOK
<1>1. ASSUME NEW p \in Procs, NEW s \in Slots, NEW to \in EventStates, Begin(p, s, to)
      PROVE TypeOK'
  BY <1>1 DEF Begin, Slots
<1>2. ASSUME NEW p \in Procs, Read(p) PROVE TypeOK'
  <2>1. op' \in [Procs -> OpTypes]
    BY <1>2, IdleType DEF Read, OpTypes
  <2> QED
    BY <1>2, <2>1 DEF Read, OpTypes
<1>3. ASSUME NEW p \in Procs, Write(p) PROVE TypeOK'
  <2>1. op[p].to \in EventStates \cup {"free", "torn"}
    OBVIOUS
  <2> QED
    BY <1>3, <2>1, AppearType DEF Write, OpTypes
<1>4. ASSUME NEW p \in Procs, Fail(p) PROVE TypeOK'
  BY <1>4, IdleType DEF Fail, OpTypes
<1>5. ASSUME NEW p \in Procs, Tear(p) PROVE TypeOK'
  BY <1>5, AppearType DEF Tear, OpTypes
<1>6. CASE SetClockBack
  BY <1>6 DEF SetClockBack
<1>7. CASE UNCHANGED vars
  BY <1>7 DEF vars
<1> QED
  BY <1>1, <1>2, <1>3, <1>4, <1>5, <1>6, <1>7 DEF Next

\* The initial values of the outbox log have its types.
LEMMA TypeInit == Init => TypeOK
<1> SUFFICES ASSUME Init PROVE TypeOK
  OBVIOUS
<1>1. op \in [Procs -> OpTypes]
  BY IdleType DEF Init
<1>2. raced \in BOOLEAN
  BY DEF Init
<1> QED
  BY <1>1, <1>2, ConstantsAssumption DEF Init, TypeOK, OpTypes

\* Every variable of the outbox log keeps its type.
THEOREM TypeCorrect == Spec => []TypeOK
BY TypeInit, TypeStep, PTL DEF Spec

-----------------------------------------------------------------------------
(* The order of the files *)

\* A set of natural numbers that is not empty has a least one.
LEMMA NatMin ==
  ASSUME NEW S, S \subseteq Nat, S # {}
  PROVE  \E m \in S : \A k \in S : m <= k
<1> DEFINE R == {ss \in Nat \X Nat : ss[1] < ss[2]}
<1>1. IsWellFoundedOn(R, Nat)
  BY NatLessThanWellFounded DEF OpToRel
<1>2. \A k, m \in Nat : (k < m) => <<k, m>> \in R
  OBVIOUS
<1> HIDE DEF R
<1>3. PICK m \in S : \A k \in S : ~(<<k, m>> \in R)
  BY <1>1, WFMin
<1>4. ASSUME NEW k \in S PROVE m <= k
  <2>1. ~(k < m)
    BY <1>2, <1>3
  <2> QED
    BY <2>1
<1> QED
  BY <1>4

\* Below any position that has a file below it there is a highest such file.
LEMMA HighestBelow ==
  ASSUME NEW F, F \subseteq Nat, NEW t \in Nat, NEW r \in F, r < t
  PROVE  \E s \in F : s < t /\ \A q \in F : q < t => q <= s
<1> DEFINE D == {d \in Nat : \E s \in F : s < t /\ d = t - s}
<1>1. t - r \in D
  OBVIOUS
<1>2. PICK m \in D : \A k \in D : m <= k
  BY <1>1, NatMin
<1>3. PICK s \in F : s < t /\ m = t - s
  OBVIOUS
<1>4. ASSUME NEW q \in F, q < t PROVE q <= s
  <2>1. t - q \in D
    BY <1>4
  <2>2. m <= t - q
    BY <1>2, <2>1
  <2>3. q \in Nat /\ s \in Nat
    OBVIOUS
  <2> QED
    BY <1>3, <2>2, <2>3
<1> QED
  BY <1>3, <1>4

\* A log that is not empty has a last file, and Current is the state in it.
LEMMA LastFile == Files # {} => \E s \in Slots : Last(s) /\ Current = log[s]
<1> SUFFICES ASSUME Files # {} PROVE \E s \in Slots : Last(s) /\ Current = log[s]
  OBVIOUS
<1>1. Files \subseteq Nat /\ \A r \in Files : r < MaxSlot + 1
  BY ConstantsAssumption DEF Files, Slots
<1>2. PICK s \in Files : \A q \in Files : q <= s
  <2>1. PICK r \in Files : TRUE
    OBVIOUS
  <2> DEFINE t == MaxSlot + 1
  <2>2. t \in Nat /\ Files \subseteq Nat /\ \A q \in Files : q < t
    BY <1>1, ConstantsAssumption
  <2> HIDE DEF t
  <2>3. r < t
    BY <2>2
  <2>4. \E s \in Files : s < t /\ \A q \in Files : q < t => q <= s
    BY <2>2, <2>3, HighestBelow
  <2> QED
    BY <2>2, <2>4
<1>3. Last(s)
  BY <1>2 DEF Last
<1>4. \A r \in Files : Last(r) => r = s
  BY <1>1, <1>2 DEF Last
<1>5. (CHOOSE r \in Files : Last(r)) = s
  BY <1>2, <1>3, <1>4
<1>6. s \in Slots
  BY DEF Files
<1> QED
  BY <1>3, <1>5, <1>6 DEF Current

\* The state Current reads is that of any file that is last.
LEMMA CurrentOfLast == ASSUME NEW s, Last(s) PROVE Current = log[s]
<1>1. PICK r \in Slots : Last(r) /\ Current = log[r]
  BY LastFile DEF Last
<1>2. r = s
  BY <1>1, ConstantsAssumption DEF Last, Files, Slots
<1> QED
  BY <1>1, <1>2

\* A file with another one before it follows a file.
LEMMA Predecessor ==
  ASSUME NEW t \in Files, NEW r \in Files, r < t
  PROVE  \E s \in Slots : Follows(s, t)
<1>1. Files \subseteq Nat
  BY ConstantsAssumption DEF Files, Slots
<1>2. PICK s \in Files : s < t /\ \A q \in Files : q < t => q <= s
  BY <1>1, HighestBelow
<1>3. \A q \in Files : q <= s \/ t <= q
  BY <1>1, <1>2
<1> QED
  BY <1>2, <1>3 DEF Follows, Files

-----------------------------------------------------------------------------
(* One more file *)

\* What p's step does to the log when its file appears at a free position x
\* with content c.
Inserts(x, c) ==
  /\ x \in Slots /\ log[x] = "free"
  /\ c \in EventStates \cup {"torn"}
  /\ log' = [log EXCEPT ![x] = c]

\* The files are those before and the new one; the others keep their content.
LEMMA InsertFiles ==
  ASSUME TypeOK, NEW x, NEW c, Inserts(x, c)
  PROVE  /\ Files' = Files \cup {x} /\ x \notin Files
         /\ log'[x] = c
         /\ \A s \in Files : log'[s] = log[s] /\ s # x
<1>1. \A s \in Slots : log'[s] = IF s = x THEN c ELSE log[s]
  BY DEF TypeOK, Inserts
<1>2. c # "free"
  BY DEF Inserts, EventStates, PendingStates
<1> QED
  BY <1>1, <1>2 DEF Files, Inserts

\* A valid sequence stays valid when a command adds, after all its files, a
\* state that Append accepts for it.
LEMMA AppendKeepsReadable ==
  ASSUME TypeOK, NEW x, NEW c \in EventStates, Inserts(x, c),
         \A s \in Files : s < x, Accepts(c)
  PROVE  Readable'
<1> /\ Files' = Files \cup {x} /\ x \notin Files
    /\ log'[x] = c
    /\ \A s \in Files : log'[s] = log[s] /\ s # x
  BY InsertFiles
<1>0. Files' \subseteq Nat /\ Files \subseteq Nat
  BY ConstantsAssumption DEF Files, Slots
<1>1. \A s \in Files' : log'[s] # "torn"
  BY DEF Accepts, Readable, EventStates, PendingStates
<1>2. ASSUME NEW s \in Files', First(s)' PROVE log'[s] = "queued"
  <2>1. CASE s = x
    <3>1. \A r \in Files : s <= r
      BY <1>2 DEF First
    <3>2. Files = {}
      <4> SUFFICES ASSUME NEW r \in Files PROVE FALSE
        OBVIOUS
      <4>1. r < s /\ s <= r
        BY <2>1, <3>1
      <4> QED
        BY <1>0, <4>1
    <3> QED
      BY <2>1, <3>2 DEF Accepts
  <2>2. CASE s \in Files
    <3>1. First(s)
      BY <1>2, <2>2 DEF First
    <3> QED
      BY <2>2, <3>1 DEF Accepts, Readable
  <2> QED
    BY <2>1, <2>2
<1>3. ASSUME NEW s \in Files', NEW t \in Files', Follows(s, t)'
      PROVE ValidTransition(log'[s], log'[t])
  <2>1. s < t /\ \A r \in Files : r <= s \/ t <= r
    BY <1>3 DEF Follows
  <2>2. s \in Files
    BY <1>0, <2>1
  <2>3. CASE t = x
    <3>1. Last(s)
      BY <1>0, <2>1, <2>2, <2>3 DEF Last
    <3> QED
      BY <2>2, <2>3, <3>1, CurrentOfLast DEF Accepts
  <2>4. CASE t \in Files
    BY <2>1, <2>2, <2>4 DEF Follows, Accepts, Readable
  <2> QED
    BY <2>3, <2>4
<1> QED
  BY <1>1, <1>2, <1>3 DEF Readable

\* An item with any event has a queued one.
QueuedIsThere ==
  (\E s \in Files : log[s] # "torn") => \E s \in Files : log[s] = "queued"

\* No file that is added repairs a log: valid transitions compose, so a file
\* between two others does not help, and one before them cannot be a second
\* "queued".
LEMMA UnreadableStays ==
  ASSUME TypeOK, NEW x, NEW c, Inserts(x, c), QueuedIsThere, ~Readable
  PROVE  ~Readable'
<1> SUFFICES ASSUME Readable' PROVE FALSE
  OBVIOUS
<1> /\ Files' = Files \cup {x} /\ x \notin Files
    /\ log'[x] = c
    /\ \A s \in Files : log'[s] = log[s] /\ s # x
  BY InsertFiles
<1>0. Files' \subseteq Nat /\ Files \subseteq Nat
  BY ConstantsAssumption DEF Files, Slots
<1>1. \A s \in Files : log[s] # "torn"
  BY DEF Readable
<1>2. ASSUME NEW f \in Files, First(f), log[f] # "queued" PROVE FALSE
  <2>1. PICK q \in Files : log[q] = "queued"
    BY <1>1, <1>2 DEF QueuedIsThere
  <2>2. f < q
    BY <1>0, <1>2, <2>1 DEF First
  <2>3. PICK s \in Files' : Follows(s, q)'
    <3>1. \E s \in Files' : s < q /\ \A r \in Files' : r < q => r <= s
      BY <1>0, <2>2, HighestBelow
    <3>2. PICK s \in Files' : s < q /\ \A r \in Files' : r < q => r <= s
      BY <3>1
    <3>3. \A r \in Files' : r <= s \/ q <= r
      BY <1>0, <3>2
    <3> QED
      BY <3>2, <3>3 DEF Follows
  <2>4. ValidTransition(log'[s], "queued")
    BY <2>1, <2>3 DEF Readable
  <2> QED
    BY <2>4 DEF ValidTransition, PendingStates
<1>3. ASSUME NEW s \in Files, NEW t \in Files, Follows(s, t),
             ~ValidTransition(log[s], log[t])
      PROVE FALSE
  <2>1. s < t /\ \A r \in Files : r <= s \/ t <= r
    BY <1>3 DEF Follows
  <2>2. CASE s < x /\ x < t
    <3>1. Follows(s, x)' /\ Follows(x, t)'
      BY <1>0, <2>1, <2>2 DEF Follows
    <3>2. ValidTransition(log[s], c) /\ ValidTransition(c, log[t])
      BY <3>1 DEF Readable
    <3> QED
      BY <1>3, <3>2 DEF ValidTransition, PendingStates
  <2>3. CASE ~(s < x /\ x < t)
    <3>1. Follows(s, t)'
      BY <1>0, <2>1, <2>3 DEF Follows
    <3> QED
      BY <1>3, <3>1 DEF Readable
  <2> QED
    BY <2>2, <2>3
<1> QED
  BY <1>1, <1>2, <1>3 DEF Readable

\* A file added to a valid sequence that stays valid either leaves the state
\* of the last event as it is or is a valid transition from it.
LEMMA ReadableMoves ==
  ASSUME TypeOK, NEW x, NEW c, Inserts(x, c), Readable, Readable'
  PROVE  \/ Current' = Current
         \/ /\ Current' = c
            /\ IF Files = {} THEN c = "queued" ELSE ValidTransition(Current, c)
<1> /\ Files' = Files \cup {x} /\ x \notin Files
    /\ log'[x] = c
    /\ \A s \in Files : log'[s] = log[s] /\ s # x
  BY InsertFiles
<1>0. Files' \subseteq Nat /\ Files \subseteq Nat
  BY ConstantsAssumption DEF Files, Slots
<1>1. ASSUME NEW s, Last(s)' PROVE Current' = log'[s]
  <2>1. \A r \in Files' : Last(r)' => r = s
    BY <1>0, <1>1 DEF Last
  <2>2. (CHOOSE r \in Files' : Last(r)') = s
    BY <1>1, <2>1 DEF Last
  <2> QED
    BY <2>2 DEF Current
<1>2. CASE Files = {}
  <2>1. Last(x)' /\ First(x)'
    BY <1>0, <1>2 DEF Last, First
  <2>2. c = "queued"
    BY <2>1 DEF Readable
  <2> QED
    BY <1>1, <1>2, <2>1, <2>2
<1>3. CASE Files # {}
  <2>1. PICK l \in Slots : Last(l) /\ Current = log[l]
    BY <1>3, LastFile
  <2>2. CASE l < x
    <3>1. Last(x)' /\ Follows(l, x)'
      BY <1>0, <2>1, <2>2 DEF Last, Follows
    <3>2. ValidTransition(log[l], c)
      BY <3>1, <2>1 DEF Readable, Last
    <3> QED
      BY <1>1, <1>3, <2>1, <3>1, <3>2
  <2>3. CASE ~(l < x)
    <3>1. Last(l)'
      BY <1>0, <2>1, <2>3 DEF Last
    <3> QED
      BY <1>1, <2>1, <3>1 DEF Last
  <2> QED
    BY <2>2, <2>3
<1> QED
  BY <1>2, <1>3

-----------------------------------------------------------------------------
(* Appends in progress *)

\* Each command that appends has a free position of its own.
Reserved ==
  /\ \A p \in Procs : op[p].pc # "idle" =>
       op[p].slot \in Slots /\ log[op[p].slot] = "free" /\ op[p].to \in EventStates
  /\ \A p, q \in Procs : p # q /\ op[p].pc # "idle" /\ op[q].pc # "idle" =>
       op[p].slot # op[q].slot

\* A command that is going to write something else than "queued" has read a
\* queued event.
ReadQueued ==
  \A p \in Procs : op[p].pc = "write" /\ op[p].to # "queued" =>
    \E s \in Files : log[s] = "queued"

\* Without overlap, set-back and torn file, the log is valid, no position at
\* or below the clock comes later, and what a command has read still holds.
InOrder ==
  \/ raced \/ setBacks > 0 \/ torn > 0
  \/ /\ Readable
     /\ \A s \in Files : s <= clock
     /\ \A p \in Procs : op[p].pc = "write" /\ ~op[p].stale => Accepts(op[p].to)

IInv == TypeOK /\ Reserved /\ QueuedIsThere /\ ReadQueued /\ InOrder

\* A step that adds no file leaves what is read off the log as it is.
LEMMA SameLog ==
  ASSUME log' = log
  PROVE  /\ Files' = Files /\ Readable' = Readable /\ Current' = Current
         /\ QueuedIsThere' = QueuedIsThere
         /\ \A to : Accepts(to)' = Accepts(to)
<1>1. Files' = Files
  BY DEF Files
<1>2. Readable' = Readable
  BY <1>1 DEF Readable, First, Follows
<1>3. Current' = Current
  BY <1>1 DEF Current, Last
<1> QED
  BY <1>1, <1>2, <1>3 DEF QueuedIsThere, Accepts

\* When p's file appears, it is inserted at p's position.
LEMMA AppearInserts ==
  ASSUME TypeOK, Reserved, NEW p \in Procs, op[p].pc = "write",
         NEW c \in {op[p].to, "torn"}, Appear(p, c)
  PROVE  Inserts(op[p].slot, c)
BY DEF Reserved, Appear, Inserts

\* The appearance of p's file keeps the parts of the invariant that do not
\* depend on the order of the appends.
LEMMA AppearKeeps ==
  ASSUME IInv, NEW p \in Procs, op[p].pc = "write",
         NEW c \in {op[p].to, "torn"}, Appear(p, c)
  PROVE  Reserved' /\ QueuedIsThere' /\ ReadQueued'
<1> DEFINE x == op[p].slot
<1>1. Inserts(x, c)
  BY AppearInserts DEF IInv
<1>2. /\ Files' = Files \cup {x} /\ x \notin Files
      /\ log'[x] = c
      /\ \A s \in Files : log'[s] = log[s] /\ s # x
  BY <1>1, InsertFiles DEF IInv
<1>3. Reserved'
  <2>1. \A s \in Slots : s # x => log'[s] = log[s]
    BY DEF Appear, IInv, TypeOK
  <2>2. \A q \in Procs : op'[q].pc # "idle" =>
          q # p /\ op[q].pc # "idle" /\ op'[q].slot = op[q].slot /\ op'[q].to = op[q].to
    BY DEF Appear, Idle, IInv, TypeOK
  <2> QED
    BY <2>1, <2>2 DEF IInv, Reserved
<1>4. (\E s \in Files : log[s] = "queued") => \E s \in Files' : log'[s] = "queued"
  BY <1>2
<1>5. c \notin {"torn", "queued"} => \E s \in Files : log[s] = "queued"
  BY DEF IInv, ReadQueued
<1>6. QueuedIsThere'
  BY <1>2, <1>4, <1>5 DEF IInv, QueuedIsThere
<1>7. ReadQueued'
  BY <1>4 DEF Appear, Idle, IInv, TypeOK, ReadQueued
<1> QED
  BY <1>3, <1>6, <1>7

\* An append that is written in order, on the log it has read, keeps the log
\* a valid sequence.
LEMMA WriteInOrder ==
  ASSUME IInv, NEW p \in Procs, Write(p)
  PROVE  InOrder'
<1> DEFINE x == op[p].slot
           c == op[p].to
<1>0. CASE raced' \/ setBacks' > 0 \/ torn' > 0
  BY <1>0 DEF InOrder
<1> SUFFICES ASSUME ~raced', ~(setBacks > 0), ~(torn > 0) PROVE InOrder'
  BY <1>0 DEF Write
<1>1. ~raced /\ ~op[p].stale /\ x = clock
  BY DEF Write, Appear
<1>2. Inserts(x, c)
  BY AppearInserts DEF IInv, Write
<1>3. Files' = Files \cup {x} /\ x \notin Files
  BY <1>2, InsertFiles DEF IInv
<1>4. Readable /\ (\A s \in Files : s <= clock) /\ Accepts(c)
  BY <1>1 DEF IInv, InOrder, Write
<1>5. Files \subseteq Nat /\ x \in Nat
  BY <1>2, ConstantsAssumption DEF Files, Slots, Inserts
<1>6. \A s \in Files : s < x
  BY <1>1, <1>3, <1>4, <1>5
<1>7. Readable'
  BY <1>2, <1>4, <1>6, AppendKeepsReadable DEF IInv, Reserved, Write
<1>8. \A s \in Files' : s <= clock'
  BY <1>1, <1>3, <1>4, <1>5 DEF Write
<1>9. \A q \in Procs : op'[q].pc = "write" => op'[q].stale
  BY DEF Write, Appear, Idle, IInv, TypeOK
<1> QED
  BY <1>7, <1>8, <1>9 DEF InOrder

\* Every step of an append, of the clock and of a crash keeps the invariant.
LEMMA InductiveStep == IInv /\ [Next]_vars => IInv'
<1> SUFFICES ASSUME IInv, [Next]_vars PROVE IInv'
  OBVIOUS
<1>0. TypeOK /\ TypeOK'
  BY TypeStep DEF IInv
<1>1. ASSUME NEW p \in Procs, NEW s \in Slots, NEW to \in EventStates, Begin(p, s, to)
      PROVE IInv'
  <2>1. log' = log
    BY <1>1 DEF Begin
  <2>2. Reserved'
    BY <1>0, <1>1 DEF IInv, Reserved, Begin, TypeOK
  <2>3. ReadQueued'
    BY <1>0, <1>1, <2>1, SameLog DEF IInv, ReadQueued, Begin, TypeOK
  <2>4. InOrder'
    <3>1. \A r \in Files : r <= clock => r <= clock'
      BY <1>0, <1>1, ConstantsAssumption DEF Begin, Files, Slots, TypeOK
    <3>2. \A q \in Procs : op'[q].pc = "write" => op'[q] = op[q]
      BY <1>0, <1>1 DEF Begin, TypeOK
    <3> QED
      BY <1>1, <2>1, <3>1, <3>2, SameLog DEF IInv, InOrder, Begin
  <2> QED
    BY <1>0, <2>1, <2>2, <2>3, <2>4, SameLog DEF IInv
<1>2. ASSUME NEW p \in Procs, Read(p) PROVE IInv'
  <2>1. log' = log /\ UNCHANGED <<clock, setBacks, torn, raced>>
    BY <1>2 DEF Read
  <2>2. \A q \in Procs : q # p => op'[q] = op[q]
    BY <1>0, <1>2 DEF Read, TypeOK
  <2>3. \/ op'[p] = Idle
        \/ op'[p] = [op[p] EXCEPT !.pc = "write"] /\ op[p].pc = "read" /\ Accepts(op[p].to)
    BY <1>0, <1>2 DEF Read, TypeOK
  <2>4. op'[p].pc # "idle" => op'[p].slot = op[p].slot /\ op'[p].to = op[p].to /\ op[p].pc # "idle"
    BY <1>0, <2>3 DEF Idle, TypeOK
  <2>5. op'[p].pc = "write" => Accepts(op'[p].to)
    BY <1>0, <2>3 DEF Idle, TypeOK
  <2>6. Reserved'
    BY <2>1, <2>2, <2>4 DEF IInv, Reserved
  <2>7. ASSUME NEW to, Accepts(to), to # "queued" PROVE \E s \in Files : log[s] = "queued"
    <3>1. Files # {} /\ Readable
      BY <2>7 DEF Accepts
    <3> QED
      BY <3>1 DEF IInv, QueuedIsThere, Readable
  <2>8. ReadQueued'
    BY <2>1, <2>2, <2>5, <2>7, SameLog DEF IInv, ReadQueued
  <2>9. InOrder'
    BY <2>1, <2>2, <2>5, SameLog DEF IInv, InOrder
  <2> QED
    BY <1>0, <2>1, <2>6, <2>8, <2>9, SameLog DEF IInv
<1>3. ASSUME NEW p \in Procs, Write(p) PROVE IInv'
  <2>1. Reserved' /\ QueuedIsThere' /\ ReadQueued'
    BY <1>3, AppearKeeps DEF Write
  <2> QED
    BY <1>0, <1>3, <2>1, WriteInOrder DEF IInv
<1>4. ASSUME NEW p \in Procs, Fail(p) PROVE IInv'
  <2>1. log' = log /\ UNCHANGED <<clock, setBacks, torn, raced>>
    BY <1>4 DEF Fail
  <2>2. \A q \in Procs : op'[q].pc # "idle" => op'[q] = op[q]
    BY <1>0, <1>4 DEF Fail, Idle, TypeOK
  <2>3. Reserved'
    BY <2>1, <2>2 DEF IInv, Reserved
  <2>4. ReadQueued' /\ InOrder'
    BY <2>1, <2>2, SameLog DEF IInv, ReadQueued, InOrder
  <2> QED
    BY <1>0, <2>1, <2>3, <2>4, SameLog DEF IInv
<1>5. ASSUME NEW p \in Procs, Tear(p) PROVE IInv'
  <2>1. Reserved' /\ QueuedIsThere' /\ ReadQueued'
    BY <1>5, AppearKeeps DEF Tear
  <2>2. torn' > 0
    BY <1>0, <1>5 DEF Tear, TypeOK
  <2> QED
    BY <1>0, <2>1, <2>2 DEF IInv, InOrder
<1>6. CASE SetClockBack
  <2>1. log' = log /\ op' = op
    BY <1>6 DEF SetClockBack
  <2>2. setBacks' > 0
    BY <1>0, <1>6 DEF SetClockBack, TypeOK
  <2>3. Reserved' /\ ReadQueued'
    BY <2>1, SameLog DEF IInv, Reserved, ReadQueued
  <2> QED
    BY <1>0, <2>1, <2>2, <2>3, SameLog DEF IInv, InOrder
<1>7. CASE UNCHANGED vars
  <2>1. log' = log /\ op' = op
    BY <1>7 DEF vars
  <2>2. Reserved' /\ ReadQueued' /\ InOrder'
    BY <1>7, <2>1, SameLog DEF IInv, Reserved, ReadQueued, InOrder, vars
  <2> QED
    BY <1>0, <2>1, <2>2, SameLog DEF IInv
<1> QED
  BY <1>1, <1>2, <1>3, <1>4, <1>5, <1>6, <1>7 DEF Next

\* The invariant holds of an item without events.
LEMMA InductiveInit == Init => IInv
<1> SUFFICES ASSUME Init PROVE IInv
  OBVIOUS
<1>1. Files = {}
  BY DEF Init, Files
<1>2. \A p \in Procs : op[p].pc = "idle"
  BY DEF Init, Idle
<1>3. Readable
  BY <1>1 DEF Readable
<1> QED
  BY <1>1, <1>2, <1>3, TypeInit DEF IInv, Reserved, QueuedIsThere, ReadQueued, InOrder

-----------------------------------------------------------------------------
(* Theorems *)

\* Whatever appends, crashes and clock does, an item with events has a queued
\* one, and commands in progress hold positions of their own.
THEOREM InvariantHolds == Spec => []IInv
BY InductiveInit, InductiveStep, PTL DEF Spec

\* Appends that do not overlap keep the log a valid sequence of states: only
\* overlap, a clock that was set back or a torn file can block an item.
THEOREM SerialAppendsAreSafe == Spec => []SerialAppendsStayReadable
<1>1. IInv => SerialAppendsStayReadable
  BY DEF IInv, InOrder, SerialAppendsStayReadable
<1> QED
  BY <1>1, InvariantHolds, PTL


\* The state of the item as its readers see it.
Shown == IF Readable THEN Current ELSE "blocked"

\* A transition that Append accepts is one of the item.
LEMMA Transitions ==
  \A from, to :
    /\ to = "queued" => Item!ValidTransition("none", to)
    /\ ValidTransition(from, to) => Item!ValidTransition(from, to)
BY DEF ValidTransition, PendingStates, Item!ValidTransition, Item!PendingStates

\* The file that appears moves the item along a valid transition, changes
\* nothing, or blocks the item.
LEMMA AppearMovesItem ==
  ASSUME IInv, NEW p \in Procs, op[p].pc = "write",
         NEW c \in {op[p].to, "torn"}, Appear(p, c)
  PROVE  Item!Next \/ Shown' = Shown
<1> DEFINE x == op[p].slot
<1>1. Inserts(x, c)
  BY AppearInserts DEF IInv
<1>2. CASE ~Readable
  BY <1>1, <1>2, UnreadableStays DEF IInv, Shown
<1>3. CASE Readable /\ ~Readable'
  BY <1>3 DEF Item!Next, Item!Block
<1>4. CASE Readable /\ Readable'
  <2>1. CASE Current' = Current
    BY <1>4, <2>1 DEF Shown
  <2>2. CASE /\ Current' = c
             /\ IF Files = {} THEN c = "queued" ELSE ValidTransition(Current, c)
    <3>1. Files = {} => Current = "none"
      BY DEF Current
    <3>2. Item!ValidTransition(Current, c)
      BY <2>2, <3>1, Transitions
    <3>3. c \in Item!EventStates
      BY <3>2 DEF Item!ValidTransition, Item!EventStates, Item!PendingStates
    <3>4. Item!Append(c)
      BY <1>4, <2>2, <3>2 DEF Item!Append
    <3> QED
      BY <3>3, <3>4 DEF Item!Next
  <2> QED
    BY <1>1, <1>4, <2>1, <2>2, ReadableMoves DEF IInv
<1> QED
  BY <1>2, <1>3, <1>4

\* The log implements the item: readers see it go through valid transitions
\* only and, once its log cannot be read, stay blocked.
THEOREM LogImplementsItem == Spec => IsItem
<1>1. Init => Item!Init
  <2> SUFFICES ASSUME Init PROVE Item!Init
    OBVIOUS
  <2>1. Files = {}
    BY DEF Init, Files
  <2> QED
    BY <2>1 DEF Item!Init, Readable, Current
<1>2. IInv /\ [Next]_vars => [Item!Next]_Shown
  <2> SUFFICES ASSUME IInv, [Next]_vars PROVE Item!Next \/ Shown' = Shown
    OBVIOUS
  <2>1. ASSUME NEW p \in Procs, Write(p) \/ Tear(p) PROVE Item!Next \/ Shown' = Shown
    BY <2>1, AppearMovesItem DEF Write, Tear
  <2>2. CASE log' = log
    BY <2>2, SameLog DEF Shown
  <2> QED
    BY <2>1, <2>2 DEF Next, Begin, Read, Fail, SetClockBack, vars
<1> QED
  BY <1>1, <1>2, InvariantHolds, PTL DEF Spec, IsItem, Item!Spec, Shown
=============================================================================
