------------------------------ MODULE OutboxLog ------------------------------
(***************************************************************************)
(* The event log of one outbox item: outbox.Append, Current and            *)
(* readItemEvents (internal/outbox/outbox.go).  Append takes a time, reads *)
(* the log, checks the transition and then creates one more file, without  *)
(* a lock; readers put the files in the order of their names, which begin  *)
(* with that time.  The log is a function from positions in name order.    *)
(***************************************************************************)
EXTENDS Integers, FiniteSets

CONSTANTS
  Procs,         \* commands that append to the item
  MaxSlot,       \* bound: positions in name order
  MaxSetBack,    \* bound: times the system clock is set back
  MaxTorn        \* bound: crashes that leave a partly written file

ASSUME ConstantsAssumption ==
  MaxSlot \in Nat /\ MaxSetBack \in Nat /\ MaxTorn \in Nat

PendingStates == {"queued", "attempt-failed"}
EventStates == PendingStates \cup {"submitted", "merged"}
Slots == 1..MaxSlot

VARIABLES
  log,           \* state in the file at each position, "free", or "torn"
  clock,         \* highest position a file has been named for since a set-back
  op,            \* each command: program counter, position and state to write
  setBacks,      \* times the clock was set back
  torn,          \* partly written files
  raced          \* an append was written after another one it had not read

vars == <<log, clock, op, setBacks, torn, raced>>

Idle == [pc |-> "idle", slot |-> 0, to |-> "free", stale |-> FALSE]

Init ==
  /\ log = [s \in Slots |-> "free"]
  /\ clock = 0
  /\ op = [p \in Procs |-> Idle]
  /\ setBacks = 0 /\ torn = 0
  /\ raced = FALSE

-----------------------------------------------------------------------------
(* What readers make of the files *)

\* Mutant: a submitted item may be retried.
TransitionRetried(from, to) ==
  from \in EventStates \ {"merged"} /\ to \in {"attempt-failed", "submitted", "merged"}

\* validTransition between consecutive events.
ValidTransition(from, to) ==
  \/ from \in PendingStates /\ to \in {"attempt-failed", "submitted", "merged"}
  \/ from = "submitted" /\ to = "merged"

Files == {s \in Slots : log[s] # "free"}
First(s) == s \in Files /\ \A r \in Files : s <= r
Last(s) == s \in Files /\ \A r \in Files : r <= s
Follows(s, t) == s \in Files /\ t \in Files /\ s < t
                 /\ \A r \in Files : r <= s \/ t <= r

\* readItemEvents: every file parses, the first event is queued and every
\* event is a valid transition from the one before it.
Readable ==
  /\ \A s \in Files : log[s] # "torn"
  /\ \A s \in Files : First(s) => log[s] = "queued"
  /\ \A s, t \in Files : Follows(s, t) => ValidTransition(log[s], log[t])

\* Current: the state of the last event.
Current == IF Files = {} THEN "none" ELSE log[CHOOSE s \in Files : Last(s)]

\* Append accepts a state for the log it reads.
Accepts(to) ==
  /\ Readable
  /\ IF Files = {} THEN to = "queued" ELSE ValidTransition(Current, to)

-----------------------------------------------------------------------------
(* outbox.Append *)

\* Mutant: the state of the event is not looked at (validState).
BeginStateless(p, s, to) ==
  /\ op[p].pc = "idle"
  /\ s > clock
  /\ log[s] = "free" /\ \A q \in Procs : op[q].slot # s
  /\ clock' = s
  /\ op' = [op EXCEPT ![p] = [pc |-> "read", slot |-> s, to |-> "", stale |-> FALSE]]
  /\ UNCHANGED <<log, setBacks, torn, raced>>

\* The caller takes the time; a file named for it sorts after every file of
\* an earlier time, unless the clock has been set back since.
Begin(p, s, to) ==
  /\ op[p].pc = "idle"
  /\ s > clock
  /\ log[s] = "free" /\ \A q \in Procs : op[q].slot # s
  /\ clock' = s
  /\ op' = [op EXCEPT ![p] = [pc |-> "read", slot |-> s, to |-> to, stale |-> FALSE]]
  /\ UNCHANGED <<log, setBacks, torn, raced>>

\* Mutant: the log must be readable, but the transition is not checked.
ReadUnchecked(p) ==
  /\ op[p].pc = "read"
  /\ op' = [op EXCEPT ![p] = IF Readable THEN [@ EXCEPT !.pc = "write"] ELSE Idle]
  /\ UNCHANGED <<log, clock, setBacks, torn, raced>>

\* Current and validTransition on the log as it is now; a refused append
\* returns an error.
Read(p) ==
  /\ op[p].pc = "read"
  /\ op' = [op EXCEPT ![p] = IF Accepts(@.to) THEN [@ EXCEPT !.pc = "write"] ELSE Idle]
  /\ UNCHANGED <<log, clock, setBacks, torn, raced>>

\* p's file appears; commands that have read the log did not see it.  (A
\* command that reads while the file has a name but not all its bytes returns
\* an error, as in Fail; a later read finds it whole, or torn for good.)
Appear(p, content) ==
  /\ log' = [log EXCEPT ![op[p].slot] = content]
  /\ op' = [q \in Procs |-> IF q = p THEN Idle
                            ELSE IF op[q].pc = "write" THEN [op[q] EXCEPT !.stale = TRUE]
                            ELSE op[q]]
  /\ raced' = (raced \/ op[p].stale \/ op[p].slot # clock)

Write(p) ==
  /\ op[p].pc = "write"
  /\ Appear(p, op[p].to)
  /\ UNCHANGED <<clock, setBacks, torn>>

\* The write fails and the new file is removed again, or the command dies
\* before it has created it.
Fail(p) ==
  /\ op[p].pc # "idle"
  /\ op' = [op EXCEPT ![p] = Idle]
  /\ UNCHANGED <<log, clock, setBacks, torn, raced>>

\* The command dies between creating the file and its last byte.
Tear(p) ==
  /\ op[p].pc = "write"
  /\ torn < MaxTorn
  /\ torn' = torn + 1
  /\ Appear(p, "torn")
  /\ UNCHANGED <<clock, setBacks>>

SetClockBack ==
  /\ setBacks < MaxSetBack
  /\ setBacks' = setBacks + 1
  /\ clock' \in 0..(clock - 1)
  /\ UNCHANGED <<log, op, torn, raced>>

Next ==
  \/ \E p \in Procs, s \in Slots, to \in EventStates : Begin(p, s, to)
  \/ \E p \in Procs : Read(p) \/ Write(p) \/ Fail(p) \/ Tear(p)
  \/ SetClockBack

Spec == Init /\ [][Next]_vars

-----------------------------------------------------------------------------
(* Properties *)

TypeOK ==
  /\ log \in [Slots -> EventStates \cup {"free", "torn"}]
  /\ clock \in 0..MaxSlot
  /\ op \in [Procs -> [pc : {"idle", "read", "write"}, slot : 0..MaxSlot,
                       to : EventStates \cup {"free"}, stale : BOOLEAN]]
  /\ setBacks \in Nat /\ torn \in Nat
  /\ raced \in BOOLEAN

\* An item goes through valid transitions only and, once its log cannot be
\* read, "stays blocked" (outbox.go:165), whatever is still being appended.
Item == INSTANCE OutboxItem
          WITH state <- IF Readable THEN Current ELSE "blocked"
IsItem == Item!Spec

\* Only overlapping appends, a clock that was set back or a torn file make a
\* log unreadable: appends one after another keep it a valid sequence.
SerialAppendsStayReadable == Readable \/ raced \/ setBacks > 0 \/ torn > 0

\* The ledger stays a valid sequence of states
\* (docs/plans/2026-07-16-governed-organizations.md:167).
StaysReadable == Readable
=============================================================================
