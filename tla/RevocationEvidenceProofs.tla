---------------------- MODULE RevocationEvidenceProofs ----------------------
(***************************************************************************)
(* Proofs about module RevocationEvidence, for any number of monitors,     *)
(* launch gates and activations, any thresholds and any bounds.            *)
(* What is claimed of Spec holds of PromptSpec and SerialSpec too, which   *)
(* only take steps away; that a revoked member's files are removed in time *)
(* is claimed of PromptSpec, where no command outlasts a tick.             *)
(***************************************************************************)
EXTENDS RevocationEvidence, TLAPS

-----------------------------------------------------------------------------
(* Spaced denials *)

\* A sequence of n of the times, Interval apart, the last of them t.
Chain(times, n, t) ==
  \E f \in [1..n -> times] :
    /\ \A i \in 1..(n - 1) : f[i + 1] >= f[i] + Interval
    /\ f[n] = t

\* A chain is what Spaced asks for, and one in more times is still there.
LEMMA ChainIsSpaced ==
  ASSUME NEW times, NEW n, NEW t, Chain(times, n, t)
  PROVE  Spaced(times, n)
BY DEF Chain, Spaced

\* What is spaced stays so when denials are added.
LEMMA SpacedGrows ==
  ASSUME NEW few, NEW many, few \subseteq many, NEW n, Spaced(few, n)
  PROVE  Spaced(many, n)
<1>1. PICK f \in [1..n -> few] : \A i \in 1..(n - 1) : f[i + 1] >= f[i] + Interval
  BY DEF Spaced
<1>2. f \in [1..n -> many]
  BY <1>1
<1> QED
  BY <1>1, <1>2 DEF Spaced

\* And so is a chain.
LEMMA ChainGrows ==
  ASSUME NEW few, NEW many, few \subseteq many, NEW n, NEW t, Chain(few, n, t)
  PROVE  Chain(many, n, t)
<1>1. PICK f \in [1..n -> few] :
        (\A i \in 1..(n - 1) : f[i + 1] >= f[i] + Interval) /\ f[n] = t
  BY DEF Chain
<1>2. f \in [1..n -> many]
  BY <1>1
<1> QED
  BY <1>1, <1>2 DEF Chain

\* One denial is a chain of itself.
LEMMA ChainStarts ==
  ASSUME NEW times, NEW t \in times
  PROVE  Chain(times, 1, t)
<1> DEFINE f == [i \in 1..1 |-> t]
<1>1. f \in [1..1 -> times] /\ f[1] = t /\ \A i \in 1..(1 - 1) : f[i + 1] >= f[i] + Interval
  OBVIOUS
<1> QED
  BY <1>1 DEF Chain

\* A denial an Interval after the last one makes a chain longer.
LEMMA ChainExtends ==
  ASSUME NEW times \in SUBSET Times, NEW n \in Nat \ {0}, NEW q \in Times,
         Chain(times, n, q), NEW t \in times, t >= q + Interval
  PROVE  Chain(times, n + 1, t)
<1>1. PICK f \in [1..n -> times] :
        (\A i \in 1..(n - 1) : f[i + 1] >= f[i] + Interval) /\ f[n] = q
  BY DEF Chain
<1> DEFINE g == [i \in 1..(n + 1) |-> IF i <= n THEN f[i] ELSE t]
<1>2. g \in [1..(n + 1) -> times] /\ g[n + 1] = t
  BY <1>1
<1>3. ASSUME NEW i \in 1..((n + 1) - 1) PROVE g[i + 1] >= g[i] + Interval
  <2>1. CASE i = n
    BY <1>1, <2>1
  <2>2. CASE i # n
    <3>1. i \in 1..(n - 1) /\ g[i] = f[i] /\ g[i + 1] = f[i + 1]
      BY <2>2
    <3> QED
      BY <1>1, <3>1
  <2> QED
    BY <2>1, <2>2
<1> QED
  BY <1>2, <1>3 DEF Chain

\* Its last denial may be any later one.
LEMMA ChainMoves ==
  ASSUME NEW times \in SUBSET Times, NEW n \in Nat \ {0}, NEW q \in Times,
         Chain(times, n, q), NEW t \in times, t >= q
  PROVE  Chain(times, n, t)
<1>1. PICK f \in [1..n -> times] :
        (\A i \in 1..(n - 1) : f[i + 1] >= f[i] + Interval) /\ f[n] = q
  BY DEF Chain
<1> DEFINE g == [f EXCEPT ![n] = t]
<1>2. g \in [1..n -> times] /\ g[n] = t
  BY <1>1
<1>3. ASSUME NEW i \in 1..(n - 1) PROVE g[i + 1] >= g[i] + Interval
  <2>1. f[i] \in Times /\ f[i + 1] \in Times /\ g[i] = f[i]
    BY <1>1
  <2>2. g[i + 1] >= f[i + 1]
    BY <1>1, <2>1, ConstantsAssumption DEF Times
  <2> QED
    BY <1>1, <2>1, <2>2, ConstantsAssumption DEF Times
<1> QED
  BY <1>2, <1>3 DEF Chain

-----------------------------------------------------------------------------
(* The inductive invariant *)

Ops == [pc : {"idle", "ask", "live", "observe", "activate", "save",
              "add", "quarantine", "launched"},
        at : Times, answer : Answers, inv : Entries]

\* An entry, in the file or in the copy of a command, claims no more than what
\* the provider has answered: however old the copy, it may be saved.
FoundedOn(i, allowed, denied) ==
  /\ i.base <= allowed
  /\ i.count > 0 => Chain(denied, i.count, i.qualifying)
  /\ i.confirmed => Spaced(denied, Required)

\* So does the answer a command o has yet to record.
AnswerOn(o, allowed, denied) ==
  /\ o.pc \in {"observe", "save"} =>
       /\ o.answer # "no-actor"
       /\ o.answer = "allowed" => o.at <= allowed
       /\ o.answer = "denied" => o.at \in denied
  /\ o.pc = "add" => o.at <= allowed

Good(o) == FoundedOn(o.inv, allowedAt, deniedAt) /\ AnswerOn(o, allowedAt, deniedAt)

\* The checkout is removed on the same grounds as an entry is confirmed.
EvidenceInv ==
  /\ TypeOK
  /\ allowedAt <= now /\ \A p \in Procs : op[p].at <= now
  /\ FoundedOn(inv, allowedAt, deniedAt)
  /\ \A p \in Procs : Good(op[p])
  /\ ~mounted => Spaced(deniedAt, Required)
  /\ LaunchMeansAllowed

-----------------------------------------------------------------------------
(* What the operations on an entry make of it *)

\* No entry claims nothing.
LEMMA NoEntryFounded ==
  ASSUME NEW allowed \in Times, NEW denied
  PROVE  NoEntry \in Entries /\ FoundedOn(NoEntry, allowed, denied)
BY ConstantsAssumption DEF NoEntry, Entries, FoundedOn, Times

\* Later answers take no ground away.
LEMMA FoundedGrows ==
  ASSUME NEW i \in Entries, NEW a \in Times, NEW b \in Times, a <= b,
         NEW few, NEW many, few \subseteq many, FoundedOn(i, a, few)
  PROVE  FoundedOn(i, b, many)
<1>1. i.base <= b
  BY ConstantsAssumption DEF FoundedOn, Entries, Times
<1>2. i.count > 0 => Chain(many, i.count, i.qualifying)
  BY ChainGrows DEF FoundedOn
<1>3. i.confirmed => Spaced(many, Required)
  BY SpacedGrows DEF FoundedOn
<1> QED
  BY <1>1, <1>2, <1>3 DEF FoundedOn

\* An observation adds a denial only to a chain that it extends.
LEMMA ObservedFounded ==
  ASSUME NEW i \in Entries, NEW a \in Times, NEW denied \in SUBSET Times,
         FoundedOn(i, a, denied), NEW t \in Times,
         NEW answer \in {"allowed", "denied", "unknown"},
         answer = "allowed" => t <= a, answer = "denied" => t \in denied
  PROVE  Observed(i, answer, t) \in Entries /\ FoundedOn(Observed(i, answer, t), a, denied)
<1>0. /\ Reset(i, answer) \in Entries
      /\ Reset(i, answer).base = i.base /\ Reset(i, answer).count = 0
      /\ ~Reset(i, answer).confirmed
  <2>1. 0 \in Times /\ 0 \in 0..Required
    BY ConstantsAssumption DEF Times
  <2> QED
    BY <2>1 DEF Reset, Entries
<1>1. CASE answer = "allowed"
  <2> DEFINE j == [Reset(i, answer) EXCEPT !.base = t, !.checked = t]
  <2>1. Observed(i, answer, t) = j
    BY <1>1 DEF Observed
  <2>2. j \in Entries /\ j.base = t /\ j.count = 0 /\ ~j.confirmed
    BY <1>0 DEF Entries
  <2> HIDE DEF j
  <2> QED
    BY <1>1, <2>1, <2>2 DEF FoundedOn
<1>2. CASE answer = "unknown"
  <2> DEFINE j == [Reset(i, answer) EXCEPT !.checked = t]
  <2>1. Observed(i, answer, t) = j
    BY <1>2 DEF Observed
  <2>2. j \in Entries /\ j.base = i.base /\ j.count = 0 /\ ~j.confirmed
    BY <1>0 DEF Entries
  <2> HIDE DEF j
  <2> QED
    BY <1>2, <2>1, <2>2 DEF FoundedOn
<1>3. CASE answer = "denied"
  <2> DEFINE counts == i.count = 0 \/ t >= i.qualifying + Interval
             n == IF counts /\ i.count < Required THEN i.count + 1 ELSE i.count
             q == IF counts THEN t ELSE i.qualifying
             j == [i EXCEPT !.state = "denied", !.checked = t, !.count = n,
                            !.qualifying = q, !.confirmed = @ \/ n >= Required]
  <2>1. Observed(i, answer, t) = j
    BY <1>3 DEF Observed
  <2>2. n \in 0..Required /\ q \in Times /\ i.count \in 0..Required /\ i.qualifying \in Times
    BY ConstantsAssumption DEF Entries
  <2>3. n > 0 /\ Chain(denied, n, q)
    <3>1. CASE i.count = 0
      BY <1>3, <3>1, ChainStarts, ConstantsAssumption
    <3>2. CASE i.count > 0 /\ ~(t >= i.qualifying + Interval)
      BY <3>2 DEF FoundedOn
    <3>3. CASE i.count > 0 /\ t >= i.qualifying + Interval /\ i.count < Required
      BY <1>3, <2>2, <3>3, ChainExtends, ConstantsAssumption DEF FoundedOn
    <3>4. CASE i.count > 0 /\ t >= i.qualifying + Interval /\ i.count >= Required
      <4>1. t >= i.qualifying
        BY <2>2, <3>4, ConstantsAssumption DEF Times
      <4> QED
        BY <1>3, <2>2, <3>4, <4>1, ChainMoves, ConstantsAssumption DEF FoundedOn
    <3> QED
      BY <2>2, <3>1, <3>2, <3>3, <3>4, ConstantsAssumption
  <2>4. n >= Required => Spaced(denied, Required)
    <3>1. n >= Required => n = Required
      BY <2>2, ConstantsAssumption
    <3> QED
      BY <2>3, <3>1, ChainIsSpaced
  <2> HIDE DEF n, q
  <2>5. j \in Entries
    BY <2>2 DEF Entries
  <2>6. j.base = i.base /\ j.count = n /\ j.qualifying = q
        /\ (j.confirmed => i.confirmed \/ n >= Required)
    BY DEF Entries
  <2>7. FoundedOn(j, a, denied)
    BY <2>3, <2>4, <2>6 DEF FoundedOn
  <2> QED
    BY <2>1, <2>5, <2>7
<1> QED
  BY <1>1, <1>2, <1>3

\* An activation leaves the chain and moves the baseline to its answer.
LEMMA ActivatedFounded ==
  ASSUME NEW i \in Entries, NEW a \in Times, NEW denied,
         FoundedOn(i, a, denied), NEW t \in Times, t <= a
  PROVE  Activated(i, t) \in Entries /\ FoundedOn(Activated(i, t), a, denied)
<1>1. Activated(i, t) = [i EXCEPT !.entry = TRUE, !.base = t]
  BY DEF Activated
<1> QED
  BY <1>1 DEF Entries, FoundedOn

-----------------------------------------------------------------------------
(* Every step keeps the invariant *)

\* The grounds of a command that does not move stay.
LEMMA GoodStays ==
  ASSUME NEW o \in Ops, NEW a \in Times, NEW b \in Times, a <= b,
         NEW few, NEW many, few \subseteq many,
         FoundedOn(o.inv, a, few), AnswerOn(o, a, few)
  PROVE  FoundedOn(o.inv, b, many) /\ AnswerOn(o, b, many)
<1>1. o.inv \in Entries /\ o.at \in Times
  BY DEF Ops
<1>2. FoundedOn(o.inv, b, many)
  BY <1>1, FoundedGrows
<1>3. o.at <= a => o.at <= b
  BY <1>1, ConstantsAssumption DEF Times
<1>4. AnswerOn(o, b, many)
  BY <1>3 DEF AnswerOn
<1> QED
  BY <1>2, <1>4

\* What is to be shown of a step: the answers given only grow, and whoever
\* moved, the file and the checkout have their grounds afterwards.
LEMMA Grounds ==
  ASSUME EvidenceInv, TypeOK', NEW P \in SUBSET Procs,
         \A q \in Procs \ P : op'[q] = op[q],
         allowedAt <= allowedAt', allowedAt' <= now', deniedAt \subseteq deniedAt', now <= now',
         \A q \in P : /\ op'[q].at <= now'
                      /\ FoundedOn(op'[q].inv, allowedAt', deniedAt')
                      /\ AnswerOn(op'[q], allowedAt', deniedAt')
                      /\ q \in Gates /\ op'[q].pc = "launched" => op'[q].at < allowedAt' + TTL,
         inv' = inv \/ FoundedOn(inv', allowedAt', deniedAt'),
         ~mounted' => ~mounted \/ Spaced(deniedAt', Required)
  PROVE  EvidenceInv'
<1>1. /\ allowedAt \in Times /\ allowedAt' \in Times /\ inv \in Entries
      /\ \A q \in Procs : op[q] \in Ops
  BY DEF EvidenceInv, TypeOK, Ops
<1>2. FoundedOn(inv', allowedAt', deniedAt')
  BY <1>1, FoundedGrows DEF EvidenceInv
<1>3. ASSUME NEW q \in Procs
      PROVE  FoundedOn(op'[q].inv, allowedAt', deniedAt') /\ AnswerOn(op'[q], allowedAt', deniedAt')
  <2>1. CASE q \in P
    BY <2>1
  <2>2. CASE q \notin P
    <3>1. op'[q] = op[q] /\ op[q] \in Ops
      BY <1>1, <2>2
    <3>2. FoundedOn(op[q].inv, allowedAt, deniedAt) /\ AnswerOn(op[q], allowedAt, deniedAt)
      BY DEF EvidenceInv, Good
    <3> QED
      BY <1>1, <3>1, <3>2, GoodStays
  <2> QED
    BY <2>1, <2>2
<1>4. LaunchMeansAllowed'
  <2> SUFFICES ASSUME NEW q \in Gates, op'[q].pc = "launched"
               PROVE  op'[q].at < allowedAt' + TTL
    BY DEF LaunchMeansAllowed
  <2>1. CASE q \in P
    BY <2>1
  <2>2. CASE q \notin P
    <3>1. q \in Procs /\ op'[q] = op[q] /\ op[q].at \in Times
      BY <1>1, <2>2 DEF Procs, Ops
    <3>2. op[q].at < allowedAt + TTL
      BY <3>1 DEF EvidenceInv, LaunchMeansAllowed
    <3> QED
      BY <1>1, <3>1, <3>2, ConstantsAssumption DEF Times
  <2> QED
    BY <2>1, <2>2
<1>5. ~mounted' => Spaced(deniedAt', Required)
  BY SpacedGrows DEF EvidenceInv
<1>6. ASSUME NEW q \in Procs PROVE op'[q].at <= now'
  <2>1. now \in Times /\ now' \in Times /\ op[q].at \in Times /\ op[q].at <= now
    BY <1>1 DEF EvidenceInv, TypeOK, Ops
  <2>2. CASE q \in P
    BY <2>2
  <2>3. CASE q \notin P
    BY <2>1, <2>3, ConstantsAssumption DEF Times
  <2> QED
    BY <2>2, <2>3
<1>7. /\ (FoundedOn(inv, allowedAt, deniedAt))'
      /\ (\A q \in Procs : Good(op[q]))'
      /\ (\A q \in Procs : op[q].at <= now)'
  BY <1>2, <1>3, <1>6 DEF Good
<1> QED
  BY <1>4, <1>5, <1>7 DEF EvidenceInv

\* A step that gives no answer and moves no command but to where nothing is
\* claimed.
LEMMA Quiet ==
  ASSUME EvidenceInv, NEW p \in Procs, NEW r \in Ops,
         op' = [op EXCEPT ![p] = r],
         r.inv = NoEntry, r.pc \notin {"observe", "save", "add"},
         r.pc = "launched" => p \in Gates /\ r.at < allowedAt + TTL, r.at <= now,
         UNCHANGED <<mounted, inv, now, granted, changes, unknowns, failures, revokedAt, history>>,
         lastRun' \in Times
  PROVE  EvidenceInv'
<1>1. op \in [Procs -> Ops] /\ op'[p] = r /\ \A q \in Procs \ {p} : op'[q] = op[q]
  BY DEF EvidenceInv, TypeOK, Ops
<1>2. TypeOK'
  BY <1>1 DEF EvidenceInv, TypeOK, history, Ops
<1>3. allowedAt \in Times /\ now \in Times
  BY DEF EvidenceInv, TypeOK
<1>4. FoundedOn(r.inv, allowedAt, deniedAt) /\ AnswerOn(r, allowedAt, deniedAt)
  BY <1>3, NoEntryFounded DEF AnswerOn
<1>5. allowedAt <= allowedAt /\ allowedAt <= now
  BY <1>3, ConstantsAssumption DEF EvidenceInv, Times
<1>6. /\ allowedAt' = allowedAt /\ deniedAt' = deniedAt /\ now' = now
      /\ inv' = inv /\ mounted' = mounted
      /\ allowedAt <= allowedAt' /\ allowedAt' <= now' /\ deniedAt \subseteq deniedAt'
      /\ now <= now'
  BY <1>3, <1>5, ConstantsAssumption DEF history, Times
<1>7. \A q \in {p} : /\ op'[q].at <= now'
                     /\ FoundedOn(op'[q].inv, allowedAt', deniedAt')
                     /\ AnswerOn(op'[q], allowedAt', deniedAt')
                     /\ q \in Gates /\ op'[q].pc = "launched" => op'[q].at < allowedAt' + TTL
  BY <1>1, <1>4, <1>6
<1>8. {p} \in SUBSET Procs
  OBVIOUS
<1>9. /\ inv' = inv \/ FoundedOn(inv', allowedAt', deniedAt')
      /\ ~mounted' => ~mounted \/ Spaced(deniedAt', Required)
      /\ \A q \in Procs \ {p} : op'[q] = op[q]
  BY <1>1, <1>6
<1> QED
  BY <1>2, <1>6, <1>7, <1>8, <1>9, Grounds, Zenon

-----------------------------------------------------------------------------
(* The steps *)

\* An answer of the provider adds to what the properties count.
LEMMA AskGrows ==
  ASSUME EvidenceInv, NEW p \in Procs, NEW a \in Answers, NEW t \in Times, t <= now,
         Ask(p, a, t)
  PROVE  /\ allowedAt' \in Times /\ allowedAt <= allowedAt' /\ allowedAt' <= now
         /\ deniedAt' \subseteq Times /\ deniedAt \subseteq deniedAt'
         /\ unknowns' \in 0..MaxUnknown /\ a \in {"allowed", "denied"} \cup Unknown
         /\ a = "allowed" => t <= allowedAt'
         /\ a = "denied" => t \in deniedAt'
         /\ UNCHANGED <<mounted, inv, now, granted, changes, failures, revokedAt, streak>>
<1>1. /\ allowedAt \in Times /\ now \in Times /\ deniedAt \subseteq Times
      /\ unknowns \in 0..MaxUnknown /\ allowedAt <= now
  BY DEF EvidenceInv, TypeOK
<1>2. allowedAt' \in Times /\ allowedAt <= allowedAt' /\ allowedAt' <= now
      /\ (a = "allowed" => t <= allowedAt')
  BY <1>1, ConstantsAssumption DEF Ask, Times
<1>3. unknowns' \in 0..MaxUnknown
  BY <1>1, ConstantsAssumption DEF Ask, Unknown
<1> QED
  BY <1>1, <1>2, <1>3 DEF Ask, Replies

\* The command at o has got the answer a, of time t, and is at r: it keeps the
\* answer with its time, or goes on without it.
TakesOn(o, r, a, t) ==
  /\ r.inv = NoEntry \/ r.inv = o.inv
  /\ \/ r.pc \in {"idle", "activate"}
     \/ r.pc = "observe" /\ r.answer = a /\ r.at = t /\ a # "no-actor"
     \/ r.pc = "launched" /\ a = "allowed" /\ r.at = t
     \/ r = o

\* An answer, and what it makes of the command that asked.
LEMMA Asked ==
  ASSUME EvidenceInv, NEW p \in Procs, NEW a \in Answers, NEW t \in Times, t <= now,
         Ask(p, a, t), NEW r \in Ops, op' = [op EXCEPT ![p] = r], r.at <= now,
         TakesOn(op[p], r, a, t), lastRun' \in Times
  PROVE  EvidenceInv'
<1>1. /\ allowedAt' \in Times /\ allowedAt <= allowedAt' /\ allowedAt' <= now
      /\ deniedAt' \subseteq Times /\ deniedAt \subseteq deniedAt'
      /\ unknowns' \in 0..MaxUnknown
      /\ a = "allowed" => t <= allowedAt'
      /\ a = "denied" => t \in deniedAt'
      /\ UNCHANGED <<mounted, inv, now, granted, changes, failures, revokedAt, streak>>
  BY AskGrows
<1>2. /\ op \in [Procs -> Ops] /\ op' \in [Procs -> Ops] /\ op'[p] = r
      /\ \A q \in Procs \ {p} : op'[q] = op[q]
  BY DEF EvidenceInv, TypeOK, Ops
<1>3. TypeOK'
  BY <1>1, <1>2 DEF EvidenceInv, TypeOK, Ops
<1>4. allowedAt \in Times /\ op[p] \in Ops /\ op[p].inv \in Entries
  BY <1>2 DEF EvidenceInv, TypeOK, Ops
<1>5. FoundedOn(op[p].inv, allowedAt', deniedAt') /\ AnswerOn(op[p], allowedAt', deniedAt')
  <2>1. FoundedOn(op[p].inv, allowedAt, deniedAt) /\ AnswerOn(op[p], allowedAt, deniedAt)
    BY DEF EvidenceInv, Good
  <2> QED
    BY <1>1, <1>4, <2>1, GoodStays
<1>6. FoundedOn(r.inv, allowedAt', deniedAt')
  BY <1>1, <1>5, NoEntryFounded DEF TakesOn
<1>7. AnswerOn(r, allowedAt', deniedAt')
  BY <1>1, <1>5 DEF AnswerOn, TakesOn
<1>8. p \in Gates /\ r.pc = "launched" => r.at < allowedAt' + TTL
  <2>1. CASE a = "allowed" /\ r.at = t
    <3>1. r.at <= allowedAt'
      BY <1>1, <2>1
    <3>2. r.at \in Int /\ allowedAt' \in Int /\ TTL \in Int /\ TTL > 0
      BY <1>1, <2>1, ConstantsAssumption DEF Times
    <3> QED
      BY <3>1, <3>2
  <2>2. CASE r = op[p]
    <3> SUFFICES ASSUME p \in Gates, r.pc = "launched" PROVE r.at < allowedAt' + TTL
      OBVIOUS
    <3>1. op[p].at < allowedAt + TTL /\ op[p].at \in Times
      BY <1>4, <2>2 DEF EvidenceInv, LaunchMeansAllowed, Ops
    <3> QED
      BY <1>1, <1>4, <2>2, <3>1, ConstantsAssumption DEF Times
  <2> QED
    BY <2>1, <2>2 DEF TakesOn
<1>9. /\ {p} \in SUBSET Procs /\ now <= now'
      /\ \A q \in {p} : /\ op'[q].at <= now'
                        /\ FoundedOn(op'[q].inv, allowedAt', deniedAt')
                        /\ AnswerOn(op'[q], allowedAt', deniedAt')
                        /\ q \in Gates /\ op'[q].pc = "launched" => op'[q].at < allowedAt' + TTL
  BY <1>1, <1>2, <1>3, <1>6, <1>7, <1>8, ConstantsAssumption DEF TypeOK, Times
<1> QED
  BY <1>1, <1>2, <1>3, <1>9, Grounds

\* Idle and the states a command reaches from it are states of a command.
LEMMA OpTypes ==
  ASSUME TypeOK
  PROVE  /\ Idle \in Ops /\ Idle.inv = NoEntry /\ Idle.pc = "idle" /\ now \in Times
         /\ \A p \in Procs : op[p] \in Ops /\ op[p].at \in Times /\ op[p].inv \in Entries
         /\ 0 \in Times
BY ConstantsAssumption DEF TypeOK, Idle, NoEntry, Ops, Entries, Times, Answers, Unknown

\* A monitor's run, or its question.
LEMMA MonitorKeeps ==
  ASSUME EvidenceInv, NEW p \in Procs, MonitorSkip(p) \/ MonitorAsk(p)
  PROVE  EvidenceInv'
<1>1. TypeOK /\ Idle \in Ops /\ now \in Times /\ op[p] \in Ops /\ lastRun \in Times
  BY OpTypes DEF EvidenceInv, TypeOK
<1>2. op = [op EXCEPT ![p] = op[p]]
  BY <1>1 DEF TypeOK
<1>3. CASE MonitorSkip(p)
  <2>1. TypeOK'
    BY <1>1, <1>3 DEF MonitorSkip, TypeOK, history
  <2>2. EvidenceInv'
    BY <1>3, <2>1 DEF MonitorSkip, EvidenceInv, Good, LaunchMeansAllowed, history
  <2> QED
    BY <2>2
<1>4. CASE MonitorAsk(p)
  <2>1. PICK a \in Answers :
          /\ Ask(p, a, now)
          /\ IF a = "no-actor"
             THEN lastRun' = now /\ UNCHANGED op
             ELSE /\ op' = [op EXCEPT ![p] = [pc |-> "observe", at |-> now, answer |-> a,
                                             inv |-> NoEntry]]
                  /\ UNCHANGED lastRun
    BY <1>4 DEF MonitorAsk
  <2>2. now <= now /\ lastRun' \in Times
    BY <1>1, <2>1, ConstantsAssumption DEF Times
  <2>3. CASE a = "no-actor"
    <3>1. op' = [op EXCEPT ![p] = op[p]] /\ op[p].at <= now
      BY <1>2, <2>1, <2>3 DEF EvidenceInv
    <3>2. TakesOn(op[p], op[p], a, now)
      BY DEF TakesOn
    <3> QED
      BY <1>1, <2>1, <2>2, <3>1, <3>2, Asked
  <2>4. CASE a # "no-actor"
    <3> DEFINE r == [pc |-> "observe", at |-> now, answer |-> a, inv |-> NoEntry]
    <3>1. r \in Ops /\ r.inv = NoEntry /\ r.pc = "observe" /\ r.answer = a /\ r.at = now
      BY <1>1, NoEntryFounded DEF Ops
    <3>2. op' = [op EXCEPT ![p] = r]
      BY <2>1, <2>4
    <3> HIDE DEF r
    <3>3. TakesOn(op[p], r, a, now) /\ r.at <= now
      BY <2>2, <2>4, <3>1 DEF TakesOn
    <3> QED
      BY <1>1, <2>1, <2>2, <3>1, <3>2, <3>3, Asked
  <2> QED
    BY <2>3, <2>4
<1> QED
  BY <1>3, <1>4

\* A launch gate.
LEMMA GateKeeps ==
  ASSUME EvidenceInv, NEW p \in Gates,
         GateStart(p) \/ GateAsk(p) \/ GateAskLive(p) \/ GateDone(p)
  PROVE  EvidenceInv'
<1>1. /\ TypeOK /\ Idle \in Ops /\ Idle.inv = NoEntry /\ Idle.pc = "idle" /\ now \in Times
      /\ p \in Procs /\ op[p] \in Ops /\ op[p].at \in Times /\ lastRun \in Times
      /\ inv \in Entries /\ allowedAt \in Times
  BY OpTypes DEF EvidenceInv, TypeOK, Procs
<1>2. op[p].at <= now /\ now <= now
  BY <1>1, ConstantsAssumption DEF EvidenceInv, Times
<1>3. CASE GateStart(p)
  <2> DEFINE pc == CASE ~mounted -> "idle"
                     [] mounted /\ inv.base = 0 -> "live"
                     [] mounted /\ inv.base # 0 /\ BlocksCached(inv) -> "idle"
                     [] OTHER -> IF now < inv.base + TTL THEN "launched" ELSE "ask"
             r == [Idle EXCEPT !.at = now, !.pc = pc]
  <2>1. pc \in {"idle", "live", "launched", "ask"} /\ (pc = "launched" => now < inv.base + TTL)
    OBVIOUS
  <2>2. inv.base \in Times /\ inv.base <= allowedAt
    BY <1>1 DEF EvidenceInv, FoundedOn, Entries
  <2>3. pc = "launched" => now < allowedAt + TTL
    BY <1>1, <2>1, <2>2, ConstantsAssumption DEF Times
  <2> HIDE DEF pc
  <2>4. r \in Ops /\ r.inv = NoEntry /\ r.pc = pc /\ r.at = now
    BY <1>1, <2>1 DEF Ops
  <2>5. op' = [op EXCEPT ![p] = r]
    BY <1>3 DEF GateStart, pc
  <2> HIDE DEF r
  <2>6. UNCHANGED <<mounted, inv, now, granted, changes, unknowns, failures, revokedAt, history>>
        /\ lastRun' \in Times
    BY <1>1, <1>3 DEF GateStart, env
  <2> QED
    BY <1>1, <1>2, <2>1, <2>3, <2>4, <2>5, <2>6, Quiet
<1>4. CASE GateAsk(p)
  <2>1. PICK a \in Answers :
          /\ Ask(p, a, op[p].at)
          /\ op' = [op EXCEPT ![p] = IF a = "no-actor" THEN Idle
                                    ELSE [@ EXCEPT !.pc = "observe", !.answer = a]]
    BY <1>4 DEF GateAsk
  <2> DEFINE r == IF a = "no-actor" THEN Idle
                  ELSE [op[p] EXCEPT !.pc = "observe", !.answer = a]
  <2>2. op' = [op EXCEPT ![p] = r] /\ lastRun' \in Times
    BY <1>1, <1>4, <2>1 DEF GateAsk
  <2>3. r \in Ops /\ TakesOn(op[p], r, a, op[p].at)
    <3>1. CASE a = "no-actor"
      BY <1>1, <3>1 DEF TakesOn
    <3>2. CASE a # "no-actor"
      <4>1. /\ r \in Ops /\ r.inv = op[p].inv /\ r.pc = "observe" /\ r.answer = a
            /\ r.at = op[p].at
        BY <1>1, <3>2 DEF Ops
      <4> HIDE DEF r
      <4> QED
        BY <3>2, <4>1 DEF TakesOn
    <3> QED
      BY <3>1, <3>2
  <2>4. r.at <= now
    <3>1. r.at = 0 \/ r.at = op[p].at
      BY <1>1 DEF Ops, Idle
    <3> QED
      BY <1>1, <1>2, <3>1, ConstantsAssumption DEF Times
  <2> HIDE DEF r
  <2> QED
    BY <1>1, <1>2, <2>1, <2>2, <2>3, <2>4, Asked
<1>5. CASE GateAskLive(p)
  <2>1. PICK a \in Answers :
          /\ Ask(p, a, op[p].at)
          /\ op' = [op EXCEPT ![p].pc = IF a = "allowed" THEN "launched" ELSE "idle"]
    BY <1>5 DEF GateAskLive
  <2> DEFINE r == [op[p] EXCEPT !.pc = IF a = "allowed" THEN "launched" ELSE "idle"]
  <2>2. op' = [op EXCEPT ![p] = r] /\ lastRun' \in Times
    BY <1>1, <1>5, <2>1 DEF GateAskLive
  <2>3. /\ r \in Ops /\ r.inv = op[p].inv /\ r.at = op[p].at
        /\ r.pc = IF a = "allowed" THEN "launched" ELSE "idle"
    BY <1>1 DEF Ops
  <2> HIDE DEF r
  <2>4. TakesOn(op[p], r, a, op[p].at) /\ r.at <= now
    BY <1>2, <2>3 DEF TakesOn
  <2> QED
    BY <1>1, <1>2, <2>1, <2>2, <2>3, <2>4, Asked
<1>6. CASE GateDone(p)
  <2>1. /\ op' = [op EXCEPT ![p] = Idle] /\ lastRun' \in Times
        /\ UNCHANGED <<mounted, inv, now, granted, changes, unknowns, failures, revokedAt, history>>
    BY <1>1, <1>6 DEF GateDone, Return, env
  <2>2. Idle.at <= now
    BY <1>1, ConstantsAssumption DEF Idle, Times
  <2> QED
    BY <1>1, <2>1, <2>2, Quiet
<1> QED
  BY <1>3, <1>4, <1>5, <1>6

\* An activation asks, and a command that observes or activates loads the file.
LEMMA LoadKeeps ==
  ASSUME EvidenceInv, NEW p \in Procs,
         \/ p \in Activators /\ ActivateAsk(p)
         \/ LoadForObservation(p) \/ LoadForActivation(p)
  PROVE  EvidenceInv'
<1>1. /\ TypeOK /\ Idle \in Ops /\ Idle.inv = NoEntry /\ Idle.pc = "idle" /\ now \in Times
      /\ op \in [Procs -> Ops] /\ op[p] \in Ops /\ op[p].at \in Times /\ lastRun \in Times
      /\ inv \in Entries /\ allowedAt \in Times
  BY OpTypes DEF EvidenceInv, TypeOK, Ops
<1>2. op[p].at <= now /\ now <= now /\ Idle.at <= now /\ allowedAt <= now
  BY <1>1, ConstantsAssumption DEF EvidenceInv, Idle, Times
<1>3. CASE ActivateAsk(p)
  <2>1. PICK a \in Answers :
          /\ Ask(p, a, now)
          /\ op' = IF a = "allowed"
                   THEN [op EXCEPT ![p] = [Idle EXCEPT !.pc = "activate", !.at = now, !.answer = a]]
                   ELSE op
    BY <1>3 DEF ActivateAsk
  <2> DEFINE r == IF a = "allowed"
                  THEN [Idle EXCEPT !.pc = "activate", !.at = now, !.answer = a] ELSE op[p]
  <2>2. op' = [op EXCEPT ![p] = r] /\ lastRun' \in Times
    BY <1>1, <1>3, <2>1 DEF ActivateAsk
  <2>3. r \in Ops /\ TakesOn(op[p], r, a, now) /\ r.at <= now
    <3>1. CASE a = "allowed"
      <4>1. r \in Ops /\ r.inv = NoEntry /\ r.pc = "activate" /\ r.at = now
        BY <1>1, <3>1 DEF Ops
      <4> HIDE DEF r
      <4> QED
        BY <1>2, <4>1 DEF TakesOn
    <3>2. CASE a # "allowed"
      BY <1>1, <1>2, <3>2 DEF TakesOn
    <3> QED
      BY <3>1, <3>2
  <2> HIDE DEF r
  <2> QED
    BY <1>1, <1>2, <2>1, <2>2, <2>3, Asked
<1>4. CASE LoadForObservation(p) /\ ~(mounted /\ inv.entry)
  <2>1. op' = [op EXCEPT ![p] = Idle] /\ lastRun' \in Times
        /\ UNCHANGED <<mounted, inv, now, granted, changes, unknowns, failures, revokedAt, history>>
    BY <1>1, <1>4 DEF LoadForObservation, Return, env
  <2> QED
    BY <1>1, <1>2, <2>1, Quiet
<1>5. CASE LoadForObservation(p) /\ mounted /\ inv.entry
  <2> DEFINE r == [op[p] EXCEPT !.pc = "save", !.inv = inv]
  <2>1. op' = [op EXCEPT ![p] = r] /\ op[p].pc = "observe"
        /\ UNCHANGED <<mounted, inv, env, allowedAt, deniedAt, streak>>
    BY <1>1, <1>5 DEF LoadForObservation, history, Ops
  <2>2. /\ r \in Ops /\ r.inv = inv /\ r.at = op[p].at /\ r.answer = op[p].answer
        /\ r.pc = "save"
    BY <1>1 DEF Ops
  <2> HIDE DEF r
  <2>3. /\ op'[p] = r /\ op' \in [Procs -> Ops] /\ \A q \in Procs \ {p} : op'[q] = op[q]
        /\ TypeOK'
    BY <1>1, <2>1, <2>2 DEF TypeOK, env, Ops
  <2>4. FoundedOn(r.inv, allowedAt', deniedAt') /\ AnswerOn(r, allowedAt', deniedAt')
    <3>1. FoundedOn(inv, allowedAt, deniedAt) /\ AnswerOn(op[p], allowedAt, deniedAt)
      BY DEF EvidenceInv, Good
    <3> QED
      BY <2>1, <2>2, <3>1 DEF AnswerOn
  <2>5. {p} \in SUBSET Procs
        /\ \A q \in {p} : /\ op'[q].at <= now'
                          /\ FoundedOn(op'[q].inv, allowedAt', deniedAt')
                          /\ AnswerOn(op'[q], allowedAt', deniedAt')
                          /\ q \in Gates /\ op'[q].pc = "launched" => op'[q].at < allowedAt' + TTL
    BY <1>2, <2>1, <2>2, <2>3, <2>4 DEF env
  <2>6. /\ allowedAt <= allowedAt' /\ allowedAt' <= now' /\ deniedAt \subseteq deniedAt'
        /\ now <= now' /\ inv' = inv /\ mounted' = mounted
    BY <1>1, <1>2, <2>1, ConstantsAssumption DEF env, Times
  <2> QED
    BY <2>3, <2>5, <2>6, Grounds
<1>6. CASE LoadForActivation(p)
  <2> DEFINE r == IF mounted THEN [op[p] EXCEPT !.pc = "add", !.inv = inv, !.at = now] ELSE Idle
  <2>1. op' = [op EXCEPT ![p] = r] /\ allowedAt' = now
        /\ UNCHANGED <<mounted, inv, env, deniedAt, streak>>
    BY <1>1, <1>6 DEF LoadForActivation, Return, Ops
  <2>2. /\ r \in Ops /\ (r.inv = inv \/ r.inv = NoEntry) /\ r.at <= now
        /\ (r.pc = "add" \/ r.pc = "idle")
    BY <1>1, <1>2 DEF Ops
  <2> HIDE DEF r
  <2>3. /\ op'[p] = r /\ op' \in [Procs -> Ops] /\ \A q \in Procs \ {p} : op'[q] = op[q]
        /\ TypeOK'
    BY <1>1, <2>1, <2>2 DEF TypeOK, env, Ops
  <2>4. FoundedOn(r.inv, allowedAt', deniedAt') /\ AnswerOn(r, allowedAt', deniedAt')
    <3>1. FoundedOn(inv, now, deniedAt) /\ FoundedOn(NoEntry, now, deniedAt)
      BY <1>1, <1>2, FoundedGrows, NoEntryFounded DEF EvidenceInv
    <3> QED
      BY <2>1, <2>2, <3>1 DEF AnswerOn
  <2>5. {p} \in SUBSET Procs
        /\ \A q \in {p} : /\ op'[q].at <= now'
                          /\ FoundedOn(op'[q].inv, allowedAt', deniedAt')
                          /\ AnswerOn(op'[q], allowedAt', deniedAt')
                          /\ q \in Gates /\ op'[q].pc = "launched" => op'[q].at < allowedAt' + TTL
    BY <2>1, <2>2, <2>3, <2>4 DEF env
  <2>6. /\ allowedAt <= allowedAt' /\ allowedAt' <= now' /\ deniedAt \subseteq deniedAt'
        /\ now <= now' /\ inv' = inv /\ mounted' = mounted
    BY <1>1, <1>2, <2>1, ConstantsAssumption DEF env, Times
  <2> QED
    BY <2>3, <2>5, <2>6, Grounds
<1> QED
  BY <1>3, <1>4, <1>5, <1>6

\* A command saves its copy, however old, with its answer.
LEMMA SaveKeeps ==
  ASSUME EvidenceInv, NEW p \in Procs, SavePositive(p) \/ SaveObservation(p)
  PROVE  EvidenceInv'
<1>1. /\ TypeOK /\ Idle \in Ops /\ Idle.inv = NoEntry /\ Idle.pc = "idle" /\ now \in Times
      /\ op \in [Procs -> Ops] /\ op[p] \in Ops /\ op[p].at \in Times /\ op[p].inv \in Entries
      /\ allowedAt \in Times /\ deniedAt \in SUBSET Times /\ lastRun \in Times
  BY OpTypes DEF EvidenceInv, TypeOK, Ops
<1>2. /\ op[p].at <= now /\ now <= now /\ Idle.at <= now
      /\ allowedAt <= now /\ allowedAt <= allowedAt
  BY <1>1, ConstantsAssumption DEF EvidenceInv, Idle, Times
<1>3. FoundedOn(op[p].inv, allowedAt, deniedAt) /\ AnswerOn(op[p], allowedAt, deniedAt)
  BY DEF EvidenceInv, Good
<1>4. FoundedOn(NoEntry, allowedAt, deniedAt)
  BY <1>1, NoEntryFounded
<1>5. CASE SavePositive(p)
  <2> DEFINE i == Activated(op[p].inv, op[p].at)
  <2>1. /\ op[p].pc = "add" /\ inv' = i /\ op' = [op EXCEPT ![p] = Idle] /\ streak' = {}
        /\ UNCHANGED <<mounted, now, granted, lastRun, changes, unknowns, failures, revokedAt,
                       allowedAt, deniedAt>>
    BY <1>5 DEF SavePositive, Return, env
  <2>2. i \in Entries /\ FoundedOn(i, allowedAt, deniedAt)
    BY <1>1, <1>3, <2>1, ActivatedFounded DEF AnswerOn
  <2> HIDE DEF i
  <2>3. TypeOK' /\ op'[p] = Idle /\ \A q \in Procs \ {p} : op'[q] = op[q]
    BY <1>1, <2>1, <2>2 DEF TypeOK, Ops
  <2>4. /\ {p} \in SUBSET Procs
        /\ \A q \in {p} : /\ op'[q].at <= now'
                          /\ FoundedOn(op'[q].inv, allowedAt', deniedAt')
                          /\ AnswerOn(op'[q], allowedAt', deniedAt')
                          /\ q \in Gates /\ op'[q].pc = "launched" => op'[q].at < allowedAt' + TTL
    BY <1>1, <1>2, <1>4, <2>1, <2>3 DEF AnswerOn
  <2>5. FoundedOn(inv', allowedAt', deniedAt')
    BY <2>1, <2>2
  <2>6. /\ allowedAt <= allowedAt' /\ allowedAt' <= now' /\ deniedAt \subseteq deniedAt'
        /\ now <= now' /\ mounted' = mounted
    BY <1>2, <2>1
  <2> QED
    BY <2>3, <2>4, <2>5, <2>6, Grounds
<1>6. CASE SaveObservation(p)
  <2> DEFINE o == op[p]
             i == Observed(o.inv, o.answer, o.at)
             pc == CASE CleanupEligible(i) -> "quarantine"
                     [] ~CleanupEligible(i) /\ p \in Gates /\ o.answer = "allowed" -> "launched"
                     [] OTHER -> "idle"
             r == [o EXCEPT !.inv = NoEntry, !.pc = pc]
  <2>1. /\ o.pc = "save" /\ inv' = i /\ op' = [op EXCEPT ![p] = r]
        /\ streak' = (IF o.answer = "denied" THEN streak \cup {o.at} ELSE {})
        /\ lastRun' \in Times
        /\ UNCHANGED <<mounted, now, granted, changes, unknowns, failures, revokedAt,
                       allowedAt, deniedAt>>
    BY <1>1, <1>6 DEF SaveObservation, Ops
  <2>2. /\ o.answer \in {"allowed", "denied", "unknown"}
        /\ o.answer = "allowed" => o.at <= allowedAt
        /\ o.answer = "denied" => o.at \in deniedAt
    BY <1>1, <1>3, <2>1 DEF AnswerOn, Ops, Answers, Unknown
  <2>3. i \in Entries /\ FoundedOn(i, allowedAt, deniedAt)
    BY <1>1, <1>3, <2>2, ObservedFounded
  <2>4. /\ pc \in {"quarantine", "launched", "idle"}
        /\ pc = "launched" => o.answer = "allowed"
    OBVIOUS
  <2> HIDE DEF i, pc
  <2>5. r \in Ops /\ r.inv = NoEntry /\ r.at = o.at /\ r.pc = pc /\ r.answer = o.answer
    BY <1>1, <2>4, NoEntryFounded DEF Ops
  <2> HIDE DEF r
  <2>6. op' \in [Procs -> Ops] /\ op'[p] = r /\ \A q \in Procs \ {p} : op'[q] = op[q]
    BY <1>1, <2>1, <2>5
  <2>7. streak' \subseteq deniedAt'
    BY <2>1, <2>2, <1>1 DEF TypeOK
  <2>8. TypeOK'
    BY <1>1, <2>1, <2>3, <2>6, <2>7 DEF TypeOK, Ops
  <2>9. r.pc = "launched" => r.at < allowedAt + TTL
    BY <1>1, <2>2, <2>4, <2>5, ConstantsAssumption DEF Times
  <2>10. /\ {p} \in SUBSET Procs
         /\ \A q \in {p} : /\ op'[q].at <= now'
                           /\ FoundedOn(op'[q].inv, allowedAt', deniedAt')
                           /\ AnswerOn(op'[q], allowedAt', deniedAt')
                           /\ q \in Gates /\ op'[q].pc = "launched" => op'[q].at < allowedAt' + TTL
    BY <1>2, <1>4, <2>1, <2>4, <2>5, <2>6, <2>9 DEF AnswerOn
  <2>11. /\ allowedAt <= allowedAt' /\ allowedAt' <= now' /\ deniedAt \subseteq deniedAt'
         /\ now <= now' /\ mounted' = mounted /\ FoundedOn(inv', allowedAt', deniedAt')
    BY <1>2, <2>1, <2>3
  <2> QED
    BY <2>6, <2>8, <2>10, <2>11, Grounds
<1> QED
  BY <1>5, <1>6

\* The quarantine removes the checkout of a confirmed entry only.
LEMMA QuarantineKeeps ==
  ASSUME EvidenceInv, NEW p \in Procs, Quarantine(p)
  PROVE  EvidenceInv'
<1>1. /\ TypeOK /\ Idle \in Ops /\ Idle.inv = NoEntry /\ Idle.pc = "idle" /\ now \in Times
      /\ op \in [Procs -> Ops] /\ allowedAt \in Times /\ lastRun \in Times
  BY OpTypes DEF EvidenceInv, TypeOK, Ops
<1>2. /\ now <= now /\ Idle.at <= now /\ allowedAt <= now /\ allowedAt <= allowedAt
  BY <1>1, ConstantsAssumption DEF EvidenceInv, Idle, Times
<1>3. NoEntry \in Entries /\ FoundedOn(NoEntry, allowedAt, deniedAt)
  BY <1>1, NoEntryFounded
<1>4. /\ op' = [op EXCEPT ![p] = Idle] /\ lastRun' \in Times
      /\ UNCHANGED <<now, granted, changes, unknowns, revokedAt, allowedAt, deniedAt, streak>>
  BY <1>1 DEF Quarantine, Return, history
<1>5. /\ inv' = inv \/ inv' = NoEntry
      /\ mounted' \in BOOLEAN /\ failures' \in 0..MaxFailures
      /\ ~mounted' => ~mounted \/ inv.confirmed
  <2>1. failures' \in 0..MaxFailures
    <3>1. failures \in 0..MaxFailures
      BY <1>1 DEF TypeOK
    <3>2. failures' = failures \/ (failures < MaxFailures /\ failures' = failures + 1)
      BY DEF Quarantine
    <3> QED
      BY <3>1, <3>2, ConstantsAssumption
  <2>2. mounted' = mounted \/ (mounted' = FALSE /\ inv.confirmed)
    BY DEF Quarantine
  <2>3. inv' = inv \/ inv' = NoEntry
    BY DEF Quarantine
  <2> QED
    BY <1>1, <2>1, <2>2, <2>3, Zenon DEF TypeOK
<1>6. inv' \in Entries /\ op' \in [Procs -> Ops] /\ op'[p] = Idle
      /\ \A q \in Procs \ {p} : op'[q] = op[q]
  BY <1>1, <1>3, <1>4, <1>5 DEF TypeOK
<1>7. TypeOK'
  BY <1>1, <1>4, <1>5, <1>6 DEF TypeOK, Ops
<1>8. /\ inv' = inv \/ FoundedOn(inv', allowedAt', deniedAt')
      /\ ~mounted' => ~mounted \/ Spaced(deniedAt', Required)
  BY <1>3, <1>4, <1>5 DEF EvidenceInv, FoundedOn
<1>9. /\ {p} \in SUBSET Procs
      /\ \A q \in {p} : /\ op'[q].at <= now'
                        /\ FoundedOn(op'[q].inv, allowedAt', deniedAt')
                        /\ AnswerOn(op'[q], allowedAt', deniedAt')
                        /\ q \in Gates /\ op'[q].pc = "launched" => op'[q].at < allowedAt' + TTL
  BY <1>1, <1>2, <1>3, <1>4, <1>6 DEF AnswerOn
<1>10. /\ allowedAt <= allowedAt' /\ allowedAt' <= now' /\ deniedAt \subseteq deniedAt'
       /\ now <= now'
  BY <1>2, <1>4
<1> QED
  BY <1>6, <1>7, <1>8, <1>9, <1>10, Grounds

\* Time passes, access changes, or nothing does.
LEMMA OutsideKeeps ==
  ASSUME EvidenceInv, Tick \/ ChangeAccess \/ UNCHANGED vars
  PROVE  EvidenceInv'
<1>1. TypeOK /\ now \in Times /\ allowedAt \in Times /\ allowedAt <= now
  BY DEF EvidenceInv, TypeOK
<1>2. UNCHANGED <<mounted, inv, op, lastRun, unknowns, failures, allowedAt, deniedAt, streak>>
  BY DEF Tick, ChangeAccess, vars, env, history
<1>3. now' \in Times /\ now <= now'
  BY <1>1, ConstantsAssumption DEF Tick, ChangeAccess, vars, env, Times
<1>4. granted' \in BOOLEAN /\ changes' \in 0..MaxChanges /\ revokedAt' \in Times
  <2>1. granted' \in BOOLEAN
    BY <1>1, Zenon DEF Tick, ChangeAccess, vars, env, TypeOK
  <2>2. changes' \in 0..MaxChanges
    <3>1. changes \in 0..MaxChanges
      BY <1>1 DEF TypeOK
    <3>2. changes' = changes \/ (changes < MaxChanges /\ changes' = changes + 1)
      BY DEF Tick, ChangeAccess, vars, env
    <3> QED
      BY <3>1, <3>2, ConstantsAssumption
  <2>3. revokedAt' \in Times
    <3>1. revokedAt' \in {revokedAt, now, 0}
      BY DEF Tick, ChangeAccess, vars, env
    <3> QED
      BY <1>1, <3>1, ConstantsAssumption DEF TypeOK, Times
  <2> QED
    BY <2>1, <2>2, <2>3
<1>5. TypeOK'
  BY <1>1, <1>2, <1>3, <1>4 DEF TypeOK
<1>6. /\ {} \in SUBSET Procs /\ \A q \in Procs \ {} : op'[q] = op[q]
      /\ inv' = inv /\ mounted' = mounted /\ deniedAt \subseteq deniedAt'
      /\ allowedAt <= allowedAt' /\ allowedAt' <= now'
  BY <1>1, <1>2, <1>3, ConstantsAssumption DEF Times
<1> QED
  BY <1>3, <1>5, <1>6, Grounds, Zenon

\* Every step keeps the invariant,
LEMMA EvidenceStep == EvidenceInv /\ [Next]_vars => EvidenceInv'
<1> SUFFICES ASSUME EvidenceInv, [Next]_vars PROVE EvidenceInv'
  OBVIOUS
<1>1. ASSUME NEW p \in Monitors, MonitorSkip(p) \/ MonitorAsk(p) PROVE EvidenceInv'
  BY <1>1, MonitorKeeps DEF Procs
<1>2. ASSUME NEW p \in Gates, GateStart(p) \/ GateAsk(p) \/ GateAskLive(p) \/ GateDone(p)
      PROVE  EvidenceInv'
  BY <1>2, GateKeeps
<1>3. ASSUME NEW p \in Activators, ActivateAsk(p) PROVE EvidenceInv'
  BY <1>3, LoadKeeps DEF Procs
<1>4. ASSUME NEW p \in Procs, LoadForObservation(p) \/ LoadForActivation(p) PROVE EvidenceInv'
  BY <1>4, LoadKeeps
<1>5. ASSUME NEW p \in Procs, SaveObservation(p) \/ SavePositive(p) PROVE EvidenceInv'
  BY <1>5, SaveKeeps
<1>6. ASSUME NEW p \in Procs, Quarantine(p) PROVE EvidenceInv'
  BY <1>6, QuarantineKeeps
<1>7. CASE Tick \/ ChangeAccess \/ UNCHANGED vars
  BY <1>7, OutsideKeeps
<1> QED
  BY <1>1, <1>2, <1>3, <1>4, <1>5, <1>6, <1>7 DEF Next

\* which holds before anything has been observed.
LEMMA EvidenceInit == Init => EvidenceInv
<1> SUFFICES ASSUME Init PROVE EvidenceInv
  OBVIOUS
<1>1. 0 \in Times /\ 1 \in Times /\ NoEntry \in Entries /\ FoundedOn(NoEntry, 0, {})
  BY NoEntryFounded, ConstantsAssumption DEF Times
<1>2. Idle \in Ops
  BY <1>1 DEF Idle, Ops, Answers, Unknown
<1>3. TypeOK
  BY <1>1, <1>2, ConstantsAssumption DEF Init, TypeOK, Ops
<1>4. ASSUME NEW p \in Procs PROVE Good(op[p]) /\ op[p].at <= now /\ op[p].pc = "idle"
  BY <1>1 DEF Init, Idle, Good, AnswerOn
<1>5. LaunchMeansAllowed
  BY <1>4 DEF LaunchMeansAllowed, Procs
<1> QED
  BY <1>1, <1>3, <1>4, <1>5 DEF Init, EvidenceInv

-----------------------------------------------------------------------------
(* Theorems *)

\* At all times entries, copies, answers and launches have their grounds.
THEOREM EvidenceInvariant == Spec => []EvidenceInv
<1>1. QED
  BY EvidenceInit, EvidenceStep, PTL DEF Spec

\* Each variable has its type (RecordObservation, RecordPositiveBatch and their
\* callers).
THEOREM TypeCorrect == Spec => []TypeOK
<1>1. EvidenceInv => TypeOK
  BY DEF EvidenceInv
<1> QED
  BY <1>1, EvidenceInvariant, PTL

\* However many monitors, gates and activations overwrite each other's saves
\* (nothing locks the inventory file), an entry is confirmed, and the checkout
\* removed, only after Required denials at least an Interval apart.
THEOREM DenialsAreSpaced == Spec => []ConfirmedMeansSpaced
<1>1. EvidenceInv => ConfirmedMeansSpaced
  BY DEF EvidenceInv, FoundedOn, ConfirmedMeansSpaced
<1> QED
  BY <1>1, EvidenceInvariant, PTL

\* A launch that requireGovernedLaunchAccess lets pass began within TTL of an
\* answer "allowed", whatever was recorded in between.
THEOREM LaunchesAreAllowed == Spec => []LaunchMeansAllowed
<1>1. EvidenceInv => LaunchMeansAllowed
  BY DEF EvidenceInv
<1> QED
  BY <1>1, EvidenceInvariant, PTL

\* What holds of commands that take any time holds of those that finish within
\* a tick, as the run has them.
THEOREM PromptImplementsSpec == PromptSpec => Spec
<1>1. [Next /\ (now' # now => Prompt)]_vars => [Next]_vars
  OBVIOUS
<1> QED
  BY <1>1, PTL DEF PromptSpec, Spec

-----------------------------------------------------------------------------
(* The time a revocation takes *)

Slack == Interval + Period

\* So long after a revocation n denials have been counted, at the latest.
Due(n) == Period + (n - 1) * Slack

\* Time has passed since access was revoked.
Past == revokedAt # 0 /\ now > revokedAt

\* The progress is confirmed by its count, counts denials only, and has a
\* baseline to be removed by.
EntryGood(i) ==
  /\ i.confirmed <=> i.count >= Required
  /\ i.count > 0 => i.state = "denied"
  /\ i.qualifying <= now
  /\ i.entry => i.base # 0

\* Monitors run within each Period, and access is gone since revokedAt.
ClockGood ==
  /\ 1 <= now /\ revokedAt <= now /\ lastRun <= now /\ now <= lastRun + Period
  /\ granted <=> revokedAt = 0

\* No command o is in progress but those of this tick; once time has passed
\* since the revocation they know of denials only.
CommandGood(o) ==
  /\ o.pc # "idle" => o.at = now
  /\ o.pc = "save" => o.inv.entry
  /\ Past /\ unknowns = 0 =>
       /\ o.pc \in {"observe", "save"} => o.answer = "denied"
       /\ o.pc \notin {"activate", "add"}

Basics ==
  /\ ClockGood
  /\ EntryGood(inv)
  /\ \A p \in Procs : EntryGood(op[p].inv) /\ CommandGood(op[p])

\* What the entry i becomes when it is observed now.
Counted(i) == Observed(i, "denied", now)

SameCount(i, j) ==
  Counted(i).count = Counted(j).count /\ Counted(i).qualifying = Counted(j).qualifying

OnTime(i) == i.count > 0 => i.qualifying <= revokedAt + Due(i.count)

\* The checkout should be on its way out.
Late == Past /\ mounted /\ unknowns = 0 /\ failures = 0

\* Each denial that is counted was counted on time, and it will be so of the
\* next one; the last run was before the revocation, or not an Interval after
\* the last denial that counted, or the checkout is about to be removed.
Schedule ==
  /\ OnTime(inv) /\ OnTime(Counted(inv))
  /\ now <= revokedAt + Bound
  /\ \/ lastRun <= revokedAt
     \/ inv.count > 0 /\ lastRun < inv.qualifying + Interval /\ inv.count < Required
     \/ \E p \in Procs : op[p].pc = "quarantine"

\* Whichever copy is saved in this tick, the same denials are counted.
CopiesAgree ==
  \A p \in Procs :
    /\ op[p].pc = "save" => inv.entry /\ SameCount(op[p].inv, inv)
    /\ op[p].pc = "quarantine" => inv.entry /\ inv.count = Required

TimelyInv ==
  /\ Basics
  /\ Late /\ inv.entry => Schedule
  /\ Late => CopiesAgree

\* The due times are a Slack apart, the last of them is the bound.
LEMMA DueFacts ==
  /\ Slack \in Nat /\ Period \in Nat \ {0} /\ Bound = Due(Required)
  /\ \A n \in Nat \ {0} : /\ Due(n) \in Nat /\ Period <= Due(n)
                          /\ Due(n + 1) = Due(n) + Slack
                          /\ n < Required => Due(n) + Slack <= Bound
<1>1. Slack \in Nat /\ Period \in Nat \ {0} /\ Required \in Nat /\ Required >= 2
  BY ConstantsAssumption DEF Slack
<1>2. Bound = Due(Required)
  BY DEF Bound, Due, Slack
<1>3. \A m \in Nat : m * Slack \in Nat /\ (m + 1) * Slack = m * Slack + Slack
  BY <1>1
<1>4. \A m, k \in Nat : m <= k => m * Slack <= k * Slack
  <2> SUFFICES ASSUME NEW m \in Nat, NEW k \in Nat, m <= k PROVE m * Slack <= k * Slack
    OBVIOUS
  <2>1. k - m \in Nat /\ k = m + (k - m)
    OBVIOUS
  <2>2. (k - m) * Slack \in Nat
    BY <1>1, <2>1
  <2>3. k * Slack = m * Slack + (k - m) * Slack
    BY <1>1, <2>1
  <2> QED
    BY <1>1, <1>3, <2>2, <2>3
<1>5. ASSUME NEW n \in Nat \ {0}
      PROVE  /\ Due(n) \in Nat /\ Period <= Due(n)
             /\ Due(n + 1) = Due(n) + Slack
             /\ n < Required => Due(n) + Slack <= Bound
  <2>1. n - 1 \in Nat /\ (n - 1) + 1 = n /\ (n + 1) - 1 = n
    OBVIOUS
  <2>2. (n - 1) * Slack \in Nat /\ n * Slack = (n - 1) * Slack + Slack
    BY <1>3, <2>1
  <2>3. Due(n) \in Nat /\ Period <= Due(n)
    BY <1>1, <2>2 DEF Due
  <2>4. Due(n + 1) = Period + n * Slack
    BY <2>1 DEF Due
  <2>5. Due(n + 1) = Due(n) + Slack
    BY <1>1, <2>2, <2>4 DEF Due
  <2>6. ASSUME n < Required PROVE Due(n) + Slack <= Bound
    <3>1. Required - 1 \in Nat /\ n <= Required - 1
      BY <1>1, <2>6
    <3>2. n * Slack <= (Required - 1) * Slack
      BY <1>4, <3>1
    <3>3. n * Slack \in Nat /\ (Required - 1) * Slack \in Nat
      BY <1>3, <3>1
    <3> QED
      BY <1>1, <2>4, <2>5, <3>2, <3>3 DEF Bound, Slack
  <2> QED
    BY <2>3, <2>5, <2>6
<1> QED
  BY <1>1, <1>2, <1>5

\* What a denial makes of an entry.
LEMMA DenialFacts ==
  ASSUME NEW i \in Entries, NEW t \in Times
  PROVE  LET e == Observed(i, "denied", t)
             counts == i.count = 0 \/ t >= i.qualifying + Interval
         IN  /\ e \in Entries /\ e.state = "denied" /\ e.base = i.base /\ e.entry = i.entry
             /\ e.count = IF counts /\ i.count < Required THEN i.count + 1 ELSE i.count
             /\ e.qualifying = IF counts THEN t ELSE i.qualifying
             /\ e.confirmed <=> (i.confirmed \/ e.count >= Required)
<1> DEFINE counts == i.count = 0 \/ t >= i.qualifying + Interval
           n == IF counts /\ i.count < Required THEN i.count + 1 ELSE i.count
           q == IF counts THEN t ELSE i.qualifying
           e == [i EXCEPT !.state = "denied", !.checked = t, !.count = n,
                          !.qualifying = q, !.confirmed = @ \/ n >= Required]
<1>1. Observed(i, "denied", t) = e
  BY DEF Observed
<1>2. n \in 0..Required /\ q \in Times
  BY ConstantsAssumption DEF Entries
<1>3. e.count = n /\ e.qualifying = q
  BY DEF Entries
<1> HIDE DEF n, q
<1>4. e \in Entries
  BY <1>2 DEF Entries
<1>5. e.state = "denied" /\ e.base = i.base /\ e.entry = i.entry
      /\ (e.confirmed <=> (i.confirmed \/ n >= Required))
  BY DEF Entries
<1> HIDE DEF e
<1> QED
  BY <1>1, <1>3, <1>4, <1>5 DEF n, q

\* A second denial in the same tick counts nothing.
LEMMA CountsOnce ==
  ASSUME NEW i \in Entries, TypeOK
  PROVE  /\ Counted(i) \in Entries
         /\ Counted(i).count > 0 /\ now < Counted(i).qualifying + Interval
         /\ i.count = Required => Counted(i).count = Required
         /\ SameCount(Counted(i), i)
<1> DEFINE e == Counted(i)
           f == Counted(e)
<1>1. now \in Times /\ i.count \in 0..Required /\ i.qualifying \in Times
  BY DEF TypeOK, Entries
<1>2. /\ e \in Entries
      /\ e.count = IF (i.count = 0 \/ now >= i.qualifying + Interval) /\ i.count < Required
                   THEN i.count + 1 ELSE i.count
      /\ e.qualifying = IF i.count = 0 \/ now >= i.qualifying + Interval
                        THEN now ELSE i.qualifying
  BY <1>1, DenialFacts DEF Counted
<1>3. /\ e.count > 0 /\ now < e.qualifying + Interval
      /\ i.count = Required => e.count = Required
  BY <1>1, <1>2, ConstantsAssumption DEF Times
<1>4. /\ f.count = IF (e.count = 0 \/ now >= e.qualifying + Interval) /\ e.count < Required
                   THEN e.count + 1 ELSE e.count
      /\ f.qualifying = IF e.count = 0 \/ now >= e.qualifying + Interval
                        THEN now ELSE e.qualifying
  BY <1>1, <1>2, DenialFacts DEF Counted
<1>5. e.count \in 0..Required /\ e.qualifying \in Times
  BY <1>2 DEF Entries
<1> HIDE DEF e
<1>6. f.count = e.count /\ f.qualifying = e.qualifying
  BY <1>1, <1>3, <1>4, <1>5, ConstantsAssumption DEF Times
<1> QED
  BY <1>2, <1>3, <1>6 DEF e, SameCount

\* What is to be shown of a step of a command p within a tick.
LEMMA BasicsKept ==
  ASSUME TypeOK, TypeOK', Basics, NEW p \in Procs, NEW r, op' = [op EXCEPT ![p] = r],
         UNCHANGED <<now, granted, revokedAt>>, lastRun' = lastRun \/ lastRun' = now,
         unknowns' = 0 => unknowns = 0,
         inv' = inv \/ EntryGood(inv'), EntryGood(r.inv),
         r.pc # "idle" => r.at = now,
         r.pc = "save" => r.inv.entry,
         Past /\ unknowns' = 0 =>
           /\ r.pc \in {"observe", "save"} => r.answer = "denied"
           /\ r.pc \notin {"activate", "add"}
  PROVE  Basics'
<1>1. now \in Times /\ lastRun \in Times /\ revokedAt \in Times
  BY DEF TypeOK
<1>2. ClockGood'
  BY <1>1, ConstantsAssumption DEF Basics, ClockGood, Times
<1>3. (EntryGood(inv))'
  BY DEF Basics, EntryGood
<1>4. op'[p] = r /\ \A q \in Procs \ {p} : op'[q] = op[q]
  BY DEF TypeOK
<1>5. ASSUME NEW q \in Procs PROVE (EntryGood(op[q].inv))'
  <2>1. CASE q = p
    BY <1>4, <2>1 DEF EntryGood
  <2>2. CASE q # p
    BY <1>4, <2>2 DEF Basics, EntryGood
  <2> QED
    BY <2>1, <2>2
<1>6. ASSUME NEW q \in Procs PROVE (CommandGood(op[q]))'
  <2>1. CASE q = p
    BY <1>4, <2>1 DEF CommandGood, Past
  <2>2. CASE q # p
    BY <1>4, <2>2 DEF Basics, CommandGood, Past
  <2> QED
    BY <2>1, <2>2
<1> QED
  BY <1>2, <1>3, <1>5, <1>6 DEF Basics

\* The counts that agree, agree at any step that leaves both entries and time.
LEMMA AsideTimely ==
  ASSUME TypeOK, TypeOK', TimelyInv, NEW p \in Procs, NEW r, op' = [op EXCEPT ![p] = r],
         UNCHANGED <<now, granted, revokedAt, inv, mounted, failures>>,
         lastRun' = lastRun, unknowns' = 0 => unknowns = 0,
         op[p].pc # "quarantine", r.pc # "quarantine",
         EntryGood(r.inv), r.pc # "idle" => r.at = now,
         r.pc = "save" => r.inv = inv /\ inv.entry,
         Past /\ unknowns' = 0 =>
           /\ r.pc \in {"observe", "save"} => r.answer = "denied"
           /\ r.pc \notin {"activate", "add"}
  PROVE  TimelyInv'
<1>1. Basics'
  BY BasicsKept DEF TimelyInv
<1>2. op'[p] = r /\ \A q \in Procs \ {p} : op'[q] = op[q]
  BY DEF TypeOK
<1>3. Late' => Late
  BY DEF Late, Past
<1>4. ASSUME Late', inv'.entry PROVE Schedule'
  <2>1. Schedule
    BY <1>3, <1>4 DEF TimelyInv
  <2>2. (OnTime(inv))' /\ (OnTime(Counted(inv)))' /\ now' <= revokedAt' + Bound
    BY <2>1 DEF Schedule, OnTime, Counted
  <2>3. ASSUME NEW q \in Procs, op[q].pc = "quarantine" PROVE op'[q].pc = "quarantine"
    BY <1>2, <2>3
  <2> QED
    BY <2>1, <2>2, <2>3 DEF Schedule
<1>5. ASSUME Late' PROVE CopiesAgree'
  <2> SUFFICES ASSUME NEW q \in Procs
               PROVE  /\ op'[q].pc = "save" => inv.entry /\ SameCount(op'[q].inv, inv)
                      /\ op'[q].pc = "quarantine" => inv.entry /\ inv.count = Required
    BY DEF CopiesAgree, SameCount, Counted
  <2>1. CASE q = p
    BY <1>2, <2>1 DEF SameCount
  <2>2. CASE q # p
    BY <1>2, <1>3, <1>5, <2>2 DEF TimelyInv, CopiesAgree
  <2> QED
    BY <2>1, <2>2
<1> QED
  BY <1>1, <1>4, <1>5 DEF TimelyInv

\* Nothing that is asked while access is gone is allowed.
LEMMA AskTimely ==
  ASSUME TypeOK, TimelyInv, NEW p \in Procs, NEW a \in Answers, NEW t, Ask(p, a, t)
  PROVE  /\ UNCHANGED <<now, granted, revokedAt, inv, mounted, failures>>
         /\ unknowns' = 0 => unknowns = 0
         /\ Past /\ unknowns' = 0 => a = "denied"
<1>1. unknowns \in 0..MaxUnknown
  BY DEF TypeOK
<1>2. unknowns' = 0 => unknowns = 0 /\ a \notin Unknown
  BY <1>1, ConstantsAssumption DEF Ask
<1>3. Past => ~granted
  BY DEF TimelyInv, Basics, ClockGood, Past
<1> QED
  BY <1>2, <1>3 DEF Ask, Replies

\* No entry is a good entry.
LEMMA IdleGood ==
  ASSUME TypeOK, Basics
  PROVE  /\ EntryGood(NoEntry) /\ Idle.inv = NoEntry /\ Idle.pc = "idle"
         /\ now \in Times
<1>1. now \in Times /\ 0 <= now
  BY ConstantsAssumption DEF TypeOK, Times
<1> QED
  BY <1>1, ConstantsAssumption DEF NoEntry, EntryGood, Idle

\* A monitor's run, or its question.
LEMMA MonitorTimely ==
  ASSUME TypeOK, TypeOK', TimelyInv, NEW p \in Procs, MonitorSkip(p) \/ MonitorAsk(p)
  PROVE  TimelyInv'
<1>1. /\ op[p] \in Ops /\ op = [op EXCEPT ![p] = op[p]] /\ op[p].pc = "idle"
      /\ EntryGood(op[p].inv) /\ EntryGood(NoEntry)
  BY IdleGood DEF TypeOK, Ops, MonitorSkip, MonitorAsk, TimelyInv, Basics
<1>2. CASE MonitorSkip(p)
  <2>1. /\ op' = [op EXCEPT ![p] = op[p]] /\ lastRun' = now
        /\ UNCHANGED <<mounted, inv, op, now, granted, unknowns, failures, revokedAt>>
    BY <1>1, <1>2 DEF MonitorSkip
  <2>2. Basics'
    <3>1. Basics
      BY DEF TimelyInv
    <3> QED
      BY <1>1, <2>1, <3>1, BasicsKept DEF Basics
  <2>3. ~(Late' /\ inv'.entry)
    BY <1>2, <2>1 DEF MonitorSkip, Late, TimelyInv, Basics, EntryGood
  <2>4. Late' => CopiesAgree'
    BY <2>1 DEF TimelyInv, Late, Past, CopiesAgree, SameCount, Counted
  <2> QED
    BY <2>2, <2>3, <2>4 DEF TimelyInv
<1>3. CASE MonitorAsk(p)
  <2>1. PICK a \in Answers :
          /\ Ask(p, a, now)
          /\ IF a = "no-actor"
             THEN lastRun' = now /\ UNCHANGED op
             ELSE /\ op' = [op EXCEPT ![p] = [pc |-> "observe", at |-> now, answer |-> a,
                                             inv |-> NoEntry]]
                  /\ UNCHANGED lastRun
    BY <1>3 DEF MonitorAsk
  <2>2. /\ UNCHANGED <<now, granted, revokedAt, inv, mounted, failures>>
        /\ unknowns' = 0 => unknowns = 0
        /\ Past /\ unknowns' = 0 => a = "denied"
    BY <2>1, AskTimely
  <2>3. CASE a = "no-actor"
    <3>1. unknowns' # 0
      BY <2>1, <2>3, ConstantsAssumption DEF Ask, Unknown, TypeOK
    <3>2. op' = [op EXCEPT ![p] = op[p]] /\ lastRun' = now
      BY <1>1, <2>1, <2>3
    <3>3. Basics'
      BY <1>1, <2>2, <3>1, <3>2, BasicsKept DEF TimelyInv
    <3> QED
      BY <3>1, <3>3 DEF TimelyInv, Late
  <2>4. CASE a # "no-actor"
    <3> DEFINE r == [pc |-> "observe", at |-> now, answer |-> a, inv |-> NoEntry]
    <3>1. op' = [op EXCEPT ![p] = r] /\ lastRun' = lastRun
      BY <2>1, <2>4
    <3>2. r.pc = "observe" /\ r.at = now /\ r.answer = a /\ r.inv = NoEntry
      OBVIOUS
    <3> HIDE DEF r
    <3> QED
      BY <1>1, <2>2, <3>1, <3>2, AsideTimely
  <2> QED
    BY <2>3, <2>4
<1> QED
  BY <1>2, <1>3

\* A launch gate.
LEMMA GateTimely ==
  ASSUME TypeOK, TypeOK', TimelyInv, NEW p \in Gates,
         GateStart(p) \/ GateAsk(p) \/ GateAskLive(p) \/ GateDone(p)
  PROVE  TimelyInv'
<1>1. /\ p \in Procs /\ op[p] \in Ops /\ EntryGood(op[p].inv) /\ CommandGood(op[p])
      /\ EntryGood(NoEntry) /\ Idle.inv = NoEntry /\ Idle.pc = "idle"
  BY IdleGood DEF TypeOK, Ops, TimelyInv, Basics, Procs
<1>2. op[p].pc # "quarantine"
  BY DEF GateStart, GateAsk, GateAskLive, GateDone
<1>3. CASE GateStart(p)
  <2> DEFINE pc == CASE ~mounted -> "idle"
                     [] mounted /\ inv.base = 0 -> "live"
                     [] mounted /\ inv.base # 0 /\ BlocksCached(inv) -> "idle"
                     [] OTHER -> IF now < inv.base + TTL THEN "launched" ELSE "ask"
             r == [Idle EXCEPT !.at = now, !.pc = pc]
  <2>1. pc \in {"idle", "live", "launched", "ask"}
    OBVIOUS
  <2>2. op' = [op EXCEPT ![p] = r]
    BY <1>3 DEF GateStart
  <2> HIDE DEF pc
  <2>3. r.inv = NoEntry /\ r.pc = pc /\ r.at = now
    BY DEF Idle
  <2> HIDE DEF r
  <2>4. UNCHANGED <<mounted, inv, now, granted, unknowns, failures, revokedAt, lastRun>>
    BY <1>3 DEF GateStart, env
  <2> QED
    BY <1>1, <1>2, <2>1, <2>2, <2>3, <2>4, AsideTimely
<1>4. CASE GateAsk(p)
  <2>1. PICK a \in Answers :
          /\ Ask(p, a, op[p].at)
          /\ op' = [op EXCEPT ![p] = IF a = "no-actor" THEN Idle
                                    ELSE [@ EXCEPT !.pc = "observe", !.answer = a]]
    BY <1>4 DEF GateAsk
  <2>2. /\ UNCHANGED <<now, granted, revokedAt, inv, mounted, failures>>
        /\ unknowns' = 0 => unknowns = 0
        /\ Past /\ unknowns' = 0 => a = "denied"
    BY <1>1, <2>1, AskTimely
  <2> DEFINE r == IF a = "no-actor" THEN Idle
                  ELSE [op[p] EXCEPT !.pc = "observe", !.answer = a]
  <2>3. op' = [op EXCEPT ![p] = r] /\ lastRun' = lastRun
    BY <1>1, <1>4, <2>1 DEF GateAsk
  <2>4. /\ r.inv = NoEntry \/ r.inv = op[p].inv
        /\ r.pc = "idle" \/ (r.pc = "observe" /\ r.at = op[p].at /\ r.answer = a)
    BY <1>1 DEF Ops
  <2> HIDE DEF r
  <2>5. op[p].at = now
    BY <1>1, <1>4 DEF GateAsk, CommandGood
  <2> QED
    BY <1>1, <1>2, <2>2, <2>3, <2>4, <2>5, AsideTimely
<1>5. CASE GateAskLive(p)
  <2>1. PICK a \in Answers :
          /\ Ask(p, a, op[p].at)
          /\ op' = [op EXCEPT ![p].pc = IF a = "allowed" THEN "launched" ELSE "idle"]
    BY <1>5 DEF GateAskLive
  <2>2. /\ UNCHANGED <<now, granted, revokedAt, inv, mounted, failures>>
        /\ unknowns' = 0 => unknowns = 0
    BY <1>1, <2>1, AskTimely
  <2> DEFINE r == [op[p] EXCEPT !.pc = IF a = "allowed" THEN "launched" ELSE "idle"]
  <2>3. op' = [op EXCEPT ![p] = r] /\ lastRun' = lastRun
    BY <1>1, <1>5, <2>1 DEF GateAskLive
  <2>4. /\ r.inv = op[p].inv /\ r.at = op[p].at
        /\ r.pc \in {"launched", "idle"}
    BY <1>1 DEF Ops
  <2> HIDE DEF r
  <2>5. op[p].at = now
    BY <1>1, <1>5 DEF GateAskLive, CommandGood
  <2> QED
    BY <1>1, <1>2, <2>2, <2>3, <2>4, <2>5, AsideTimely
<1>6. CASE GateDone(p)
  <2>1. /\ op' = [op EXCEPT ![p] = Idle]
        /\ UNCHANGED <<mounted, inv, now, granted, unknowns, failures, revokedAt, lastRun>>
    BY <1>6 DEF GateDone, Return, env
  <2> QED
    BY <1>1, <1>2, <2>1, AsideTimely
<1> QED
  BY <1>3, <1>4, <1>5, <1>6

\* An activation asks, and a command that observes or activates loads the file.
LEMMA LoadTimely ==
  ASSUME TypeOK, TypeOK', TimelyInv, NEW p \in Procs,
         ActivateAsk(p) \/ LoadForObservation(p) \/ LoadForActivation(p)
  PROVE  TimelyInv'
<1>1. /\ op[p] \in Ops /\ EntryGood(op[p].inv) /\ CommandGood(op[p]) /\ EntryGood(inv)
      /\ EntryGood(NoEntry) /\ Idle.inv = NoEntry /\ Idle.pc = "idle"
  BY IdleGood DEF TypeOK, Ops, TimelyInv, Basics
<1>2. op[p].pc # "quarantine"
  BY DEF ActivateAsk, LoadForObservation, LoadForActivation
<1>3. CASE ActivateAsk(p)
  <2>1. PICK a \in Answers :
          /\ Ask(p, a, now)
          /\ op' = IF a = "allowed"
                   THEN [op EXCEPT ![p] = [Idle EXCEPT !.pc = "activate", !.at = now, !.answer = a]]
                   ELSE op
    BY <1>3 DEF ActivateAsk
  <2>2. /\ UNCHANGED <<now, granted, revokedAt, inv, mounted, failures>>
        /\ unknowns' = 0 => unknowns = 0
        /\ Past /\ unknowns' = 0 => a = "denied"
    BY <2>1, AskTimely
  <2>3. lastRun' = lastRun
    BY <1>3 DEF ActivateAsk
  <2>4. CASE a = "allowed"
    <3> DEFINE r == [Idle EXCEPT !.pc = "activate", !.at = now, !.answer = a]
    <3>1. r.pc = "activate" /\ r.at = now /\ r.inv = NoEntry
      BY DEF Idle
    <3>2. op' = [op EXCEPT ![p] = r]
      BY <2>1, <2>4
    <3> HIDE DEF r
    <3> QED
      BY <1>1, <1>2, <2>2, <2>3, <2>4, <3>1, <3>2, AsideTimely
  <2>5. CASE a # "allowed"
    <3>1. op' = [op EXCEPT ![p] = op[p]]
      BY <2>1, <2>5 DEF TypeOK
    <3>2. op[p].pc = "idle"
      BY <1>3 DEF ActivateAsk
    <3> QED
      BY <1>1, <1>2, <2>2, <2>3, <3>1, <3>2, AsideTimely
  <2> QED
    BY <2>4, <2>5
<1>4. CASE LoadForObservation(p)
  <2> DEFINE r == IF mounted /\ inv.entry THEN [op[p] EXCEPT !.pc = "save", !.inv = inv] ELSE Idle
  <2>1. /\ op' = [op EXCEPT ![p] = r] /\ op[p].pc = "observe"
        /\ UNCHANGED <<mounted, inv, now, granted, unknowns, failures, revokedAt, lastRun>>
    BY <1>1, <1>4 DEF LoadForObservation, Return, env, Ops
  <2>2. \/ r = Idle
        \/ r.pc = "save" /\ r.inv = inv /\ inv.entry /\ r.at = op[p].at /\ r.answer = op[p].answer
    BY <1>1 DEF Ops
  <2> HIDE DEF r
  <2>3. op[p].at = now /\ (Past /\ unknowns = 0 => op[p].answer = "denied")
    BY <1>1, <2>1 DEF CommandGood
  <2> QED
    BY <1>1, <1>2, <2>1, <2>2, <2>3, AsideTimely
<1>5. CASE LoadForActivation(p)
  <2> DEFINE r == IF mounted THEN [op[p] EXCEPT !.pc = "add", !.inv = inv, !.at = now] ELSE Idle
  <2>1. /\ op' = [op EXCEPT ![p] = r] /\ op[p].pc = "activate"
        /\ UNCHANGED <<mounted, inv, now, granted, unknowns, failures, revokedAt, lastRun>>
    BY <1>1, <1>5 DEF LoadForActivation, Return, env, Ops
  <2>2. r = Idle \/ (r.pc = "add" /\ r.inv = inv /\ r.at = now)
    BY <1>1 DEF Ops
  <2> HIDE DEF r
  <2>3. ~(Past /\ unknowns = 0)
    BY <1>1, <2>1 DEF CommandGood
  <2> QED
    BY <1>1, <1>2, <2>1, <2>2, <2>3, AsideTimely
<1> QED
  BY <1>3, <1>4, <1>5

\* An observation of this tick makes a good entry of a good one.
LEMMA ObservedGood ==
  ASSUME TypeOK, NEW i \in Entries, EntryGood(i), 1 <= now,
         NEW answer \in {"allowed", "denied", "unknown"}
  PROVE  EntryGood(Observed(i, answer, now)) /\ Observed(i, answer, now).entry = i.entry
<1>1. now \in Times /\ 0 <= now /\ now # 0 /\ i.count \in 0..Required /\ i.qualifying \in Times
  BY ConstantsAssumption DEF TypeOK, Times, Entries
<1>2. CASE answer = "denied"
  <2> DEFINE e == Observed(i, "denied", now)
             counts == i.count = 0 \/ now >= i.qualifying + Interval
  <2>1. /\ e.state = "denied" /\ e.base = i.base /\ e.entry = i.entry
        /\ e.count = IF counts /\ i.count < Required THEN i.count + 1 ELSE i.count
        /\ e.qualifying = IF counts THEN now ELSE i.qualifying
        /\ e.confirmed <=> (i.confirmed \/ e.count >= Required)
    BY <1>1, DenialFacts
  <2> HIDE DEF e
  <2>2. e.qualifying <= now
    BY <1>1, <2>1, ConstantsAssumption DEF EntryGood, Times
  <2>3. e.confirmed <=> e.count >= Required
    BY <1>1, <2>1, ConstantsAssumption DEF EntryGood
  <2> QED
    BY <1>2, <2>1, <2>2, <2>3 DEF EntryGood, e
<1>3. CASE answer # "denied"
  <2>1. /\ Reset(i, answer).count = 0 /\ ~Reset(i, answer).confirmed
        /\ Reset(i, answer).qualifying = 0 /\ Reset(i, answer).entry = i.entry
        /\ Reset(i, answer).base = i.base
        /\ Reset(i, answer) \in [entry : BOOLEAN, base : Times,
                                 state : {"allowed", "unknown"}, count : {0},
                                 qualifying : {0}, confirmed : BOOLEAN, checked : Times]
    BY <1>3 DEF Reset, Entries
  <2> DEFINE e == Observed(i, answer, now)
  <2>2. /\ e.count = 0 /\ ~e.confirmed /\ e.qualifying = 0 /\ e.entry = i.entry
        /\ e.base = i.base \/ e.base = now
    BY <1>3, <2>1 DEF Observed
  <2> HIDE DEF e
  <2> QED
    BY <1>1, <2>2, ConstantsAssumption DEF EntryGood, e
<1> QED
  BY <1>2, <1>3

\* A baseline is saved only in the tick of an answer "allowed".
LEMMA PositiveTimely ==
  ASSUME TypeOK, TypeOK', TimelyInv, NEW p \in Procs, SavePositive(p)
  PROVE  TimelyInv'
<1> DEFINE i == Activated(op[p].inv, op[p].at)
<1>1. /\ op[p] \in Ops /\ op[p].inv \in Entries /\ EntryGood(op[p].inv) /\ CommandGood(op[p])
      /\ EntryGood(NoEntry) /\ Idle.inv = NoEntry /\ Idle.pc = "idle" /\ now \in Times /\ 1 <= now
  BY IdleGood DEF TypeOK, Ops, TimelyInv, Basics, ClockGood
<1>2. /\ op[p].pc = "add" /\ inv' = i /\ op' = [op EXCEPT ![p] = Idle]
      /\ UNCHANGED <<mounted, now, granted, lastRun, unknowns, failures, revokedAt>>
  BY DEF SavePositive, Return, env
<1>3. op[p].at = now /\ ~(Past /\ unknowns = 0)
  BY <1>1, <1>2 DEF CommandGood
<1>4. i.count = op[p].inv.count /\ i.confirmed = op[p].inv.confirmed /\ i.base = now
      /\ i.state = op[p].inv.state /\ i.qualifying = op[p].inv.qualifying
  BY <1>1, <1>3 DEF Activated, Entries
<1> HIDE DEF i
<1>5. EntryGood(inv')
  <2>1. now # 0
    BY <1>1, ConstantsAssumption DEF Times
  <2> QED
    BY <1>1, <1>2, <1>4, <2>1 DEF EntryGood
<1>6. Basics'
  BY <1>1, <1>2, <1>5, BasicsKept DEF TimelyInv
<1> QED
  BY <1>2, <1>3, <1>6 DEF TimelyInv, Late, Past

\* A denial is saved, whichever copy it is added to.
LEMMA ObservationTimely ==
  ASSUME TypeOK, TypeOK', TimelyInv, NEW p \in Procs, SaveObservation(p),
         op[p].answer # "no-actor"
  PROVE  TimelyInv'
<1> DEFINE o == op[p]
           i == Observed(o.inv, o.answer, o.at)
           pc == CASE CleanupEligible(i) -> "quarantine"
                   [] ~CleanupEligible(i) /\ p \in Gates /\ o.answer = "allowed" -> "launched"
                   [] OTHER -> "idle"
           r == [o EXCEPT !.inv = NoEntry, !.pc = pc]
<1>1. /\ o \in Ops /\ o.inv \in Entries /\ EntryGood(o.inv) /\ CommandGood(o)
      /\ EntryGood(NoEntry) /\ now \in Times /\ 1 <= now /\ inv \in Entries
      /\ op \in [Procs -> Ops]
  BY IdleGood DEF TypeOK, Ops, TimelyInv, Basics, ClockGood
<1>2. /\ o.pc = "save" /\ inv' = i /\ op' = [op EXCEPT ![p] = r]
      /\ lastRun' = lastRun \/ lastRun' = now
      /\ UNCHANGED <<mounted, now, granted, unknowns, failures, revokedAt>>
  BY <1>1 DEF SaveObservation, Ops
<1>3. /\ o.at = now /\ o.inv.entry /\ o.answer \in {"allowed", "denied", "unknown"}
      /\ (Past /\ unknowns = 0 => o.answer = "denied")
  BY <1>1, <1>2 DEF CommandGood, Ops, Answers, Unknown
<1>4. EntryGood(i) /\ i.entry
  BY <1>1, <1>3, ObservedGood
<1>5. /\ pc \in {"quarantine", "launched", "idle"}
      /\ pc = "quarantine" <=> CleanupEligible(i)
  OBVIOUS
<1>6. Late => i = Counted(o.inv)
  BY <1>3 DEF Late, Counted
<1> HIDE DEF i, pc
<1>7. r.inv = NoEntry /\ r.at = now /\ r.pc = pc
  BY <1>1, <1>3 DEF Ops
<1> HIDE DEF r
<1>8. op'[p] = r /\ \A q \in Procs \ {p} : op'[q] = op[q]
  BY <1>1, <1>2
<1>9. Basics'
  BY <1>1, <1>2, <1>4, <1>5, <1>7, BasicsKept DEF TimelyInv
<1>10. Late' => Late
  BY <1>2 DEF Late, Past
<1>11. ASSUME Late' PROVE inv'.entry /\ Schedule' /\ CopiesAgree'
  <2>1. Late /\ CopiesAgree /\ inv.entry /\ Schedule /\ SameCount(o.inv, inv)
    BY <1>2, <1>10, <1>11 DEF TimelyInv, CopiesAgree
  <2>2. /\ i \in Entries /\ i.count > 0 /\ now < i.qualifying + Interval
        /\ SameCount(i, o.inv)
        /\ i.count = Counted(inv).count /\ i.qualifying = Counted(inv).qualifying
    BY <1>1, <1>6, <2>1, CountsOnce DEF SameCount
  <2>3. /\ Counted(i).count = i.count /\ Counted(i).qualifying = i.qualifying
    BY <2>1, <2>2 DEF SameCount
  <2>4. OnTime(i) /\ OnTime(Counted(i)) /\ now <= revokedAt + Bound
    BY <2>1, <2>2, <2>3 DEF Schedule, OnTime
  <2>5. /\ (OnTime(inv))' /\ (OnTime(Counted(inv)))' /\ now' <= revokedAt' + Bound
    BY <1>2, <2>4 DEF OnTime, Counted
  <2>6. CleanupEligible(i) <=> i.count >= Required
    BY <1>4, <2>2 DEF CleanupEligible, EntryGood
  <2>7. ASSUME CleanupEligible(i) PROVE Schedule'
    <3>1. \E q \in Procs : op'[q].pc = "quarantine"
      BY <1>5, <1>7, <1>8, <2>7
    <3> QED
      BY <1>2, <1>4, <2>5, <3>1, <2>2 DEF Schedule
  <2>8. ASSUME ~CleanupEligible(i) PROVE Schedule'
    <3>1. i.count < Required
      BY <2>2, <2>6, <2>8, ConstantsAssumption DEF Entries
    <3>2. lastRun' < i.qualifying + Interval
      <4>1. lastRun \in Times /\ lastRun <= now /\ i.qualifying \in Times
        BY <2>2 DEF TypeOK, TimelyInv, Basics, ClockGood, Entries
      <4> QED
        BY <1>1, <1>2, <2>2, <4>1, ConstantsAssumption DEF Times
    <3> QED
      BY <1>2, <1>4, <2>2, <2>5, <3>1, <3>2 DEF Schedule
  <2>9. CopiesAgree'
    <3> SUFFICES ASSUME NEW q \in Procs
                 PROVE  /\ op'[q].pc = "save" => i.entry /\ SameCount(op'[q].inv, i)
                        /\ op'[q].pc = "quarantine" => i.entry /\ i.count = Required
      BY <1>2 DEF CopiesAgree, SameCount, Counted
    <3>1. CASE q = p
      BY <1>4, <1>5, <1>7, <1>8, <2>2, <2>6, <3>1, ConstantsAssumption DEF Entries
    <3>2. CASE q # p
      <4>1. op'[q] = op[q]
        BY <1>8, <3>2
      <4>2. op[q].pc = "save" => SameCount(op[q].inv, i)
        BY <2>1, <2>2, <2>3 DEF CopiesAgree, SameCount
      <4>3. op[q].pc = "quarantine" => i.count = Required
        BY <1>1, <2>1, <2>2, CountsOnce DEF CopiesAgree
      <4> QED
        BY <1>4, <4>1, <4>2, <4>3
    <3> QED
      BY <3>1, <3>2
  <2> QED
    BY <1>2, <1>4, <2>7, <2>8, <2>9
<1> QED
  BY <1>9, <1>11 DEF TimelyInv

\* A quarantine that was due removes the checkout or fails.
LEMMA QuarantineTimely ==
  ASSUME TypeOK, TypeOK', TimelyInv, NEW p \in Procs, Quarantine(p)
  PROVE  TimelyInv'
<1>1. /\ EntryGood(inv) /\ EntryGood(NoEntry) /\ Idle.inv = NoEntry /\ Idle.pc = "idle"
      /\ failures \in 0..MaxFailures
  BY IdleGood DEF TypeOK, TimelyInv, Basics
<1>2. /\ op[p].pc = "quarantine" /\ op' = [op EXCEPT ![p] = Idle]
      /\ lastRun' = lastRun \/ lastRun' = now
      /\ inv' = inv \/ inv' = NoEntry
      /\ UNCHANGED <<now, granted, unknowns, revokedAt>>
  BY DEF Quarantine, Return
<1>3. /\ mounted' => mounted
      /\ failures' = 0 => failures = 0
  BY <1>1, ConstantsAssumption DEF Quarantine
<1>4. Basics'
  <2>1. EntryGood(inv')
    BY <1>1, <1>2
  <2> QED
    BY <1>1, <1>2, <2>1, BasicsKept DEF TimelyInv
<1>5. ~Late'
  <2> SUFFICES ASSUME Late' PROVE FALSE
    OBVIOUS
  <2>1. Late
    BY <1>2, <1>3 DEF Late, Past
  <2>2. inv.entry /\ inv.count = Required /\ mounted /\ failures = 0
    BY <1>2, <2>1 DEF TimelyInv, CopiesAgree, Late
  <2>3. inv.base # 0 /\ inv.state = "denied" /\ inv.confirmed
    BY <1>1, <2>2, ConstantsAssumption DEF EntryGood
  <2>4. ~mounted' \/ failures' = failures + 1
    BY <2>2, <2>3, Zenon DEF Quarantine
  <2> QED
    BY <2>2, <2>4 DEF Late
<1> QED
  BY <1>4, <1>5 DEF TimelyInv

\* Time passes when no command is in progress, and no further than a run of
\* the monitor away.
LEMMA TickTimely ==
  ASSUME Monitors # {}, TypeOK, TypeOK', TimelyInv, Tick, Prompt
  PROVE  TimelyInv'
<1>1. /\ now \in Times /\ revokedAt \in Times /\ lastRun \in Times /\ now' \in Times
      /\ inv \in Entries /\ inv.count \in 0..Required /\ inv.qualifying \in Times
      /\ 1 <= now /\ revokedAt <= now /\ lastRun <= now /\ (granted <=> revokedAt = 0)
  BY DEF TypeOK, Entries, TimelyInv, Basics, ClockGood
<1>2. /\ now' = now + 1 /\ now < lastRun + Period
      /\ UNCHANGED <<mounted, inv, op, granted, lastRun, unknowns, failures, revokedAt>>
  BY DEF Tick
<1>3. \A q \in Procs : op'[q].pc = "idle"
  BY <1>2 DEF Prompt
<1>4. now' <= lastRun + Period /\ now < now'
  BY <1>1, <1>2, ConstantsAssumption DEF Times
<1>5. Basics'
  <2>1. ClockGood'
    BY <1>1, <1>2, <1>4, ConstantsAssumption DEF ClockGood, Times
  <2>2. \A i \in Entries : EntryGood(i) => i.qualifying <= now'
    BY <1>1, <1>2, ConstantsAssumption DEF EntryGood, Entries, Times
  <2>3. (EntryGood(inv))'
    BY <1>1, <1>2, <2>2 DEF TimelyInv, Basics, EntryGood
  <2>4. ASSUME NEW q \in Procs PROVE (EntryGood(op[q].inv))' /\ (CommandGood(op[q]))'
    <3>1. op[q].inv \in Entries /\ EntryGood(op[q].inv)
      BY DEF TypeOK, TimelyInv, Basics
    <3> QED
      BY <1>2, <1>3, <2>2, <3>1 DEF EntryGood, CommandGood
  <2> QED
    BY <2>1, <2>3, <2>4 DEF Basics
<1>6. ASSUME Late', inv'.entry PROVE Schedule'
  <2>1. OnTime(inv) /\ (\/ lastRun <= revokedAt
                        \/ /\ inv.count > 0 /\ lastRun < inv.qualifying + Interval
                           /\ inv.count < Required)
    <3>1. CASE now = revokedAt
      <4>1. lastRun <= revokedAt /\ inv.qualifying <= revokedAt
        BY <1>1, <3>1 DEF TimelyInv, Basics, EntryGood
      <4>2. inv.count > 0 => Due(inv.count) \in Nat
        BY <1>1, DueFacts, ConstantsAssumption
      <4> QED
        BY <1>1, <4>1, <4>2, ConstantsAssumption DEF OnTime, Times
    <3>2. CASE now # revokedAt
      <4>1. Late /\ inv.entry
        BY <1>1, <1>2, <1>6, <3>2, ConstantsAssumption DEF Late, Past, Times
      <4> QED
        BY <4>1 DEF TimelyInv, Schedule, Prompt
    <3> QED
      BY <3>1, <3>2
  <2> DEFINE e == Observed(inv, "denied", now')
             counts == inv.count = 0 \/ now' >= inv.qualifying + Interval
  <2>2. /\ e.count = IF counts /\ inv.count < Required THEN inv.count + 1 ELSE inv.count
        /\ e.qualifying = IF counts THEN now' ELSE inv.qualifying
    BY <1>1, DenialFacts
  <2> HIDE DEF e
  <2>3. now' <= revokedAt + Bound /\ (e.count > 0 => e.qualifying <= revokedAt + Due(e.count))
    <3>1. /\ Required \in Nat \ {0} /\ Bound = Due(Required) /\ Due(Required) \in Nat
          /\ Period <= Due(Required) /\ Slack = Interval + Period
      BY DueFacts, ConstantsAssumption DEF Slack
    <3>2. CASE lastRun <= revokedAt
      <4>1. now' <= revokedAt + Period
        BY <1>1, <1>4, <3>2, ConstantsAssumption DEF Times
      <4>2. e.count > 0 => e.count \in Nat \ {0}
        BY <1>1, <2>2, ConstantsAssumption
      <4>3. e.count > 0 => Due(e.count) \in Nat /\ Period <= Due(e.count)
        BY <4>2, DueFacts
      <4>4. now' <= revokedAt + Bound
        BY <1>1, <3>1, <4>1, ConstantsAssumption DEF Times
      <4>5. ASSUME e.count > 0, counts PROVE e.qualifying <= revokedAt + Due(e.count)
        BY <1>1, <2>2, <4>1, <4>3, <4>5, ConstantsAssumption DEF Times
      <4>6. ASSUME e.count > 0, ~counts PROVE e.qualifying <= revokedAt + Due(e.count)
        BY <2>1, <2>2, <4>6 DEF OnTime
      <4> QED
        BY <4>4, <4>5, <4>6
    <3>3. CASE inv.count > 0 /\ lastRun < inv.qualifying + Interval /\ inv.count < Required
      <4>1. /\ Due(inv.count) \in Nat /\ Due(inv.count + 1) = Due(inv.count) + Slack
            /\ Due(inv.count) + Slack <= Bound /\ Slack \in Nat
        BY <1>1, <3>3, DueFacts, ConstantsAssumption
      <4>2. inv.qualifying <= revokedAt + Due(inv.count)
        BY <2>1, <3>3 DEF OnTime
      <4>3. now' <= revokedAt + (Due(inv.count) + Slack)
        BY <1>1, <1>4, <3>1, <3>3, <4>1, <4>2, ConstantsAssumption DEF Times
      <4>4. now' <= revokedAt + Bound
        BY <1>1, <3>1, <4>1, <4>3, ConstantsAssumption DEF Times
      <4>5. CASE counts
        BY <2>2, <3>3, <4>1, <4>3, <4>4, <4>5
      <4>6. CASE ~counts
        BY <2>2, <4>2, <4>4, <4>6
      <4> QED
        BY <4>5, <4>6
    <3> QED
      BY <2>1, <3>2, <3>3
  <2>4. (OnTime(inv))'
    BY <1>2, <2>1 DEF OnTime
  <2>5. (OnTime(Counted(inv)))'
    BY <1>2, <2>3 DEF OnTime, Counted, e
  <2> QED
    BY <1>2, <2>1, <2>3, <2>4, <2>5 DEF Schedule
<1>7. CopiesAgree'
  BY <1>3 DEF CopiesAgree
<1> QED
  BY <1>5, <1>6, <1>7 DEF TimelyInv

\* Access changes: a revocation starts the clock.
LEMMA ChangeTimely ==
  ASSUME TypeOK, TypeOK', TimelyInv, ChangeAccess
  PROVE  TimelyInv'
<1>1. now \in Times /\ 1 <= now /\ ClockGood
  BY DEF TypeOK, TimelyInv, Basics, ClockGood
<1>2. /\ granted' = ~granted /\ revokedAt' = IF granted THEN now ELSE 0
      /\ UNCHANGED <<mounted, inv, op, now, lastRun, unknowns, failures>>
  BY DEF ChangeAccess
<1>3. ~Past'
  BY <1>1, <1>2, ConstantsAssumption DEF Past, Times
<1>4. ClockGood'
  <2>1. 0 <= now /\ now <= now /\ now # 0
    BY <1>1, ConstantsAssumption DEF Times
  <2>2. granted => revokedAt' = now /\ ~granted'
    BY <1>2
  <2>3. ~granted => revokedAt' = 0 /\ granted'
    BY <1>2
  <2>4. revokedAt' <= now /\ (granted' <=> revokedAt' = 0)
    BY <2>1, <2>2, <2>3
  <2> QED
    BY <1>1, <1>2, <2>4 DEF ClockGood
<1>5. Basics'
  BY <1>2, <1>3, <1>4 DEF TimelyInv, Basics, EntryGood, CommandGood
<1> QED
  BY <1>3, <1>5 DEF TimelyInv, Late

\* Every step of commands that finish within a tick keeps the schedule.
LEMMA TimelyStep ==
  ASSUME Monitors # {}, EvidenceInv, TypeOK', TimelyInv,
         [Next /\ (now' # now => Prompt)]_vars
  PROVE  TimelyInv'
<1>1. TypeOK /\ \A p \in Procs : op[p].pc = "save" => op[p].answer # "no-actor"
  BY DEF EvidenceInv, Good, AnswerOn
<1>2. ASSUME NEW p \in Monitors, MonitorSkip(p) \/ MonitorAsk(p) PROVE TimelyInv'
  BY <1>1, <1>2, MonitorTimely DEF Procs
<1>3. ASSUME NEW p \in Gates, GateStart(p) \/ GateAsk(p) \/ GateAskLive(p) \/ GateDone(p)
      PROVE  TimelyInv'
  BY <1>1, <1>3, GateTimely
<1>4. ASSUME NEW p \in Activators, ActivateAsk(p) PROVE TimelyInv'
  BY <1>1, <1>4, LoadTimely DEF Procs
<1>5. ASSUME NEW p \in Procs, LoadForObservation(p) \/ LoadForActivation(p) PROVE TimelyInv'
  BY <1>1, <1>5, LoadTimely
<1>6. ASSUME NEW p \in Procs, SaveObservation(p) PROVE TimelyInv'
  <2>1. op[p].answer # "no-actor"
    BY <1>1, <1>6 DEF SaveObservation
  <2> QED
    BY <1>1, <1>6, <2>1, ObservationTimely
<1>7. ASSUME NEW p \in Procs, SavePositive(p) PROVE TimelyInv'
  BY <1>1, <1>7, PositiveTimely
<1>8. ASSUME NEW p \in Procs, Quarantine(p) PROVE TimelyInv'
  BY <1>1, <1>8, QuarantineTimely
<1>9. CASE Tick /\ Prompt
  BY <1>1, <1>9, TickTimely
<1>10. CASE ChangeAccess
  BY <1>1, <1>10, ChangeTimely
<1>11. CASE UNCHANGED vars
  BY <1>11 DEF vars, env, history, TimelyInv, Basics, ClockGood, EntryGood, CommandGood,
              Late, Past, Schedule, CopiesAgree, SameCount, OnTime, Counted
<1>12. Tick => now' # now
  BY <1>1, ConstantsAssumption DEF Tick, TypeOK, Times
<1> QED
  BY <1>2, <1>3, <1>4, <1>5, <1>6, <1>7, <1>8, <1>9, <1>10, <1>11, <1>12 DEF Next

\* At first access is granted, and the monitor has just run.
LEMMA TimelyInit == Init => TimelyInv
<1> SUFFICES ASSUME Init PROVE TimelyInv
  OBVIOUS
<1>1. 1 <= 1 + Period /\ ~(NoEntry.count >= Required) /\ ~NoEntry.confirmed
  BY ConstantsAssumption DEF NoEntry
<1>2. ClockGood /\ ~Past
  BY <1>1 DEF Init, ClockGood, Past
<1>3. EntryGood(NoEntry)
  BY <1>1 DEF Init, EntryGood, NoEntry
<1>4. ASSUME NEW p \in Procs PROVE EntryGood(op[p].inv) /\ CommandGood(op[p])
  BY <1>3 DEF Init, Idle, CommandGood
<1> QED
  BY <1>2, <1>3, <1>4 DEF Init, TimelyInv, Basics, Late

\* A revocation is removed within the monitor's period and Required - 1
\* intervals, each rounded up to a run of the monitor, unless the provider gave
\* no answer or the quarantine failed: with a monitor and commands that finish
\* within a tick, whatever other monitors, gates and activations overwrite.
THEOREM RevocationsAreRemoved ==
  ASSUME Monitors # {}
  PROVE  PromptSpec => []RemovedInTime
<1> DEFINE PNext == Next /\ (now' # now => Prompt)
<1>1. Init => TimelyInv
  BY TimelyInit
<1>2. EvidenceInv /\ EvidenceInv' /\ TimelyInv /\ [PNext]_vars => TimelyInv'
  BY TimelyStep DEF EvidenceInv
<1>3. EvidenceInv /\ TimelyInv => RemovedInTime
  <2> SUFFICES ASSUME EvidenceInv, TimelyInv, revokedAt # 0, mounted, inv.entry,
                      unknowns = 0, failures = 0
               PROVE  now <= (IF inv.base > revokedAt THEN inv.base ELSE revokedAt) + Bound
    BY DEF RemovedInTime
  <2>1. /\ now \in Times /\ revokedAt \in Times /\ inv.base \in Times /\ Bound \in Nat
        /\ revokedAt <= now
    BY DueFacts, ConstantsAssumption DEF EvidenceInv, TypeOK, Entries, TimelyInv, Basics, ClockGood
  <2>2. now <= revokedAt + Bound
    <3>1. CASE now > revokedAt
      BY <3>1 DEF TimelyInv, Late, Past, Schedule
    <3>2. CASE ~(now > revokedAt)
      BY <2>1, <3>2, ConstantsAssumption DEF Times
    <3> QED
      BY <3>1, <3>2
  <2> QED
    BY <2>1, <2>2, ConstantsAssumption DEF Times
<1> HIDE DEF PNext
<1>4. PromptSpec => Init /\ [][PNext]_vars
  BY DEF PromptSpec, PNext
<1> QED
  BY <1>1, <1>2, <1>3, <1>4, PromptImplementsSpec, EvidenceInvariant, PTL

=============================================================================
