------------------------- MODULE RevocationEvidence -------------------------
(***************************************************************************)
(* How access loss to one managed repository becomes a confirmed           *)
(* revocation: RecordObservation (internal/access/observation.go) and      *)
(* RecordPositiveBatch (inventory.go), called by the monitor               *)
(* (`my access enforce`), by the launch gate (requireGovernedLaunchAccess) *)
(* and by `my access activate` (internal/cli/access.go).  All of them load *)
(* the inventory file, change their copy and save the whole file, without  *)
(* a lock.  One checkout, one actor; time in ticks.  The quarantine that   *)
(* follows is one step here; module Quarantine opens it.                   *)
(***************************************************************************)
EXTENDS Integers, FiniteSets

CONSTANTS
  Monitors, Gates, Activators,   \* processes of each kind
  Required,      \* revocation_confirmations
  Interval,      \* confirmation_interval
  TTL,           \* positive_ttl
  Period,        \* check_interval: a monitor run ends at least so often
  MaxTime,       \* bound: ticks
  MaxChanges,    \* bound: times access is revoked or granted
  MaxUnknown,    \* bound: answers that are neither allowed nor denied
  MaxFailures    \* bound: quarantines that fail

ASSUME ConstantsAssumption ==
  /\ Required \in Nat /\ Required >= 2
  /\ Interval \in Nat \ {0} /\ TTL \in Nat \ {0} /\ Period \in Nat \ {0}
  /\ MaxTime \in Nat \ {0} /\ MaxChanges \in Nat /\ MaxUnknown \in Nat /\ MaxFailures \in Nat

Procs == Monitors \cup Gates \cup Activators
Times == 0..MaxTime              \* 0: never
Unknown == {"unknown", "no-actor"}
Answers == {"allowed", "denied"} \cup Unknown

\* The entry of the checkout in the inventory: time of the positive baseline
\* and the actor's RevocationProgress.
Entries == [entry : BOOLEAN, base : Times, state : {"none", "allowed", "denied", "unknown"},
            count : 0..Required, qualifying : Times, confirmed : BOOLEAN,
            checked : Times]
NoEntry == [entry |-> FALSE, base |-> 0, state |-> "none", count |-> 0,
            qualifying |-> 0, confirmed |-> FALSE, checked |-> 0]
Idle == [pc |-> "idle", at |-> 0, answer |-> "unknown", inv |-> NoEntry]

VARIABLES
  now,
  granted,       \* the provider grants the actor read access
  mounted,       \* the checkout is at its path
  inv,           \* the inventory file
  op,            \* each process: program counter, time stamp, answer, copy
  lastRun,       \* when the monitor last completed a run
  changes, unknowns, failures,
  allowedAt,     \* history: latest time stamp of an answer "allowed"
  deniedAt,      \* history: time stamps of the answers "denied"
  streak,        \* history: those recorded after the last other answer was
  revokedAt      \* history: since when access has been gone, 0 if it is not

env == <<now, granted, lastRun, changes, unknowns, failures, revokedAt>>
history == <<allowedAt, deniedAt, streak>>
vars == <<mounted, inv, op, env, history>>

Init ==
  /\ now = 1 /\ granted = TRUE /\ mounted = TRUE
  /\ inv = NoEntry
  /\ op = [p \in Procs |-> Idle]
  /\ lastRun = 1 /\ changes = 0 /\ unknowns = 0 /\ failures = 0
  /\ allowedAt = 0 /\ deniedAt = {} /\ streak = {}
  /\ revokedAt = 0

-----------------------------------------------------------------------------
(* RecordObservation and RecordPositiveBatch on a loaded copy *)

\* resetDenialProgress
Reset(i, state) ==
  [i EXCEPT !.state = state, !.count = 0, !.qualifying = 0, !.confirmed = FALSE]

\* Mutant: an unknown answer refreshes the baseline like an allowed one.
ObservedRefreshing(i, answer, t) ==
  IF answer = "denied"
  THEN LET counts == i.count = 0 \/ t >= i.qualifying + Interval
           n == IF counts /\ i.count < Required THEN i.count + 1 ELSE i.count
       IN [i EXCEPT !.state = "denied", !.checked = t, !.count = n,
                    !.qualifying = IF counts THEN t ELSE @,
                    !.confirmed = @ \/ n >= Required]
  ELSE [Reset(i, answer) EXCEPT !.base = t, !.checked = t]

\* Mutant: every denial counts.
ObservedHastily(i, answer, t) ==
  CASE answer = "allowed" -> [Reset(i, answer) EXCEPT !.base = t, !.checked = t]
    [] answer = "unknown" -> [Reset(i, answer) EXCEPT !.checked = t]
    [] answer = "denied" ->
         LET n == IF i.count < Required THEN i.count + 1 ELSE i.count
         IN [i EXCEPT !.state = "denied", !.checked = t, !.count = n,
                      !.qualifying = t, !.confirmed = n >= Required]

\* Mutant: every denial starts the interval again.
ObservedRestarts(i, answer, t) ==
  CASE answer = "allowed" -> [Reset(i, answer) EXCEPT !.base = t, !.checked = t]
    [] answer = "unknown" -> [Reset(i, answer) EXCEPT !.checked = t]
    [] answer = "denied" ->
         LET counts == i.count = 0 \/ t >= i.qualifying + Interval
             n == IF counts /\ i.count < Required THEN i.count + 1 ELSE i.count
         IN [i EXCEPT !.state = "denied", !.checked = t, !.count = n,
                      !.qualifying = t, !.confirmed = @ \/ n >= Required]

\* A denial counts when it is the first one or comes Interval after the last
\* one that counted; once confirmed, a sequence stays so until it is reset.
\* (The baseline is there: a caller without one does not come here.  Counting
\* stops at Required here: nothing asks for more.)
Observed(i, answer, t) ==
  CASE answer = "allowed" -> [Reset(i, answer) EXCEPT !.base = t, !.checked = t]
    [] answer = "unknown" -> [Reset(i, answer) EXCEPT !.checked = t]
    [] answer = "denied" ->
         LET counts == i.count = 0 \/ t >= i.qualifying + Interval
             n == IF counts /\ i.count < Required THEN i.count + 1 ELSE i.count
         IN [i EXCEPT !.state = "denied", !.checked = t, !.count = n,
                      !.qualifying = IF counts THEN t ELSE @,
                      !.confirmed = @ \/ n >= Required]

\* Mutant: the time the baseline expires is recorded.
ActivatedUntil(i, t) == [i EXCEPT !.entry = TRUE, !.base = t + TTL]

\* applyPositiveInput: a new baseline; the progress is left as it is.
Activated(i, t) == [i EXCEPT !.entry = TRUE, !.base = t]

CleanupEligible(i) == i.base # 0 /\ i.state = "denied" /\ i.count >= Required

\* progressBlocksCachedAccess
BlocksCached(i) == i.state \notin {"none", "allowed"} /\ i.checked > i.base

-----------------------------------------------------------------------------
(* Steps *)

Return(p) == op' = [op EXCEPT ![p] = Idle]

\* The provider answers p: what is true, or, for whatever reason, unknown, or
\* not even who is asking.  Only a repository that is not found, by a
\* token not known to lack the scope for it, is denied.
Replies == {IF granted THEN "allowed" ELSE "denied"} \cup Unknown
Ask(p, answer, t) ==
  /\ answer \in Replies
  /\ answer \in Unknown => unknowns < MaxUnknown
  /\ unknowns' = IF answer \in Unknown THEN unknowns + 1 ELSE unknowns
  /\ allowedAt' = IF answer = "allowed" /\ t > allowedAt THEN t ELSE allowedAt
  /\ deniedAt' = IF answer = "denied" THEN deniedAt \cup {t} ELSE deniedAt
  /\ UNCHANGED <<mounted, inv, now, granted, changes, failures, revokedAt, streak>>

\* runAccessEnforce: a checkout that is not mounted or has no baseline is
\* passed over; without an identity nothing is recorded (MonitorAsk).
MonitorSkip(p) ==
  /\ op[p].pc = "idle" /\ lastRun # now
  /\ ~mounted \/ inv.base = 0
  /\ lastRun' = now
  /\ UNCHANGED <<mounted, inv, op, now, granted, changes, unknowns, failures, revokedAt, history>>

MonitorAsk(p) ==
  /\ op[p].pc = "idle" /\ lastRun # now
  /\ mounted /\ inv.base # 0
  /\ \E a \in Answers :
       /\ Ask(p, a, now)
       /\ IF a = "no-actor"
          THEN lastRun' = now /\ UNCHANGED op
          ELSE /\ op' = [op EXCEPT ![p] = [pc |-> "observe", at |-> now, answer |-> a,
                                          inv |-> NoEntry]]
               /\ UNCHANGED lastRun

\* requireGovernedLaunchAccess reads the inventory and the time first.  It
\* passes when nothing is mounted, or on a baseline younger than TTL with no
\* newer answer that was not "allowed".
GateStart(p) ==
  /\ op[p].pc = "idle"
  /\ op' = [op EXCEPT ![p] = [Idle EXCEPT !.at = now, !.pc =
       CASE ~mounted -> "idle"
         [] mounted /\ inv.base = 0 -> "live"
         [] mounted /\ inv.base # 0 /\ BlocksCached(inv) -> "idle"
         [] OTHER -> IF now < inv.base + TTL THEN "launched" ELSE "ask"]]
  /\ UNCHANGED <<mounted, inv, env, history>>

\* With an expired baseline the gate asks, and records the answer under the
\* time it began.
GateAsk(p) ==
  /\ op[p].pc = "ask"
  /\ \E a \in Answers :
       /\ Ask(p, a, op[p].at)
       /\ op' = [op EXCEPT ![p] = IF a = "no-actor" THEN Idle
                                 ELSE [@ EXCEPT !.pc = "observe", !.answer = a]]
  /\ UNCHANGED lastRun

\* requireLiveReadableAccess permits this launch only and writes nothing.
GateAskLive(p) ==
  /\ op[p].pc = "live"
  /\ \E a \in Answers :
       /\ Ask(p, a, op[p].at)
       /\ op' = [op EXCEPT ![p].pc = IF a = "allowed" THEN "launched" ELSE "idle"]
  /\ UNCHANGED lastRun

\* The launch goes ahead.
GateDone(p) ==
  /\ op[p].pc = "launched"
  /\ Return(p)
  /\ UNCHANGED <<mounted, inv, env, history>>

\* runAccessActivate goes on with positive answers only.
ActivateAsk(p) ==
  /\ op[p].pc = "idle"
  /\ mounted
  /\ \E a \in Answers :
       /\ Ask(p, a, now)
       /\ op' = IF a = "allowed"
                THEN [op EXCEPT ![p] = [Idle EXCEPT !.pc = "activate", !.at = now, !.answer = a]]
                ELSE op
  /\ UNCHANGED lastRun

\* RecordObservation loads the inventory; without an entry or a checkout it
\* ends with an error.
LoadForObservation(p) ==
  /\ op[p].pc = "observe"
  /\ IF mounted /\ inv.entry
     THEN op' = [op EXCEPT ![p].pc = "save", ![p].inv = inv]
     ELSE Return(p)
  /\ UNCHANGED <<mounted, inv, env, history>>

\* RecordPositiveBatch; the answer is stamped when all repositories have been
\* asked about.
LoadForActivation(p) ==
  /\ op[p].pc = "activate"
  /\ IF mounted
     THEN op' = [op EXCEPT ![p].pc = "add", ![p].inv = inv, ![p].at = now]
     ELSE Return(p)
  /\ allowedAt' = now
  /\ UNCHANGED <<mounted, inv, env, deniedAt, streak>>

SavePositive(p) ==
  /\ op[p].pc = "add"
  /\ inv' = Activated(op[p].inv, op[p].at)
  /\ Return(p)
  /\ streak' = {}
  /\ UNCHANGED <<mounted, env, allowedAt, deniedAt>>

SaveObservation(p) ==
  LET i == Observed(op[p].inv, op[p].answer, op[p].at) IN
  /\ op[p].pc = "save"
  /\ inv' = i
  /\ op' = [op EXCEPT ![p].inv = NoEntry, ![p].pc =
              CASE CleanupEligible(i) -> "quarantine"
                [] ~CleanupEligible(i) /\ p \in Gates /\ op[p].answer = "allowed" -> "launched"
                [] OTHER -> "idle"]
  /\ lastRun' = IF p \in Monitors /\ ~CleanupEligible(i) THEN now ELSE lastRun
  /\ streak' = IF op[p].answer = "denied" THEN streak \cup {op[p].at} ELSE {}
  /\ UNCHANGED <<mounted, now, granted, changes, unknowns, failures, revokedAt,
                 allowedAt, deniedAt>>

\* QuarantineConfirmed reads the inventory again; the checkout goes and the
\* entry becomes a retained record, or an error leaves both.
Quarantine(p) ==
  /\ op[p].pc = "quarantine"
  /\ Return(p)
  /\ lastRun' = IF p \in Monitors THEN now ELSE lastRun
  /\ \/ /\ mounted /\ inv.base # 0 /\ inv.state = "denied" /\ inv.confirmed
        /\ mounted' = FALSE /\ inv' = NoEntry
        /\ UNCHANGED failures
     \/ /\ ~(mounted /\ inv.base # 0 /\ inv.state = "denied" /\ inv.confirmed)
        /\ UNCHANGED <<mounted, inv, failures>>
     \/ /\ failures < MaxFailures
        /\ failures' = failures + 1
        /\ UNCHANGED <<mounted, inv>>
  /\ UNCHANGED <<now, granted, changes, unknowns, revokedAt, history>>

\* Time passes; a monitor run ends within each Period.
Tick ==
  /\ now < MaxTime
  /\ Monitors # {} => now < lastRun + Period
  /\ now' = now + 1
  /\ UNCHANGED <<mounted, inv, op, granted, lastRun, changes, unknowns, failures, revokedAt, history>>

\* The provider revokes or grants access.
ChangeAccess ==
  /\ changes < MaxChanges
  /\ changes' = changes + 1
  /\ granted' = ~granted
  /\ revokedAt' = IF granted THEN now ELSE 0
  /\ UNCHANGED <<mounted, inv, op, now, lastRun, unknowns, failures, history>>

Next ==
  \/ \E p \in Monitors : MonitorSkip(p) \/ MonitorAsk(p)
  \/ \E p \in Gates : GateStart(p) \/ GateAsk(p) \/ GateAskLive(p) \/ GateDone(p)
  \/ \E p \in Activators : ActivateAsk(p)
  \/ \E p \in Procs :
       \/ LoadForObservation(p) \/ SaveObservation(p)
       \/ LoadForActivation(p) \/ SavePositive(p)
       \/ Quarantine(p)
  \/ Tick
  \/ ChangeAccess

Spec == Init /\ [][Next]_vars

\* A tick is minutes (the defaults are 5 for Period and 15 for Interval and
\* TTL) and a command takes seconds: no command is in progress when time
\* passes.  Within a tick commands interleave in every way.
Prompt == \A p \in Procs : op[p].pc = "idle"

PromptSpec == Init /\ [][Next /\ (now' # now => Prompt)]_vars

\* Commands run one after another, and access changes between them.
OneByOne ==
  /\ \A p, q \in Procs : p = q \/ op[p].pc = "idle" \/ op[q].pc = "idle"
  /\ granted' # granted => Prompt

SerialSpec == Init /\ [][Next /\ (now' # now => Prompt) /\ OneByOne]_vars

-----------------------------------------------------------------------------
(* Properties *)

TypeOK ==
  /\ now \in Times /\ granted \in BOOLEAN /\ mounted \in BOOLEAN
  /\ inv \in Entries
  /\ op \in [Procs -> [pc : {"idle", "ask", "live", "observe", "activate", "save",
                             "add", "quarantine", "launched"},
                       at : Times, answer : Answers, inv : Entries]]
  /\ lastRun \in Times /\ revokedAt \in Times
  /\ unknowns \in 0..MaxUnknown /\ failures \in 0..MaxFailures
  /\ changes \in 0..MaxChanges
  /\ allowedAt \in Times /\ deniedAt \subseteq Times /\ streak \subseteq deniedAt

\* n of the times lie at least Interval apart.
Spaced(times, n) ==
  \E f \in [1..n -> times] : \A i \in 1..(n - 1) : f[i + 1] >= f[i] + Interval

\* A revocation is confirmed only after Required denials, each an Interval
\* after the one before ("repeated independent denials separated by the
\* configured confirmation interval",
\* docs/plans/2026-07-16-governed-organizations.md:64), whichever of the
\* unlocked saves are lost.
ConfirmedMeansSpaced ==
  inv.confirmed \/ ~mounted => Spaced(deniedAt, Required)

\* A launch goes ahead only within TTL of a positive answer, whoever records
\* what in between (docs/plans/2026-07-16-governed-organizations.md:61).
LaunchMeansAllowed ==
  \A p \in Gates : op[p].pc = "launched" => op[p].at < allowedAt + TTL

\* A revocation is removed within the monitor's period and Required - 1
\* intervals, each rounded up to a run of the monitor
\* (docs/plans/2026-07-16-governed-organizations.md:66), although launch gates
\* and activations overwrite what the monitor has saved; unless the provider
\* gave no answer or the quarantine failed.
Bound == Period + (Required - 1) * (Interval + Period)
RemovedInTime ==
  revokedAt # 0 /\ mounted /\ inv.entry /\ unknowns = 0 /\ failures = 0 =>
    now <= (IF inv.base > revokedAt THEN inv.base ELSE revokedAt) + Bound

\* A revocation becomes confirmed by denials with no other answer recorded
\* between them: they are "consecutive" (the field ConsecutiveDenials,
\* inventory.go:49).
ConfirmedMeansConsecutive ==
  [][inv'.confirmed /\ ~inv.confirmed => Spaced(streak', Required)]_vars
=============================================================================
