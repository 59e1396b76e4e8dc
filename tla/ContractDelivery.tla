-------------------------- MODULE ContractDelivery --------------------------
(***************************************************************************)
(* Delivery of the organization contract into running conversations        *)
(* (internal/contractstate/delivery.go, cli/contract_launch.go).  A launch *)
(* registers an instance; the hooks of its harness print the active        *)
(* contract into the conversation and save a receipt.  Both happen under   *)
(* the lock of the state file, which is replaced as a whole; but the       *)
(* printing and the saving are two steps, and a hook may die between them. *)
(* A revision is a number; Text says which rules it holds.                 *)
(***************************************************************************)
EXTENDS Naturals

CONSTANTS
    Launches,    \* ids in launch environments: numbers, in the order of the launches
    Children,    \* ids given to instances of conversations a launch moved on to
    Convs,       \* native conversations of the harness: numbers, in the order they are heard of
    Text,        \* Text[r]: the rules of revision r
    MaxCalls,    \* bound: hook calls
    MaxFailures  \* bound: failed outputs and killed hooks

Revs == DOMAIN Text
Ids == Launches \cup Children
None == 0

\* Nothing given and no record is 0.
ASSUME ConstantsAssumption ==
    /\ Launches \cup Children \cup Convs \subseteq Nat \ {0}
    /\ Revs \subseteq Nat \ {0} /\ 1 \in Revs

VARIABLES
    active,   \* the active revision in the state file
    inst,     \* inst[i]: the instance record in the state file
    up,       \* the launches whose harness runs
    op,       \* the hook that has printed and holds the lock, or Idle; had is a
              \* history: the revision its conversation was given before
    last,     \* last[n]: the revision conversation n was last given, 0 for none
    due,      \* history: n was started, reopened or ended since its receipt
    lost,     \* history: the receipt or the record of n was lost
    calls, failures

vars == <<active, inst, up, op, last, due, lost, calls, failures>>

\* heard is a history: what the conversation in the launch's arguments was given
\* before, 0 for none.
NoInst == [native |-> None, heard |-> 0, started |-> 0, emitted |-> 0, needs |-> FALSE, closed |-> FALSE,
           delivery |-> "absent", alias |-> None]
Idle == [l |-> None, n |-> None, had |-> 0, id |-> None, new |-> NoInst, rebinds |-> FALSE]
Exists(i) == inst[i].delivery # "absent"

Init ==
    /\ active = 1
    /\ inst = [i \in Ids |-> NoInst] /\ up = {} /\ op = Idle
    /\ last = [n \in Convs |-> 0]
    /\ due = [n \in Convs |-> TRUE] /\ lost = [n \in Convs |-> FALSE]
    /\ calls = 0 /\ failures = 0

\* A sync observed the next revision of the manifest (Observe).
Activate ==
    /\ op = Idle /\ active + 1 \in Revs
    /\ active' = active + 1
    /\ UNCHANGED <<inst, up, op, last, due, lost, calls, failures>>

(***************************************************************************)
(* A launch: instances that were closed 30 days ago go, and the aliases of *)
(* what is gone; the new one starts from the active revision or, when it   *)
(* continues conversation n, from what n was given.                        *)
(***************************************************************************)
Holders(n) == {i \in Ids : Exists(i) /\ inst[i].alias = None /\ inst[i].native = n}
\* The record launch l works on by itself, None when it or its alias is gone.
Own(l) == LET own == IF inst[l].alias = None THEN l ELSE inst[l].alias
          IN  IF Exists(l) /\ Exists(own) THEN own ELSE None
\* What may be left: an alias of an alias that goes is met before or after it.
Pruned(gone) ==
    LET left == {i \in Ids : Exists(i)} \ gone
        tied == {i \in left : inst[i].alias \in left \cup {None}}
        kept == {K \in SUBSET tied : \A i \in tied \ K : inst[i].alias \notin K \cup {None}}
    IN  {[i \in Ids |-> IF i \in K THEN inst[i] ELSE NoInst] : K \in kept}
Given(r) == IF r.emitted # 0 THEN r.emitted ELSE r.started

\* What a launch that continues n starts from, when those in gone are pruned.
StartFromActive(n, gone) == {active}
StartFrom(n, gone) ==
    IF n = None \/ Holders(n) \subseteq gone THEN {active} ELSE {Given(inst[i]) : i \in Holders(n) \ gone}

Launch(l, n, delivery) ==
    /\ op = Idle /\ ~Exists(l) /\ l \notin up /\ (n # None => last[n] # 0)
    /\ \A k \in Launches : k < l => Exists(k) \/ k \in up
    /\ \E gone \in SUBSET {i \in Ids : Exists(i) /\ inst[i].alias = None /\ inst[i].closed} :
         /\ lost' = [c \in Convs |-> lost[c] \/ \E i \in gone : inst[i].native = c]
         /\ \E s \in StartFrom(n, gone), pruned \in Pruned(gone) :
              inst' = [pruned EXCEPT ![l] = [NoInst EXCEPT !.started = s, !.delivery = delivery,
                               !.heard = IF n = None \/ lost'[n] THEN 0 ELSE last[n]]]
    /\ up' = up \cup {l}
    /\ UNCHANGED <<active, op, last, due, calls, failures>>

\* The instances a launch's hook may work on in conversation n.
Resolve(l, n) ==
    IF Own(l) = None THEN {None}
    ELSE IF n = None \/ inst[Own(l)].native = n \/ Holders(n) = {} THEN {Own(l)} ELSE Holders(n)

\* The harness exits and the launch closes its instance; a launch that is
\* killed is one that calls no more.
Exit(l) ==
    /\ l \in up /\ op = Idle
    /\ up' = up \ {l}
    /\ \E i \in Resolve(l, None) :
         IF i = None THEN UNCHANGED <<inst, due>>
         ELSE /\ inst' = [inst EXCEPT ![i].closed = TRUE]
              /\ due' = [n \in Convs |-> due[n] \/ inst[i].native = n]
    /\ UNCHANGED <<active, op, last, lost, calls, failures>>

(***************************************************************************)
(* A hook call of launch l in conversation n.  A new conversation may be a *)
(* fork: it begins with the context of the one the launch was in, or with  *)
(* what that of its arguments was given when it was launched.              *)
(***************************************************************************)
Forked(l) ==
    LET r == inst[Own(l)]
    IN  IF Own(l) = None THEN {}
        ELSE IF r.native = None THEN {r.heard} \ {0}
        ELSE IF lost[r.native] THEN {} ELSE {last[r.native]}
Context(l, n) ==
    {last} \cup IF last[n] # 0 \/ Holders(n) # {} THEN {}
                ELSE {[last EXCEPT ![n] = r] : r \in Forked(l)}

\* The record the hook works on: the launch's, a fresh one when that was
\* pruned, or a child when the launch has moved on to another conversation.
SameRecordWhenMoved(l, n, ev, i, kid) ==
    LET r == IF i = None THEN [NoInst EXCEPT !.started = active, !.delivery = "live", !.needs = TRUE]
             ELSE inst[i]
    IN  [id |-> IF i = None THEN l ELSE i,
         new |-> [r EXCEPT !.native = n, !.heard = 0, !.needs = @ \/ ev \in {"start", "resume"},
                           !.closed = ev = "end"]]
StartsOver(r, ev) == ev \in {"start", "resume"} \/ (r.closed /\ ev # "end")
Working(l, n, ev, i, kid) ==
    LET r == IF i = None THEN [NoInst EXCEPT !.started = active, !.delivery = "live", !.needs = TRUE]
             ELSE inst[i]
        moved == r.native \notin {None, n}
        own == IF moved
               THEN [r EXCEPT !.needs = TRUE, !.alias = None, !.closed = FALSE, !.started = Given(r)]
               ELSE r
    IN  [id |-> IF moved THEN kid ELSE IF i = None THEN l ELSE i,
         new |-> [own EXCEPT !.native = n, !.heard = 0, !.needs = @ \/ StartsOver(own, ev), !.closed = ev = "end"]]

\* The record launch l works on is gone, or it was resumed as another one.
Astray(l) == Own(l) = None \/ inst[Own(l)].alias # None

\* The record is saved, with the alias that a resume in a conversation of
\* another instance leaves at the launch: its own record is hidden by it, and
\* a fork of what that held starts from a record that nobody keeps up.
Save(o, receipt) ==
    /\ inst' = [i \in Ids |-> IF i = o.id THEN o.new
                             ELSE IF o.rebinds /\ i = o.l THEN [inst[i] EXCEPT !.alias = o.id]
                             ELSE inst[i]]
    /\ lost' = [n \in Convs |->
          \/ (lost[n] /\ ~(receipt /\ n = o.n /\ Holders(n) \subseteq {o.id}))
          \/ (o.rebinds /\ inst[o.l].native = n)
          \/ (n = o.n /\ (Own(o.l) = None \/ o.new.alias # None))
          \/ (n = o.n /\ ~receipt /\ o.had # last[n] /\ Astray(o.l))]

Settled(new) == ~new.needs /\ new.emitted = active

\* Deliver.  A tool hook with nothing new leaves the file alone, without the
\* lock: the same step, as what it would save is what is there.
Call(l, n, ev) ==
    /\ op = Idle /\ l \in up /\ calls < MaxCalls
    /\ \A m \in Convs : m < n => last[m] # 0 \/ lost[m] \/ Holders(m) # {}
    /\ calls' = calls + 1
    /\ \E i \in Resolve(l, n), kid \in {k \in Children : ~Exists(k)}, given \in Context(l, n) :
         LET w == Working(l, n, ev, i, kid)
             o == [l |-> l, n |-> n, had |-> given[n], id |-> w.id, new |-> w.new, rebinds |-> w.id # l /\ ev = "resume"]
             unsupported == IF i = None THEN FALSE ELSE inst[i].delivery = "unsupported"
             prints == ~unsupported /\ ev # "end" /\ ~Settled(w.new)
         IN  /\ due' = [due EXCEPT ![n] = @ \/ ev # "tool"]
             /\ \/ /\ unsupported
                   /\ lost' = [lost EXCEPT ![n] = @ \/ given # last]
                   /\ last' = given
                   /\ UNCHANGED <<inst, op, failures>>
                \/ /\ ~unsupported /\ (ev = "end" \/ Settled(w.new))
                   /\ Save(o, FALSE) /\ last' = given
                   /\ UNCHANGED <<op, failures>>
                \* The context is printed; the receipt is saved in a later step.
                \/ /\ prints
                   /\ op' = o /\ last' = [given EXCEPT ![n] = active]
                   /\ UNCHANGED <<inst, lost, failures>>
                \* It is too long, or the harness did not take all of it: the
                \* binding is saved without a receipt.
                \/ /\ prints
                   /\ failures < MaxFailures /\ failures' = failures + 1
                   /\ Save(o, FALSE) /\ last' = given
                   /\ UNCHANGED op
    /\ UNCHANGED <<active, up>>

ReceiptKeepsNeeds ==
    /\ op # Idle /\ op' = Idle
    /\ Save([op EXCEPT !.new.emitted = active], TRUE)
    /\ due' = [due EXCEPT ![op.n] = FALSE]
    /\ UNCHANGED <<active, up, last, calls, failures>>
SaveReceipt ==
    /\ op # Idle /\ op' = Idle
    /\ Save([op EXCEPT !.new.needs = FALSE, !.new.emitted = active], TRUE)
    /\ due' = [due EXCEPT ![op.n] = FALSE]
    /\ UNCHANGED <<active, up, last, calls, failures>>

\* The hook dies, or cannot save, after it printed: the lock goes with it.
Killed ==
    /\ op # Idle /\ op' = Idle
    /\ failures < MaxFailures /\ failures' = failures + 1
    /\ lost' = [lost EXCEPT ![op.n] = TRUE]
    /\ UNCHANGED <<active, inst, up, last, due, calls>>

Next ==
    \/ Activate
    \/ \E l \in Launches, n \in Convs \cup {None}, d \in {"live", "unsupported"} : Launch(l, n, d)
    \/ \E l \in Launches : Exit(l)
    \/ \E l \in Launches, n \in Convs, ev \in {"start", "resume", "tool", "end"} : Call(l, n, ev)
    \/ SaveReceipt
    \/ Killed

Spec == Init /\ [][Next]_vars
-----------------------------------------------------------------------------
Records == [native : Convs \cup {None}, heard : Revs \cup {0}, started : Revs \cup {0}, emitted : Revs \cup {0},
            needs : BOOLEAN, closed : BOOLEAN, alias : Ids \cup {None},
            delivery : {"absent", "live", "unsupported"}]
TypeOK ==
    /\ active \in Revs /\ inst \in [Ids -> Records] /\ up \subseteq Launches
    /\ op \in [l : Launches \cup {None}, n : Convs \cup {None}, had : Revs \cup {0}, id : Ids \cup {None},
               new : Records, rebinds : BOOLEAN]
    /\ last \in [Convs -> Revs \cup {0}]
    /\ due \in [Convs -> BOOLEAN] /\ lost \in [Convs -> BOOLEAN]

\* A receipt stands for a conversation that was given at least that revision:
\* no launch consumes the receipt of another conversation of its.
ReceiptMeansTold ==
    \A i \in Ids : inst[i].native # None /\ inst[i].alias = None /\ ~inst[i].needs
        => inst[i].emitted <= last[inst[i].native]

\* What a hook prints: conversation op'.n, in launch op'.l.
Prints == op = Idle /\ op' # Idle

\* A conversation is not given a revision twice unless it was started, ended
\* or reopened since, or a receipt, its record or the launch's was lost.
RepeatsNothing ==
    Prints => \/ op'.had < active
              \/ due'[op'.n] \/ lost[op'.n] \/ Astray(op'.l)
NoRepeat == [][RepeatsNothing]_vars

\* The retractions that are printed name every rule the conversation was last
\* given and that no longer holds, unless its receipt or record was lost.
RetractsAll ==
    Prints /\ op'.had # 0 /\ ~lost[op'.n] /\ ~Astray(op'.l)
       => Text[op'.had] \ Text[active] \subseteq Text[Given(op'.new)]
RetractsWhatItTold == [][RetractsAll]_vars
=============================================================================
