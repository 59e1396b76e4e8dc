--------------------------- MODULE GovernanceProofs --------------------------
(***************************************************************************)
(* Proofs about the parts of a member's workspace that carry a contract:   *)
(* its delivery to conversations, the edits of the manifest and the ledger *)
(* of acceptances; each part's invariant, kept by its steps, and what that *)
(* gives for the parts together, where the others leave its variables      *)
(* alone.                                                                  *)
(***************************************************************************)
EXTENDS WorkspaceProofs

(***************************************************************************)
(* The delivery of the contract, for any number of launches,               *)
(* conversations, revisions and rules and any bounds: a receipt stands for *)
(* a conversation that was told, no conversation is told twice without a   *)
(* cause, and what it was told and no longer holds is retracted.           *)
(***************************************************************************)

\* No conversation was told of a revision that is not active yet; what it was
\* told last starts to matter with its first receipt.
Numbers == \A n \in Convs : last[n] <= active /\ (~due[n] => last[n] # 0)

\* A record that no hook has bound has no receipt; it starts from what the
\* conversation in the launch's arguments was given.
Unbound == \A i \in Ids :
  /\ inst[i].heard <= active
  /\ inst[i].native = None
       => inst[i].emitted = 0 /\ (inst[i].heard # 0 => inst[i].started = inst[i].heard)

\* Record i is that of conversation n.
Tells(i, n) ==
  /\ Given(inst[i]) = last[n]
  /\ ~due[n] => inst[i].emitted = last[n] /\ ~inst[i].needs /\ ~inst[i].closed

\* Unless its receipt or record was lost, or is about to be written, a
\* conversation that was told something has its record.
Kept(n) == last[n] # 0 /\ ~lost[n] /\ ~(op # Idle /\ op.n = n)
             => Holders(n) # {} /\ \A i \in Holders(n) : Tells(i, n)
\* And it has one record.
HeldOnce(n) == ~lost[n] => \A i, j \in Holders(n) : i = j
AllHeld == \A n \in Convs : Kept(n) /\ HeldOnce(n)

\* The record that hook o is about to save is its conversation's only one.
Replaces(o) ==
  /\ \A m \in Convs \ {o.n} : o.id \notin Holders(m)
  /\ ~lost[o.n] /\ Own(o.l) # None /\ o.new.alias = None => Holders(o.n) \subseteq {o.id}

\* A hook with a record to save.
HookOK(o) ==
  /\ o.l \in Launches /\ o.n \in Convs /\ o.id \in Ids /\ o.new \in Records /\ o.rebinds \in BOOLEAN
  /\ o.had \in Revs \cup {0} /\ (o.rebinds => o.id # o.l)
  /\ o.new.native = o.n /\ o.new.delivery # "absent" /\ o.new.heard = 0

HookReady == op # Idle => HookOK(op) /\ Replaces(op) /\ last[op.n] = active /\ ~op.new.closed

DeliveryInv == TypeOK /\ ReceiptMeansTold /\ Numbers /\ Unbound /\ AllHeld /\ HookReady

-----------------------------------------------------------------------------
(* Types *)

Hooks == [l : Launches \cup {None}, n : Convs \cup {None}, had : Revs \cup {0}, id : Ids \cup {None},
          new : Records, rebinds : BOOLEAN]

\* TypeOK, one variable at a time.
LEMMA TypeFacts ==
  TypeOK <=> /\ active \in Revs /\ inst \in [Ids -> Records] /\ up \subseteq Launches
             /\ op \in Hooks /\ last \in [Convs -> Revs \cup {0}]
             /\ due \in [Convs -> BOOLEAN] /\ lost \in [Convs -> BOOLEAN]
BY DEF TypeOK, Hooks

\* The same of the next state.
LEMMA TypesNext ==
  ASSUME active' \in Revs, inst' \in [Ids -> Records], up' \subseteq Launches,
         op' \in Hooks, last' \in [Convs -> Revs \cup {0}],
         due' \in [Convs -> BOOLEAN], lost' \in [Convs -> BOOLEAN]
  PROVE  TypeOK'
BY DEF TypeOK, Hooks

\* None is no launch, record or conversation, and revisions are counted from 1.
LEMMA Numbering ==
  /\ None \notin Ids /\ None \notin Convs /\ Launches \subseteq Ids /\ Children \subseteq Ids
  /\ Revs \subseteq Nat /\ 0 \notin Revs /\ 1 \in Revs /\ Revs \cup {0} \subseteq Nat
BY ConstantsAssumption DEF Ids, None

\* The empty values have their types.
LEMMA EmptyValues == NoInst \in Records /\ Idle \in Hooks
<1>1. NoInst \in Records
  BY DEF NoInst, Records, None
<1> QED
  BY <1>1 DEF Idle, Hooks, None

\* What a record was given is a revision or nothing.
LEMMA GivenTyped ==
  ASSUME NEW r \in Records
  PROVE  Given(r) \in Revs \cup {0}
BY DEF Given, Records

-----------------------------------------------------------------------------
(* The hook *)

\* The record a launch works on by itself exists.
LEMMA OwnExists ==
  ASSUME TypeOK, NEW l \in Launches, Own(l) # None
  PROVE  Own(l) \in Ids /\ Exists(Own(l))
<1>1. inst[l] \in Records /\ l \in Ids
  BY TypeFacts, Numbering
<1>2. inst[l].alias \in Ids \cup {None}
  BY <1>1 DEF Records
<1> QED
  BY <1>1, <1>2 DEF Own

\* What a hook works on is the launch's own record or that of its conversation.
LEMMA ResolveFacts ==
  ASSUME TypeOK, NEW l \in Launches, NEW n \in Convs, NEW i \in Resolve(l, n)
  PROVE  /\ i = None <=> Own(l) = None
         /\ i # None => i \in Ids /\ Exists(i) /\ (i = Own(l) \/ i \in Holders(n))
         /\ i # None /\ Holders(n) # {} => i \in Holders(n) \/ (i = Own(l) /\ inst[i].native = n)
<1>1. None \notin Ids /\ n # None
  BY Numbering
<1>2. CASE Own(l) = None
  BY <1>2 DEF Resolve
<1>3. CASE Own(l) # None
  <2>1. Own(l) \in Ids /\ Exists(Own(l))
    BY <1>3, OwnExists
  <2>2. i = Own(l) \/ i \in Holders(n)
    BY <1>3 DEF Resolve
  <2>3. i \in Ids /\ Exists(i)
    BY <2>1, <2>2 DEF Holders
  <2>4. Holders(n) # {} => i \in Holders(n) \/ (i = Own(l) /\ inst[i].native = n)
    BY <1>1, <1>3 DEF Resolve
  <2> QED
    BY <1>1, <1>3, <2>2, <2>3, <2>4
<1> QED
  BY <1>2, <1>3

\* The record a hook saves: that it found, bound to the conversation, or a new
\* one that goes on from what that one was given.
LEMMA WorkingFacts ==
  ASSUME TypeOK, NEW l \in Launches, NEW n \in Convs, NEW ev, NEW i \in Ids \cup {None},
         i # None => Exists(i), NEW kid \in Children,
         NEW w, w = Working(l, n, ev, i, kid)
  PROVE  /\ w.id \in Ids /\ w.new \in Records /\ w.new.heard = 0
         /\ w.new.native = n /\ w.new.delivery # "absent" /\ w.new.closed = (ev = "end")
         /\ i = None => w.id = l /\ w.new.needs /\ w.new.emitted = 0 /\ w.new.alias = None
         /\ i # None /\ inst[i].native \in {None, n}
              => /\ w.id = i /\ w.new.alias = inst[i].alias /\ w.new.emitted = inst[i].emitted
                 /\ w.new.needs = (inst[i].needs \/ StartsOver(inst[i], ev))
                 /\ Given(w.new) = Given(inst[i])
         /\ i # None /\ inst[i].native \notin {None, n}
              => /\ w.id = kid /\ w.new.alias = None /\ w.new.needs
                 /\ Given(w.new) = Given(inst[i])
<1> DEFINE fresh == [NoInst EXCEPT !.started = active, !.delivery = "live", !.needs = TRUE]
           r == IF i = None THEN fresh ELSE inst[i]
           moved == r.native \notin {None, n}
           own == IF moved
                  THEN [r EXCEPT !.needs = TRUE, !.alias = None, !.closed = FALSE, !.started = Given(r)]
                  ELSE r
           new == [own EXCEPT !.native = n, !.heard = 0, !.needs = @ \/ StartsOver(own, ev), !.closed = ev = "end"]
<1>0. /\ active \in Revs /\ l \in Ids /\ kid \in Ids /\ None \notin Ids /\ n # None
      /\ inst \in [Ids -> Records]
  BY TypeFacts, Numbering
<1>1. w = [id |-> IF moved THEN kid ELSE IF i = None THEN l ELSE i, new |-> new]
  BY DEF Working
<1>2. fresh \in Records /\ fresh.delivery = "live" /\ fresh.native = None /\ fresh.emitted = 0
      /\ fresh.needs /\ fresh.alias = None
  BY <1>0 DEF NoInst, Records, None
<1> HIDE DEF fresh
<1>3. r \in Records /\ r.delivery # "absent"
  BY <1>0, <1>2 DEF Exists
<1> HIDE DEF r
<1>4. Given(r) \in Revs \cup {0}
  BY <1>3, GivenTyped
<1>5. /\ own \in Records /\ own.delivery = r.delivery /\ own.emitted = r.emitted
      /\ own.alias = (IF moved THEN None ELSE r.alias) /\ own.needs = (moved \/ r.needs)
      /\ own.started = (IF moved THEN Given(r) ELSE r.started)
      /\ own.closed \in BOOLEAN /\ own.needs \in BOOLEAN
      /\ ~moved => own = r
  BY <1>3, <1>4 DEF Records
<1> HIDE DEF own
<1>6. StartsOver(own, ev) \in BOOLEAN
  BY <1>5 DEF StartsOver
<1>7. /\ new \in Records /\ new.heard = 0 /\ new.native = n /\ new.delivery = r.delivery /\ new.emitted = r.emitted
      /\ new.alias = own.alias /\ new.needs = (own.needs \/ StartsOver(own, ev))
      /\ new.started = own.started /\ new.closed = (ev = "end")
  BY <1>5, <1>6 DEF Records
<1> HIDE DEF new
<1>8. Given(new) = Given(r)
  BY <1>5, <1>7 DEF Given
<1>9. w.id = (IF moved THEN kid ELSE IF i = None THEN l ELSE i) /\ w.new = new
  BY <1>1
<1>10. w.id \in Ids /\ w.new \in Records /\ w.new.heard = 0
       /\ w.new.native = n /\ w.new.delivery # "absent" /\ w.new.closed = (ev = "end")
  BY <1>0, <1>3, <1>7, <1>9
<1>11. CASE i = None
  <2>1. r = fresh
    BY <1>11 DEF r
  <2> QED
    BY <1>2, <1>5, <1>7, <1>9, <1>10, <1>11, <2>1
<1>12. CASE i # None
  <2>1. r = inst[i]
    BY <1>12 DEF r
  <2> QED
    BY <1>5, <1>7, <1>8, <1>9, <1>10, <1>12, <2>1
<1> QED
  BY <1>11, <1>12

\* What a hook may find its conversation to have been given: what it was, or
\* for a new one what the record of the launch says.
LEMMA ContextFacts ==
  ASSUME DeliveryInv, op = Idle, NEW l \in Launches, NEW n \in Convs, NEW given \in Context(l, n)
  PROVE  /\ given \in [Convs -> Revs \cup {0}] /\ given[n] <= active
         /\ \A m \in Convs \ {n} : given[m] = last[m]
         /\ last[n] # 0 \/ Holders(n) # {} => given = last
         /\ given # last => last[n] = 0 /\ Holders(n) = {} /\ Own(l) # None /\ inst[Own(l)].native # n
         /\ given # last /\ inst[Own(l)].alias = None => Given(inst[Own(l)]) = given[n]
<1>t. /\ last \in [Convs -> Revs \cup {0}] /\ active \in Nat /\ inst \in [Ids -> Records]
  BY TypeFacts, Numbering DEF DeliveryInv
<1>a. \A m \in Convs : last[m] <= active
  BY DEF DeliveryInv, Numbers
<1>0. /\ last \in [Convs -> Revs \cup {0}] /\ active \in Nat /\ inst \in [Ids -> Records]
      /\ 0 <= active /\ \A m \in Convs : last[m] <= active
  BY <1>t, <1>a
<1>1. CASE given = last
  BY <1>0, <1>1
<1>2. CASE given # last
  <2>1. PICK r \in Forked(l) : given = [last EXCEPT ![n] = r] /\ last[n] = 0 /\ Holders(n) = {}
    BY <1>2 DEF Context
  <2>2. Own(l) # None
    BY <2>1 DEF Forked
  <2>3. Own(l) \in Ids /\ Exists(Own(l)) /\ inst[Own(l)] \in Records
    BY <1>0, <2>2, OwnExists DEF DeliveryInv
  <2> DEFINE q == inst[Own(l)]
  <2>n. None \notin Convs /\ None \notin Ids
    BY Numbering
  <2>4. CASE q.native = None
    <3>1. r = q.heard /\ r # 0 /\ q.heard \in Revs \cup {0}
      BY <2>1, <2>2, <2>3, <2>4 DEF Forked, Records
    <3>2. q.emitted = 0 /\ q.started = r
      BY <2>3, <2>4, <3>1 DEF DeliveryInv, Unbound
    <3>3. Given(q) = r
      BY <3>2 DEF Given
    <3>4. r <= active
      BY <2>3, <3>1 DEF DeliveryInv, Unbound
    <3>5. q.native # n
      BY <2>4, <2>n
    <3>6. given[n] = r /\ r \in Revs \cup {0}
      BY <1>0, <2>1, <3>1
    <3> QED
      BY <1>0, <2>1, <2>2, <3>3, <3>4, <3>5, <3>6
  <2>5. CASE q.native # None
    <3>1. q.native \in Convs
      BY <2>3, <2>5 DEF Records
    <3>2. ~lost[q.native] /\ r = last[q.native] /\ r \in Revs \cup {0}
      BY <1>0, <2>1, <2>2, <2>5, <3>1 DEF Forked
    <3>3. r # 0
      BY <1>0, <1>2, <2>1, <3>2
    <3>4. q.alias = None => Own(l) \in Holders(q.native)
      BY <2>3 DEF Holders
    <3>5. q.alias = None => Given(q) = r
      BY <3>1, <3>2, <3>3, <3>4 DEF DeliveryInv, AllHeld, Kept, Tells
    <3>6. q.native # n
      BY <1>0, <2>1, <3>2, <3>3
    <3>7. r <= active
      BY <1>0, <3>1, <3>2
    <3> QED
      BY <1>0, <2>1, <2>2, <3>2, <3>5, <3>6, <3>7
  <2> QED
    BY <2>4, <2>5
<1> QED
  BY <1>1, <1>2

\* What a hook of launch l in conversation n is about to do.
LEMMA HookFacts ==
  ASSUME DeliveryInv, op = Idle, NEW l \in Launches, NEW n \in Convs, NEW ev,
         NEW i \in Resolve(l, n), NEW kid \in Children, ~Exists(kid), NEW given \in Context(l, n),
         NEW w, w = Working(l, n, ev, i, kid),
         NEW o, o = [l |-> l, n |-> n, had |-> given[n], id |-> w.id, new |-> w.new,
                     rebinds |-> w.id # l /\ ev = "resume"]
  PROVE  /\ o \in Hooks /\ HookOK(o) /\ Replaces(o) /\ o.new.closed = (ev = "end")
         /\ o.new.alias = None /\ ~o.new.needs => o.new.emitted <= given[n]
         /\ ~Astray(l) => o.new.alias = None
         /\ ~lost[n] /\ Own(l) # None /\ o.new.alias = None /\ given[n] # 0 /\ (given = last \/ ~Astray(l))
              => Given(o.new) = given[n]
         /\ ~lost[n] /\ Own(l) # None /\ o.new.alias = None /\ ~due[n] /\ ev \notin {"start", "resume"}
              => o.new.emitted = given[n] /\ ~o.new.needs
<1>0. /\ last \in [Convs -> Revs \cup {0}] /\ active \in Nat /\ inst \in [Ids -> Records] /\ TypeOK
      /\ lost \in [Convs -> BOOLEAN] /\ due \in [Convs -> BOOLEAN]
  BY TypeFacts, Numbering DEF DeliveryInv
<1>n. None \notin Ids /\ None \notin Convs /\ Launches \subseteq Ids /\ Revs \cup {0} \subseteq Nat
  BY Numbering
<1>1. /\ i = None <=> Own(l) = None
      /\ i # None => i \in Ids /\ Exists(i) /\ (i = Own(l) \/ i \in Holders(n))
      /\ i # None /\ Holders(n) # {} => i \in Holders(n) \/ (i = Own(l) /\ inst[i].native = n)
  BY <1>0, ResolveFacts
<1>2. i \in Ids \cup {None}
  BY <1>1
<1>3. /\ w.id \in Ids /\ w.new \in Records /\ w.new.heard = 0
      /\ w.new.native = n /\ w.new.delivery # "absent" /\ w.new.closed = (ev = "end")
      /\ i = None => w.id = l /\ w.new.needs /\ w.new.emitted = 0 /\ w.new.alias = None
      /\ i # None /\ inst[i].native \in {None, n}
           => /\ w.id = i /\ w.new.alias = inst[i].alias /\ w.new.emitted = inst[i].emitted
              /\ w.new.needs = (inst[i].needs \/ StartsOver(inst[i], ev))
              /\ Given(w.new) = Given(inst[i])
      /\ i # None /\ inst[i].native \notin {None, n}
           => /\ w.id = kid /\ w.new.alias = None /\ w.new.needs
              /\ Given(w.new) = Given(inst[i])
  BY <1>0, <1>1, <1>2, WorkingFacts
<1>4. /\ given \in [Convs -> Revs \cup {0}] /\ given[n] <= active
      /\ last[n] # 0 \/ Holders(n) # {} => given = last
      /\ given # last => last[n] = 0 /\ Holders(n) = {} /\ Own(l) # None /\ inst[Own(l)].native # n
      /\ given # last /\ inst[Own(l)].alias = None => Given(inst[Own(l)]) = given[n]
  BY ContextFacts
<1>5. /\ o.l = l /\ o.n = n /\ o.had = given[n] /\ o.id = w.id /\ o.new = w.new
      /\ o.rebinds \in BOOLEAN /\ (o.rebinds => o.id # o.l) /\ o \in Hooks
  BY <1>3, <1>4 DEF Hooks
<1>6. HookOK(o) /\ o.new.closed = (ev = "end")
  BY <1>3, <1>4, <1>5 DEF HookOK
<1>a. \A h \in Holders(n) : h \in Ids /\ Exists(h) /\ inst[h].alias = None /\ inst[h].native = n
  BY DEF Holders
\* The record found and bound already is the conversation's.
<1>b. i # None /\ inst[i].native = n /\ inst[i].alias = None => i \in Holders(n)
  BY <1>1 DEF Holders
<1>c. i # None /\ Holders(n) # {} => inst[i].native = n
  BY <1>1, <1>a
<1>7. \A m \in Convs \ {n} : w.id \notin Holders(m)
  <2> SUFFICES ASSUME NEW m \in Convs \ {n}, w.id \in Holders(m)
               PROVE  FALSE
    OBVIOUS
  <2>0. Exists(w.id) /\ inst[w.id].alias = None /\ inst[w.id].native = m /\ m # None
    BY <1>n DEF Holders
  <2>1. CASE i = None
    <3>1. Own(l) = None /\ w.id = l
      BY <1>1, <1>3, <2>1
    <3> QED
      BY <1>n, <2>0, <3>1 DEF Own
  <2>2. CASE i # None /\ inst[i].native \in {None, n}
    BY <1>3, <2>0, <2>2
  <2>3. CASE i # None /\ inst[i].native \notin {None, n}
    BY <1>3, <2>0, <2>3
  <2> QED
    BY <2>1, <2>2, <2>3
<1>8. ~lost[n] /\ Own(l) # None /\ w.new.alias = None => Holders(n) \subseteq {w.id}
  <2> SUFFICES ASSUME ~lost[n], Own(l) # None, w.new.alias = None, NEW h \in Holders(n)
               PROVE  h = w.id
    OBVIOUS
  <2>1. i # None /\ inst[i].native = n /\ w.id = i /\ inst[i].alias = None
    BY <1>1, <1>3, <1>c
  <2>2. i \in Holders(n)
    BY <1>b, <2>1
  <2> QED
    BY <2>1, <2>2 DEF DeliveryInv, AllHeld, HeldOnce
<1>9. Replaces(o)
  BY <1>5, <1>7, <1>8 DEF Replaces
<1>10. o.new.alias = None /\ ~o.new.needs => o.new.emitted <= given[n]
  <2> SUFFICES ASSUME w.new.alias = None, ~w.new.needs
               PROVE  w.new.emitted <= given[n]
    BY <1>5
  <2>1. i # None /\ inst[i].native \in {None, n} /\ inst[i] \in Records
    BY <1>0, <1>1, <1>3
  <2>2. w.new.emitted = inst[i].emitted /\ inst[i].alias = None /\ ~inst[i].needs
    BY <1>1, <1>3, <2>1 DEF Records
  <2>3. CASE inst[i].native = None
    <3>1. w.new.emitted = 0
      BY <1>1, <2>1, <2>2, <2>3 DEF DeliveryInv, Unbound
    <3>2. given[n] \in Nat
      BY <1>4, <1>n
    <3> QED
      BY <3>1, <3>2
  <2>4. CASE inst[i].native = n
    <3>1. i \in Holders(n)
      BY <1>b, <2>1, <2>2, <2>4
    <3>2. given = last
      BY <1>4, <3>1
    <3> QED
      BY <1>1, <1>n, <2>1, <2>2, <2>4, <3>2 DEF DeliveryInv, ReceiptMeansTold
  <2> QED
    BY <2>1, <2>3, <2>4
<1>11. ~Astray(l) => o.new.alias = None
  <2> SUFFICES ASSUME Own(l) # None, inst[Own(l)].alias = None
               PROVE  w.new.alias = None
    BY <1>5 DEF Astray
  <2>1. i # None /\ inst[i].alias = None
    BY <1>1, <1>a
  <2> QED
    BY <1>3, <2>1
\* A conversation that was told something works on its record.
<1>12. ~lost[n] /\ Own(l) # None /\ w.new.alias = None /\ last[n] # 0
         => /\ given = last /\ i \in Holders(n) /\ Tells(i, n) /\ inst[i].native = n /\ w.id = i
  <2> SUFFICES ASSUME ~lost[n], Own(l) # None, w.new.alias = None, last[n] # 0
               PROVE  /\ given = last /\ i \in Holders(n) /\ Tells(i, n)
                      /\ inst[i].native = n /\ w.id = i
    OBVIOUS
  <2>1. Holders(n) # {} /\ \A h \in Holders(n) : Tells(h, n)
    BY DEF DeliveryInv, AllHeld, Kept
  <2>2. i # None /\ inst[i].native = n
    BY <1>1, <1>c, <2>1
  <2>3. i \in Holders(n) /\ w.id = i
    BY <1>3, <1>b, <2>2
  <2> QED
    BY <1>4, <2>1, <2>2, <2>3
<1>13. ~lost[n] /\ Own(l) # None /\ o.new.alias = None /\ given[n] # 0 /\ (given = last \/ ~Astray(l))
         => Given(o.new) = given[n]
  <2> SUFFICES ASSUME ~lost[n], Own(l) # None, w.new.alias = None, given[n] # 0, given = last \/ ~Astray(l)
               PROVE  Given(w.new) = given[n]
    BY <1>5
  <2>1. CASE given = last
    <3>1. Tells(i, n) /\ inst[i].native = n
      BY <1>12, <2>1
    <3> QED
      BY <1>1, <1>3, <2>1, <3>1 DEF Tells
  <2>2. CASE given # last
    <3>1. inst[Own(l)].alias = None /\ Given(inst[Own(l)]) = given[n] /\ Holders(n) = {}
      BY <1>4, <2>2 DEF Astray
    <3>2. i = Own(l) /\ i # None
      BY <1>1, <3>1
    <3> QED
      BY <1>3, <3>1, <3>2
  <2> QED
    BY <2>1, <2>2
<1>14. ~lost[n] /\ Own(l) # None /\ o.new.alias = None /\ ~due[n] /\ ev \notin {"start", "resume"}
         => o.new.emitted = given[n] /\ ~o.new.needs
  <2> SUFFICES ASSUME ~lost[n], Own(l) # None, w.new.alias = None, ~due[n], ev \notin {"start", "resume"}
               PROVE  w.new.emitted = given[n] /\ ~w.new.needs
    BY <1>5
  <2>1. last[n] # 0
    BY DEF DeliveryInv, Numbers
  <2>2. given = last /\ Tells(i, n) /\ inst[i].native = n /\ i # None
    BY <1>1, <1>12, <2>1
  <2>3. inst[i].emitted = last[n] /\ ~inst[i].needs /\ ~inst[i].closed
    BY <2>2 DEF Tells
  <2>4. ~StartsOver(inst[i], ev)
    BY <2>3 DEF StartsOver
  <2> QED
    BY <1>3, <2>2, <2>3, <2>4
<1> QED
  BY <1>5, <1>6, <1>9, <1>10, <1>11, <1>13, <1>14

-----------------------------------------------------------------------------
(* Saving a record *)

\* What a save changes: the record, its conversation's, and the launch's own
\* when it becomes an alias.
LEMMA SaveFacts ==
  ASSUME TypeOK, NEW o, HookOK(o), Replaces(o), NEW receipt \in BOOLEAN, Save(o, receipt)
  PROVE  /\ inst' \in [Ids -> Records] /\ lost' \in [Convs -> BOOLEAN] /\ inst'[o.id] = o.new
         /\ \A i \in Ids \ {o.id} : inst'[i] = inst[i] \/ inst'[i] = [inst[i] EXCEPT !.alias = o.id]
         /\ \A m \in Convs \ {o.n} : ~lost'[m]
              => ~lost[m] /\ Holders(m)' = Holders(m) /\ \A i \in Holders(m) : inst'[i] = inst[i]
         /\ ~lost'[o.n] => /\ Own(o.l) # None /\ o.new.alias = None
                           /\ receipt \/ o.had = last[o.n] \/ ~Astray(o.l)
                           /\ receipt \/ ~lost[o.n]
                           /\ Holders(o.n)' = {o.id}
<1>0. /\ inst \in [Ids -> Records] /\ lost \in [Convs -> BOOLEAN] /\ None \notin Ids
      /\ o.l \in Launches /\ o.l \in Ids /\ o.n \in Convs /\ o.id \in Ids /\ o.new \in Records
      /\ o.rebinds \in BOOLEAN /\ o.new.native = o.n /\ o.new.delivery # "absent"
  BY TypeFacts, Numbering DEF HookOK
<1>1. \A i \in Ids : inst'[i] = (IF i = o.id THEN o.new
                                 ELSE IF o.rebinds /\ i = o.l THEN [inst[i] EXCEPT !.alias = o.id]
                                 ELSE inst[i])
  BY DEF Save
<1>2. \A m \in Convs : lost'[m] = (\/ (lost[m] /\ ~(receipt /\ m = o.n /\ Holders(m) \subseteq {o.id}))
                                   \/ (o.rebinds /\ inst[o.l].native = m)
                                   \/ (m = o.n /\ (Own(o.l) = None \/ o.new.alias # None))
                                   \/ (m = o.n /\ ~receipt /\ o.had # last[m] /\ Astray(o.l)))
  BY DEF Save
<1>3. \A i \in Ids : inst'[i] \in Records
  <2> SUFFICES ASSUME NEW i \in Ids PROVE inst'[i] \in Records
    OBVIOUS
  <2>1. inst[i] \in Records /\ [inst[i] EXCEPT !.alias = o.id] \in Records
    BY <1>0 DEF Records
  <2> QED
    BY <1>0, <1>1, <2>1
<1>4. inst' \in [Ids -> Records]
  BY <1>3 DEF Save
<1>5. lost' \in [Convs -> BOOLEAN]
  BY DEF Save
<1>6. inst'[o.id] = o.new
  BY <1>0, <1>1
<1>7. \A i \in Ids \ {o.id} : inst'[i] = inst[i] \/ inst'[i] = [inst[i] EXCEPT !.alias = o.id]
  BY <1>1
<1>8. \A i \in Ids : [inst[i] EXCEPT !.alias = o.id].alias = o.id
  BY <1>0 DEF Records
\* A record that turned into an alias is no conversation's.
<1>9. ASSUME NEW m \in Convs, NEW i \in Ids \ {o.id}
      PROVE  /\ i \in Holders(m)' => i \in Holders(m) /\ inst'[i] = inst[i]
             /\ i \in Holders(m) /\ inst'[i] = inst[i] => i \in Holders(m)'
  BY <1>0, <1>7, <1>8 DEF Holders, Exists
<1>10. o.id \in Holders(o.n)' <=> o.new.alias = None
  BY <1>0, <1>6 DEF Holders, Exists
<1>11. ASSUME NEW m \in Convs \ {o.n}, ~lost'[m]
       PROVE  ~lost[m] /\ Holders(m)' = Holders(m) /\ \A i \in Holders(m) : inst'[i] = inst[i]
  <2>1. ~lost[m] /\ ~(o.rebinds /\ inst[o.l].native = m)
    BY <1>2, <1>11
  <2>2. o.id \notin Holders(m) /\ o.id \notin Holders(m)'
    BY <1>0, <1>6 DEF Replaces, Holders
  <2>3. \A i \in Holders(m) : inst'[i] = inst[i]
    BY <1>1, <2>1, <2>2 DEF Holders
  <2>4. Holders(m) \subseteq Ids /\ Holders(m)' \subseteq Ids
    BY DEF Holders
  <2>5. Holders(m)' = Holders(m)
    BY <1>9, <2>2, <2>3, <2>4
  <2> QED
    BY <2>1, <2>3, <2>5
<1>12. ASSUME ~lost'[o.n]
       PROVE  /\ Own(o.l) # None /\ o.new.alias = None
              /\ receipt \/ o.had = last[o.n] \/ ~Astray(o.l)
              /\ receipt \/ ~lost[o.n]
              /\ Holders(o.n)' = {o.id}
  <2>1. /\ Own(o.l) # None /\ o.new.alias = None
        /\ receipt \/ o.had = last[o.n] \/ ~Astray(o.l)
        /\ ~lost[o.n] \/ (receipt /\ Holders(o.n) \subseteq {o.id})
    BY <1>0, <1>2, <1>12
  <2>2. Holders(o.n) \subseteq {o.id}
    BY <2>1 DEF Replaces
  <2>3. Holders(o.n)' \subseteq Ids
    BY DEF Holders
  <2>4. Holders(o.n)' = {o.id}
    BY <1>0, <1>9, <1>10, <2>1, <2>2, <2>3
  <2> QED
    BY <2>1, <2>4
<1> QED
  BY <1>4, <1>5, <1>6, <1>7, <1>11, <1>12

\* A save keeps the invariant if the saved record is true of its conversation.
LEMMA SaveInv ==
  ASSUME DeliveryInv, NEW o, HookOK(o), Replaces(o), NEW receipt \in BOOLEAN, Save(o, receipt),
         UNCHANGED <<active, up>>, op' = Idle, op # Idle => op.n = o.n,
         last' \in [Convs -> Revs \cup {0}], due' \in [Convs -> BOOLEAN],
         \A m \in Convs \ {o.n} : last'[m] = last[m] /\ due'[m] = due[m],
         last[o.n] <= last'[o.n], last'[o.n] <= active, ~due'[o.n] => last'[o.n] # 0,
         o.new.alias = None /\ ~o.new.needs => o.new.emitted <= last'[o.n],
         ~lost'[o.n] /\ last'[o.n] # 0
           => /\ Given(o.new) = last'[o.n]
              /\ ~due'[o.n] => o.new.emitted = last'[o.n] /\ ~o.new.needs /\ ~o.new.closed
  PROVE  DeliveryInv'
<1>0. /\ active \in Revs /\ inst \in [Ids -> Records] /\ up \subseteq Launches /\ TypeOK
      /\ last \in [Convs -> Revs \cup {0}] /\ None \notin Ids /\ None \notin Convs
      /\ Revs \cup {0} \subseteq Nat /\ active \in Nat
  BY TypeFacts, Numbering DEF DeliveryInv
<1>1. /\ inst' \in [Ids -> Records] /\ lost' \in [Convs -> BOOLEAN] /\ inst'[o.id] = o.new
      /\ \A i \in Ids \ {o.id} : inst'[i] = inst[i] \/ inst'[i] = [inst[i] EXCEPT !.alias = o.id]
      /\ \A m \in Convs \ {o.n} : ~lost'[m]
           => ~lost[m] /\ Holders(m)' = Holders(m) /\ \A i \in Holders(m) : inst'[i] = inst[i]
      /\ ~lost'[o.n] => Holders(o.n)' = {o.id}
  BY <1>0, SaveFacts
<1>2. /\ o.n \in Convs /\ o.id \in Ids /\ o.new.native = o.n /\ o.new.heard = 0 /\ o.new \in Records
  BY DEF HookOK
<1>3. TypeOK'
  BY <1>0, <1>1, EmptyValues, TypesNext
<1>4. ASSUME NEW i \in Ids \ {o.id}
      PROVE  /\ inst'[i].native = inst[i].native /\ inst'[i].heard = inst[i].heard
             /\ inst'[i].started = inst[i].started /\ inst'[i].emitted = inst[i].emitted
             /\ inst'[i].needs = inst[i].needs
             /\ inst'[i].alias = None => inst[i].alias = None
  <2>1. inst[i] \in Records
    BY <1>0
  <2>2. CASE inst'[i] = inst[i]
    BY <2>2
  <2>3. CASE inst'[i] = [inst[i] EXCEPT !.alias = o.id]
    BY <1>0, <1>2, <2>1, <2>3 DEF Records
  <2> QED
    BY <1>1, <2>2, <2>3
<1>5. \A m \in Convs : last[m] <= last'[m] /\ last'[m] <= active /\ last[m] \in Nat /\ last'[m] \in Nat
  <2>1. \A m \in Convs : last[m] \in Nat /\ last'[m] \in Nat /\ last[m] <= active
    BY <1>0 DEF DeliveryInv, Numbers
  <2> QED
    BY <2>1
<1>6. Numbers'
  BY <1>5 DEF DeliveryInv, Numbers
<1>7. Unbound'
  <2> SUFFICES ASSUME NEW i \in Ids
               PROVE  /\ inst'[i].heard <= active
                      /\ inst'[i].native = None
                           => inst'[i].emitted = 0 /\ (inst'[i].heard # 0 => inst'[i].started = inst'[i].heard)
    BY DEF Unbound
  <2>1. CASE i = o.id
    BY <1>0, <1>1, <1>2, <2>1
  <2>2. CASE i # o.id
    BY <1>4, <2>2 DEF DeliveryInv, Unbound
  <2> QED
    BY <2>1, <2>2
<1>8. ReceiptMeansTold'
  <2> SUFFICES ASSUME NEW i \in Ids, inst'[i].native # None, inst'[i].alias = None, ~inst'[i].needs
               PROVE  inst'[i].emitted <= last'[inst'[i].native]
    BY DEF ReceiptMeansTold
  <2>1. CASE i = o.id
    BY <1>1, <1>2, <2>1
  <2>2. CASE i # o.id
    <3>1. inst[i].emitted <= last[inst[i].native]
      BY <1>4, <2>2 DEF DeliveryInv, ReceiptMeansTold
    <3>2. inst[i] \in Records /\ inst[i].native \in Convs /\ inst[i].emitted \in Nat
      BY <1>0, <1>4, <2>2 DEF Records
    <3> QED
      BY <1>4, <1>5, <2>2, <3>1, <3>2
  <2> QED
    BY <2>1, <2>2
<1>9. AllHeld'
  <2> SUFFICES ASSUME NEW m \in Convs
               PROVE  Kept(m)' /\ HeldOnce(m)'
    BY DEF AllHeld
  <2>1. CASE m = o.n
    <3>1. HeldOnce(m)'
      BY <1>1, <2>1 DEF HeldOnce
    <3>2. Kept(m)'
      <4> SUFFICES ASSUME last'[m] # 0, ~lost'[m]
                   PROVE  Holders(m)' # {} /\ \A i \in Holders(m)' : Tells(i, m)'
        BY DEF Kept
      <4>1. Holders(m)' = {o.id}
        BY <1>1, <2>1
      <4>2. Tells(o.id, m)'
        BY <1>1, <2>1 DEF Tells, Given
      <4> QED
        BY <4>1, <4>2
    <3> QED
      BY <3>1, <3>2
  <2>2. CASE m # o.n
    <3> USE <2>2
    <3>1. ~lost'[m] => ~lost[m] /\ Holders(m)' = Holders(m) /\ \A i \in Holders(m) : inst'[i] = inst[i]
      BY <1>1
    <3>2. HeldOnce(m)'
      BY <3>1 DEF DeliveryInv, AllHeld, HeldOnce
    <3>3. Kept(m)'
      <4> SUFFICES ASSUME last'[m] # 0, ~lost'[m]
                   PROVE  Holders(m)' # {} /\ \A i \in Holders(m)' : Tells(i, m)'
        BY DEF Kept
      <4>1. Holders(m) # {} /\ \A i \in Holders(m) : Tells(i, m)
        BY <3>1 DEF DeliveryInv, AllHeld, Kept
      <4>2. \A i \in Holders(m) : Tells(i, m)'
        BY <3>1, <4>1 DEF Tells, Given
      <4> QED
        BY <3>1, <4>1, <4>2
    <3> QED
      BY <3>2, <3>3
  <2> QED
    BY <2>1, <2>2
<1>10. HookReady'
  BY DEF HookReady
<1> QED
  BY <1>3, <1>6, <1>7, <1>8, <1>9, <1>10 DEF DeliveryInv

-----------------------------------------------------------------------------
(* The steps *)

\* Conversations keep their records where a step changes neither these nor
\* what was given, except by closing a record, which it notes.
LEMMA HeldStays ==
  ASSUME AllHeld,
         \A m \in Convs : ~lost'[m] =>
           /\ ~lost[m] /\ Holders(m)' = Holders(m)
           /\ \/ op' # Idle /\ op'.n = m
              \/ /\ ~(op # Idle /\ op.n = m) /\ last'[m] = last[m] /\ (~due'[m] => ~due[m])
                 /\ \A i \in Holders(m) : /\ inst'[i].started = inst[i].started
                                          /\ inst'[i].emitted = inst[i].emitted
                                          /\ inst'[i].needs = inst[i].needs
                                          /\ ~due'[m] => inst'[i].closed = inst[i].closed
  PROVE  AllHeld'
<1> SUFFICES ASSUME NEW m \in Convs, ~lost'[m]
             PROVE  Kept(m)' /\ HeldOnce(m)'
  BY DEF AllHeld, Kept, HeldOnce
<1>1. HeldOnce(m)'
  BY DEF AllHeld, HeldOnce
<1>2. Kept(m)'
  <2> SUFFICES ASSUME last'[m] # 0, ~(op' # Idle /\ op'.n = m)
               PROVE  Holders(m)' # {} /\ \A i \in Holders(m)' : Tells(i, m)'
    BY DEF Kept
  <2>1. Holders(m) # {} /\ \A i \in Holders(m) : Tells(i, m)
    BY DEF AllHeld, Kept
  <2>2. ASSUME NEW i \in Holders(m)
        PROVE  Tells(i, m)'
    <3>1. Tells(i, m)
      BY <2>1
    <3>2. Given(inst[i])' = Given(inst[i])
      BY DEF Given
    <3> QED
      BY <3>1, <3>2 DEF Tells
  <2> QED
    BY <2>1, <2>2
<1> QED
  BY <1>1, <1>2

\* A new revision.
LEMMA ActivateInv ==
  ASSUME DeliveryInv, Activate
  PROVE  DeliveryInv'
<1>0. /\ active \in Revs /\ active \in Nat /\ active' \in Revs /\ active' = active + 1
      /\ inst \in [Ids -> Records] /\ up \subseteq Launches /\ op \in Hooks
      /\ last \in [Convs -> Revs \cup {0}] /\ Revs \cup {0} \subseteq Nat
      /\ due \in [Convs -> BOOLEAN] /\ lost \in [Convs -> BOOLEAN]
  BY TypeFacts, Numbering DEF DeliveryInv, Activate
<1>1. TypeOK'
  BY <1>0, TypesNext DEF Activate
<1>2. Numbers'
  <2> SUFFICES ASSUME NEW n \in Convs
               PROVE  last[n] <= active + 1 /\ (~due[n] => last[n] # 0)
    BY <1>0 DEF Numbers, Activate
  <2>1. last[n] \in Nat
    BY <1>0
  <2> QED
    BY <1>0, <2>1 DEF DeliveryInv, Numbers
<1>3. Unbound'
  <2> SUFFICES ASSUME NEW i \in Ids
               PROVE  inst[i].heard <= active + 1
    BY <1>0 DEF DeliveryInv, Unbound, Activate
  <2>1. inst[i].heard \in Nat
    BY <1>0 DEF Records
  <2> QED
    BY <1>0, <2>1 DEF DeliveryInv, Unbound
<1>4. ReceiptMeansTold' /\ AllHeld' /\ HookReady'
  BY DEF DeliveryInv, ReceiptMeansTold, HookReady, AllHeld, Kept, HeldOnce, Tells, Holders, Exists, Activate
<1> QED
  BY <1>1, <1>2, <1>3, <1>4 DEF DeliveryInv

\* Pruning takes the records that are gone, and aliases.
LEMMA PrunedFacts ==
  ASSUME TypeOK, NEW gone \in SUBSET Ids, NEW pruned \in Pruned(gone)
  PROVE  /\ pruned \in [Ids -> Records]
         /\ \A i \in Ids : pruned[i] = inst[i] \/ pruned[i] = NoInst
         /\ \A i \in Ids \ gone : Exists(i) /\ inst[i].alias = None => pruned[i] = inst[i]
         /\ \A i \in gone : pruned[i] = NoInst
<1>0. inst \in [Ids -> Records] /\ NoInst \in Records
  BY TypeFacts, EmptyValues
<1> DEFINE left == {i \in Ids : Exists(i)} \ gone
           tied == {i \in left : inst[i].alias \in left \cup {None}}
<1>1. PICK K \in SUBSET tied : /\ \A i \in tied \ K : inst[i].alias \notin K \cup {None}
                               /\ pruned = [i \in Ids |-> IF i \in K THEN inst[i] ELSE NoInst]
  BY DEF Pruned
<1>2. \A i \in Ids \ gone : Exists(i) /\ inst[i].alias = None => i \in K
  BY <1>1
<1>3. \A i \in gone : i \notin K
  BY <1>1
<1> QED
  BY <1>0, <1>1, <1>2, <1>3

\* A launch: conversations whose record is pruned have lost it, and one that is
\* continued is started from what it was given.
LEMMA LaunchInv ==
  ASSUME DeliveryInv, NEW l \in Launches, NEW n \in Convs \cup {None}, NEW d \in {"live", "unsupported"},
         Launch(l, n, d)
  PROVE  DeliveryInv'
<1>0. /\ active \in Revs /\ active \in Nat /\ inst \in [Ids -> Records] /\ up \subseteq Launches
      /\ op \in Hooks /\ last \in [Convs -> Revs \cup {0}] /\ Revs \cup {0} \subseteq Nat /\ TypeOK
      /\ due \in [Convs -> BOOLEAN] /\ lost \in [Convs -> BOOLEAN]
      /\ l \in Ids /\ None \notin Convs /\ None \notin Ids /\ NoInst \in Records
  BY TypeFacts, Numbering, EmptyValues DEF DeliveryInv
<1>1. /\ op = Idle /\ ~Exists(l) /\ (n # None => last[n] # 0)
      /\ UNCHANGED <<active, op, last, due>> /\ up' = up \cup {l}
  BY DEF Launch
<1>2. PICK gone \in SUBSET Ids :
        /\ lost' = [c \in Convs |-> lost[c] \/ \E i \in gone : inst[i].native = c]
        /\ \E s \in StartFrom(n, gone), pruned \in Pruned(gone) :
             inst' = [pruned EXCEPT ![l] = [NoInst EXCEPT !.started = s, !.delivery = d,
                              !.heard = IF n = None \/ lost'[n] THEN 0 ELSE last[n]]]
  BY DEF Launch
<1>3. PICK s \in StartFrom(n, gone), pruned \in Pruned(gone) :
        inst' = [pruned EXCEPT ![l] = [NoInst EXCEPT !.started = s, !.delivery = d,
                         !.heard = IF n = None \/ lost'[n] THEN 0 ELSE last[n]]]
  BY <1>2
<1> DEFINE heard == IF n = None \/ lost'[n] THEN 0 ELSE last[n]
           new == [NoInst EXCEPT !.started = s, !.delivery = d, !.heard = heard]
<1>4. /\ pruned \in [Ids -> Records]
      /\ \A i \in Ids : pruned[i] = inst[i] \/ pruned[i] = NoInst
      /\ \A i \in Ids \ gone : Exists(i) /\ inst[i].alias = None => pruned[i] = inst[i]
      /\ \A i \in gone : pruned[i] = NoInst
  BY <1>0, PrunedFacts
<1>5. \A c \in Convs : ~lost'[c] => ~lost[c] /\ Holders(c) \cap gone = {}
  BY <1>2 DEF Holders
<1>6. s \in Revs \cup {0}
  <2>1. \A i \in Holders(n) : Given(inst[i]) \in Revs \cup {0}
    BY <1>0, GivenTyped DEF Holders
  <2> QED
    BY <1>0, <2>1 DEF StartFrom
<1>7. heard \in Revs \cup {0} /\ heard <= active
  <2>1. CASE n = None \/ lost'[n]
    BY <1>0, <2>1
  <2>2. CASE ~(n = None \/ lost'[n])
    BY <1>0, <2>2 DEF DeliveryInv, Numbers
  <2> QED
    BY <2>1, <2>2
<1>8. heard # 0 => s = heard
  <2> SUFFICES ASSUME heard # 0
               PROVE  s = heard
    OBVIOUS
  <2>1. n \in Convs /\ ~lost'[n] /\ heard = last[n] /\ last[n] # 0 /\ n # None
    OBVIOUS
  <2>2. Holders(n) # {} /\ \A i \in Holders(n) : Given(inst[i]) = last[n]
    BY <1>1, <1>5, <2>1 DEF DeliveryInv, AllHeld, Kept, Tells
  <2>3. Holders(n) \cap gone = {}
    BY <1>5, <2>1
  <2>4. s \in {Given(inst[i]) : i \in Holders(n) \ gone}
    BY <2>1, <2>2, <2>3 DEF StartFrom
  <2> QED
    BY <2>1, <2>2, <2>4
<1>9. /\ new \in Records /\ new.native = None /\ new.emitted = 0 /\ new.heard = heard /\ new.started = s
  BY <1>6, <1>7 DEF NoInst, Records, None
<1> HIDE DEF heard
<1>10. inst' = [pruned EXCEPT ![l] = new]
  BY <1>3 DEF heard
<1> HIDE DEF new
<1>11. /\ inst' \in [Ids -> Records] /\ inst'[l] = new
       /\ \A i \in Ids \ {l} : inst'[i] = pruned[i]
  BY <1>0, <1>4, <1>9, <1>10
<1>12. lost' \in [Convs -> BOOLEAN]
  BY <1>0, <1>2
<1>13. TypeOK'
  BY <1>0, <1>1, <1>11, <1>12, TypesNext
<1>14. Numbers'
  BY <1>1 DEF DeliveryInv, Numbers
<1>15. NoInst.native = None /\ NoInst.heard = 0 /\ NoInst.emitted = 0 /\ NoInst.delivery = "absent"
  BY DEF NoInst
<1>16. Unbound'
  <2> SUFFICES ASSUME NEW i \in Ids
               PROVE  /\ inst'[i].heard <= active
                      /\ inst'[i].native = None
                           => inst'[i].emitted = 0 /\ (inst'[i].heard # 0 => inst'[i].started = inst'[i].heard)
    BY <1>1 DEF Unbound
  <2>1. CASE i = l
    BY <1>7, <1>8, <1>9, <1>11, <2>1
  <2>2. CASE i # l /\ pruned[i] = inst[i]
    BY <1>11, <2>2 DEF DeliveryInv, Unbound
  <2>3. CASE i # l /\ pruned[i] = NoInst
    BY <1>0, <1>11, <1>15, <2>3
  <2> QED
    BY <1>4, <2>1, <2>2, <2>3
<1>17. ReceiptMeansTold'
  <2> SUFFICES ASSUME NEW i \in Ids, inst'[i].native # None, inst'[i].alias = None, ~inst'[i].needs
               PROVE  inst'[i].emitted <= last[inst'[i].native]
    BY <1>1 DEF ReceiptMeansTold
  <2>1. i # l /\ inst'[i] = inst[i]
    BY <1>4, <1>9, <1>11, <1>15
  <2> QED
    BY <2>1 DEF DeliveryInv, ReceiptMeansTold
<1>18. ASSUME NEW m \in Convs, ~lost'[m]
       PROVE  /\ ~lost[m] /\ Holders(m)' = Holders(m)
              /\ \A i \in Holders(m) : inst'[i] = inst[i]
  <2>1. ~lost[m] /\ Holders(m) \cap gone = {}
    BY <1>5, <1>18
  <2>2. l \notin Holders(m) /\ l \notin Holders(m)'
    BY <1>0, <1>1, <1>9, <1>11 DEF Holders
  <2>3. \A i \in Holders(m) : inst'[i] = inst[i]
    BY <1>4, <1>11, <2>1, <2>2 DEF Holders
  <2>4. Holders(m) \subseteq Holders(m)'
    BY <2>3 DEF Holders, Exists
  <2>5. Holders(m)' \subseteq Holders(m)
    BY <1>0, <1>4, <1>11, <1>15, <2>2 DEF Holders, Exists
  <2> QED
    BY <2>1, <2>3, <2>4, <2>5
<1>19. AllHeld'
  BY <1>1, <1>18, HeldStays DEF DeliveryInv
<1>20. HookReady'
  BY <1>1 DEF HookReady
<1> QED
  BY <1>13, <1>14, <1>16, <1>17, <1>19, <1>20 DEF DeliveryInv

\* A launch ends: its record is closed, which is noted.
LEMMA ExitInv ==
  ASSUME DeliveryInv, NEW l \in Launches, Exit(l)
  PROVE  DeliveryInv'
<1>0. /\ active \in Revs /\ inst \in [Ids -> Records] /\ up \subseteq Launches /\ TypeOK
      /\ op \in Hooks /\ last \in [Convs -> Revs \cup {0}]
      /\ due \in [Convs -> BOOLEAN] /\ lost \in [Convs -> BOOLEAN] /\ None \notin Ids
  BY TypeFacts, Numbering DEF DeliveryInv
<1>1. op = Idle /\ UNCHANGED <<active, op, last, lost>> /\ up' \subseteq Launches
  BY <1>0 DEF Exit
<1>2. CASE UNCHANGED <<inst, due>>
  <2>1. TypeOK'
    BY <1>0, <1>1, <1>2, TypesNext
  <2> QED
    BY <1>1, <1>2, <2>1 DEF DeliveryInv, ReceiptMeansTold, Numbers, Unbound, HookReady,
         AllHeld, Kept, HeldOnce, Tells, Holders, Exists
<1>3. ASSUME NEW i \in Ids, inst' = [inst EXCEPT ![i].closed = TRUE],
             due' = [n \in Convs |-> due[n] \/ inst[i].native = n]
      PROVE  DeliveryInv'
  <2>1. ASSUME NEW j \in Ids
        PROVE  /\ inst'[j] \in Records
               /\ inst'[j].native = inst[j].native /\ inst'[j].heard = inst[j].heard
               /\ inst'[j].started = inst[j].started /\ inst'[j].emitted = inst[j].emitted
               /\ inst'[j].needs = inst[j].needs /\ inst'[j].alias = inst[j].alias
               /\ inst'[j].delivery = inst[j].delivery
               /\ j # i => inst'[j] = inst[j]
    <3>1. inst[j] \in Records
      BY <1>0
    <3>2. inst'[j] = inst[j] \/ inst'[j] = [inst[j] EXCEPT !.closed = TRUE]
      BY <1>0, <1>3
    <3>3. CASE inst'[j] = [inst[j] EXCEPT !.closed = TRUE]
      BY <1>0, <1>3, <3>1, <3>3 DEF Records
    <3>4. j # i => inst'[j] = inst[j]
      BY <1>0, <1>3
    <3> QED
      BY <3>1, <3>2, <3>3, <3>4
  <2>2. inst' \in [Ids -> Records]
    BY <1>0, <1>3, <2>1
  <2>3. due' \in [Convs -> BOOLEAN]
    BY <1>0, <1>3
  <2>4. TypeOK'
    BY <1>0, <1>1, <2>2, <2>3, TypesNext
  <2>5. Numbers'
    BY <1>0, <1>1, <1>3 DEF DeliveryInv, Numbers
  <2>6. Unbound' /\ ReceiptMeansTold'
    BY <1>1, <2>1 DEF DeliveryInv, Unbound, ReceiptMeansTold
  <2>7. \A m \in Convs : Holders(m)' = Holders(m)
    BY <2>1 DEF Holders, Exists
  <2>8. \A m \in Convs, j \in Ids : j \in Holders(m) /\ ~due'[m] => j # i /\ ~due[m]
    BY <1>0, <1>3 DEF Holders
  <2>9. \A m \in Convs : ~due'[m] => ~due[m]
    BY <1>0, <1>3
  <2>10. \A m \in Convs : Holders(m) \subseteq Ids
    BY DEF Holders
  <2>11. AllHeld'
    BY <1>1, <2>1, <2>7, <2>8, <2>9, <2>10, HeldStays DEF DeliveryInv
  <2>12. HookReady'
    BY <1>1 DEF HookReady
  <2> QED
    BY <2>4, <2>5, <2>6, <2>11, <2>12 DEF DeliveryInv
<1>4. PICK i \in Resolve(l, None) :
        IF i = None THEN UNCHANGED <<inst, due>>
        ELSE /\ inst' = [inst EXCEPT ![i].closed = TRUE]
             /\ due' = [n \in Convs |-> due[n] \/ inst[i].native = n]
  BY DEF Exit
<1>5. i # None => i \in Ids
  BY <1>0, OwnExists DEF Resolve
<1> QED
  BY <1>2, <1>3, <1>4, <1>5

\* A hook, up to its output: a tool hook with nothing to print and an ended
\* conversation are saved at once, and so is an output that failed.
LEMMA CallInv ==
  ASSUME DeliveryInv, NEW l \in Launches, NEW n \in Convs, NEW ev \in {"start", "resume", "tool", "end"},
         Call(l, n, ev)
  PROVE  DeliveryInv'
<1>0. /\ active \in Revs /\ active \in Nat /\ inst \in [Ids -> Records] /\ up \subseteq Launches
      /\ op \in Hooks /\ last \in [Convs -> Revs \cup {0}] /\ Revs \cup {0} \subseteq Nat /\ TypeOK
      /\ due \in [Convs -> BOOLEAN] /\ lost \in [Convs -> BOOLEAN] /\ 0 \notin Revs
      /\ None \notin Convs /\ None \notin Ids /\ Launches \subseteq Ids
  BY TypeFacts, Numbering DEF DeliveryInv
<1>1. /\ op = Idle /\ UNCHANGED <<active, up>>
      /\ due' = [due EXCEPT ![n] = @ \/ ev # "tool"]
  BY DEF Call
<1>2. PICK i \in Resolve(l, n), kid \in {k \in Children : ~Exists(k)}, given \in Context(l, n) :
         LET w == Working(l, n, ev, i, kid)
             o == [l |-> l, n |-> n, had |-> given[n], id |-> w.id, new |-> w.new, rebinds |-> w.id # l /\ ev = "resume"]
             unsupported == IF i = None THEN FALSE ELSE inst[i].delivery = "unsupported"
             prints == ~unsupported /\ ev # "end" /\ ~Settled(w.new)
         IN  /\ due' = [due EXCEPT ![n] = @ \/ ev # "tool"]
             /\ \/ /\ unsupported
                   /\ lost' = [lost EXCEPT ![n] = @ \/ given # last]
                   /\ last' = given
                   /\ UNCHANGED <<inst, op, failures>>
                \/ /\ ~unsupported /\ (ev = "end" \/ Settled(w.new))
                   /\ Save(o, FALSE) /\ last' = given
                   /\ UNCHANGED <<op, failures>>
                \/ /\ prints
                   /\ op' = o /\ last' = [given EXCEPT ![n] = active]
                   /\ UNCHANGED <<inst, lost, failures>>
                \/ /\ prints
                   /\ failures < MaxFailures /\ failures' = failures + 1
                   /\ Save(o, FALSE) /\ last' = given
                   /\ UNCHANGED op
  BY DEF Call
<1> DEFINE w == Working(l, n, ev, i, kid)
           o == [l |-> l, n |-> n, had |-> given[n], id |-> w.id, new |-> w.new,
                 rebinds |-> w.id # l /\ ev = "resume"]
<1>3. /\ o \in Hooks /\ HookOK(o) /\ Replaces(o) /\ o.new.closed = (ev = "end")
      /\ o.new.alias = None /\ ~o.new.needs => o.new.emitted <= given[n]
      /\ ~lost[n] /\ Own(l) # None /\ o.new.alias = None /\ given[n] # 0 /\ (given = last \/ ~Astray(l))
           => Given(o.new) = given[n]
      /\ ~lost[n] /\ Own(l) # None /\ o.new.alias = None /\ ~due[n] /\ ev \notin {"start", "resume"}
           => o.new.emitted = given[n] /\ ~o.new.needs
  BY <1>1, HookFacts
<1>4. o.l = l /\ o.n = n /\ o.had = given[n]
  OBVIOUS
<1>5. \/ /\ lost' = [lost EXCEPT ![n] = @ \/ given # last]
         /\ last' = given
         /\ UNCHANGED <<inst, op>>
      \/ Save(o, FALSE) /\ last' = given /\ UNCHANGED op
      \/ ev # "end" /\ op' = o /\ last' = [given EXCEPT ![n] = active] /\ UNCHANGED <<inst, lost>>
  BY <1>2
<1> HIDE DEF o, w
<1>6. /\ given \in [Convs -> Revs \cup {0}] /\ given[n] <= active
      /\ \A m \in Convs \ {n} : given[m] = last[m]
      /\ given # last => last[n] = 0
  BY <1>1, ContextFacts
<1>7. /\ due' \in [Convs -> BOOLEAN] /\ \A m \in Convs : due[m] => due'[m]
      /\ \A m \in Convs \ {n} : due'[m] = due[m]
      /\ ~due'[n] => ~due[n] /\ ev = "tool"
  BY <1>0, <1>1
<1>8. \A m \in Convs : last[m] <= given[m] /\ given[m] <= active /\ (~due'[m] => given[m] # 0)
  <2> SUFFICES ASSUME NEW m \in Convs
               PROVE  last[m] <= given[m] /\ given[m] <= active /\ (~due'[m] => given[m] # 0)
    OBVIOUS
  <2>1. last[m] \in Nat /\ given[m] \in Nat /\ last[m] <= active /\ (~due[m] => last[m] # 0)
    BY <1>0, <1>6 DEF DeliveryInv, Numbers
  <2>2. CASE given[m] = last[m]
    BY <1>7, <2>1, <2>2
  <2>3. CASE given[m] # last[m]
    <3>1. m = n /\ last[n] = 0
      BY <1>6, <2>3
    <3> QED
      BY <1>6, <1>7, <2>1, <3>1
  <2> QED
    BY <2>2, <2>3
<1>9. CASE /\ lost' = [lost EXCEPT ![n] = @ \/ given # last]
           /\ last' = given
           /\ UNCHANGED <<inst, op>>
  <2>1. lost' \in [Convs -> BOOLEAN]
    BY <1>0, <1>9
  <2>2. TypeOK'
    BY <1>0, <1>1, <1>6, <1>7, <1>9, <2>1, TypesNext
  <2>3. Numbers' /\ Unbound'
    BY <1>1, <1>8, <1>9 DEF DeliveryInv, Numbers, Unbound
  <2>4. ReceiptMeansTold'
    <3> SUFFICES ASSUME NEW j \in Ids, inst[j].native # None, inst[j].alias = None, ~inst[j].needs
                 PROVE  inst[j].emitted <= given[inst[j].native]
      BY <1>9 DEF ReceiptMeansTold
    <3>1. inst[j] \in Records
      BY <1>0
    <3>2. inst[j].native \in Convs /\ inst[j].emitted \in Nat
      BY <1>0, <3>1 DEF Records
    <3>3. inst[j].emitted <= last[inst[j].native]
      BY DEF DeliveryInv, ReceiptMeansTold
    <3>4. last[inst[j].native] \in Nat /\ given[inst[j].native] \in Nat
      BY <1>0, <1>6, <3>2
    <3> QED
      BY <1>8, <3>2, <3>3, <3>4
  <2>5. ASSUME NEW m \in Convs, ~lost'[m]
        PROVE  ~lost[m] /\ given[m] = last[m]
    BY <1>0, <1>6, <1>9, <2>5
  <2>6. \A m \in Convs : Holders(m)' = Holders(m)
    BY <1>9 DEF Holders, Exists
  <2>7. AllHeld'
    <3>1. AllHeld /\ op = Idle
      BY <1>1 DEF DeliveryInv
    <3> QED
      BY <1>7, <1>9, <2>5, <2>6, <3>1, HeldStays
  <2>8. HookReady'
    BY <1>1, <1>9 DEF HookReady
  <2> QED
    BY <2>2, <2>3, <2>4, <2>7, <2>8 DEF DeliveryInv
<1>10. CASE Save(o, FALSE) /\ last' = given /\ UNCHANGED op
  <2>1. ~lost'[o.n] => /\ Own(o.l) # None /\ o.new.alias = None
                       /\ o.had = last[o.n] \/ ~Astray(o.l)
                       /\ ~lost[o.n]
    BY <1>0, <1>3, <1>10, SaveFacts
  <2>2. given[n] = last[n] => given = last
    BY <1>0, <1>6
  <2>3. ~lost'[o.n] /\ last'[o.n] # 0 => Given(o.new) = last'[o.n]
    BY <1>3, <1>4, <1>10, <2>1, <2>2
  <2>4. ~lost'[o.n] /\ ~due'[o.n] => o.new.emitted = last'[o.n] /\ ~o.new.needs /\ ~o.new.closed
    BY <1>3, <1>4, <1>7, <1>10, <2>1
  <2>5. /\ o.new.alias = None /\ ~o.new.needs => o.new.emitted <= last'[o.n]
        /\ last[o.n] <= last'[o.n] /\ last'[o.n] <= active /\ (~due'[o.n] => last'[o.n] # 0)
    BY <1>3, <1>4, <1>8, <1>10
  <2>6. \A m \in Convs \ {o.n} : last'[m] = last[m] /\ due'[m] = due[m]
    BY <1>4, <1>6, <1>7, <1>10
  <2>7. last' \in [Convs -> Revs \cup {0}] /\ op' = Idle /\ Save(o, FALSE) /\ HookOK(o) /\ Replaces(o)
    BY <1>1, <1>3, <1>6, <1>10
  <2> QED
    BY <1>1, <1>7, <2>3, <2>4, <2>5, <2>6, <2>7, SaveInv
<1>11. CASE ev # "end" /\ op' = o /\ last' = [given EXCEPT ![n] = active] /\ UNCHANGED <<inst, lost>>
  <2>1. /\ last' \in [Convs -> Revs \cup {0}] /\ last'[n] = active
        /\ \A m \in Convs \ {n} : last'[m] = last[m]
    BY <1>0, <1>6, <1>11
  <2>2. TypeOK'
    BY <1>0, <1>1, <1>3, <1>7, <1>11, <2>1, TypesNext
  <2>3. \A m \in Convs : last[m] <= last'[m] /\ last'[m] <= active /\ (~due'[m] => last'[m] # 0)
    <3> SUFFICES ASSUME NEW m \in Convs
                 PROVE  last[m] <= last'[m] /\ last'[m] <= active /\ (~due'[m] => last'[m] # 0)
      OBVIOUS
    <3>1. CASE m = n
      <4>1. last[n] <= active /\ active # 0
        BY <1>0 DEF DeliveryInv, Numbers
      <4> QED
        BY <1>0, <2>1, <3>1, <4>1
    <3>2. CASE m # n
      <4>1. last'[m] = given[m]
        BY <1>6, <2>1, <3>2
      <4> QED
        BY <1>8, <4>1
    <3> QED
      BY <3>1, <3>2
  <2>4. Numbers' /\ Unbound'
    BY <1>1, <1>11, <2>3 DEF DeliveryInv, Numbers, Unbound
  <2>5. ReceiptMeansTold'
    <3> SUFFICES ASSUME NEW j \in Ids, inst[j].native # None, inst[j].alias = None, ~inst[j].needs
                 PROVE  inst[j].emitted <= last'[inst[j].native]
      BY <1>11 DEF ReceiptMeansTold
    <3>1. inst[j] \in Records
      BY <1>0
    <3>2. inst[j].native \in Convs /\ inst[j].emitted \in Nat
      BY <1>0, <3>1 DEF Records
    <3>3. inst[j].emitted <= last[inst[j].native]
      BY DEF DeliveryInv, ReceiptMeansTold
    <3>4. last[inst[j].native] \in Nat /\ last'[inst[j].native] \in Nat
      BY <1>0, <2>1, <3>2
    <3> QED
      BY <2>3, <3>2, <3>3, <3>4
  <2>6. op' # Idle /\ op'.n = n
    <3>1. Idle.l = None
      BY DEF Idle
    <3> QED
      BY <1>0, <1>4, <1>11, <3>1
  <2>7. \A m \in Convs : Holders(m)' = Holders(m)
    BY <1>11 DEF Holders, Exists
  <2>8. AllHeld'
    <3>1. AllHeld /\ op = Idle
      BY <1>1 DEF DeliveryInv
    <3> QED
      BY <1>7, <1>11, <2>1, <2>6, <2>7, <3>1, HeldStays
  <2>9. HookReady'
    <3>1. Replaces(op)'
      BY <1>3, <1>11 DEF Replaces, Holders, Exists, Own
    <3>2. o.new.closed = FALSE
      BY <1>3, <1>11
    <3> QED
      BY <1>1, <1>3, <1>4, <1>11, <2>1, <3>1, <3>2 DEF HookReady, HookOK
  <2> QED
    BY <2>2, <2>4, <2>5, <2>8, <2>9 DEF DeliveryInv
<1> QED
  BY <1>5, <1>9, <1>10, <1>11

\* The receipt is saved: the record says what its conversation was given.
LEMMA SaveReceiptInv ==
  ASSUME DeliveryInv, SaveReceipt
  PROVE  DeliveryInv'
<1>0. /\ active \in Revs /\ op \in Hooks /\ last \in [Convs -> Revs \cup {0}]
      /\ due \in [Convs -> BOOLEAN] /\ 0 \notin Revs /\ Revs \cup {0} \subseteq Nat
  BY TypeFacts, Numbering DEF DeliveryInv
<1>1. HookOK(op) /\ Replaces(op) /\ last[op.n] = active /\ ~op.new.closed
  BY DEF DeliveryInv, HookReady, SaveReceipt
<1> DEFINE o == [op EXCEPT !.new.needs = FALSE, !.new.emitted = active]
<1>2. /\ Save(o, TRUE) /\ op' = Idle /\ UNCHANGED <<active, up, last>>
      /\ due' = [due EXCEPT ![op.n] = FALSE]
  BY DEF SaveReceipt
<1>3. op.new \in Records /\ op.n \in Convs
  BY <1>1 DEF HookOK
<1>4. /\ o.l = op.l /\ o.n = op.n /\ o.id = op.id /\ o.had = op.had /\ o.rebinds = op.rebinds
      /\ o.new = [op.new EXCEPT !.needs = FALSE, !.emitted = active]
  BY <1>0 DEF Hooks
<1>5. /\ o.new \in Records /\ ~o.new.needs /\ o.new.emitted = active
      /\ o.new.alias = op.new.alias /\ o.new.native = op.new.native /\ o.new.heard = op.new.heard
      /\ o.new.closed = op.new.closed /\ o.new.delivery = op.new.delivery
  <2> DEFINE r == op.new
  <2>1. r \in Records /\ active \in Revs \cup {0} /\ o.new = [r EXCEPT !.needs = FALSE, !.emitted = active]
    BY <1>0, <1>3, <1>4
  <2> HIDE DEF r, o
  <2>2. /\ o.new \in Records /\ ~o.new.needs /\ o.new.emitted = active
        /\ o.new.alias = r.alias /\ o.new.native = r.native /\ o.new.heard = r.heard
        /\ o.new.closed = r.closed /\ o.new.delivery = r.delivery
    BY <2>1 DEF Records
  <2> QED
    BY <2>2 DEF r
<1> HIDE DEF o
<1>6. HookOK(o) /\ Replaces(o)
  BY <1>1, <1>4, <1>5 DEF HookOK, Replaces
<1>7. Given(o.new) = active /\ active # 0 /\ active <= active
  BY <1>0, <1>5 DEF Given
<1>8. /\ due' \in [Convs -> BOOLEAN]
      /\ \A m \in Convs \ {o.n} : last'[m] = last[m] /\ due'[m] = due[m]
  BY <1>0, <1>2, <1>4
<1>9. last' \in [Convs -> Revs \cup {0}] /\ last'[o.n] = active /\ last[o.n] = active
  BY <1>0, <1>1, <1>2, <1>4
<1> QED
  BY <1>1, <1>2, <1>4, <1>5, <1>6, <1>7, <1>8, <1>9, SaveInv

\* A hook that dies before its receipt loses it.
LEMMA KilledInv ==
  ASSUME DeliveryInv, Killed
  PROVE  DeliveryInv'
<1>0. /\ active \in Revs /\ inst \in [Ids -> Records] /\ up \subseteq Launches
      /\ op \in Hooks /\ last \in [Convs -> Revs \cup {0}]
      /\ due \in [Convs -> BOOLEAN] /\ lost \in [Convs -> BOOLEAN]
  BY TypeFacts DEF DeliveryInv
<1>1. /\ op # Idle /\ op' = Idle /\ lost' = [lost EXCEPT ![op.n] = TRUE]
      /\ UNCHANGED <<active, inst, up, last, due>>
  BY DEF Killed
<1>2. op.n \in Convs
  BY <1>1 DEF DeliveryInv, HookReady, HookOK
<1>3. lost' \in [Convs -> BOOLEAN] /\ \A m \in Convs : ~lost'[m] => ~lost[m] /\ m # op.n
  BY <1>0, <1>1, <1>2
<1>4. TypeOK'
  BY <1>0, <1>1, <1>3, EmptyValues, TypesNext
<1>5. \A m \in Convs : Holders(m)' = Holders(m)
  BY <1>1 DEF Holders, Exists
<1>6. AllHeld'
  BY <1>1, <1>3, <1>5, HeldStays DEF DeliveryInv
<1>7. Numbers' /\ Unbound' /\ ReceiptMeansTold' /\ HookReady'
  BY <1>1 DEF DeliveryInv, Numbers, Unbound, ReceiptMeansTold, HookReady
<1> QED
  BY <1>4, <1>6, <1>7 DEF DeliveryInv

\* At first nothing is given and nothing recorded.
LEMMA InitInv ==
  ASSUME Init
  PROVE  DeliveryInv
<1>0. 1 \in Revs /\ Revs \cup {0} \subseteq Nat /\ NoInst \in Records /\ Idle \in Hooks
      /\ None \notin Convs
  BY Numbering, EmptyValues
<1>1. TypeOK
  BY <1>0, TypeFacts DEF Init
<1>2. NoInst.native = None /\ NoInst.emitted = 0 /\ NoInst.heard = 0 /\ NoInst.delivery = "absent"
  BY DEF NoInst
<1>3. \A n \in Convs : Holders(n) = {}
  BY <1>2 DEF Holders, Exists, Init
<1> QED
  BY <1>0, <1>1, <1>2, <1>3 DEF Init, DeliveryInv, ReceiptMeansTold, Numbers, Unbound, AllHeld, Kept,
     HeldOnce, HookReady

\* The invariant is inductive.
LEMMA NextInv ==
  ASSUME DeliveryInv, [Next]_vars
  PROVE  DeliveryInv'
<1>1. CASE UNCHANGED vars
  <2> USE <1>1 DEF vars
  <2>1. TypeOK' /\ ReceiptMeansTold' /\ Numbers' /\ Unbound'
    BY DEF DeliveryInv, TypeOK, ReceiptMeansTold, Numbers, Unbound
  <2>2. AllHeld' /\ HookReady'
    BY DEF DeliveryInv, AllHeld, Kept, HeldOnce, Tells, HookReady, HookOK, Replaces, Holders, Exists, Own, Given
  <2> QED
    BY <2>1, <2>2 DEF DeliveryInv
<1>2. CASE Next
  BY <1>2, ActivateInv, LaunchInv, ExitInv, CallInv, SaveReceiptInv, KilledInv DEF Next
<1> QED
  BY <1>1, <1>2

-----------------------------------------------------------------------------
(* The theorems *)

\* Unless its receipt or record was lost, a conversation has one record, and
\* that says what it was given last (Deliver, pruneInstances, LinkResumeParent).
THEOREM DeliveryInvariant == Spec => []DeliveryInv
<1>1. Init => DeliveryInv
  BY InitInv
<1>2. DeliveryInv /\ [Next]_vars => DeliveryInv'
  BY NextInv
<1> QED
  BY <1>1, <1>2, PTL DEF Spec

\* The variables keep their types.
THEOREM TypeCorrect == Spec => []TypeOK
<1>1. DeliveryInv => TypeOK
  BY DEF DeliveryInv
<1> QED
  BY <1>1, DeliveryInvariant, PTL

\* A receipt stands for a conversation that was given that revision: none is
\* consumed by another conversation of its launch (Deliver, rebinding).
THEOREM ReceiptsAreTrue == Spec => []ReceiptMeansTold
<1>1. DeliveryInv => ReceiptMeansTold
  BY DEF DeliveryInv
<1> QED
  BY <1>1, DeliveryInvariant, PTL

\* A step that prints is a hook's, and what it has in hand is as HookFacts says.
LEMMA PrintFacts ==
  ASSUME DeliveryInv, Next, Prints
  PROVE  /\ op'.n \in Convs /\ active \in Nat /\ op'.had \in Nat /\ op'.had <= active
         /\ ~Astray(op'.l) /\ ~lost[op'.n] /\ op'.had # 0 => Given(op'.new) = op'.had
         /\ ~Astray(op'.l) /\ ~lost[op'.n] /\ ~due'[op'.n] => op'.had # active
<1>0. /\ active \in Nat /\ due \in [Convs -> BOOLEAN] /\ Revs \cup {0} \subseteq Nat
  BY TypeFacts, Numbering DEF DeliveryInv
<1>1. PICK l \in Launches, n \in Convs, ev \in {"start", "resume", "tool", "end"} : Call(l, n, ev)
  BY DEF Next, Prints, Activate, Launch, Exit, SaveReceipt, Killed
<1>2. op = Idle /\ due' = [due EXCEPT ![n] = @ \/ ev # "tool"]
  BY <1>1 DEF Call
<1>3. PICK i \in Resolve(l, n), kid \in {k \in Children : ~Exists(k)}, given \in Context(l, n) :
        LET w == Working(l, n, ev, i, kid)
            o == [l |-> l, n |-> n, had |-> given[n], id |-> w.id, new |-> w.new, rebinds |-> w.id # l /\ ev = "resume"]
        IN  ev # "end" /\ ~Settled(w.new) /\ op' = o
  BY <1>1 DEF Call, Prints
<1> DEFINE w == Working(l, n, ev, i, kid)
           o == [l |-> l, n |-> n, had |-> given[n], id |-> w.id, new |-> w.new,
                 rebinds |-> w.id # l /\ ev = "resume"]
<1>4. /\ o \in Hooks /\ HookOK(o) /\ Replaces(o) /\ o.new.closed = (ev = "end")
      /\ ~Astray(l) => o.new.alias = None
      /\ ~lost[n] /\ Own(l) # None /\ o.new.alias = None /\ given[n] # 0 /\ (given = last \/ ~Astray(l))
           => Given(o.new) = given[n]
      /\ ~lost[n] /\ Own(l) # None /\ o.new.alias = None /\ ~due[n] /\ ev \notin {"start", "resume"}
           => o.new.emitted = given[n] /\ ~o.new.needs
  BY <1>2, HookFacts
<1>5. o.l = l /\ o.n = n /\ o.had = given[n] /\ o.new = w.new
  OBVIOUS
<1>6. op' = o /\ ev # "end" /\ ~Settled(o.new)
  BY <1>3
<1> HIDE DEF o, w
<1>7. given[n] \in Nat /\ given[n] <= active
  BY <1>0, <1>2, ContextFacts
<1>8. ~Astray(l) => Own(l) # None
  BY DEF Astray
<1>9. ~due'[n] => ~due[n] /\ ev = "tool"
  BY <1>0, <1>2
<1>10. ~o.new.needs => o.new.emitted # active
  BY <1>6 DEF Settled
<1> QED
  BY <1>0, <1>4, <1>5, <1>6, <1>7, <1>8, <1>9, <1>10

\* A conversation is not given a revision again unless it was started, ended
\* or reopened, or a receipt or a record was lost (Deliver, "nothing new").
THEOREM NothingIsRepeated == Spec => NoRepeat
<1>1. DeliveryInv /\ [Next]_vars => [RepeatsNothing]_vars
  <2> SUFFICES ASSUME DeliveryInv, Next, Prints,
                      ~due'[op'.n], ~lost[op'.n], ~Astray(op'.l)
               PROVE  op'.had < active
    BY DEF RepeatsNothing
  <2>1. /\ active \in Nat /\ op'.had \in Nat /\ op'.had <= active /\ op'.had # active
    BY PrintFacts
  <2> QED
    BY <2>1
<1> QED
  BY <1>1, DeliveryInvariant, PTL DEF Spec, NoRepeat

\* What a hook prints retracts every rule its conversation was given and that
\* no longer holds (Context).
THEOREM WithdrawnRulesAreRetracted == Spec => RetractsWhatItTold
<1>1. DeliveryInv /\ [Next]_vars => [RetractsAll]_vars
  <2> SUFFICES ASSUME DeliveryInv, Next, Prints,
                      op'.had # 0, ~lost[op'.n], ~Astray(op'.l)
               PROVE  Text[op'.had] \ Text[active] \subseteq Text[Given(op'.new)]
    BY DEF RetractsAll
  <2>1. Given(op'.new) = op'.had
    BY PrintFacts
  <2> QED
    BY <2>1
<1> QED
  BY <1>1, DeliveryInvariant, PTL DEF Spec, RetractsWhatItTold

-----------------------------------------------------------------------------
(***************************************************************************)
(* Manifest administration.                                                *)
(***************************************************************************)
Guides == {Admin!NoFile} \cup SUBSET Rules
FileSets == [doc : Admin!Docs, product : SUBSET {"skill", "repo"}, repo : SUBSET {"repo"}, guide : Guides,
             source : SUBSET {"skill"}, torn : SUBSET {"doc", "product", "repo", "guide"}]
Changes == [kind : {"nothing", "edit", "migrate"}, add : SUBSET Rules, drop : SUBSET Rules]
Writes == [file : {"doc", "contract"}, value : Admin!Docs] \cup [file : {"guide"}, value : Guides]
    \cup [file : {"product"}, value : SUBSET {"skill", "repo"}] \cup [file : {"repo"}, value : SUBSET {"repo"}]
    \cup [file : {"source"}, value : SUBSET {"skill"}]
    \cup [file : {"check"}, value : [doc : Admin!Docs, guide : Guides, rev : Nat]]

\* TypeOK with what TypeOK leaves to the commands.
AdminTypes ==
  /\ files \in FileSets /\ committed \in FileSets /\ rev \in Nat /\ writes \in Seq(Writes)
  /\ undo \in Guides /\ asked \in Changes /\ byHand \in Nat

\* A manifest whose contract is the file is not for older releases.
NotForOld(d) == d.source = "file" => d.min

\* What is in the files fits, the half written ones taken as they were.
Sound(f) ==
  /\ Admin!Validates(f.doc) /\ NotForOld(f.doc)
  /\ "skill" \in f.product => "skill" \in f.doc.decl
  /\ "repo" \in f.product => f.repo # {}

\* What a contract edit on checkout g may turn the contract into.
Wanted(change, g, rules) ==
  \/ rules = Admin!RulesIn(g)
  \/ change.kind = "edit" /\ rules = (Admin!RulesIn(g) \ change.drop) \cup change.add
  \/ change.kind = "migrate" /\ rules = g.guide
Fits(change, d, g) ==
  Admin!Validates(d) /\ d.decl = g.doc.decl /\ d.source # "file" /\ Wanted(change, g, d.rules)
\* The writes of a contract edit from i on, when the checkout is as in g.
ContractPlan(g, i) ==
  \/ /\ i = Len(writes) /\ writes[i].file = "guide"
     /\ g.doc.source = "file" => Wanted(asked, g, writes[i].value)
  \/ /\ i = Len(writes) /\ writes[i].file = "contract" /\ Fits(asked, writes[i].value, g)
     /\ g.doc.source = "file" => undo = g.guide
  \/ /\ i + 1 = Len(writes) /\ writes[i].file = "guide" /\ writes[i + 1].file = "contract"
     /\ Fits(asked, writes[i + 1].value, [g EXCEPT !.guide = writes[i].value])
     /\ g.doc.source = "file" => writes[i].value = g.guide /\ undo = g.guide
\* Any other write, each good after those before it.
Keeps(d) ==
  \/ Admin!RulesIn([doc |-> d, guide |-> files.guide]) = Admin!RulesIn(files)
  \/ Len(writes) = 1 /\ asked.kind = "edit"
     /\ Admin!RulesIn([doc |-> d, guide |-> files.guide]) = (Admin!RulesIn(files) \ asked.drop) \cup asked.add
Planned(i) ==
  LET w == writes[i]
  IN  /\ w.file \in {"doc", "product", "repo", "source"}
      /\ w.file = "doc" =>
            /\ Admin!Validates(w.value) /\ NotForOld(w.value) /\ Keeps(w.value)
            /\ \/ "skill" \in w.value.decl \/ "skill" \notin files.product
               \/ i = 2 /\ writes[1].file = "product"
      /\ w.file = "product" => i = 1 /\ w.value \subseteq files.product \ {"skill"}
      /\ w.file = "repo" => w.value # {}
PlanOK ==
  \/ writes = <<>>
  \/ writes[1].file = "check" /\ ContractPlan(writes[1].value, 2)
  \/ ContractPlan(files, 1)
  \/ \A i \in 1..Len(writes) : Planned(i)

AdminInv == AdminTypes /\ Sound(files) /\ Sound(committed) /\ PlanOK

-----------------------------------------------------------------------------
(* Types *)

\* What refers to something, and to what.
LEMMA Kinds ==
  /\ Admin!Referrers = {"skill", "role", "binding", "policy"}
  /\ \A x \in Admin!Referrers : Admin!MayRefer[x] \subseteq Admin!Things
  /\ \A x \in {"skill", "role", "binding", "policy", "mount", "tool", "installer", "service", "space"} : x \in Admin!Things
BY DEF Admin!Referrers, Admin!MayRefer, Admin!Things

\* Each kind of write is one.
LEMMA WriteTypes ==
  /\ \A d \in Admin!Docs : Admin!Write("doc", d) \in Writes /\ Admin!Write("contract", d) \in Writes
  /\ \A g \in Guides : Admin!Write("guide", g) \in Writes
  /\ \A s \in SUBSET {"skill", "repo"} : Admin!Write("product", s) \in Writes
  /\ \A s \in SUBSET {"repo"} : Admin!Write("repo", s) \in Writes
  /\ \A s \in SUBSET {"skill"} : Admin!Write("source", s) \in Writes
  /\ \A c \in [doc : Admin!Docs, guide : Guides, rev : Nat] : Admin!Write("check", c) \in Writes
BY DEF Admin!Write, Writes

\* The value a write of a file bears.
LEMMA WriteValues ==
  ASSUME NEW w \in Writes
  PROVE  /\ w.file \in {"doc", "contract", "guide", "product", "repo", "source", "check"}
         /\ w.file \in {"doc", "contract"} => w.value \in Admin!Docs
         /\ w.file = "guide" => w.value \in Guides
         /\ w.file = "product" => w.value \in SUBSET {"skill", "repo"}
         /\ w.file = "repo" => w.value \in SUBSET {"repo"}
         /\ w.file = "source" => w.value \in SUBSET {"skill"}
         /\ w.file = "check" => w.value \in [doc : Admin!Docs, guide : Guides, rev : Nat]
BY DEF Writes

\* What a write leaves in the files.
LEMMA PutFacts ==
  ASSUME NEW f \in FileSets, NEW w \in Writes, w.file # "check"
  PROVE  /\ Admin!Put(f, w) \in FileSets
         /\ Admin!Put(f, w).doc = IF w.file \in {"doc", "contract"} THEN w.value ELSE f.doc
         /\ Admin!Put(f, w).product = IF w.file = "product" THEN w.value ELSE f.product
         /\ Admin!Put(f, w).repo = IF w.file = "repo" THEN w.value ELSE f.repo
         /\ Admin!Put(f, w).guide = IF w.file = "guide" THEN w.value ELSE f.guide
<1>1. CASE w.file \in {"doc", "contract"}
  <2>1. Admin!Put(f, w) = [f EXCEPT !.doc = w.value, !.torn = @ \ {"doc"}]
    BY <1>1 DEF Admin!Put, Admin!Name
  <2>2. w.value \in Admin!Docs /\ f.torn \ {"doc"} \in SUBSET {"doc", "product", "repo", "guide"}
    BY <1>1, WriteValues DEF FileSets
  <2> QED
    BY <1>1, <2>1, <2>2 DEF FileSets
<1>2. CASE w.file = "product"
  <2>1. Admin!Put(f, w) = [f EXCEPT !.product = w.value, !.torn = @ \ {"product"}]
    BY <1>2 DEF Admin!Put, Admin!Name
  <2>2. w.value \in SUBSET {"skill", "repo"} /\ f.torn \ {"product"} \in SUBSET {"doc", "product", "repo", "guide"}
    BY <1>2, WriteValues DEF FileSets
  <2> QED
    BY <1>2, <2>1, <2>2 DEF FileSets
<1>3. CASE w.file = "repo"
  <2>1. Admin!Put(f, w) = [f EXCEPT !.repo = w.value, !.torn = @ \ {"repo"}]
    BY <1>3 DEF Admin!Put, Admin!Name
  <2>2. w.value \in SUBSET {"repo"} /\ f.torn \ {"repo"} \in SUBSET {"doc", "product", "repo", "guide"}
    BY <1>3, WriteValues DEF FileSets
  <2> QED
    BY <1>3, <2>1, <2>2 DEF FileSets
<1>4. CASE w.file = "guide"
  <2>1. Admin!Put(f, w) = [f EXCEPT !.guide = w.value, !.torn = @ \ {"guide"}]
    BY <1>4 DEF Admin!Put, Admin!Name
  <2>2. w.value \in Guides /\ f.torn \ {"guide"} \in SUBSET {"doc", "product", "repo", "guide"}
    BY <1>4, WriteValues DEF FileSets
  <2> QED
    BY <1>4, <2>1, <2>2 DEF FileSets
<1>5. CASE w.file = "source"
  <2>1. Admin!Put(f, w) = [f EXCEPT !.source = w.value, !.torn = @ \ {"source"}]
    BY <1>5 DEF Admin!Put, Admin!Name
  <2>2. w.value \in SUBSET {"skill"} /\ f.torn \ {"source"} \in SUBSET {"doc", "product", "repo", "guide"}
    BY <1>5, WriteValues DEF FileSets
  <2> QED
    BY <1>5, <2>1, <2>2 DEF FileSets
<1> QED
  BY <1>1, <1>2, <1>3, <1>4, <1>5, WriteValues

\* The parts of what is read.
LEMMA FileFacts ==
  ASSUME NEW f \in FileSets
  PROVE  /\ f.doc \in Admin!Docs /\ f.product \in SUBSET {"skill", "repo"} /\ f.repo \in SUBSET {"repo"}
         /\ f.guide \in Guides /\ f.source \in SUBSET {"skill"}
         /\ f.torn \in SUBSET {"doc", "product", "repo", "guide"}
BY DEF FileSets

-----------------------------------------------------------------------------
(* Declarations *)

\* Validation looks at the declarations only.
LEMMA ValidatesBy ==
  ASSUME NEW d, NEW e, d.decl = e.decl, d.refs = e.refs, d.roleOnly = e.roleOnly
  PROVE  Admin!Validates(d) <=> Admin!Validates(e)
BY DEF Admin!Validates, Admin!SkillsFit, Admin!ToolsFit, Admin!BindingsFit, Admin!RolesFit, Admin!RoleOnlyFit, Admin!PoliciesFit, Admin!Refs

\* What an older release reads, and what saving adds.
LEMMA SeenFacts ==
  ASSUME NEW d \in Admin!Docs, NEW old \in BOOLEAN
  PROVE  /\ Admin!Seen(d, old) \in Admin!Docs /\ Admin!Seen(d, old).decl = d.decl
         /\ ~old => Admin!Seen(d, old) = d
         /\ old => Admin!Seen(d, old).source = "inline" /\ (d.source # "file" => Admin!Seen(d, old).rules = d.rules)
BY DEF Admin!Seen, Admin!Docs

\* What saving adds to a document: the minimal version, if that is missing.
LEMMA RaiseFacts ==
  ASSUME NEW d \in Admin!Docs
  PROVE  LET e == Admin!RaiseMinMyVersion(d)
         IN  /\ e \in Admin!Docs /\ e.decl = d.decl /\ e.refs = d.refs /\ e.roleOnly = d.roleOnly
             /\ e.rules = d.rules /\ e.source = d.source /\ NotForOld(e)
             /\ e # d => d.source = "file" /\ ~d.min
BY DEF Admin!RaiseMinMyVersion, Admin!Docs, NotForOld

\* d declares other things than e, and leaves the contract as it is.
Redeclares(d, e) == d \in Admin!Docs /\ d.rules = e.rules /\ d.source = e.source

\* Adding and removing declarations leaves the contract as it is.
LEMMA RedeclareFacts ==
  ASSUME NEW e \in Admin!Docs
  PROVE  /\ Redeclares(e, e)
         /\ \A d \in Admin!Docs, x \in Admin!Things : Redeclares(d, e) => Redeclares(Admin!With(d, x), e)
         /\ \A d \in Admin!Docs : \A x : Redeclares(d, e) => Redeclares(Admin!Without(d, x), e)
         /\ \A d \in Admin!Docs, D \in SUBSET Admin!Things : Redeclares(d, e) => Redeclares([d EXCEPT !.decl = D], e)
         /\ \A d \in Admin!Docs, b \in BOOLEAN : Redeclares(d, e) => Redeclares([d EXCEPT !.roleOnly = b], e)
<1>1. ASSUME NEW d \in Admin!Docs, Redeclares(d, e)
      PROVE  /\ \A x \in Admin!Things : Redeclares(Admin!With(d, x), e)
             /\ \A x : Redeclares(Admin!Without(d, x), e)
  BY <1>1 DEF Redeclares, Admin!With, Admin!Without, Admin!Docs
<1>3. ASSUME NEW d \in Admin!Docs, Redeclares(d, e)
      PROVE  /\ \A D \in SUBSET Admin!Things : Redeclares([d EXCEPT !.decl = D], e)
             /\ \A b \in BOOLEAN : Redeclares([d EXCEPT !.roleOnly = b], e)
  BY <1>3 DEF Redeclares, Admin!Docs
<1> QED
  BY <1>1, <1>3 DEF Redeclares

\* So does another set of references.
LEMMA RefersFacts ==
  ASSUME NEW e \in Admin!Docs, NEW d \in Admin!Docs, Redeclares(d, e), NEW x \in Admin!Referrers, NEW R \in SUBSET Admin!Things
  PROVE  [d EXCEPT !.refs[x] = R] \in Admin!Docs /\ Redeclares([d EXCEPT !.refs[x] = R], e)
<1>1. [d.refs EXCEPT ![x] = R] \in [Admin!Referrers -> SUBSET Admin!Things]
  BY DEF Admin!Docs
<1> QED
  BY <1>1 DEF Redeclares, Admin!Docs

-----------------------------------------------------------------------------
(* Plans *)

\* Sequences of writes that are put together.
LEMMA Joined ==
  ASSUME NEW s \in Seq(Writes), NEW t \in Seq(Writes)
  PROVE  /\ s \o t \in Seq(Writes) /\ Len(s) \in Nat /\ Len(t) \in Nat /\ Len(s \o t) = Len(s) + Len(t)
         /\ \A i \in 1..Len(s) : (s \o t)[i] = s[i]
         /\ \A i \in 1..Len(t) : (s \o t)[Len(s) + i] = t[i]
<1>1. Len(s) \in Nat /\ Len(t) \in Nat
  BY LenProperties
<1>2. /\ s \o t \in Seq(Writes) /\ Len(s \o t) = Len(s) + Len(t)
      /\ \A i \in 1..Len(s) + Len(t) : (s \o t)[i] = IF i <= Len(s) THEN s[i] ELSE t[i - Len(s)]
  BY ConcatProperties
<1> QED
  BY <1>1, <1>2

\* The rest of a sequence.
LEMMA RestFacts ==
  ASSUME NEW s \in Seq(Writes), s # <<>>
  PROVE  /\ Head(s) = s[1] /\ s[1] \in Writes /\ Tail(s) \in Seq(Writes)
         /\ Len(s) \in Nat /\ Len(s) >= 1 /\ Len(Tail(s)) = Len(s) - 1
         /\ \A i \in 1..Len(Tail(s)) : Tail(s)[i] = s[i + 1]
         /\ Len(s) = 1 => Tail(s) = <<>>
         /\ Len(s) >= 2 => Tail(s)[1] = s[2]
         /\ Len(s) >= 3 => Tail(s)[2] = s[3]
<1>1. Len(s) \in Nat /\ Len(s) >= 1
  OBVIOUS
<1>2. Head(s) = s[1] /\ s[1] \in Writes
  BY <1>1
<1>3. Tail(s) \in Seq(Writes) /\ Len(Tail(s)) = Len(s) - 1
  BY <1>1
<1>4. \A i \in 1..Len(Tail(s)) : Tail(s)[i] = s[i + 1]
  BY <1>1
<1>5. Len(s) = 1 => Tail(s) = <<>>
  <2>1. \A q \in Seq(Writes) : q # <<>> => Len(q) \in Nat \ {0}
    BY EmptySeq
  <2>2. ASSUME Len(s) = 1
        PROVE  Tail(s) = <<>>
    <3>1. Len(Tail(s)) = 0 /\ Len(Tail(s)) \notin Nat \ {0}
      BY <1>3, <2>2
    <3> QED
      BY <1>3, <2>1, <3>1
  <2> QED
    BY <2>2
<1>6. Len(s) >= 2 => Tail(s)[1] = s[1 + 1]
  BY <1>1, <1>3, <1>4
<1>7. Len(s) >= 3 => Tail(s)[2] = s[2 + 1]
  BY <1>1, <1>3, <1>4
<1> QED
  BY <1>1, <1>2, <1>3, <1>4, <1>5, <1>6, <1>7

\* A command that only plans leaves the rest of the invariant alone.
LEMMA PlanStep ==
  ASSUME AdminInv, UNCHANGED <<files, committed, rev, byHand>>,
         writes' \in Seq(Writes), undo' \in Guides, asked' \in Changes, PlanOK'
  PROVE  AdminInv'
BY DEF AdminInv, AdminTypes, Sound

\* Nothing is asked of the contract, and nothing is restored.
LEMMA NothingAsked == Admin!NotAsked \in Changes /\ Admin!NoFile \in Guides
BY DEF Admin!NotAsked, Changes, Guides

\* The contract of a checkout that only declares other things.
LEMMA SameRules ==
  ASSUME Sound(files), files \in FileSets, NEW old \in BOOLEAN, NEW d \in Admin!Docs,
         Redeclares(d, Admin!Seen(files.doc, old)), Admin!Serves(files.doc, old)
  PROVE  Admin!RulesIn([doc |-> d, guide |-> files.guide]) = Admin!RulesIn(files)
<1>1. files.doc \in Admin!Docs
  BY FileFacts
<1>2. old => files.doc.source # "file"
  BY DEF Sound, NotForOld, Admin!Serves
<1> QED
  BY <1>1, <1>2, SeenFacts DEF Admin!RulesIn, Redeclares

\* A save that passed its checks.
LEMMA SavePlan ==
  ASSUME AdminInv, NEW old \in BOOLEAN, NEW d \in Admin!Docs, Redeclares(d, Admin!Seen(files.doc, old)),
         Admin!Serves(files.doc, old), Admin!Validates(d)
  PROVE  LET w == Admin!Write("doc", Admin!RaiseMinMyVersion(d))
         IN  /\ w \in Writes /\ w.file = "doc" /\ Admin!Validates(w.value) /\ NotForOld(w.value)
             /\ w.value.decl = d.decl
             /\ Admin!RulesIn([doc |-> w.value, guide |-> files.guide]) = Admin!RulesIn(files)
<1> DEFINE e == Admin!RaiseMinMyVersion(d)
<1>1. /\ e \in Admin!Docs /\ e.decl = d.decl /\ e.refs = d.refs /\ e.roleOnly = d.roleOnly
      /\ e.rules = d.rules /\ e.source = d.source /\ NotForOld(e)
  BY RaiseFacts
<1>2. Redeclares(e, Admin!Seen(files.doc, old))
  BY <1>1 DEF Redeclares
<1> HIDE DEF e
<1>3. Admin!Validates(e)
  BY <1>1, ValidatesBy
<1>4. Admin!RulesIn([doc |-> e, guide |-> files.guide]) = Admin!RulesIn(files)
  BY <1>1, <1>2, SameRules DEF AdminInv, AdminTypes
<1>5. Admin!Write("doc", e) \in Writes /\ Admin!Write("doc", e).file = "doc" /\ Admin!Write("doc", e).value = e
  BY <1>1, WriteTypes DEF Admin!Write
<1> QED
  BY <1>1, <1>3, <1>4, <1>5 DEF e

\* Every command that declares or removes a thing and saves the manifest.
LEMMA EditInv ==
  ASSUME AdminInv, NEW force, Admin!Begin(force), NEW old \in BOOLEAN, NEW d \in Admin!Docs,
         Redeclares(d, Admin!Seen(files.doc, old)), Admin!Edit(old, d)
  PROVE  AdminInv'
<1> DEFINE w == Admin!Write("doc", Admin!RaiseMinMyVersion(d))
<1>1. /\ Admin!Serves(files.doc, old) /\ Admin!Validates(d) /\ Admin!CatalogFits(files, d)
      /\ writes' = <<w>> /\ undo' = Admin!NoFile /\ asked' = Admin!NotAsked
  BY DEF Admin!Edit, Admin!ValidateDocument, Admin!Plan, Admin!Save
<1>2. /\ w \in Writes /\ w.file = "doc" /\ Admin!Validates(w.value) /\ NotForOld(w.value)
      /\ w.value.decl = d.decl
      /\ Admin!RulesIn([doc |-> w.value, guide |-> files.guide]) = Admin!RulesIn(files)
  BY <1>1, SavePlan
<1> HIDE DEF w
<1>3. UNCHANGED <<files, committed, rev, byHand>>
  BY DEF Admin!Begin
<1>4. Len(writes') = 1 /\ writes'[1] = w /\ writes' \in Seq(Writes)
  BY <1>1, <1>2
<1>5. "skill" \in files.product => "skill" \in w.value.decl
  BY <1>1, <1>2 DEF Admin!CatalogFits
<1>6. Planned(1)'
  BY <1>2, <1>3, <1>4, <1>5 DEF Planned, Keeps
<1>7. PlanOK'
  BY <1>4, <1>6 DEF PlanOK
<1> QED
  BY <1>1, <1>3, <1>4, <1>7, NothingAsked, PlanStep

\* Mounts, tools and services.
LEMMA ThingsInv ==
  ASSUME AdminInv, NEW force \in BOOLEAN, NEW old \in BOOLEAN,
         \/ Admin!AddMount(force, old) \/ Admin!PutTool(force, old) \/ Admin!PutService(force, old) \/ Admin!RemoveTool(force, old)
         \/ \E prune \in BOOLEAN : Admin!RemoveMount(force, old, prune) \/ Admin!RemoveService(force, old, prune)
  PROVE  AdminInv'
<1> DEFINE e == Admin!Seen(files.doc, old)
<1>1. e \in Admin!Docs /\ Redeclares(e, e)
  BY SeenFacts, FileFacts, RedeclareFacts DEF AdminInv, AdminTypes
<1> HIDE DEF e
<1>2. /\ "mount" \in Admin!Things /\ "tool" \in Admin!Things /\ "service" \in Admin!Things /\ "role" \in Admin!Referrers
      /\ "installer" \in Admin!Things
  BY Kinds
<1>3. CASE Admin!AddMount(force, old)
  <2>1. PICK only \in BOOLEAN, select \in BOOLEAN :
          Admin!Edit(old, [Admin!With(e, "mount") EXCEPT !.roleOnly = only,
                     !.refs["role"] = IF select THEN @ \cup {"mount"} ELSE @])
    BY <1>3 DEF Admin!AddMount, e
  <2>2. Admin!With(e, "mount") \in Admin!Docs /\ Redeclares(Admin!With(e, "mount"), e)
    BY <1>1, <1>2, RedeclareFacts DEF Redeclares
  <2> DEFINE b == Admin!With(e, "mount")
             R == IF select THEN b.refs["role"] \cup {"mount"} ELSE b.refs["role"]
             d == [[b EXCEPT !.roleOnly = only] EXCEPT !.refs["role"] = R]
  <2>3. [b EXCEPT !.roleOnly = only] \in Admin!Docs /\ Redeclares([b EXCEPT !.roleOnly = only], e)
    BY <1>1, <2>2, RedeclareFacts DEF Redeclares
  <2>4. R \in SUBSET Admin!Things
    BY <1>2, <2>2 DEF Admin!Docs
  <2>5. d \in Admin!Docs /\ Redeclares(d, e)
    BY <1>1, <1>2, <2>3, <2>4, RefersFacts
  <2>6. d = [b EXCEPT !.roleOnly = only, !.refs["role"] = IF select THEN @ \cup {"mount"} ELSE @]
    BY <2>2 DEF Admin!Docs
  <2>7. Admin!Edit(old, d)
    BY <2>1, <2>6
  <2> HIDE DEF d
  <2> QED
    BY <1>3, <2>5, <2>7, EditInv DEF Admin!AddMount, e
<1>4. CASE Admin!PutTool(force, old)
  <2>1. PICK installs \in SUBSET {"installer"} :
          Admin!Edit(old, [Admin!With(e, "tool") EXCEPT !.decl = (@ \ {"installer"}) \cup installs])
    BY <1>4 DEF Admin!PutTool, e
  <2>2. Admin!With(e, "tool") \in Admin!Docs /\ Redeclares(Admin!With(e, "tool"), e)
    BY <1>1, <1>2, RedeclareFacts DEF Redeclares
  <2> DEFINE b == Admin!With(e, "tool")
             D == (b.decl \ {"installer"}) \cup installs
             d == [b EXCEPT !.decl = D]
  <2>3. D \in SUBSET Admin!Things
    BY <1>2, <2>2 DEF Admin!Docs
  <2>4. Admin!Edit(old, d)
    BY <2>1
  <2> HIDE DEF b, D
  <2>5. d \in Admin!Docs /\ Redeclares(d, e)
    BY <1>1, <2>2, <2>3, RedeclareFacts DEF Redeclares, b
  <2> HIDE DEF d
  <2> QED
    BY <1>4, <2>4, <2>5, EditInv DEF Admin!PutTool, e
<1>5. CASE Admin!PutService(force, old)
  <2>1. Admin!With(e, "service") \in Admin!Docs /\ Redeclares(Admin!With(e, "service"), e)
    BY <1>1, <1>2, RedeclareFacts DEF Redeclares
  <2> QED
    BY <1>5, <2>1, EditInv DEF Admin!PutService, e
<1>6. CASE Admin!RemoveTool(force, old)
  <2>1. Admin!Without(e, "tool") \in Admin!Docs /\ Redeclares(Admin!Without(e, "tool"), e)
    BY <1>1, RedeclareFacts DEF Redeclares
  <2>2. /\ Admin!Without(Admin!Without(e, "tool"), "installer") \in Admin!Docs
        /\ Redeclares(Admin!Without(Admin!Without(e, "tool"), "installer"), e)
    BY <1>1, <2>1, RedeclareFacts DEF Redeclares
  <2> QED
    BY <1>6, <2>2, EditInv DEF Admin!RemoveTool, e
<1>7. ASSUME NEW prune \in BOOLEAN, NEW x \in {"mount", "service"},
             Admin!Begin(force), Admin!Edit(old, Admin!Pruned(Admin!Without(e, x), x, prune))
      PROVE  AdminInv'
  <2>1. Admin!Without(e, x) \in Admin!Docs /\ Redeclares(Admin!Without(e, x), e)
    BY <1>1, RedeclareFacts DEF Redeclares
  <2> DEFINE b == Admin!Without(e, x)
             R == b.refs["role"] \ {x}
             d == [b EXCEPT !.refs["role"] = R]
  <2>2. R \in SUBSET Admin!Things
    BY <1>2, <2>1 DEF Admin!Docs
  <2>3. d \in Admin!Docs /\ Redeclares(d, e)
    BY <1>1, <1>2, <2>1, <2>2, RefersFacts
  <2>4. Admin!Pruned(b, x, prune) = IF prune THEN d ELSE b
    BY <2>1 DEF Admin!Pruned, Admin!Docs
  <2> HIDE DEF b, d
  <2>5. Admin!Pruned(b, x, prune) \in Admin!Docs /\ Redeclares(Admin!Pruned(b, x, prune), e)
    BY <2>1, <2>3, <2>4 DEF b
  <2> QED
    BY <1>7, <2>5, EditInv DEF e, b
<1>8. CASE \E prune \in BOOLEAN : Admin!RemoveMount(force, old, prune) \/ Admin!RemoveService(force, old, prune)
  BY <1>7, <1>8 DEF Admin!RemoveMount, Admin!RemoveService, e
<1> QED
  BY <1>3, <1>4, <1>5, <1>6, <1>8

\* Roles, bindings and policies.
LEMMA ReferrersInv ==
  ASSUME AdminInv, NEW force \in BOOLEAN, NEW old \in BOOLEAN,
         \/ Admin!PutRole(force, old) \/ Admin!PutBinding(force, old) \/ Admin!AddPolicy(force, old)
         \/ Admin!RemoveRole(force, old) \/ Admin!RemoveBinding(force, old) \/ Admin!RemovePolicy(force, old)
  PROVE  AdminInv'
<1> DEFINE e == Admin!Seen(files.doc, old)
<1>1. e \in Admin!Docs /\ Redeclares(e, e)
  BY SeenFacts, FileFacts, RedeclareFacts DEF AdminInv, AdminTypes
<1> HIDE DEF e
<1>2. ASSUME NEW x \in {"role", "binding", "policy"}, Admin!PutReferrer(force, old, x)
      PROVE  AdminInv'
  <2>1. PICK R \in Selections \cap SUBSET Admin!MayRefer[x] : Admin!Edit(old, [Admin!With(e, x) EXCEPT !.refs[x] = R])
    BY <1>2 DEF Admin!PutReferrer, e
  <2>2. x \in Admin!Referrers /\ x \in Admin!Things /\ R \in SUBSET Admin!Things
    BY <1>2, Kinds
  <2>3. Admin!With(e, x) \in Admin!Docs /\ Redeclares(Admin!With(e, x), e)
    BY <1>1, <2>2, RedeclareFacts DEF Redeclares
  <2>4. /\ [Admin!With(e, x) EXCEPT !.refs[x] = R] \in Admin!Docs
        /\ Redeclares([Admin!With(e, x) EXCEPT !.refs[x] = R], e)
    BY <1>1, <2>2, <2>3, RefersFacts
  <2> QED
    BY <1>2, <2>1, <2>4, EditInv DEF Admin!PutReferrer, e
<1>3. ASSUME NEW x \in {"role", "binding", "policy"}, Admin!Drop(force, old, x)
      PROVE  AdminInv'
  <2>1. Admin!Without(e, x) \in Admin!Docs /\ Redeclares(Admin!Without(e, x), e)
    BY <1>1, RedeclareFacts DEF Redeclares
  <2> QED
    BY <1>3, <2>1, EditInv DEF Admin!Drop, e
<1> QED
  BY <1>2, <1>3 DEF Admin!PutRole, Admin!PutBinding, Admin!AddPolicy, Admin!RemoveRole, Admin!RemoveBinding, Admin!RemovePolicy

\* A skill's source is replaced, then the manifest written.
LEMMA AddSkillInv ==
  ASSUME AdminInv, NEW force \in BOOLEAN, NEW old \in BOOLEAN,
         NEW R \in Selections \cap SUBSET (Admin!MayRefer["skill"] \ {"installer"}), Admin!AddSkill(force, old, R)
  PROVE  AdminInv'
<1> DEFINE e == Admin!Seen(files.doc, old)
           d == [e EXCEPT !.decl = @ \cup {"skill"}, !.refs["skill"] = R]
           w == Admin!Write("doc", Admin!RaiseMinMyVersion(d))
           s == <<Admin!Write("source", {}), Admin!Write("source", {"skill"})>>
<1>1. e \in Admin!Docs /\ Redeclares(e, e)
  BY SeenFacts, FileFacts, RedeclareFacts DEF AdminInv, AdminTypes
<1>2. d \in Admin!Docs /\ Redeclares(d, e)
  <2>1. "skill" \in Admin!Referrers /\ "skill" \in Admin!Things /\ R \in SUBSET Admin!Things
    BY Kinds
  <2> DEFINE D == e.decl \cup {"skill"}
             b == [e EXCEPT !.decl = D]
  <2>2. D \in SUBSET Admin!Things
    BY <1>1, <2>1 DEF Admin!Docs
  <2>3. d = [b EXCEPT !.refs["skill"] = R]
    BY <1>1 DEF Admin!Docs
  <2> HIDE DEF D
  <2>4. b \in Admin!Docs /\ Redeclares(b, e)
    BY <1>1, <2>2, RedeclareFacts DEF Redeclares
  <2> HIDE DEF b, d, e
  <2>5. [b EXCEPT !.refs["skill"] = R] \in Admin!Docs /\ Redeclares([b EXCEPT !.refs["skill"] = R], e)
    BY <1>1, <2>1, <2>4, RefersFacts
  <2> QED
    BY <2>3, <2>5
<1>3. /\ Admin!Serves(files.doc, old) /\ Admin!Validates(d) /\ Admin!CatalogFits(files, d)
      /\ writes' = s \o <<w>> /\ undo' = Admin!NoFile /\ asked' = Admin!NotAsked /\ UNCHANGED <<files, committed, rev, byHand>>
  BY DEF Admin!AddSkill, Admin!ValidateDocument, Admin!Plan, Admin!Save, Admin!Begin
<1> HIDE DEF d, e
<1>4. /\ w \in Writes /\ w.file = "doc" /\ Admin!Validates(w.value) /\ NotForOld(w.value)
      /\ w.value.decl = d.decl
      /\ Admin!RulesIn([doc |-> w.value, guide |-> files.guide]) = Admin!RulesIn(files)
  BY <1>2, <1>3, SavePlan DEF e
<1> HIDE DEF w
<1>5. /\ s \in Seq(Writes) /\ Len(s) = 2 /\ s[1].file = "source" /\ s[2].file = "source"
  <2>1. {} \in SUBSET {"skill"} /\ {"skill"} \in SUBSET {"skill"}
    OBVIOUS
  <2>2. Admin!Write("source", {}) \in Writes /\ Admin!Write("source", {"skill"}) \in Writes
    BY <2>1, WriteTypes
  <2> QED
    BY <2>2 DEF Admin!Write
<1>6. <<w>> \in Seq(Writes) /\ Len(<<w>>) = 1 /\ <<w>>[1] = w
  BY <1>4
<1> HIDE DEF s
<1>7. /\ writes' \in Seq(Writes) /\ Len(writes') = 3
      /\ writes'[1].file = "source" /\ writes'[2].file = "source" /\ writes'[3] = w
  <2>1. /\ s \o <<w>> \in Seq(Writes) /\ Len(s \o <<w>>) = Len(s) + Len(<<w>>)
        /\ \A i \in 1..Len(s) : (s \o <<w>>)[i] = s[i]
        /\ \A i \in 1..Len(<<w>>) : (s \o <<w>>)[Len(s) + i] = <<w>>[i]
    BY <1>5, <1>6, Joined
  <2> QED
    BY <1>3, <1>5, <1>6, <2>1
<1>8. "skill" \in files.product => "skill" \in w.value.decl
  BY <1>3, <1>4 DEF Admin!CatalogFits
<1>9. \A i \in 1..Len(writes') : i \in {1, 2, 3}
  BY <1>7
<1>10. \A i \in 1..Len(writes') : Planned(i)'
  BY <1>3, <1>4, <1>7, <1>8, <1>9 DEF Planned, Keeps
<1>11. PlanOK'
  BY <1>10 DEF PlanOK
<1> QED
  BY <1>3, <1>7, <1>11, NothingAsked, PlanStep

\* A removed skill leaves its product before it leaves the manifest.
LEMMA RemoveSkillInv ==
  ASSUME AdminInv, NEW force \in BOOLEAN, NEW old \in BOOLEAN, NEW deleteSource \in BOOLEAN,
         NEW related \in BOOLEAN, NEW orphans \in BOOLEAN,
         Admin!RemoveSkill(force, old, deleteSource, related, orphans)
  PROVE  AdminInv'
<1> DEFINE e == Admin!Seen(files.doc, old)
           gone == {"skill"} \cup IF orphans THEN Admin!Orphans(e) ELSE {}
           D == e.decl \ gone
           d == [e EXCEPT !.decl = D]
           w == Admin!Write("doc", Admin!RaiseMinMyVersion(d))
           p == Admin!Write("product", files.product \ {"skill"})
           P == IF "skill" \in files.product THEN <<p>> ELSE <<>>
           S == IF deleteSource THEN <<Admin!Write("source", {})>> ELSE <<>>
<1>1. e \in Admin!Docs /\ Redeclares(e, e) /\ files.product \in SUBSET {"skill", "repo"}
  BY SeenFacts, FileFacts, RedeclareFacts DEF AdminInv, AdminTypes
<1>2. /\ Admin!Serves(files.doc, old) /\ Admin!Validates(d)
      /\ writes' = (P \o <<w>>) \o S /\ undo' = Admin!NoFile /\ asked' = Admin!NotAsked /\ UNCHANGED <<files, committed, rev, byHand>>
  BY DEF Admin!RemoveSkill, Admin!SkillRemoval, Admin!Removal, Admin!Plan, Admin!Save, Admin!Begin
<1>3. D \in SUBSET Admin!Things
  BY <1>1 DEF Admin!Docs
<1> HIDE DEF D, e
<1>4. d \in Admin!Docs /\ Redeclares(d, e)
  <2>1. \A X \in SUBSET Admin!Things : [e EXCEPT !.decl = X] \in Admin!Docs /\ Redeclares([e EXCEPT !.decl = X], e)
    BY <1>1, RedeclareFacts DEF Redeclares
  <2> QED
    BY <1>3, <2>1
<1> HIDE DEF d
<1>5. /\ w \in Writes /\ w.file = "doc" /\ Admin!Validates(w.value) /\ NotForOld(w.value)
      /\ w.value.decl = d.decl
      /\ Admin!RulesIn([doc |-> w.value, guide |-> files.guide]) = Admin!RulesIn(files)
  BY <1>2, <1>4, SavePlan DEF e
<1>6. p \in Writes /\ p.file = "product" /\ p.value = files.product \ {"skill"}
  <2>1. files.product \ {"skill"} \in SUBSET {"skill", "repo"}
    BY <1>1
  <2> QED
    BY <2>1, WriteTypes DEF Admin!Write
<1> HIDE DEF w, p
<1>7. /\ P \in Seq(Writes) /\ Len(P) = IF "skill" \in files.product THEN 1 ELSE 0
      /\ "skill" \in files.product => P[1] = p
  BY <1>6, EmptySeq
<1>8. <<w>> \in Seq(Writes) /\ Len(<<w>>) = 1 /\ <<w>>[1] = w
  BY <1>5
<1>9. /\ S \in Seq(Writes) /\ Len(S) \in {0, 1}
      /\ Len(S) = 1 => S[1].file = "source"
  <2>1. Admin!Write("source", {}) \in Writes /\ Admin!Write("source", {}).file = "source"
    <3>1. {} \in SUBSET {"skill"}
      OBVIOUS
    <3> QED
      BY <3>1, WriteTypes DEF Admin!Write
  <2> QED
    BY <2>1, EmptySeq
<1> HIDE DEF P, S
<1> DEFINE q == P \o <<w>>
<1>10. /\ q \in Seq(Writes) /\ Len(q) = Len(P) + 1 /\ q[Len(P) + 1] = w
       /\ \A i \in 1..Len(P) : q[i] = P[i]
  BY <1>7, <1>8, Joined
<1> HIDE DEF q
<1>11. /\ q \o S \in Seq(Writes) /\ Len(q \o S) = Len(q) + Len(S)
       /\ \A i \in 1..Len(q) : (q \o S)[i] = q[i]
       /\ \A i \in 1..Len(S) : (q \o S)[Len(q) + i] = S[i]
  <2>1. q \in Seq(Writes) /\ S \in Seq(Writes)
    BY <1>9, <1>10
  <2> QED
    BY <2>1, Joined
<1>12. writes' = q \o S
  BY <1>2 DEF q
<1>13. PICK n : n = Len(P)
  OBVIOUS
<1>14. PICK m : m = Len(S)
  OBVIOUS
<1>15. /\ n \in {0, 1} /\ m \in {0, 1} /\ Len(q) = n + 1 /\ Len(writes') = n + 1 + m
       /\ "skill" \in files.product <=> n = 1
  BY <1>7, <1>9, <1>10, <1>11, <1>12, <1>13, <1>14
<1>16. writes'[n + 1] = w
  BY <1>10, <1>11, <1>12, <1>13, <1>15
<1>17. n = 1 => writes'[1] = p
  BY <1>7, <1>10, <1>11, <1>12, <1>13, <1>15
<1>18. m = 1 => writes'[n + 2].file = "source"
  <2>1. ASSUME m = 1
        PROVE  writes'[(n + 1) + 1] = S[1]
    BY <1>11, <1>12, <1>14, <1>15, <2>1
  <2> QED
    BY <1>9, <1>14, <1>15, <2>1
<1>19. ASSUME NEW i \in 1..Len(writes')
       PROVE  Planned(i)'
  <2>1. i = n + 1 \/ (n = 1 /\ i = 1) \/ (m = 1 /\ i = n + 2)
    BY <1>15, <1>19
  <2>2. CASE i = n + 1
    <3>1. writes'[i] = w
      BY <1>16, <2>2
    <3>2. "skill" \notin files.product \/ (i = 2 /\ writes'[1].file = "product")
      BY <1>6, <1>15, <1>17, <2>2
    <3> QED
      BY <1>2, <1>5, <3>1, <3>2 DEF Planned, Keeps
  <2>3. CASE n = 1 /\ i = 1
    <3>1. writes'[i] = p
      BY <1>17, <2>3
    <3> QED
      BY <1>2, <1>6, <2>3, <3>1 DEF Planned
  <2>4. CASE m = 1 /\ i = n + 2
    <3>1. writes'[i].file = "source"
      BY <1>18, <2>4
    <3> QED
      BY <3>1 DEF Planned
  <2> QED
    BY <2>1, <2>2, <2>3, <2>4
<1>20. PlanOK'
  BY <1>19 DEF PlanOK
<1> QED
  BY <1>2, <1>11, <1>12, <1>20, NothingAsked, PlanStep

\* The catalog of repositories, and the minimal version.
LEMMA SmallCommandsInv ==
  ASSUME AdminInv, NEW force \in BOOLEAN, NEW old \in BOOLEAN,
         Admin!AddRepo(force) \/ \E set \in BOOLEAN : Admin!MinVersion(force, old, set)
  PROVE  AdminInv'
<1>1. CASE Admin!AddRepo(force)
  <2> DEFINE w == Admin!Write("repo", {"repo"})
  <2>1. w \in Writes /\ w.file = "repo" /\ w.value = {"repo"}
    <3>1. {"repo"} \in SUBSET {"repo"}
      OBVIOUS
    <3> QED
      BY <3>1, WriteTypes DEF Admin!Write
  <2>2. writes' = <<w>> /\ undo' = Admin!NoFile /\ asked' = Admin!NotAsked /\ UNCHANGED <<files, committed, rev, byHand>>
    BY <1>1 DEF Admin!AddRepo, Admin!Plan, Admin!Begin
  <2> HIDE DEF w
  <2>3. writes' \in Seq(Writes) /\ Len(writes') = 1 /\ writes'[1] = w
    BY <2>1, <2>2
  <2>6. Planned(1)'
    BY <2>1, <2>3 DEF Planned
  <2>4. PlanOK'
    BY <2>3, <2>6 DEF PlanOK
  <2> QED
    BY <2>2, <2>3, <2>4, NothingAsked, PlanStep
<1>2. ASSUME NEW set \in BOOLEAN, Admin!MinVersion(force, old, set)
      PROVE  AdminInv'
  <2> DEFINE d == Admin!PatchMin(files.doc, set)
             w == Admin!Write("doc", d)
  <2>1. files.doc \in Admin!Docs /\ NotForOld(files.doc)
    BY FileFacts DEF AdminInv, AdminTypes, Sound
  <2>2. /\ d \in Admin!Docs /\ d.decl = files.doc.decl /\ d.rules = files.doc.rules /\ d.source = files.doc.source
        /\ NotForOld(d)
    BY <2>1 DEF Admin!PatchMin, Admin!RaiseMinMyVersion, Admin!Docs, NotForOld
  <2>3. /\ Admin!Validates(d) /\ Admin!CatalogFits(files, d) /\ writes' = <<w>> /\ undo' = Admin!NoFile /\ asked' = Admin!NotAsked
        /\ UNCHANGED <<files, committed, rev, byHand>>
    BY <1>2 DEF Admin!MinVersion, Admin!Plan, Admin!Begin, Admin!ValidateDocument
  <2> HIDE DEF d
  <2>4. w \in Writes /\ w.file = "doc" /\ w.value = d
    BY <2>2, WriteTypes DEF Admin!Write
  <2> HIDE DEF w
  <2>5. writes' \in Seq(Writes) /\ Len(writes') = 1 /\ writes'[1] = w
    BY <2>3, <2>4
  <2>6. Admin!RulesIn([doc |-> d, guide |-> files.guide]) = Admin!RulesIn(files)
    BY <2>2 DEF Admin!RulesIn
  <2>7. Planned(1)'
    BY <2>2, <2>3, <2>4, <2>5, <2>6 DEF Planned, Keeps, Admin!CatalogFits
  <2>8. PlanOK'
    BY <2>5, <2>7 DEF PlanOK
  <2> QED
    BY <2>3, <2>5, <2>8, NothingAsked, PlanStep
<1> QED
  BY <1>1, <1>2
-----------------------------------------------------------------------------
(* The contract *)

\* The check that a contract edit starts with, and what follows it.
LEMMA CheckFirst ==
  ASSUME AdminTypes, NEW W \in Seq(Writes)
  PROVE  LET c == [doc |-> files.doc, guide |-> files.guide, rev |-> rev]
         IN  /\ Admin!Check \o W \in Seq(Writes) /\ Len(Admin!Check \o W) = Len(W) + 1
             /\ (Admin!Check \o W)[1].file = "check" /\ (Admin!Check \o W)[1].value = c
             /\ \A i \in 1..Len(W) : (Admin!Check \o W)[1 + i] = W[i]
<1> DEFINE c == [doc |-> files.doc, guide |-> files.guide, rev |-> rev]
           w == Admin!Write("check", c)
<1>1. files \in FileSets /\ rev \in Nat
  BY DEF AdminTypes
<1>2. files.doc \in Admin!Docs /\ files.guide \in Guides
  BY <1>1, FileFacts
<1>3. w \in Writes /\ w.file = "check" /\ w.value = c
  <2>1. c \in [doc : Admin!Docs, guide : Guides, rev : Nat]
    BY <1>1, <1>2
  <2> QED
    BY <2>1, WriteTypes DEF Admin!Write
<1>4. Admin!Check = <<w>>
  BY DEF Admin!Check
<1> HIDE DEF w, c
<1>5. <<w>> \in Seq(Writes) /\ Len(<<w>>) = 1 /\ <<w>>[1] = w
  BY <1>3
<1>6. /\ <<w>> \o W \in Seq(Writes) /\ Len(<<w>>) \in Nat /\ Len(W) \in Nat
      /\ Len(<<w>> \o W) = Len(<<w>>) + Len(W)
      /\ \A i \in 1..Len(<<w>>) : (<<w>> \o W)[i] = <<w>>[i]
      /\ \A i \in 1..Len(W) : (<<w>> \o W)[Len(<<w>>) + i] = W[i]
  <2>1. <<w>> \in Seq(Writes) /\ W \in Seq(Writes)
    BY <1>5
  <2> QED
    BY <2>1, Joined
<1>7. 1 \in 1..Len(<<w>>) /\ Len(<<w>> \o W) = Len(W) + 1
  BY <1>5, <1>6
<1>8. (<<w>> \o W)[1] = w /\ \A i \in 1..Len(W) : (<<w>> \o W)[1 + i] = W[i]
  BY <1>5, <1>6, <1>7
<1> QED
  BY <1>3, <1>4, <1>6, <1>7, <1>8 DEF c

\* The manifest alone is written: the contract is the inline list.
LEMMA InlinePlan ==
  ASSUME AdminInv, UNCHANGED <<files, committed, rev, byHand>>, NEW d \in Admin!Docs,
         writes' = Admin!Check \o <<Admin!Write("contract", d)>>, undo' = files.guide, asked' \in Changes,
         Fits(asked', d, files), files.doc.source # "file"
  PROVE  AdminInv'
<1> DEFINE w == Admin!Write("contract", d)
<1>1. w \in Writes /\ w.file = "contract" /\ w.value = d
  BY WriteTypes DEF Admin!Write
<1>2. files \in FileSets
  BY DEF AdminInv, AdminTypes
<1> HIDE DEF w
<1>3. <<w>> \in Seq(Writes) /\ Len(<<w>>) = 1 /\ <<w>>[1] = w
  BY <1>1
<1> DEFINE c == [doc |-> files.doc, guide |-> files.guide, rev |-> rev]
<1>4. /\ writes' \in Seq(Writes) /\ Len(writes') = 2 /\ writes'[1].file = "check" /\ writes'[1].value = c
      /\ writes'[2] = w
  <2>1. /\ Admin!Check \o <<w>> \in Seq(Writes) /\ Len(Admin!Check \o <<w>>) = Len(<<w>>) + 1
        /\ (Admin!Check \o <<w>>)[1].file = "check" /\ (Admin!Check \o <<w>>)[1].value = c
        /\ \A i \in 1..Len(<<w>>) : (Admin!Check \o <<w>>)[1 + i] = <<w>>[i]
    BY <1>3, CheckFirst DEF AdminInv
  <2> QED
    BY <1>3, <2>1 DEF w
<1>5. Fits(asked', d, c) /\ c.doc.source # "file"
  BY DEF Fits, Wanted, Admin!RulesIn
<1>6. ContractPlan(writes[1].value, 2)'
  <2>1. c' = c
    OBVIOUS
  <2> QED
    BY <1>1, <1>4, <1>5, <2>1 DEF ContractPlan
<1>7. PlanOK'
  BY <1>4, <1>6 DEF PlanOK
<1>8. undo' \in Guides
  BY <1>2, FileFacts
<1> QED
  BY <1>4, <1>7, <1>8, PlanStep

\* The file is written first, then the manifest, if that changes.
LEMMA FilePlan ==
  ASSUME AdminInv, UNCHANGED <<files, committed, rev, byHand>>, NEW d \in Admin!Docs, NEW R \in SUBSET Rules,
         writes' = Admin!Check \o Admin!FileFirst(R, d), undo' = files.guide, asked' \in Changes,
         d # files.doc => /\ Fits(asked', d, [files EXCEPT !.guide = R])
                          /\ files.doc.source = "file" => R = files.guide,
         d = files.doc /\ files.doc.source = "file" => Wanted(asked', files, R)
  PROVE  AdminInv'
<1> DEFINE w == Admin!Write("contract", d)
           x == Admin!Write("guide", R)
           c == [doc |-> files.doc, guide |-> files.guide, rev |-> rev]
<1>1. /\ w \in Writes /\ w.file = "contract" /\ w.value = d
      /\ x \in Writes /\ x.file = "guide" /\ x.value = R
  <2>1. R \in Guides
    BY DEF Guides
  <2> QED
    BY <2>1, WriteTypes DEF Admin!Write
<1>2. Admin!FileFirst(R, d) = <<x>> \o (IF d # files.doc THEN <<w>> ELSE <<>>)
  BY DEF Admin!FileFirst
<1>3. files \in FileSets
  BY DEF AdminInv, AdminTypes
<1> HIDE DEF w, x
<1> DEFINE W == Admin!FileFirst(R, d)
           T == IF d # files.doc THEN <<w>> ELSE <<>>
<1>4. <<x>> \in Seq(Writes) /\ Len(<<x>>) = 1 /\ <<x>>[1] = x
  BY <1>1
<1>5. /\ T \in Seq(Writes) /\ Len(T) = IF d # files.doc THEN 1 ELSE 0
      /\ d # files.doc => T[1] = w
  BY <1>1, EmptySeq
<1> HIDE DEF T
<1>6. /\ W \in Seq(Writes) /\ Len(W) = Len(<<x>>) + Len(T)
      /\ \A i \in 1..Len(<<x>>) : W[i] = <<x>>[i]
      /\ \A i \in 1..Len(T) : W[Len(<<x>>) + i] = T[i]
  <2>1. <<x>> \in Seq(Writes) /\ T \in Seq(Writes)
    BY <1>4, <1>5
  <2>2. W = <<x>> \o T
    BY <1>2 DEF T
  <2> HIDE DEF W
  <2> QED
    BY <2>1, <2>2, Joined
<1>7. /\ W[1] = x /\ Len(W) = IF d # files.doc THEN 2 ELSE 1
      /\ d # files.doc => W[2] = w
  <2> HIDE DEF W
  <2>1. W[1] = x
    BY <1>4, <1>6
  <2>2. d # files.doc => W[1 + 1] = w
    BY <1>4, <1>5, <1>6
  <2> QED
    BY <1>4, <1>5, <1>6, <2>1, <2>2
<1>8. writes' = Admin!Check \o W
  OBVIOUS
<1> HIDE DEF W
<1>9. /\ Admin!Check \o W \in Seq(Writes) /\ Len(Admin!Check \o W) = Len(W) + 1
      /\ (Admin!Check \o W)[1].file = "check" /\ (Admin!Check \o W)[1].value = c
      /\ \A i \in 1..Len(W) : (Admin!Check \o W)[1 + i] = W[i]
  BY <1>6, CheckFirst DEF AdminInv
<1>10. /\ writes' \in Seq(Writes) /\ Len(writes') = IF d # files.doc THEN 3 ELSE 2
       /\ writes'[1].file = "check" /\ writes'[1].value = c /\ writes'[2] = x
  BY <1>7, <1>8, <1>9
<1>11. ASSUME d # files.doc
       PROVE  writes'[3] = w
  <2>1. Len(W) = 2 /\ W[2] = w
    BY <1>7, <1>11
  <2> DEFINE V == Admin!Check \o W
  <2>2. \A i \in 1..2 : V[1 + i] = W[i]
    BY <1>9, <2>1
  <2>3. writes' = V
    BY <1>8
  <2> HIDE DEF V, W
  <2>4. V[1 + 2] = W[2]
    BY <2>2
  <2> QED
    BY <2>1, <2>3, <2>4
<1>12. c' = c /\ c.doc = files.doc /\ c.guide = files.guide
  OBVIOUS
<1>13. CASE d # files.doc
  <2>1. /\ Admin!Validates(d) /\ d.decl = files.doc.decl /\ d.source # "file"
        /\ Wanted(asked', [files EXCEPT !.guide = R], d.rules)
    BY <1>13 DEF Fits, FileSets
  <2>2. Fits(asked', d, [c EXCEPT !.guide = R])
    BY <1>3, <1>12, <2>1 DEF Fits, Wanted, Admin!RulesIn, FileSets
  <2>3. ContractPlan(writes[1].value, 2)'
    BY <1>1, <1>10, <1>11, <1>12, <1>13, <2>2 DEF ContractPlan
  <2> QED
    BY <1>3, <1>10, <2>3, PlanStep, FileFacts DEF PlanOK
<1>14. CASE d = files.doc
  <2>1. files.doc.source = "file" => Wanted(asked', c, R)
    BY <1>12, <1>14 DEF Wanted, Admin!RulesIn
  <2>2. ContractPlan(writes[1].value, 2)'
    BY <1>1, <1>10, <1>12, <1>14, <2>1 DEF ContractPlan
  <2> QED
    BY <1>3, <1>10, <2>2, PlanStep, FileFacts DEF PlanOK
<1> QED
  BY <1>13, <1>14

\* Editing and migrating the contract.
LEMMA EditContractInv ==
  ASSUME AdminInv, NEW force \in BOOLEAN, NEW drop \in SUBSET Rules, NEW add \in SUBSET Rules,
         Admin!EditContract(force, drop, add)
  PROVE  AdminInv'
<1> DEFINE d == files.doc
           next == (Admin!RulesIn(files) \ drop) \cup add
           R == IF d.source = "both" THEN next ELSE d.rules
           e == [d EXCEPT !.rules = R]
           f == Admin!RaiseMinMyVersion(e)
           change == [kind |-> "edit", drop |-> drop, add |-> add]
<1>1. /\ d \in Admin!Docs /\ files.guide \in Guides /\ Sound(files)
      /\ UNCHANGED <<files, committed, rev, byHand>> /\ change \in Changes
  BY FileFacts DEF AdminInv, AdminTypes, Admin!EditContract, Admin!Begin, Changes
<1>2. /\ d.decl \in SUBSET Admin!Things /\ d.rules \in SUBSET Rules
      /\ d.source \in {"inline", "both", "file"} /\ d.min \in BOOLEAN
  BY <1>1 DEF Admin!Docs
<1>3. Admin!RulesIn(files) \in SUBSET Rules
  BY <1>1, <1>2 DEF Admin!EditContract, Admin!ContractReads, Admin!RulesIn, Guides
<1>4. next \in SUBSET Rules /\ R \in SUBSET Rules
  BY <1>2, <1>3
<1>5. CASE d.source = "inline"
  <2> DEFINE g == [d EXCEPT !.rules = next]
  <2>1. /\ Admin!Validates(g) /\ writes' = Admin!Check \o <<Admin!Write("contract", g)>> /\ undo' = files.guide /\ asked' = change
    BY <1>5 DEF Admin!EditContract, Admin!PlanContract, Admin!ValidateDocument
  <2>2. g \in Admin!Docs /\ g.decl = d.decl /\ g.rules = next /\ g.source = "inline"
    BY <1>1, <1>4, <1>5 DEF Admin!Docs
  <2> HIDE DEF g, next
  <2>3. Wanted(asked', files, next)
    BY <1>1, <2>1 DEF Wanted, Admin!RulesIn, next
  <2>4. Fits(asked', g, files)
    BY <1>1, <2>1, <2>2, <2>3 DEF Fits
  <2> QED
    BY <1>1, <1>5, <2>1, <2>2, <2>4, InlinePlan
<1>6. CASE d.source # "inline"
  <2>1. /\ Admin!Validates(f) /\ writes' = Admin!Check \o Admin!FileFirst(next, f) /\ undo' = files.guide /\ asked' = change
    BY <1>6 DEF Admin!EditContract, Admin!PlanContract, Admin!ContractWrites
  <2>2. e \in Admin!Docs /\ e.decl = d.decl /\ e.rules = R /\ e.source = d.source /\ e.min = d.min
    BY <1>1, <1>4 DEF Admin!Docs
  <2>3. d.source = "file" => e = d
    BY <1>1 DEF Admin!Docs
  <2> HIDE DEF e
  <2>4. /\ f \in Admin!Docs /\ f.decl = d.decl /\ f.rules = R /\ f.source = d.source
        /\ f # e => e.source = "file" /\ ~e.min
    BY <2>2, RaiseFacts
  <2> HIDE DEF f
  <2>5. d.source = "file" => f = d
    BY <1>1, <2>2, <2>3, <2>4 DEF Sound, NotForOld
  <2>6. Wanted(asked', files, next)
    BY <1>1, <2>1 DEF Wanted, Admin!RulesIn
  <2>7. ASSUME f # d
        PROVE  Fits(asked', f, [files EXCEPT !.guide = next]) /\ d.source # "file"
    <3>1. d.source = "both" /\ f.rules = next /\ f.source = "both"
      BY <1>2, <1>6, <2>4, <2>5, <2>7
    <3>2. files \in FileSets
      BY DEF AdminInv, AdminTypes
    <3> DEFINE g == [files EXCEPT !.guide = next]
    <3>3. g.doc = d
      BY <3>2 DEF FileSets
    <3>4. Admin!RulesIn(g) = Admin!RulesIn(files)
      BY <3>1, <3>3 DEF Admin!RulesIn
    <3>5. g' = g
      BY <1>1
    <3> HIDE DEF g, next
    <3>6. Wanted(asked', g, f.rules)
      BY <2>1, <3>1, <3>4, <3>5 DEF Wanted, Admin!RulesIn, next
    <3>7. Fits(asked', f, g)
      BY <2>1, <2>4, <3>1, <3>3, <3>5, <3>6 DEF Fits
    <3> QED
      BY <3>1, <3>7 DEF g
  <2> HIDE DEF next, R, change
  <2> QED
    BY <1>1, <1>4, <2>1, <2>4, <2>6, <2>7, FilePlan
<1> QED
  BY <1>5, <1>6

\* An older release edits its own list, and saves.
LEMMA EditContractOldInv ==
  ASSUME AdminInv, NEW force \in BOOLEAN, NEW drop \in SUBSET Rules, NEW add \in SUBSET Rules,
         Admin!EditContractOld(force, drop, add)
  PROVE  AdminInv'
<1> DEFINE d == Admin!Seen(files.doc, TRUE)
           R == (d.rules \ drop) \cup add
           e == [d EXCEPT !.rules = R]
           f == Admin!RaiseMinMyVersion(e)
           w == Admin!Write("doc", f)
           change == [kind |-> "edit", drop |-> drop, add |-> add]
<1>1. /\ files.doc \in Admin!Docs /\ Sound(files)
      /\ UNCHANGED <<files, committed, rev, byHand>> /\ change \in Changes
  BY FileFacts DEF AdminInv, AdminTypes, Admin!EditContractOld, Admin!Begin, Changes
<1>2. /\ d \in Admin!Docs /\ d.decl = files.doc.decl /\ d.source = "inline"
      /\ files.doc.source # "file" => d.rules = files.doc.rules
  BY <1>1, SeenFacts
<1>3. /\ Admin!Serves(files.doc, TRUE) /\ Admin!Validates(e) /\ Admin!CatalogFits(files, e)
      /\ writes' = <<w>> /\ undo' = Admin!NoFile /\ asked' = change
  BY DEF Admin!EditContractOld, Admin!ValidateDocument, Admin!Save
<1> HIDE DEF d
<1>4. R \in SUBSET Rules
  BY <1>2 DEF Admin!Docs
<1>5. e \in Admin!Docs /\ e.decl = d.decl /\ e.rules = R /\ e.source = "inline"
  BY <1>2, <1>4 DEF Admin!Docs
<1> HIDE DEF e
<1>6. /\ f \in Admin!Docs /\ f.decl = e.decl /\ f.refs = e.refs /\ f.roleOnly = e.roleOnly
      /\ f.rules = R /\ f.source = "inline" /\ NotForOld(f)
  BY <1>5, RaiseFacts
<1>7. Admin!Validates(f)
  BY <1>3, <1>6, ValidatesBy
<1> HIDE DEF f
<1>8. w \in Writes /\ w.file = "doc" /\ w.value = f
  BY <1>6, WriteTypes DEF Admin!Write
<1> HIDE DEF w
<1>9. writes' \in Seq(Writes) /\ Len(writes') = 1 /\ writes'[1] = w
  BY <1>3, <1>8
<1>10. files.doc.source # "file"
  BY <1>1, <1>3 DEF Sound, NotForOld, Admin!Serves
<1>11. Admin!RulesIn([doc |-> f, guide |-> files.guide]) = (Admin!RulesIn(files) \ drop) \cup add
  BY <1>2, <1>6, <1>10 DEF Admin!RulesIn
<1>12. /\ asked'.kind = "edit" /\ asked'.drop = drop /\ asked'.add = add
       /\ files' = files
  BY <1>1, <1>3
<1> HIDE DEF change, R
<1>13. "skill" \in files.product => "skill" \in f.decl
  BY <1>3, <1>5, <1>6 DEF Admin!CatalogFits
<1>14. Planned(1)'
  BY <1>6, <1>7, <1>8, <1>9, <1>11, <1>12, <1>13 DEF Planned, Keeps
<1>15. PlanOK'
  BY <1>9, <1>14 DEF PlanOK
<1> QED
  BY <1>1, <1>3, <1>9, <1>15, NothingAsked, PlanStep

\* Migration copies the contract to the file and keeps the inline copy.
LEMMA MigrateInv ==
  ASSUME AdminInv, NEW force \in BOOLEAN, NEW fromInline \in BOOLEAN, Admin!Migrate(force, fromInline)
  PROVE  AdminInv'
<1> DEFINE d == files.doc
           R == IF d.source # "inline" /\ ~fromInline THEN files.guide ELSE d.rules
           e == [d EXCEPT !.source = "both", !.rules = R]
           f == Admin!RaiseMinMyVersion(e)
           change == [kind |-> "migrate", drop |-> {}, add |-> {}]
<1>1. /\ d \in Admin!Docs /\ files.guide \in Guides /\ Sound(files) /\ files \in FileSets
      /\ UNCHANGED <<files, committed, rev, byHand>> /\ change \in Changes
  BY FileFacts DEF AdminInv, AdminTypes, Admin!Migrate, Admin!Begin, Changes
<1>2. /\ d.source = "file" => ~fromInline
      /\ R # Admin!NoFile /\ Admin!Validates(f)
      /\ writes' = Admin!Check \o Admin!FileFirst(R, f) /\ undo' = files.guide /\ asked' = change
  BY DEF Admin!Migrate, Admin!PlanContract, Admin!ContractWrites
<1>3. R \in SUBSET Rules
  BY <1>1, <1>2 DEF Guides, Admin!Docs
<1>4. d.source = "file" => R = files.guide
  BY <1>2
<1> HIDE DEF R
<1>5. e \in Admin!Docs /\ e.decl = d.decl /\ e.rules = R /\ e.source = "both"
  BY <1>1, <1>3 DEF Admin!Docs
<1> HIDE DEF e
<1>6. f \in Admin!Docs /\ f.decl = d.decl /\ f.rules = R /\ f.source = "both"
  BY <1>5, RaiseFacts
<1> HIDE DEF f
<1> DEFINE g == [files EXCEPT !.guide = R]
<1>7. g.doc = d /\ g.guide = R
  BY <1>1 DEF FileSets
<1> HIDE DEF g
<1>8. Wanted(asked', g, f.rules)
  BY <1>2, <1>6, <1>7 DEF Wanted
<1>9. Fits(asked', f, g)
  BY <1>2, <1>6, <1>7, <1>8 DEF Fits
<1>10. f = d => d.source # "file"
  BY <1>6
<1> HIDE DEF change
<1> QED
  BY <1>1, <1>2, <1>3, <1>4, <1>6, <1>9, <1>10, FilePlan DEF g

-----------------------------------------------------------------------------
(* Writing *)

\* A command that is done has nothing left to write.
LEMMA DonePlan == ASSUME Admin!Done PROVE writes' \in Seq(Writes) /\ undo' \in Guides /\ asked' \in Changes /\ PlanOK'
BY NothingAsked DEF Admin!Done, PlanOK

\* The first write says which of the plans a command follows.
LEMMA PlanKinds ==
  ASSUME AdminInv, writes # <<>>
  PROVE  /\ writes[1].file = "check" => ContractPlan(writes[1].value, 2)
         /\ writes[1].file # "check" => ContractPlan(files, 1) \/ \A i \in 1..Len(writes) : Planned(i)
         /\ writes[1].file \in {"guide", "contract"} => ContractPlan(files, 1)
<1>1. writes \in Seq(Writes) /\ 1 \in 1..Len(writes)
  <2>1. writes \in Seq(Writes)
    BY DEF AdminInv, AdminTypes
  <2> QED
    BY <2>1, RestFacts
<1>2. ContractPlan(files, 1) => writes[1].file \in {"guide", "contract"}
  BY DEF ContractPlan
<1>3. (\A i \in 1..Len(writes) : Planned(i)) => writes[1].file \in {"doc", "product", "repo", "source"}
  BY <1>1 DEF Planned
<1> QED
  BY <1>2, <1>3 DEF AdminInv, PlanOK

\* The check of a contract edit: it goes on only if nothing changed.
LEMMA CheckInv ==
  ASSUME AdminInv, Admin!WriteNext, Head(writes).file = "check"
  PROVE  AdminInv'
<1>1. /\ writes # <<>> /\ UNCHANGED <<files, committed, rev, byHand>>
      /\ \/ /\ Head(writes).value = [doc |-> files.doc, guide |-> files.guide, rev |-> rev]
            /\ writes' = Tail(writes) /\ UNCHANGED <<undo, asked>>
         \/ Admin!Done
  BY DEF Admin!WriteNext
<1>2. CASE Admin!Done
  BY <1>1, <1>2, DonePlan, PlanStep
<1>3. CASE /\ Head(writes).value = [doc |-> files.doc, guide |-> files.guide, rev |-> rev]
           /\ writes' = Tail(writes) /\ UNCHANGED <<undo, asked>>
  <2>1. writes \in Seq(Writes) /\ files \in FileSets /\ undo \in Guides /\ asked \in Changes
    BY DEF AdminInv, AdminTypes
  <2>2. /\ Head(writes) = writes[1] /\ Tail(writes) \in Seq(Writes)
        /\ Len(writes) \in Nat /\ Len(writes) >= 1 /\ Len(Tail(writes)) = Len(writes) - 1
        /\ Len(writes) >= 2 => Tail(writes)[1] = writes[2]
        /\ Len(writes) >= 3 => Tail(writes)[2] = writes[3]
    BY <1>1, <2>1, RestFacts
  <2> DEFINE c == [doc |-> files.doc, guide |-> files.guide, rev |-> rev]
  <2>15. PICK q : q = Tail(writes)
    OBVIOUS
  <2>16. /\ writes' = q /\ q \in Seq(Writes) /\ Len(q) = Len(writes) - 1
         /\ Len(writes) >= 2 => q[1] = writes[2]
         /\ Len(writes) >= 3 => q[2] = writes[3]
    BY <1>3, <2>2, <2>15
  <2>17. Len(writes) \in Nat
    BY <2>2
  <2>3. ContractPlan(c, 2)
    BY <1>1, <1>3, <2>2, PlanKinds
  <2>4. /\ Admin!RulesIn(c) = Admin!RulesIn(files) /\ c.guide = files.guide /\ c.doc = files.doc
    BY DEF Admin!RulesIn
  <2>5. \A R : Admin!RulesIn([c EXCEPT !.guide = R]) = Admin!RulesIn([files EXCEPT !.guide = R])
    BY <2>1 DEF Admin!RulesIn, FileSets
  <2>6. \A R : /\ [c EXCEPT !.guide = R].doc = files.doc /\ [c EXCEPT !.guide = R].guide = R
               /\ [files EXCEPT !.guide = R].doc = files.doc /\ [files EXCEPT !.guide = R].guide = R
    BY <2>1 DEF FileSets
  <2> HIDE DEF c
  <2>7. \A d : Fits(asked, d, c) => Fits(asked, d, files)
    BY <2>4 DEF Fits, Wanted
  <2>8. \A d, R : Fits(asked, d, [c EXCEPT !.guide = R]) => Fits(asked, d, [files EXCEPT !.guide = R])
    BY <2>5, <2>6 DEF Fits, Wanted
  <2>9. \A R : Wanted(asked, c, R) => Wanted(asked, files, R)
    BY <2>4 DEF Wanted
  <2>10. writes' = Tail(writes) /\ files' = files /\ undo' = undo /\ asked' = asked
    BY <1>1, <1>3
  <2>11. ASSUME /\ 2 = Len(writes) /\ writes[2].file = "guide"
                /\ c.doc.source = "file" => Wanted(asked, c, writes[2].value)
        PROVE  PlanOK'
    <3>0. Len(writes) = 2
      BY <2>11
    <3>1. Len(writes') = 1 /\ writes'[1] = writes[2]
      BY <2>16, <3>0
    <3>2. ContractPlan(files, 1)'
      BY <2>4, <2>9, <2>10, <2>11, <3>1 DEF ContractPlan
    <3> QED
      BY <3>2 DEF PlanOK
  <2>12. ASSUME /\ 2 = Len(writes) /\ writes[2].file = "contract" /\ Fits(asked, writes[2].value, c)
                /\ c.doc.source = "file" => undo = c.guide
        PROVE  PlanOK'
    <3>0. Len(writes) = 2
      BY <2>12
    <3>1. Len(writes') = 1 /\ writes'[1] = writes[2]
      BY <2>16, <3>0
    <3>2. ContractPlan(files, 1)'
      BY <2>4, <2>7, <2>10, <2>12, <3>1 DEF ContractPlan
    <3> QED
      BY <3>2 DEF PlanOK
  <2>13. ASSUME /\ 3 = Len(writes) /\ writes[2].file = "guide" /\ writes[3].file = "contract"
                /\ Fits(asked, writes[3].value, [c EXCEPT !.guide = writes[2].value])
                /\ c.doc.source = "file" => writes[2].value = c.guide /\ undo = c.guide
        PROVE  PlanOK'
    <3>0. Len(writes) = 3
      BY <2>13
    <3>1. Len(writes') = 2 /\ writes'[1] = writes[2] /\ writes'[2] = writes[3]
      BY <2>16, <3>0
    <3>4. Fits(asked, writes[3].value, [files EXCEPT !.guide = writes[2].value])
      BY <2>8, <2>13
    <3>5. /\ writes[2].file = "guide" /\ writes[3].file = "contract"
          /\ files.doc.source = "file" => writes[2].value = files.guide /\ undo = files.guide
      BY <2>4, <2>13
    <3>6. 1 + 1 = Len(writes') /\ writes'[1] = writes[2] /\ writes'[1 + 1] = writes[3]
      BY <3>1
    <3>2. ContractPlan(files, 1)'
      BY <2>10, <3>4, <3>5, <3>6 DEF ContractPlan
    <3> QED
      BY <3>2 DEF PlanOK
  <2>14. PlanOK'
    <3>1. \/ /\ 2 = Len(writes) /\ writes[2].file = "guide"
             /\ c.doc.source = "file" => Wanted(asked, c, writes[2].value)
          \/ /\ 2 = Len(writes) /\ writes[2].file = "contract" /\ Fits(asked, writes[2].value, c)
             /\ c.doc.source = "file" => undo = c.guide
          \/ /\ 3 = Len(writes) /\ writes[2].file = "guide" /\ writes[3].file = "contract"
             /\ Fits(asked, writes[3].value, [c EXCEPT !.guide = writes[2].value])
             /\ c.doc.source = "file" => writes[2].value = c.guide /\ undo = c.guide
      BY <2>3 DEF ContractPlan
    <3> QED
      BY <3>1, <2>11, <2>12, <2>13
  <2> QED
    BY <1>1, <2>1, <2>2, <2>10, <2>14, PlanStep
<1> QED
  BY <1>1, <1>2, <1>3

\* What a write of files does.
LEMMA WriteFacts ==
  ASSUME AdminInv, Admin!WriteNext, Head(writes).file # "check"
  PROVE  /\ Head(writes) = writes[1] /\ writes[1] \in Writes /\ writes \in Seq(Writes) /\ files \in FileSets
         /\ Len(writes) \in Nat /\ Len(writes) >= 1
         /\ files' = Admin!Put(files, writes[1]) /\ UNCHANGED <<committed, rev, byHand>>
         /\ Len(writes) = 1 => Admin!Done
         /\ Len(writes) # 1 =>
              /\ UNCHANGED <<undo, asked>>
              /\ writes' \in Seq(Writes) /\ Len(writes') = Len(writes) - 1
              /\ \A i \in 1..Len(writes') : writes'[i] = writes[i + 1]
              /\ writes'[1] = writes[2]
<1>1. writes \in Seq(Writes) /\ writes # <<>> /\ files \in FileSets
  BY DEF AdminInv, AdminTypes, Admin!WriteNext
<1>2. PICK q : q = Tail(writes)
  OBVIOUS
<1>3. /\ Head(writes) = writes[1] /\ writes[1] \in Writes /\ q \in Seq(Writes)
      /\ Len(writes) \in Nat /\ Len(writes) >= 1 /\ Len(q) = Len(writes) - 1
      /\ \A i \in 1..Len(q) : q[i] = writes[i + 1]
      /\ Len(writes) >= 2 => q[1] = writes[2]
  BY <1>1, <1>2, RestFacts
<1>4. /\ files' = Admin!Put(files, writes[1]) /\ UNCHANGED <<committed, rev, byHand>>
      /\ Len(writes) = 1 => Admin!Done
      /\ Len(writes) # 1 => writes' = q /\ UNCHANGED <<undo, asked>>
  BY <1>2, <1>3 DEF Admin!WriteNext
<1>5. Len(writes) # 1 => Len(writes) >= 2
  BY <1>3
<1> QED
  BY <1>1, <1>3, <1>4, <1>5

\* The writes of a contract edit.
LEMMA ContractWriteInv ==
  ASSUME AdminInv, Admin!WriteNext, Head(writes).file # "check", ContractPlan(files, 1)
  PROVE  AdminInv' /\ (Admin!RulesIn(files') # Admin!RulesIn(files) =>
           /\ Len(writes) = 1
           /\ \/ asked.kind = "edit" /\ Admin!RulesIn(files') = (Admin!RulesIn(files) \ asked.drop) \cup asked.add
              \/ asked.kind = "migrate" /\ Admin!RulesIn(files') = files.guide)
<1> DEFINE w == writes[1]
<1>1. /\ w \in Writes /\ writes \in Seq(Writes) /\ files \in FileSets /\ Len(writes) \in Nat
      /\ files' = Admin!Put(files, w) /\ UNCHANGED <<committed, rev, byHand>> /\ w.file # "check"
      /\ Len(writes) = 1 => Admin!Done
      /\ Len(writes) # 1 =>
            /\ UNCHANGED <<undo, asked>>
            /\ writes' \in Seq(Writes) /\ Len(writes') = Len(writes) - 1
            /\ writes'[1] = writes[2]
  BY WriteFacts
<1>2. /\ files' \in FileSets
      /\ files'.doc = IF w.file \in {"doc", "contract"} THEN w.value ELSE files.doc
      /\ files'.product = IF w.file = "product" THEN w.value ELSE files.product
      /\ files'.repo = IF w.file = "repo" THEN w.value ELSE files.repo
      /\ files'.guide = IF w.file = "guide" THEN w.value ELSE files.guide
  BY <1>1, PutFacts
<1>3. /\ committed \in FileSets /\ rev \in Nat /\ byHand \in Nat /\ undo \in Guides /\ asked \in Changes
      /\ Sound(files) /\ Sound(committed)
  BY DEF AdminInv, AdminTypes
<1>4. CASE /\ 1 = Len(writes) /\ w.file = "guide"
           /\ files.doc.source = "file" => Wanted(asked, files, w.value)
  <2>1. Sound(files')
    BY <1>2, <1>3, <1>4 DEF Sound
  <2>2. writes' \in Seq(Writes) /\ undo' \in Guides /\ asked' \in Changes /\ PlanOK'
    BY <1>1, <1>4, DonePlan
  <2> QED
    BY <1>1, <1>2, <1>3, <1>4, <2>1, <2>2 DEF AdminInv, AdminTypes, Sound, Admin!RulesIn, Wanted
<1>5. CASE /\ 1 = Len(writes) /\ w.file = "contract" /\ Fits(asked, w.value, files)
           /\ files.doc.source = "file" => undo = files.guide
  <2>1. Sound(files')
    BY <1>2, <1>3, <1>5 DEF Sound, Fits, NotForOld
  <2>2. writes' \in Seq(Writes) /\ undo' \in Guides /\ asked' \in Changes /\ PlanOK'
    BY <1>1, <1>5, DonePlan
  <2>3. Admin!RulesIn(files') = w.value.rules
    BY <1>2, <1>5 DEF Admin!RulesIn, Fits
  <2>4. Wanted(asked, files, Admin!RulesIn(files'))
    BY <1>5, <2>3 DEF Fits
  <2>5. AdminInv'
    BY <1>1, <1>2, <1>3, <2>1, <2>2 DEF AdminInv, AdminTypes, Sound
  <2> QED
    BY <1>5, <2>4, <2>5 DEF Wanted
<1>6. CASE /\ 2 = Len(writes) /\ w.file = "guide" /\ writes[2].file = "contract"
           /\ Fits(asked, writes[2].value, [files EXCEPT !.guide = w.value])
           /\ files.doc.source = "file" => w.value = files.guide /\ undo = files.guide
  <2>1. Sound(files') /\ files'.doc = files.doc /\ files'.guide = w.value
    BY <1>2, <1>3, <1>6 DEF Sound
  <2>0. Len(writes) = 2
    BY <1>6
  <2>2. /\ writes' \in Seq(Writes) /\ Len(writes') = 1 /\ writes'[1] = writes[2] /\ undo' = undo /\ asked' = asked
    BY <1>1, <2>0
  <2> DEFINE g == [files EXCEPT !.guide = w.value]
  <2>3. g.doc = files.doc /\ g.guide = w.value
    BY <1>1 DEF FileSets
  <2>4. Fits(asked, writes[2].value, g)
    BY <1>6
  <2> HIDE DEF g
  <2>5. Fits(asked, writes[2].value, files')
    BY <2>1, <2>3, <2>4 DEF Fits, Wanted, Admin!RulesIn
  <2>6. ContractPlan(files, 1)'
    BY <1>6, <2>1, <2>2, <2>5 DEF ContractPlan
  <2>7. Admin!RulesIn(files') = Admin!RulesIn(files)
    BY <1>6, <2>1 DEF Admin!RulesIn
  <2>8. AdminInv'
    BY <1>1, <1>2, <1>3, <2>1, <2>2, <2>6 DEF AdminInv, AdminTypes, Sound, PlanOK
  <2> QED
    BY <2>7, <2>8
<1>7. \/ /\ 1 = Len(writes) /\ w.file = "guide"
         /\ files.doc.source = "file" => Wanted(asked, files, w.value)
      \/ /\ 1 = Len(writes) /\ w.file = "contract" /\ Fits(asked, w.value, files)
         /\ files.doc.source = "file" => undo = files.guide
      \/ /\ 2 = Len(writes) /\ w.file = "guide" /\ writes[2].file = "contract"
         /\ Fits(asked, writes[2].value, [files EXCEPT !.guide = w.value])
         /\ files.doc.source = "file" => w.value = files.guide /\ undo = files.guide
  BY DEF ContractPlan
<1> QED
  BY <1>4, <1>5, <1>6, <1>7

\* The writes of any other command.
LEMMA PlannedWriteInv ==
  ASSUME AdminInv, Admin!WriteNext, Head(writes).file # "check", \A i \in 1..Len(writes) : Planned(i)
  PROVE  AdminInv' /\ (Admin!RulesIn(files') # Admin!RulesIn(files) =>
           /\ Len(writes) = 1 /\ asked.kind = "edit"
           /\ Admin!RulesIn(files') = (Admin!RulesIn(files) \ asked.drop) \cup asked.add)
<1> DEFINE w == writes[1]
<1>1. /\ w \in Writes /\ writes \in Seq(Writes) /\ files \in FileSets /\ Len(writes) \in Nat /\ Len(writes) >= 1
      /\ files' = Admin!Put(files, w) /\ UNCHANGED <<committed, rev, byHand>> /\ w.file # "check"
      /\ Len(writes) = 1 => Admin!Done
      /\ Len(writes) # 1 =>
            /\ UNCHANGED <<undo, asked>>
            /\ writes' \in Seq(Writes) /\ Len(writes') = Len(writes) - 1
            /\ \A i \in 1..Len(writes') : writes'[i] = writes[i + 1]
  BY WriteFacts
<1>2. /\ files' \in FileSets
      /\ files'.doc = IF w.file \in {"doc", "contract"} THEN w.value ELSE files.doc
      /\ files'.product = IF w.file = "product" THEN w.value ELSE files.product
      /\ files'.repo = IF w.file = "repo" THEN w.value ELSE files.repo
      /\ files'.guide = IF w.file = "guide" THEN w.value ELSE files.guide
  BY <1>1, PutFacts
<1>3. /\ committed \in FileSets /\ rev \in Nat /\ byHand \in Nat /\ undo \in Guides /\ asked \in Changes
      /\ Sound(files) /\ Sound(committed)
  BY DEF AdminInv, AdminTypes
<1>4. Planned(1)
  BY <1>1
<1>5. /\ w.file \in {"doc", "product", "repo", "source"}
      /\ w.file = "doc" =>
            /\ Admin!Validates(w.value) /\ NotForOld(w.value) /\ Keeps(w.value)
            /\ "skill" \in w.value.decl \/ "skill" \notin files.product
      /\ w.file = "product" => w.value \subseteq files.product \ {"skill"}
      /\ w.file = "repo" => w.value # {}
  BY <1>4 DEF Planned
<1> HIDE DEF w
<1>6. Sound(files')
  BY <1>2, <1>3, <1>5 DEF Sound
<1>7. files'.guide = files.guide
  BY <1>2, <1>5
<1>8. w.file # "doc" => files'.doc = files.doc
  BY <1>2, <1>5
<1>9. \/ Admin!RulesIn(files') = Admin!RulesIn(files)
      \/ Len(writes) = 1 /\ asked.kind = "edit" /\ Admin!RulesIn(files') = (Admin!RulesIn(files) \ asked.drop) \cup asked.add
  <2>1. \A g : Admin!RulesIn(g) = Admin!RulesIn([doc |-> g.doc, guide |-> g.guide])
    BY DEF Admin!RulesIn
  <2>2. CASE w.file = "doc"
    <3>1. Admin!RulesIn(files') = Admin!RulesIn([doc |-> w.value, guide |-> files.guide])
      BY <1>2, <1>7, <2>1, <2>2
    <3> QED
      BY <1>5, <2>2, <3>1 DEF Keeps
  <2>3. CASE w.file # "doc"
    BY <1>7, <1>8, <2>1, <2>3
  <2> QED
    BY <2>2, <2>3
<1>10. CASE Len(writes) = 1
  <2>1. writes' \in Seq(Writes) /\ undo' \in Guides /\ asked' \in Changes /\ PlanOK'
    BY <1>1, <1>10, DonePlan
  <2> QED
    BY <1>1, <1>2, <1>3, <1>6, <1>9, <2>1 DEF AdminInv, AdminTypes, Sound
<1>11. CASE Len(writes) # 1
  <2>1. Admin!RulesIn(files') = Admin!RulesIn(files)
    BY <1>9, <1>11
  <2>2. ASSUME NEW i \in 1..Len(writes')
        PROVE  Planned(i)'
    <3>1. PICK x : x = writes[i + 1]
      OBVIOUS
    <3>2. /\ i \in Nat /\ i >= 1 /\ i + 1 \in 1..Len(writes) /\ i + 1 # 1 /\ writes'[i] = x
      BY <1>1, <1>11, <2>2, <3>1
    <3>3. Planned(i + 1)
      BY <3>2
    <3>4. /\ x.file \in {"doc", "product", "repo", "source"} /\ x.file # "product"
          /\ x.file = "doc" =>
                /\ Admin!Validates(x.value) /\ NotForOld(x.value)
                /\ Admin!RulesIn([doc |-> x.value, guide |-> files.guide]) = Admin!RulesIn(files)
                /\ "skill" \in x.value.decl \/ "skill" \notin files.product \/ w.file = "product"
          /\ x.file = "repo" => x.value # {}
      BY <1>11, <3>1, <3>2, <3>3 DEF Planned, Keeps, w
    <3>5. x.file = "doc" => "skill" \in x.value.decl \/ "skill" \notin files'.product
      BY <1>2, <1>5, <3>4
    <3>6. x.file = "doc" => Admin!RulesIn([doc |-> x.value, guide |-> files'.guide]) = Admin!RulesIn(files')
      BY <1>7, <2>1, <3>4
    <3> QED
      BY <3>2, <3>4, <3>5, <3>6 DEF Planned, Keeps
  <2>3. PlanOK'
    BY <2>2 DEF PlanOK
  <2> QED
    BY <1>1, <1>2, <1>3, <1>6, <1>11, <2>1, <2>3 DEF AdminInv, AdminTypes, Sound
<1> QED
  BY <1>10, <1>11

\* A write, and a stop before or in the midst of one.
LEMMA WriteNextInv ==
  ASSUME AdminInv, Admin!WriteNext
  PROVE  AdminInv' /\ Admin!ChangesAsAsked
<1>1. writes # <<>> /\ writes \in Seq(Writes) /\ Head(writes) = writes[1]
  <2>1. writes # <<>> /\ writes \in Seq(Writes)
    BY DEF Admin!WriteNext, AdminInv, AdminTypes
  <2> QED
    BY <2>1, RestFacts
<1>2. CASE Head(writes).file = "check"
  <2>1. files' = files
    BY <1>2 DEF Admin!WriteNext
  <2> QED
    BY <1>2, <2>1, CheckInv DEF Admin!ChangesAsAsked
<1>3. CASE Head(writes).file # "check"
  <2>1. ContractPlan(files, 1) \/ \A i \in 1..Len(writes) : Planned(i)
    BY <1>1, <1>3, PlanKinds
  <2> QED
    BY <1>3, <2>1, ContractWriteInv, PlannedWriteInv DEF Admin!ChangesAsAsked
<1> QED
  BY <1>2, <1>3

\* A command that stops leaves what it wrote, or puts the contract file back.
LEMMA StopInv ==
  ASSUME AdminInv, Admin!Stop
  PROVE  AdminInv' /\ Admin!RulesIn(files') = Admin!RulesIn(files)
<1> DEFINE w == writes[1]
<1>1. writes # <<>> /\ writes \in Seq(Writes) /\ Head(writes) = w /\ w \in Writes
  <2>1. writes # <<>> /\ writes \in Seq(Writes)
    BY DEF Admin!Stop, AdminInv, AdminTypes
  <2> QED
    BY <2>1, RestFacts
<1>2. w.file = "contract" => ContractPlan(files, 1)
  BY <1>1, PlanKinds
<1>3. w.file = "contract" /\ files.doc.source = "file" => undo = files.guide
  BY <1>2 DEF ContractPlan
<1>4. /\ w.file # "check" /\ Admin!Done /\ UNCHANGED <<committed, rev, byHand>>
      /\ \/ files' = files
         \/ w.file \notin {"contract", "source"} /\ files' = [files EXCEPT !.torn = @ \cup {w.file}]
         \/ w.file = "contract" /\ files' = [files EXCEPT !.guide = undo]
  BY <1>1 DEF Admin!Stop
<1>5. w.file \in {"doc", "contract", "guide", "product", "repo", "source", "check"}
  BY <1>1, WriteValues
<1>6. /\ files \in FileSets /\ committed \in FileSets /\ rev \in Nat /\ byHand \in Nat /\ undo \in Guides
      /\ Sound(files) /\ Sound(committed)
  BY DEF AdminInv, AdminTypes
<1> HIDE DEF w
<1>7. /\ files' \in FileSets /\ files'.doc = files.doc /\ files'.product = files.product /\ files'.repo = files.repo
      /\ files'.guide = files.guide \/ (w.file = "contract" /\ files'.guide = undo)
  <2>1. CASE files' = files
    BY <1>6, <2>1
  <2>2. CASE w.file \notin {"contract", "source"} /\ files' = [files EXCEPT !.torn = @ \cup {w.file}]
    <3>1. files.torn \cup {w.file} \in SUBSET {"doc", "product", "repo", "guide"}
      BY <1>4, <1>5, <1>6, <2>2 DEF FileSets
    <3> QED
      BY <1>6, <2>2, <3>1 DEF FileSets
  <2>3. CASE w.file = "contract" /\ files' = [files EXCEPT !.guide = undo]
    BY <1>6, <2>3 DEF FileSets
  <2> QED
    BY <1>4, <2>1, <2>2, <2>3
<1>8. Sound(files')
  BY <1>6, <1>7 DEF Sound
<1>9. Admin!RulesIn(files') = Admin!RulesIn(files)
  BY <1>3, <1>7 DEF Admin!RulesIn
<1>10. writes' \in Seq(Writes) /\ undo' \in Guides /\ asked' \in Changes /\ PlanOK'
  BY <1>4, DonePlan
<1> QED
  BY <1>4, <1>6, <1>7, <1>8, <1>9, <1>10 DEF AdminInv, AdminTypes, Sound

-----------------------------------------------------------------------------
(* By hand *)

\* Commits, restores and edits.
LEMMA ByHandInv ==
  ASSUME AdminInv, Admin!Commit \/ Admin!Restore \/ Admin!EditByHand
  PROVE  AdminInv' /\ byHand' # byHand
<1>1. /\ files \in FileSets /\ committed \in FileSets /\ rev \in Nat /\ writes \in Seq(Writes)
      /\ undo \in Guides /\ asked \in Changes /\ byHand \in Nat /\ Sound(files) /\ Sound(committed)
  BY DEF AdminInv, AdminTypes
<1>2. byHand' = byHand + 1 /\ UNCHANGED <<writes, undo, asked>> /\ (writes # <<>> => Head(writes).file = "check")
  BY DEF Admin!Commit, Admin!Restore, Admin!EditByHand, Admin!ByHand
<1>3. writes = <<>> \/ (writes[1].file = "check" /\ ContractPlan(writes[1].value, 2))
  BY <1>1, <1>2, PlanKinds, RestFacts
<1>4. PlanOK'
  <2>1. ContractPlan(writes[1].value, 2) => ContractPlan(writes[1].value, 2)'
    BY <1>2 DEF ContractPlan
  <2> QED
    BY <1>2, <1>3, <2>1 DEF PlanOK
<1>5. CASE Admin!Commit
  BY <1>1, <1>2, <1>4, <1>5 DEF Admin!Commit, AdminInv, AdminTypes, Sound
<1>6. CASE Admin!Restore
  BY <1>1, <1>2, <1>4, <1>6 DEF Admin!Restore, AdminInv, AdminTypes, Sound
<1>7. CASE Admin!EditByHand
  <2>1. UNCHANGED <<committed, rev>>
    BY <1>7 DEF Admin!EditByHand
  <2>2. files' \in FileSets /\ Sound(files')
    <3>1. ASSUME NEW R \in Rules, files.doc.source # "file", files' = [files EXCEPT !.doc.rules = {R}]
          PROVE  files' \in FileSets /\ Sound(files')
      <4> DEFINE d == [files.doc EXCEPT !.rules = {R}]
      <4>1. files.doc \in Admin!Docs
        BY <1>1, FileFacts
      <4>2. /\ d \in Admin!Docs /\ d.decl = files.doc.decl /\ d.refs = files.doc.refs
            /\ d.roleOnly = files.doc.roleOnly /\ d.source = files.doc.source
        BY <4>1 DEF Admin!Docs
      <4>3. files' = [files EXCEPT !.doc = d]
        BY <1>1, <3>1 DEF FileSets
      <4> HIDE DEF d
      <4>4. Admin!Validates(d)
        BY <1>1, <4>2, ValidatesBy DEF Sound
      <4>5. files' \in FileSets /\ files'.doc = d /\ files'.product = files.product /\ files'.repo = files.repo
        BY <1>1, <4>2, <4>3 DEF FileSets
      <4> QED
        BY <1>1, <3>1, <4>2, <4>4, <4>5 DEF Sound, NotForOld
    <3>2. ASSUME NEW R \in Rules, files' = [files EXCEPT !.guide = {R}]
          PROVE  files' \in FileSets /\ Sound(files')
      <4>1. {R} \in Guides
        BY DEF Guides
      <4>2. files' \in FileSets /\ files'.doc = files.doc /\ files'.product = files.product /\ files'.repo = files.repo
        BY <1>1, <3>2, <4>1 DEF FileSets
      <4> QED
        BY <1>1, <4>2 DEF Sound
    <3>3. ASSUME NEW R \in SUBSET {"skill", "repo"}, Admin!CatalogFits([files EXCEPT !.product = R], files.doc),
                 files' = [files EXCEPT !.product = R]
          PROVE  files' \in FileSets /\ Sound(files')
      <4>1. files' \in FileSets /\ files'.doc = files.doc /\ files'.product = R /\ files'.repo = files.repo
        BY <1>1, <3>3 DEF FileSets
      <4>2. Admin!CatalogFits(files', files.doc)
        BY <3>3
      <4> QED
        BY <1>1, <4>1, <4>2 DEF Sound, Admin!CatalogFits
    <3> QED
      BY <1>7, <3>1, <3>2, <3>3 DEF Admin!EditByHand
  <2> QED
    BY <1>1, <1>2, <1>4, <2>1, <2>2 DEF AdminInv, AdminTypes
<1> QED
  BY <1>5, <1>6, <1>7

-----------------------------------------------------------------------------
(* The theorems *)

\* A maintainer starts from a manifest that declares everything.
LEMMA AdminInit == Admin!Init => AdminInv
<1> SUFFICES ASSUME Admin!Init PROVE AdminInv
  OBVIOUS
<1>1. PICK source \in {"inline", "both", "file"}, R \in {{CHOOSE r \in Rules : TRUE}} :
          files = [doc |-> Admin!FullDoc(source, R), product |-> {"skill"}, repo |-> {},
                   guide |-> IF source = "inline" THEN Admin!NoFile ELSE R, source |-> {"skill"}, torn |-> {}]
  BY DEF Admin!Init
<1>2. R \in SUBSET Rules
  <2>1. PICK r : r \in Rules
    BY RulesAssumption
  <2>2. (CHOOSE q \in Rules : TRUE) \in Rules
    BY <2>1
  <2> QED
    BY <2>2
<1> DEFINE d == Admin!FullDoc(source, R)
           refs == [skill |-> {"tool", "space"}, role |-> {"mount", "service"},
                    binding |-> {IF source = "inline" THEN "mount" ELSE "service"}, policy |-> {"mount"}]
<1>3. d = [decl |-> Admin!Things, refs |-> refs, roleOnly |-> FALSE, rules |-> IF source = "file" THEN {} ELSE R,
           source |-> source, min |-> (source = "file")]
  <2>1. d = [Admin!EmptyDoc EXCEPT !.decl = Admin!Things, !.source = source, !.min = source = "file",
                            !.rules = IF source = "file" THEN {} ELSE R, !.refs = refs]
    BY DEF Admin!FullDoc
  <2> HIDE DEF refs, d
  <2> QED
    BY <2>1 DEF Admin!EmptyDoc
<1>4. refs \in [Admin!Referrers -> SUBSET Admin!Things]
  <2>1. DOMAIN refs = Admin!Referrers
    BY Kinds
  <2>2. \A x \in Admin!Referrers : refs[x] \in SUBSET Admin!Things
    BY Kinds
  <2> QED
    BY <2>1, <2>2
<1>5. /\ refs["skill"] = {"tool", "space"} /\ refs["role"] = {"mount", "service"} /\ refs["policy"] = {"mount"}
      /\ refs["binding"] \in {{"mount"}, {"service"}}
  OBVIOUS
<1> HIDE DEF refs, d
<1>6. d \in Admin!Docs
  BY <1>2, <1>3, <1>4 DEF Admin!Docs
<1>7. d.decl = Admin!Things /\ d.refs = refs /\ d.roleOnly = FALSE /\ NotForOld(d)
  BY <1>3 DEF NotForOld
<1>8. Admin!Validates(d)
  BY <1>5, <1>7, Kinds DEF Admin!Validates, Admin!SkillsFit, Admin!ToolsFit, Admin!BindingsFit, Admin!RolesFit, Admin!RoleOnlyFit, Admin!PoliciesFit, Admin!Refs
<1>9. /\ files = [doc |-> d, product |-> {"skill"}, repo |-> {},
                  guide |-> IF source = "inline" THEN Admin!NoFile ELSE R, source |-> {"skill"}, torn |-> {}]
  BY <1>1 DEF d
<1>10. files \in FileSets
  BY <1>2, <1>6, <1>9 DEF FileSets, Guides
<1>11. Sound(files)
  BY <1>7, <1>8, <1>9, Kinds DEF Sound
<1>12. committed = files /\ rev = 0 /\ writes = <<>> /\ undo = Admin!NoFile /\ asked = Admin!NotAsked /\ byHand = 0
  BY DEF Admin!Init
<1>13. PlanOK
  BY <1>12 DEF PlanOK
<1>14. writes \in Seq(Writes)
  BY <1>12
<1> QED
  BY <1>10, <1>11, <1>12, <1>13, <1>14, NothingAsked DEF AdminInv, AdminTypes

\* Commands only plan: nothing is written when one begins.
LEMMA CommandsInv ==
  ASSUME AdminInv, Admin!Next, ~Admin!WriteNext, ~Admin!Stop, ~(Admin!Commit \/ Admin!Restore \/ Admin!EditByHand)
  PROVE  AdminInv' /\ files' = files
<1>1. ASSUME NEW force \in BOOLEAN, NEW old \in BOOLEAN,
             \/ Admin!AddMount(force, old) \/ Admin!PutTool(force, old) \/ Admin!PutService(force, old) \/ Admin!RemoveTool(force, old)
             \/ \E prune \in BOOLEAN : Admin!RemoveMount(force, old, prune) \/ Admin!RemoveService(force, old, prune)
      PROVE  AdminInv' /\ files' = files
  <2>1. AdminInv'
    BY <1>1, ThingsInv
  <2>2. Admin!Begin(force)
    BY <1>1 DEF Admin!AddMount, Admin!PutTool, Admin!PutService, Admin!RemoveTool, Admin!RemoveMount, Admin!RemoveService
  <2> QED
    BY <2>1, <2>2 DEF Admin!Begin
<1>2. ASSUME NEW force \in BOOLEAN, NEW old \in BOOLEAN,
             \/ Admin!PutRole(force, old) \/ Admin!PutBinding(force, old) \/ Admin!AddPolicy(force, old)
             \/ Admin!RemoveRole(force, old) \/ Admin!RemoveBinding(force, old) \/ Admin!RemovePolicy(force, old)
      PROVE  AdminInv' /\ files' = files
  <2>1. AdminInv'
    BY <1>2, ReferrersInv
  <2>2. Admin!Begin(force)
    BY <1>2 DEF Admin!PutRole, Admin!PutBinding, Admin!AddPolicy, Admin!RemoveRole, Admin!RemoveBinding, Admin!RemovePolicy, Admin!PutReferrer, Admin!Drop
  <2> QED
    BY <2>1, <2>2 DEF Admin!Begin
<1>3. ASSUME NEW force \in BOOLEAN, NEW old \in BOOLEAN,
             \/ \E R \in Selections \cap SUBSET (Admin!MayRefer["skill"] \ {"installer"}) : Admin!AddSkill(force, old, R)
             \/ \E deleteSource, related, orphans \in BOOLEAN :
                   Admin!RemoveSkill(force, old, deleteSource, related, orphans)
             \/ Admin!AddRepo(force) \/ \E set \in BOOLEAN : Admin!MinVersion(force, old, set)
      PROVE  AdminInv' /\ files' = files
  <2>1. AdminInv'
    BY <1>3, AddSkillInv, RemoveSkillInv, SmallCommandsInv
  <2>2. Admin!Begin(force)
    BY <1>3 DEF Admin!AddSkill, Admin!RemoveSkill, Admin!AddRepo, Admin!MinVersion
  <2> QED
    BY <2>1, <2>2 DEF Admin!Begin
<1>4. ASSUME NEW force \in BOOLEAN, NEW drop \in {{}} \cup {{r} : r \in Rules},
             NEW add \in {{}} \cup {{r} : r \in Rules},
             Admin!EditContract(force, drop, add) \/ Admin!EditContractOld(force, drop, add)
      PROVE  AdminInv' /\ files' = files
  <2>1. drop \in SUBSET Rules /\ add \in SUBSET Rules
    OBVIOUS
  <2>2. AdminInv'
    BY <1>4, <2>1, EditContractInv, EditContractOldInv
  <2>3. Admin!Begin(force)
    BY <1>4 DEF Admin!EditContract, Admin!EditContractOld
  <2> QED
    BY <2>2, <2>3 DEF Admin!Begin
<1>5. ASSUME NEW force \in BOOLEAN, NEW fromInline \in BOOLEAN, Admin!Migrate(force, fromInline)
      PROVE  AdminInv' /\ files' = files
  <2>1. AdminInv'
    BY <1>5, MigrateInv
  <2>2. Admin!Begin(force)
    BY <1>5 DEF Admin!Migrate
  <2> QED
    BY <2>1, <2>2 DEF Admin!Begin
<1> QED
  BY <1>1, <1>2, <1>3, <1>4, <1>5 DEF Admin!Next

\* Every step keeps the invariant, and changes the contract only as asked.
LEMMA AdminStep == AdminInv /\ [Admin!Next]_(Admin!vars) => AdminInv' /\ [Admin!ChangesAsAsked]_(Admin!vars)
<1> SUFFICES ASSUME AdminInv, [Admin!Next]_(Admin!vars) PROVE AdminInv' /\ [Admin!ChangesAsAsked]_(Admin!vars)
  OBVIOUS
<1>1. CASE UNCHANGED Admin!vars
  <2>1. AdminInv'
    BY <1>1 DEF Admin!vars, AdminInv, AdminTypes, Sound, PlanOK, ContractPlan, Planned, Keeps
  <2> QED
    BY <1>1, <2>1
<1>2. CASE Admin!WriteNext
  BY <1>2, WriteNextInv
<1>3. CASE Admin!Stop
  BY <1>3, StopInv DEF Admin!ChangesAsAsked
<1>4. CASE Admin!Commit \/ Admin!Restore \/ Admin!EditByHand
  BY <1>4, ByHandInv DEF Admin!ChangesAsAsked
<1>5. CASE Admin!Next /\ ~Admin!WriteNext /\ ~Admin!Stop /\ ~(Admin!Commit \/ Admin!Restore \/ Admin!EditByHand)
  BY <1>5, CommandsInv DEF Admin!ChangesAsAsked
<1> QED
  BY <1>1, <1>2, <1>3, <1>4, <1>5

\* What is sound and whole is accepted.
LEMMA InvIsConsistent == AdminInv => Admin!Consistent /\ Admin!TypeOK
<1> SUFFICES ASSUME AdminInv PROVE Admin!Consistent /\ Admin!TypeOK
  OBVIOUS
<1>1. files \in FileSets /\ rev \in Nat /\ asked \in Changes /\ Sound(files)
  BY DEF AdminInv, AdminTypes
<1>2. Admin!TypeOK
  BY <1>1 DEF Admin!TypeOK, FileSets, Guides, Changes
<1>3. Admin!Consistent
  BY <1>1 DEF Admin!Consistent, Admin!Readable, Sound, Admin!CatalogFits
<1> QED
  BY <1>2, <1>3

-----------------------------------------------------------------------------
(***************************************************************************)
(* Policy acceptance.                                                      *)
(***************************************************************************)
Declared == [manifest : Policy!Versions, doc : Policy!Versions]
Requests == [author : Policy!Members \cup {Policy!Absent}, base : Policy!Trees, from : Nat, head : Policy!Trees,
             edges : SUBSET (Policy!Trees \X Policy!Trees), refs : SUBSET ChangeRecords, event : Nat,
             verdict : {"none", "open", "passed", "failed", "merged"}, version : Policy!Versions \cup {0}]

\* TypeOK with the fields of a pull request that only Check reads.
LedgerTypes ==
  /\ trusted \in Declared /\ ledger \in Policy!Trees /\ tip \in Nat /\ cited \subseteq ChangeRecords \X PRs
  /\ pr \in [PRs -> Requests] /\ have \in [Machines -> Declared]
  /\ ledgerHead \in [Machines -> Policy!Trees] /\ local \in [Machines -> Policy!Trees]
  /\ queued \in [Machines -> SUBSET Policy!Items] /\ handled \in [Machines -> SUBSET Policy!Items]
  /\ \A m \in Machines : queued[m] \cap handled[m] = {}
  /\ consent \subseteq Policy!Members \X Policy!Versions

\* An acceptance in the tree that bears the name of its subject is one that
\* its subject gave; those of others may be anybody's.
Consented(tree, who) ==
  \A s \in who \cap Policy!Members, v \in Policy!Versions : Policy!By(tree[Policy!Accept(s, v)]) = s => <<s, v>> \in consent

\* A pull request forks off the trusted ledger, brings no acceptance its
\* author did not give and, once passed, is what the check saw.
RequestOK(k) ==
  /\ Consented(pr[k].head, {pr[k].author})
  /\ pr[k].verdict # "none" => pr[k].author \in Policy!Members /\ Policy!AppendOnly(<<pr[k].base, ledger>>)
  /\ pr[k].verdict = "passed" =>
       /\ pr[k].version \in Policy!Versions
       /\ \A e \in Policy!Edges(k) : Policy!AppendOnly(e) /\ Policy!AdditionsFit(e, pr[k].author, pr[k].version)
       /\ Policy!AuthorAccepted(k, pr[k].version) /\ Policy!RecordLinked(k)

LedgerInv ==
  /\ LedgerTypes
  /\ Consented(ledger, Policy!Members)
  /\ \A m \in Machines : Consented(local[m], Policy!Members)
  /\ \A k \in PRs : RequestOK(k)

-----------------------------------------------------------------------------
(* Entries and files *)

\* The parts of an entry.
LEMMA EntryFacts ==
  /\ Policy!Other \notin Policy!Entries /\ Policy!Other \in Policy!Paths /\ Policy!Entries \subseteq Policy!Paths
  /\ \A s \in Policy!Members, v \in Policy!Versions : Policy!Accept(s, v) \in Policy!Entries /\ Policy!Super(s, v) \in Policy!Entries
  /\ \A p \in Policy!Entries : p[2] \in Policy!Members /\ p[3] \in Policy!Versions /\ p[1] \in {"accept", "super"}
  /\ \A p \in Policy!Entries : p[1] = "accept" => p = Policy!Accept(p[2], p[3])
<1>1. \A p \in Policy!Entries : \E s \in Policy!Members, v \in Policy!Versions : p = Policy!Accept(s, v) \/ p = Policy!Super(s, v)
  BY DEF Policy!Entries
<1>2. \A p \in Policy!Entries : p[2] \in Policy!Members /\ p[3] \in Policy!Versions /\ p[1] \in {"accept", "super"}
  BY <1>1 DEF Policy!Accept, Policy!Super
<1>3. \A p \in Policy!Entries : p[1] = "accept" => p = Policy!Accept(p[2], p[3])
  BY <1>1 DEF Policy!Accept, Policy!Super
<1>4. Policy!Other \notin Policy!Entries
  BY <1>2 DEF Policy!Other
<1> QED
  BY <1>2, <1>3, <1>4 DEF Policy!Entries, Policy!Paths

\* Whose a file is.
LEMMA ByFacts ==
  /\ Policy!By(Policy!Absent) = Policy!Absent /\ Policy!Absent \notin Policy!Members
  /\ \A c \in Policy!Files : Policy!By(c) = Owner(c) /\ Policy!By(c) \in Policy!Members /\ c # Policy!Absent
BY MembersAssumption DEF Policy!By, Policy!Files, Policy!Members

\* A tree stays one when a path of it is set.
LEMMA TreeSet ==
  ASSUME NEW tree \in Policy!Trees, NEW p, NEW c \in Policy!Files \cup {Policy!Absent}
  PROVE  [tree EXCEPT ![p] = c] \in Policy!Trees
BY DEF Policy!Trees

\* So it does when another one is merged.
LEMMA TreeMerged ==
  ASSUME NEW base, NEW ours \in Policy!Trees, NEW theirs \in Policy!Trees
  PROVE  Policy!Merged(base, ours, theirs) \in Policy!Trees
BY DEF Policy!Trees, Policy!Merged

-----------------------------------------------------------------------------
(* What the steps leave alone *)

\* LedgerTypes of the next state.
LEMMA LedgerTypesNext ==
  ASSUME trusted' \in Declared, ledger' \in Policy!Trees, tip' \in Nat, cited' \subseteq ChangeRecords \X PRs,
         pr' \in [PRs -> Requests], have' \in [Machines -> Declared],
         ledgerHead' \in [Machines -> Policy!Trees], local' \in [Machines -> Policy!Trees],
         queued' \in [Machines -> SUBSET Policy!Items], handled' \in [Machines -> SUBSET Policy!Items],
         \A m \in Machines : queued'[m] \cap handled'[m] = {},
         consent' \subseteq Policy!Members \X Policy!Versions
  PROVE  LedgerTypes'
BY DEF LedgerTypes

\* A tree that is consented stays so, as consent is not withdrawn.
LEMMA ConsentedStays ==
  ASSUME NEW tree, NEW who, Consented(tree, who), consent \subseteq consent'
  PROVE  \A s \in who \cap Policy!Members, v \in Policy!Versions : Policy!By(tree[Policy!Accept(s, v)]) = s => <<s, v>> \in consent'
BY DEF Consented

\* A pull request that is not touched stays as good, when the ledger only
\* grows and records are not taken back.
LEMMA RequestStays ==
  ASSUME NEW k \in PRs, RequestOK(k), pr'[k] = pr[k], cited \subseteq cited',
         consent \subseteq consent', Policy!AppendOnly(<<ledger, ledger'>>)
  PROVE  RequestOK(k)'
<1>1. Consented(pr[k].head, {pr[k].author})'
  BY DEF RequestOK, Consented
<1>2. (pr[k].verdict # "none" => pr[k].author \in Policy!Members /\ Policy!AppendOnly(<<pr[k].base, ledger>>))'
  BY DEF RequestOK, Policy!AppendOnly
<1>3. ASSUME pr'[k].verdict = "passed"
      PROVE  /\ pr'[k].version \in Policy!Versions
             /\ \A e \in Policy!Edges(k)' : Policy!AppendOnly(e) /\ Policy!AdditionsFit(e, pr'[k].author, pr'[k].version)
             /\ Policy!AuthorAccepted(k, pr[k].version)' /\ Policy!RecordLinked(k)'
  <2>1. /\ pr[k].version \in Policy!Versions
        /\ \A e \in Policy!Edges(k) : Policy!AppendOnly(e) /\ Policy!AdditionsFit(e, pr[k].author, pr[k].version)
        /\ Policy!AuthorAccepted(k, pr[k].version) /\ Policy!RecordLinked(k)
    BY <1>3 DEF RequestOK
  <2>2. Policy!Edges(k)' = Policy!Edges(k) /\ Policy!Changed(k)' = Policy!Changed(k)
    BY DEF Policy!Edges, Policy!Changed
  <2>3. Policy!AuthorAccepted(k, pr[k].version)'
    BY <2>1, <2>2 DEF Policy!AuthorAccepted
  <2>4. Policy!RecordLinked(k)'
    BY <2>1, <2>2 DEF Policy!RecordLinked
  <2> QED
    BY <2>1, <2>2, <2>3, <2>4
<1> QED
  BY <1>1, <1>2, <1>3 DEF RequestOK

\* A ledger that stays is append-only.
LEMMA LedgerStays ==
  ASSUME ledger' = ledger
  PROVE  Policy!AppendOnly(<<ledger, ledger'>>)
BY DEF Policy!AppendOnly

\* The invariant holds when upstream is left alone, and so is consent.
LEMMA MachineStep ==
  ASSUME LedgerInv, LedgerTypes', UNCHANGED Policy!upstream, consent \subseteq consent',
         \A m \in Machines : Consented(local[m], Policy!Members)'
  PROVE  LedgerInv'
<1>1. Consented(ledger, Policy!Members)'
  BY DEF LedgerInv, Policy!upstream, Consented
<1>2. \A k \in PRs : RequestOK(k)'
  BY RequestStays, LedgerStays DEF LedgerInv, Policy!upstream
<1> QED
  BY <1>1, <1>2 DEF LedgerInv
-----------------------------------------------------------------------------
(* The initial state *)

\* The administrators' acceptances are there and they gave them.
LEMMA LedgerInit ==
  ASSUME Policy!Init
  PROVE  LedgerInv
<1>1. ledger \in Policy!Trees
  <2>1. ASSUME NEW s \in Admins
        PROVE  (CHOOSE m \in Machines : Owner(m) = s) \in Policy!Files
    BY <2>1, MembersAssumption DEF Policy!Files
  <2>2. ASSUME NEW p \in Policy!Paths, NEW s \in Admins, p = Policy!Accept(s, 1)
        PROVE  (CHOOSE m \in Machines : Owner(m) = p[2]) \in Policy!Files
    BY <2>1, <2>2 DEF Policy!Accept
  <2> QED
    BY <2>2 DEF Policy!Init, Policy!Trees
<1>2. \A s \in Admins : s \in Policy!Members
  BY MembersAssumption DEF Policy!Members
<1>3. 1 \in Policy!Versions
  BY VersionsAssumption DEF Policy!Versions
<1>4. LedgerTypes
  <2>1. Policy!NoPR \in Requests
    BY DEF Policy!NoPR, Requests, Policy!Trees
  <2>2. consent \subseteq Policy!Members \X Policy!Versions
    BY <1>2, <1>3 DEF Policy!Init
  <2>3. tip \in Nat /\ cited = {} /\ pr \in [PRs -> Requests]
    BY <2>1 DEF Policy!Init
  <2>4. trusted \in Declared
    BY <1>3 DEF Policy!Init, Declared
  <2>5. /\ have \in [Machines -> Declared] /\ ledgerHead \in [Machines -> Policy!Trees] /\ local \in [Machines -> Policy!Trees]
        /\ queued \in [Machines -> SUBSET Policy!Items] /\ handled \in [Machines -> SUBSET Policy!Items]
        /\ \A m \in Machines : queued[m] \cap handled[m] = {}
    BY <1>1, <2>4 DEF Policy!Init
  <2> QED
    BY <1>1, <2>2, <2>3, <2>4, <2>5 DEF LedgerTypes
<1>5. Consented(ledger, Policy!Members)
  <2> SUFFICES ASSUME NEW s \in Policy!Members, NEW v \in Policy!Versions, Policy!By(ledger[Policy!Accept(s, v)]) = s
               PROVE  <<s, v>> \in consent
    BY DEF Consented
  <2>1. Policy!Accept(s, v) \in Policy!Paths
    BY EntryFacts
  <2>2. ledger[Policy!Accept(s, v)] # Policy!Absent
    BY ByFacts
  <2>3. PICK a \in Admins : Policy!Accept(s, v) = Policy!Accept(a, 1)
    BY <2>1, <2>2 DEF Policy!Init
  <2> QED
    BY <2>3 DEF Policy!Accept, Policy!Init
<1>6. \A m \in Machines : local[m] = ledger
  BY DEF Policy!Init
<1>7. ASSUME NEW k \in PRs
      PROVE  RequestOK(k)
  <2>1. pr[k] = Policy!NoPR
    BY DEF Policy!Init
  <2>2. pr[k].author = Policy!Absent /\ pr[k].verdict = "none"
    BY <2>1 DEF Policy!NoPR
  <2> QED
    BY <2>2, ByFacts DEF RequestOK, Consented
<1> QED
  BY <1>4, <1>5, <1>6, <1>7 DEF LedgerInv

-----------------------------------------------------------------------------
(* A member's machine *)

\* What is queued is typed and has not been handled.
LEMMA QueueFacts ==
  ASSUME LedgerTypes, NEW m \in Machines, NEW items \in SUBSET Policy!Items, Policy!Queue(m, items)
  PROVE  /\ queued' \in [Machines -> SUBSET Policy!Items] /\ handled' \in [Machines -> SUBSET Policy!Items]
         /\ \A n \in Machines : queued'[n] \cap handled'[n] = {}
BY DEF LedgerTypes, Policy!Queue

\* Queueing an item, or not, keeps what is queued apart from what is handled.
LEMMA MayQueueFacts ==
  ASSUME LedgerTypes, NEW m \in Machines, NEW item \in Policy!Items, Policy!MayQueue(m, item)
  PROVE  /\ queued' \in [Machines -> SUBSET Policy!Items] /\ handled' \in [Machines -> SUBSET Policy!Items]
         /\ \A n \in Machines : queued'[n] \cap handled'[n] = {}
<1>1. CASE Policy!Queue(m, {item})
  BY <1>1, QueueFacts
<1>2. CASE UNCHANGED <<queued, handled>>
  BY <1>2 DEF LedgerTypes
<1> QED
  BY <1>1, <1>2 DEF Policy!MayQueue

\* The entry a machine's member accepts.
LEMMA MineFacts ==
  ASSUME LedgerTypes, NEW m \in Machines
  PROVE  /\ have[m].manifest \in Policy!Versions /\ Owner(m) \in Policy!Members /\ m \in Policy!Files /\ Policy!By(m) = Owner(m)
         /\ Policy!Mine(m) \in Policy!Entries /\ Policy!Mine(m) = Policy!Accept(Owner(m), have[m].manifest)
<1>1. have[m].manifest \in Policy!Versions
  BY DEF LedgerTypes, Declared
<1>2. Owner(m) \in Policy!Members /\ m \in Policy!Files
  BY DEF Policy!Members, Policy!Files
<1> QED
  BY <1>1, <1>2, EntryFacts, ByFacts DEF Policy!Mine

\* Setting an entry of a checkout to a file.
LEMMA SetFacts ==
  ASSUME LedgerTypes, NEW m \in Machines, NEW p \in Policy!Paths, NEW c \in Policy!Files, Policy!Set(p, m, c)
  PROVE  /\ local' \in [Machines -> Policy!Trees]
         /\ \A n \in Machines, q \in Policy!Paths : local'[n][q] = IF n = m /\ q = p THEN c ELSE local[n][q]
<1>1. local \in [Machines -> Policy!Trees] /\ local' = [local EXCEPT ![m] = [local[m] EXCEPT ![p] = c]]
  BY DEF LedgerTypes, Policy!Set
<1>2. [local[m] EXCEPT ![p] = c] \in Policy!Trees
  BY <1>1, TreeSet
<1>3. local[m] \in [Policy!Paths -> Policy!Files \cup {Policy!Absent}]
  BY <1>1 DEF Policy!Trees
<1> QED
  BY <1>1, <1>2, <1>3

\* An acceptance is given before it is in the file.
LEMMA AcceptsInv ==
  ASSUME LedgerInv, NEW m \in Machines, Policy!Accepts(m)
  PROVE  LedgerInv'
<1> DEFINE c == IF local[m][Policy!Mine(m)] = Policy!Absent THEN m ELSE local[m][Policy!Mine(m)]
<1>1. LedgerTypes
  BY DEF LedgerInv
<1>2. /\ have[m].manifest \in Policy!Versions /\ Owner(m) \in Policy!Members /\ m \in Policy!Files /\ Policy!By(m) = Owner(m)
      /\ Policy!Mine(m) \in Policy!Entries /\ Policy!Mine(m) = Policy!Accept(Owner(m), have[m].manifest) /\ Policy!Mine(m) \in Policy!Paths
  BY <1>1, MineFacts, EntryFacts
<1>3. c \in Policy!Files /\ Policy!By(c) = Owner(m)
  <2>1. local[m][Policy!Mine(m)] \in Policy!Files \cup {Policy!Absent}
    BY <1>1, <1>2 DEF LedgerTypes, Policy!Trees
  <2> QED
    BY <1>2, <2>1, ByFacts DEF Policy!Accepts
<1>4. Policy!Set(Policy!Mine(m), m, c) /\ Policy!MayQueue(m, <<Policy!Mine(m), c>>) /\ UNCHANGED <<Policy!upstream, have, ledgerHead>>
  BY DEF Policy!Accepts
<1>5. consent' = consent \cup {<<Owner(m), have[m].manifest>>}
  BY DEF Policy!Accepts
<1> HIDE DEF c
<1>6. <<Policy!Mine(m), c>> \in Policy!Items
  BY <1>2, <1>3 DEF Policy!Items
<1>7. /\ queued' \in [Machines -> SUBSET Policy!Items] /\ handled' \in [Machines -> SUBSET Policy!Items]
      /\ \A n \in Machines : queued'[n] \cap handled'[n] = {}
  BY <1>1, <1>4, <1>6, MayQueueFacts
<1>8. /\ local' \in [Machines -> Policy!Trees]
      /\ \A n \in Machines, q \in Policy!Paths : local'[n][q] = IF n = m /\ q = Policy!Mine(m) THEN c ELSE local[n][q]
  BY <1>1, <1>2, <1>3, <1>4, SetFacts
<1>9. LedgerTypes'
  BY <1>1, <1>2, <1>4, <1>5, <1>7, <1>8 DEF LedgerTypes, Policy!upstream
<1>10. ASSUME NEW n \in Machines, NEW s \in Policy!Members, NEW v \in Policy!Versions, Policy!By(local'[n][Policy!Accept(s, v)]) = s
       PROVE  <<s, v>> \in consent'
  <2>1. Policy!Accept(s, v) \in Policy!Paths
    BY EntryFacts
  <2>2. CASE n = m /\ Policy!Accept(s, v) = Policy!Mine(m)
    BY <1>2, <1>5, <2>2 DEF Policy!Accept
  <2>3. CASE ~(n = m /\ Policy!Accept(s, v) = Policy!Mine(m))
    BY <1>5, <1>8, <1>10, <2>1, <2>3 DEF LedgerInv, Consented
  <2> QED
    BY <2>2, <2>3
<1> QED
  BY <1>4, <1>5, <1>9, <1>10, MachineStep DEF Consented

\* A supersession is no acceptance.
LEMMA SupersedesInv ==
  ASSUME LedgerInv, NEW m \in Machines, NEW s \in Policy!Members, Policy!Supersedes(m, s)
  PROVE  LedgerInv'
<1> DEFINE p == Policy!Super(s, have[m].manifest)
           c == IF local[m][p] = Policy!Absent THEN m ELSE local[m][p]
<1>1. LedgerTypes
  BY DEF LedgerInv
<1>2. have[m].manifest \in Policy!Versions /\ m \in Policy!Files
  BY <1>1, MineFacts
<1>3. p \in Policy!Entries /\ p \in Policy!Paths
  BY <1>2, EntryFacts
<1>4. \A a \in Policy!Members, v \in Policy!Versions : Policy!Accept(a, v) # p
  BY DEF Policy!Accept, Policy!Super
<1>5. c \in Policy!Files
  <2>1. local[m][p] \in Policy!Files \cup {Policy!Absent}
    BY <1>1, <1>3 DEF LedgerTypes, Policy!Trees
  <2> QED
    BY <1>2, <2>1
<1>6. Policy!Set(p, m, c) /\ Policy!MayQueue(m, <<p, c>>) /\ UNCHANGED <<Policy!upstream, have, ledgerHead, consent>>
  BY DEF Policy!Supersedes
<1> HIDE DEF p, c
<1>7. <<p, c>> \in Policy!Items
  BY <1>3, <1>5 DEF Policy!Items
<1>8. /\ queued' \in [Machines -> SUBSET Policy!Items] /\ handled' \in [Machines -> SUBSET Policy!Items]
      /\ \A n \in Machines : queued'[n] \cap handled'[n] = {}
  BY <1>1, <1>6, <1>7, MayQueueFacts
<1>9. /\ local' \in [Machines -> Policy!Trees]
      /\ \A n \in Machines, q \in Policy!Paths : local'[n][q] = IF n = m /\ q = p THEN c ELSE local[n][q]
  BY <1>1, <1>3, <1>5, <1>6, SetFacts
<1>10. LedgerTypes'
  BY <1>1, <1>6, <1>8, <1>9 DEF LedgerTypes, Policy!upstream
<1>11. ASSUME NEW n \in Machines, NEW a \in Policy!Members, NEW v \in Policy!Versions, Policy!By(local'[n][Policy!Accept(a, v)]) = a
       PROVE  <<a, v>> \in consent'
  <2>1. Policy!Accept(a, v) \in Policy!Paths
    BY EntryFacts
  <2> QED
    BY <1>4, <1>6, <1>9, <1>11, <2>1 DEF LedgerInv, Consented
<1> QED
  BY <1>6, <1>10, <1>11, MachineStep DEF Consented

\* Queueing, refreshing and pulling bring no acceptance of their own.
LEMMA OwnStepsInv ==
  ASSUME LedgerInv, NEW m \in Machines,
         Policy!Requeues(m) \/ Policy!Pulls(m) \/ Policy!TidyByHand(m) \/ \E piece \in {"manifest", "doc"} : Policy!Refreshes(m, piece)
  PROVE  LedgerInv'
<1>1. LedgerTypes
  BY DEF LedgerInv
<1>2. CASE Policy!Requeues(m)
  <2>1. Policy!Unpublished(m) \in SUBSET Policy!Items
    <3>1. \A q \in Policy!Entries : local[m][q] \in Policy!Files \cup {Policy!Absent}
      BY <1>1, EntryFacts DEF LedgerTypes, Policy!Trees
    <3> QED
      BY <3>1 DEF Policy!Unpublished, Policy!Publishable, Policy!Items
  <2>2. /\ queued' \in [Machines -> SUBSET Policy!Items] /\ handled' \in [Machines -> SUBSET Policy!Items]
        /\ \A n \in Machines : queued'[n] \cap handled'[n] = {}
    BY <1>1, <1>2, <2>1, QueueFacts DEF Policy!Requeues
  <2>3. LedgerTypes' /\ UNCHANGED <<Policy!upstream, local, consent>>
    BY <1>1, <1>2, <2>2 DEF Policy!Requeues, LedgerTypes, Policy!upstream
  <2> QED
    BY <2>3, MachineStep DEF LedgerInv, Consented
<1>3. CASE Policy!Pulls(m)
  <2>1. LedgerTypes' /\ UNCHANGED <<Policy!upstream, consent>>
    BY <1>1, <1>3 DEF Policy!Pulls, LedgerTypes, Policy!upstream
  <2>2. \A n \in Machines : local'[n] \in {local[n], ledger}
    BY <1>1, <1>3 DEF Policy!Pulls, LedgerTypes
  <2> QED
    BY <2>1, <2>2, MachineStep DEF LedgerInv, Consented
<1>4. CASE Policy!TidyByHand(m)
  <2> DEFINE tree == [p \in Policy!Paths |-> IF ledger[p] = Policy!Absent THEN local[m][p] ELSE ledger[p]]
  <2>1. tree \in Policy!Trees
    BY <1>1 DEF LedgerTypes, Policy!Trees
  <2>2. local' = [local EXCEPT ![m] = tree] /\ UNCHANGED <<Policy!upstream, have, queued, handled, consent>>
    BY <1>1, <1>4 DEF Policy!TidyByHand, Policy!Hand, LedgerTypes, Policy!upstream
  <2>3. ledgerHead' = [ledgerHead EXCEPT ![m] = ledger]
    BY <1>4 DEF Policy!TidyByHand
  <2>4. \A p \in Policy!Paths : tree[p] \in {ledger[p], local[m][p]}
    OBVIOUS
  <2> HIDE DEF tree
  <2>5. LedgerTypes'
    BY <1>1, <2>1, <2>2, <2>3 DEF LedgerTypes, Policy!upstream
  <2>6. ASSUME NEW n \in Machines, NEW s \in Policy!Members, NEW v \in Policy!Versions, Policy!By(local'[n][Policy!Accept(s, v)]) = s
        PROVE  <<s, v>> \in consent'
    <3>1. Policy!Accept(s, v) \in Policy!Paths
      BY EntryFacts
    <3>2. local'[n][Policy!Accept(s, v)] \in {ledger[Policy!Accept(s, v)], local[n][Policy!Accept(s, v)]}
      BY <1>1, <2>2, <2>4, <3>1 DEF LedgerTypes
    <3> QED
      BY <2>2, <2>6, <3>2 DEF LedgerInv, Consented
  <2> QED
    BY <2>2, <2>5, <2>6, MachineStep DEF Consented
<1>5. CASE \E piece \in {"manifest", "doc"} : Policy!Refreshes(m, piece)
  <2>1. PICK piece \in {"manifest", "doc"} : Policy!Refreshes(m, piece)
    BY <1>5
  <2>2. have' \in [Machines -> Declared]
    <3>1. /\ have \in [Machines -> Declared] /\ trusted \in Declared
          /\ have' = [have EXCEPT ![m] = [have[m] EXCEPT ![piece] = trusted[piece]]]
      BY <1>1, <2>1 DEF Policy!Refreshes, LedgerTypes
    <3>2. [have[m] EXCEPT ![piece] = trusted[piece]] \in Declared
      BY <3>1 DEF Declared
    <3> QED
      BY <3>1, <3>2
  <2>3. LedgerTypes' /\ UNCHANGED <<Policy!upstream, local, consent>>
    BY <1>1, <2>1, <2>2 DEF Policy!Refreshes, LedgerTypes, Policy!upstream
  <2> QED
    BY <2>3, MachineStep DEF LedgerInv, Consented
<1> QED
  BY <1>2, <1>3, <1>4, <1>5
-----------------------------------------------------------------------------
(* Pull requests *)

\* The invariant of the rest when one pull request is replaced.
LEMMA RequestStep ==
  ASSUME LedgerInv, LedgerTypes', NEW k, UNCHANGED <<ledger, local>>,
         cited \subseteq cited', consent \subseteq consent',
         \A j \in PRs : j # k => pr'[j] = pr[j],
         k \in PRs => RequestOK(k)'
  PROVE  LedgerInv'
<1>1. Consented(ledger, Policy!Members)' /\ \A m \in Machines : Consented(local[m], Policy!Members)'
  BY DEF LedgerInv, Consented
<1>2. ASSUME NEW j \in PRs
      PROVE  RequestOK(j)'
  <2>1. CASE j = k
    BY <2>1
  <2>2. CASE j # k
    BY <2>2, RequestStays, LedgerStays DEF LedgerInv
  <2> QED
    BY <2>1, <2>2
<1> QED
  BY <1>1, <1>2 DEF LedgerInv

\* A pull request that has not passed promises little.
LEMMA OpenedOK ==
  ASSUME LedgerTypes, NEW k, NEW author \in Policy!Members, NEW tree \in Policy!Trees,
         NEW refs \in SUBSET ChangeRecords, Policy!Opened(k, author, tree, refs)
  PROVE  /\ pr' \in [PRs -> Requests] /\ \A j \in PRs : j # k => pr'[j] = pr[j]
         /\ k \in PRs => /\ pr'[k].author = author /\ pr'[k].head = tree /\ pr'[k].base = ledger
                         /\ pr'[k].verdict = "open"
<1> DEFINE new == [author |-> author, base |-> ledger, from |-> tip, head |-> tree,
                   edges |-> {<<ledger, tree>>}, refs |-> refs, event |-> tip, verdict |-> "open", version |-> 0]
<1>1. pr \in [PRs -> Requests] /\ pr' = [pr EXCEPT ![k] = new]
  BY DEF Policy!Opened, LedgerTypes
<1>2. new \in Requests
  BY DEF Requests, LedgerTypes
<1>3. new.author = author /\ new.head = tree /\ new.base = ledger /\ new.verdict = "open"
  OBVIOUS
<1> HIDE DEF new
<1> QED
  BY <1>1, <1>2, <1>3

\* A tree made from the ledger by setting one path is consented to, if the
\* new file is.
LEMMA SetConsented ==
  ASSUME LedgerInv, consent \subseteq consent', NEW author \in Policy!Members, NEW p \in Policy!Paths,
         NEW c \in Policy!Files \cup {Policy!Absent}, NEW tree \in Policy!Trees, NEW who, Consented(tree, who),
         p[1] = "accept" /\ p[2] \in who \cap Policy!Members /\ Policy!By(c) = p[2] => <<p[2], p[3]>> \in consent'
  PROVE  \A s \in who \cap Policy!Members, v \in Policy!Versions :
           Policy!By([tree EXCEPT ![p] = c][Policy!Accept(s, v)]) = s => <<s, v>> \in consent'
<1> SUFFICES ASSUME NEW s \in who \cap Policy!Members, NEW v \in Policy!Versions,
                    Policy!By([tree EXCEPT ![p] = c][Policy!Accept(s, v)]) = s
             PROVE  <<s, v>> \in consent'
  OBVIOUS
<1>1. Policy!Accept(s, v) \in Policy!Paths /\ DOMAIN tree = Policy!Paths
  BY EntryFacts DEF Policy!Trees
<1>2. CASE Policy!Accept(s, v) = p
  <2>1. p[1] = "accept" /\ p[2] = s /\ p[3] = v
    BY <1>2 DEF Policy!Accept
  <2> QED
    BY <1>1, <1>2, <2>1
<1>3. CASE Policy!Accept(s, v) # p
  BY <1>1, <1>3 DEF Consented
<1> QED
  BY <1>2, <1>3

\* An item is proposed as it is in the files of its author.
LEMMA PublishesInv ==
  ASSUME LedgerInv, NEW m \in Machines, NEW p \in Policy!Entries, NEW c \in Policy!Files, Policy!Publishes(m, p, c)
  PROVE  LedgerInv'
<1>1. LedgerTypes
  BY DEF LedgerInv
<1>2. /\ queued' = [queued EXCEPT ![m] = @ \ {<<p, c>>}] /\ handled' = [handled EXCEPT ![m] = @ \cup {<<p, c>>}]
      /\ UNCHANGED <<trusted, ledger, tip, cited, have, ledgerHead, local, consent>>
  BY DEF Policy!Publishes
<1>3. <<p, c>> \in Policy!Items
  BY DEF Policy!Items
<1>4. /\ queued' \in [Machines -> SUBSET Policy!Items] /\ handled' \in [Machines -> SUBSET Policy!Items]
      /\ \A n \in Machines : queued'[n] \cap handled'[n] = {}
  BY <1>1, <1>2, <1>3 DEF LedgerTypes
<1>5. CASE UNCHANGED pr
  <2>1. LedgerTypes' /\ UNCHANGED <<Policy!upstream, local, consent>>
    BY <1>1, <1>2, <1>4, <1>5 DEF LedgerTypes, Policy!upstream
  <2> QED
    BY <2>1, MachineStep DEF LedgerInv, Consented
<1>6. CASE Policy!Opened(Policy!First(Policy!Unused), Owner(m), [ledger EXCEPT ![p] = c], {})
  <2> PICK k, tree : k = Policy!First(Policy!Unused) /\ tree = [ledger EXCEPT ![p] = c]
    OBVIOUS
  <2>1. Owner(m) \in Policy!Members /\ p \in Policy!Paths /\ tree \in Policy!Trees /\ ledger \in Policy!Trees
    BY <1>1, TreeSet, EntryFacts DEF LedgerTypes, Policy!Members
  <2>2. local[m][p] = c /\ Policy!By(c) = Owner(m)
    BY DEF Policy!Publishes, Policy!MayPublish
  <2>3. p[1] = "accept" /\ p[2] = Owner(m) => <<p[2], p[3]>> \in consent'
    BY <1>2, <2>1, <2>2, EntryFacts DEF LedgerInv, Consented
  <2>4. \A s \in {Owner(m)} \cap Policy!Members, v \in Policy!Versions : Policy!By(tree[Policy!Accept(s, v)]) = s => <<s, v>> \in consent'
    <3>1. Consented(ledger, {Owner(m)})
      BY <2>1 DEF LedgerInv, Consented
    <3> QED
      BY <1>2, <2>1, <2>3, <3>1, SetConsented
  <2>5. Policy!Opened(k, Owner(m), tree, {})
    BY <1>6
  <2>6. /\ pr' \in [PRs -> Requests] /\ \A j \in PRs : j # k => pr'[j] = pr[j]
        /\ k \in PRs => /\ pr'[k].author = Owner(m) /\ pr'[k].head = tree /\ pr'[k].base = ledger
                        /\ pr'[k].verdict = "open"
    <3>1. {} \in SUBSET ChangeRecords
      OBVIOUS
    <3> QED
      BY ONLY <1>1, <2>1, <2>5, <3>1, OpenedOK
  <2>7. k \in PRs => RequestOK(k)'
    BY <1>2, <2>1, <2>4, <2>6 DEF RequestOK, Consented, Policy!AppendOnly
  <2>8. LedgerTypes'
    BY <1>1, <1>2, <1>4, <2>6 DEF LedgerTypes
  <2> QED
    BY <1>2, <2>6, <2>7, <2>8, RequestStep
<1> QED
  BY <1>5, <1>6 DEF Policy!Publishes

\* What has passed is what the check saw.
LEMMA VerdictInv ==
  ASSUME LedgerInv, NEW k \in PRs, Policy!Check(k)
  PROVE  LedgerInv'
<1> DEFINE new == [pr[k] EXCEPT !.verdict = IF Policy!Passes(k) THEN "passed" ELSE "failed",
                                !.version = IF Policy!Passes(k) THEN trusted.manifest ELSE @]
<1>1. LedgerTypes
  BY DEF LedgerInv
<1>2. /\ pr \in [PRs -> Requests] /\ pr' = [pr EXCEPT ![k] = new] /\ pr[k] \in Requests
      /\ UNCHANGED <<trusted, ledger, tip, cited, have, ledgerHead, local, queued, handled, consent>>
  BY <1>1 DEF Policy!Check, LedgerTypes, Policy!machine
<1>3. trusted.manifest \in Policy!Versions
  BY <1>1 DEF LedgerTypes, Declared
<1>4. /\ new \in Requests /\ new.author = pr[k].author /\ new.base = pr[k].base /\ new.head = pr[k].head
      /\ new.edges = pr[k].edges /\ new.refs = pr[k].refs
      /\ new.verdict = IF Policy!Passes(k) THEN "passed" ELSE "failed"
      /\ Policy!Passes(k) => new.version = trusted.manifest
  BY <1>2, <1>3 DEF Requests
<1> HIDE DEF new
<1>5. pr'[k] = new /\ \A j \in PRs : j # k => pr'[j] = pr[j]
  BY <1>2
<1>6. LedgerTypes'
  BY <1>1, <1>2, <1>4 DEF LedgerTypes
<1>7. RequestOK(k)
  BY DEF LedgerInv
<1>8. Consented(pr[k].head, {pr[k].author})'
  BY <1>2, <1>4, <1>5, <1>7 DEF RequestOK, Consented
<1>9. pr'[k].author \in Policy!Members /\ Policy!AppendOnly(<<pr'[k].base, ledger'>>)
  BY <1>2, <1>4, <1>5, <1>7 DEF RequestOK, Policy!AppendOnly, Policy!Check
<1>10. ASSUME pr'[k].verdict = "passed"
       PROVE  /\ pr'[k].version \in Policy!Versions
              /\ \A e \in Policy!Edges(k)' : Policy!AppendOnly(e) /\ Policy!AdditionsFit(e, pr'[k].author, pr'[k].version)
              /\ Policy!AuthorAccepted(k, pr[k].version)' /\ Policy!RecordLinked(k)'
  <2>1. Policy!Passes(k) /\ pr'[k].version = trusted.manifest
    BY <1>4, <1>5, <1>10
  <2>2. /\ \A e \in Policy!Edges(k) : Policy!AppendOnly(e) /\ Policy!AdditionsFit(e, pr[k].author, trusted.manifest)
        /\ Policy!AuthorAccepted(k, trusted.manifest) /\ Policy!RecordLinked(k)
    BY <2>1 DEF Policy!Passes
  <2>3. Policy!Edges(k)' = Policy!Edges(k) /\ Policy!Changed(k)' = Policy!Changed(k)
    BY <1>4, <1>5 DEF Policy!Edges, Policy!Changed
  <2>4. Policy!AuthorAccepted(k, pr[k].version)'
    BY <1>4, <1>5, <2>1, <2>2, <2>3 DEF Policy!AuthorAccepted
  <2>5. Policy!RecordLinked(k)'
    BY <1>2, <1>4, <1>5, <2>2, <2>3 DEF Policy!RecordLinked
  <2> QED
    BY <1>3, <1>4, <1>5, <2>1, <2>2, <2>3, <2>4, <2>5
<1>11. RequestOK(k)'
  BY <1>8, <1>9, <1>10 DEF RequestOK
<1> QED
  BY <1>2, <1>5, <1>6, <1>11, RequestStep

\* A citation has the check run again, as a new commit does.
LEMMA CiteInv ==
  ASSUME LedgerInv, NEW k \in PRs, NEW r \in ChangeRecords, Policy!Cite(r, k)
  PROVE  LedgerInv'
<1> DEFINE new == [pr[k] EXCEPT !.verdict = "open"]
<1>1. LedgerTypes
  BY DEF LedgerInv
<1>2. /\ pr \in [PRs -> Requests] /\ pr' = [pr EXCEPT ![k] = new] /\ pr[k] \in Requests
      /\ cited' = cited \cup {<<r, k>>}
      /\ UNCHANGED <<trusted, ledger, tip, have, ledgerHead, local, queued, handled, consent>>
  BY <1>1 DEF Policy!Cite, LedgerTypes, Policy!machine
<1>3. /\ new \in Requests /\ new.author = pr[k].author /\ new.base = pr[k].base /\ new.head = pr[k].head
      /\ new.verdict = "open"
  BY <1>2 DEF Requests
<1> HIDE DEF new
<1>4. pr'[k] = new /\ \A j \in PRs : j # k => pr'[j] = pr[j]
  BY <1>2
<1>5. LedgerTypes'
  BY <1>1, <1>2, <1>3 DEF LedgerTypes
<1>6. RequestOK(k) /\ pr[k].verdict # "none"
  BY DEF LedgerInv, Policy!Cite
<1>7. RequestOK(k)'
  BY <1>2, <1>3, <1>4, <1>6 DEF RequestOK, Consented, Policy!AppendOnly
<1> QED
  BY <1>2, <1>4, <1>5, <1>7, RequestStep

\* The policy's own text and version are no part of the ledger; what passed
\* under a version did.
LEMMA PolicyInv ==
  ASSUME LedgerInv, Policy!WritePolicy \/ Policy!DeclarePolicy
  PROVE  LedgerInv'
<1>1. LedgerTypes
  BY DEF LedgerInv
<1>2. trusted \in Declared /\ MaxVersion \in Nat
  BY <1>1, VersionsAssumption DEF LedgerTypes
<1>3. trusted' \in Declared
  <2>1. CASE Policy!WritePolicy
    <3>1. trusted.doc + 1 \in Policy!Versions
      BY <1>2, <2>1 DEF Policy!WritePolicy, Declared, Policy!Versions
    <3> QED
      BY <1>2, <2>1, <3>1 DEF Policy!WritePolicy, Declared
  <2>2. CASE Policy!DeclarePolicy
    BY <1>2, <2>2 DEF Policy!DeclarePolicy, Policy!CommittedText, Declared
  <2> QED
    BY <2>1, <2>2
<1>4. UNCHANGED <<ledger, tip, cited, pr, have, ledgerHead, local, queued, handled, consent>>
  BY DEF Policy!WritePolicy, Policy!DeclarePolicy, Policy!machine
<1>5. LedgerTypes'
  BY <1>1, <1>3, <1>4 DEF LedgerTypes
<1>6. \A k \in PRs : RequestOK(k)'
  BY <1>4, RequestStays, LedgerStays DEF LedgerInv
<1> QED
  BY <1>4, <1>5, <1>6 DEF LedgerInv, Consented
\* A pull request made or changed by hand has not passed.
LEMMA OpenByHandInv ==
  ASSUME LedgerInv, NEW x \in Commits, Policy!OpenByHand(x)
  PROVE  LedgerInv'
<1> PICK k, tree : k = Policy!First(Policy!Unused) /\ tree = [ledger EXCEPT ![x.path] = x.file]
  OBVIOUS
<1>1. LedgerTypes
  BY DEF LedgerInv
<1>2. x.by \in Policy!Members /\ x.path \in Policy!Paths /\ x.file \in Policy!Files \cup {Policy!Absent} /\ x.refs \in SUBSET ChangeRecords
  BY CommitsAssumption
<1>3. /\ Policy!Opened(k, x.by, tree, x.refs) /\ Policy!Writes(x.by, x.path, x.file)
      /\ UNCHANGED <<trusted, ledger, tip, cited, have, queued, handled, ledgerHead, local>>
  BY DEF Policy!OpenByHand, Policy!Hand
<1>4. tree \in Policy!Trees /\ ledger \in Policy!Trees
  BY <1>1, <1>2, TreeSet DEF LedgerTypes
<1>5. /\ pr' \in [PRs -> Requests] /\ \A j \in PRs : j # k => pr'[j] = pr[j]
      /\ k \in PRs => /\ pr'[k].author = x.by /\ pr'[k].head = tree /\ pr'[k].base = ledger
                      /\ pr'[k].verdict = "open"
  BY ONLY <1>1, <1>2, <1>3, <1>4, OpenedOK
<1>6. /\ consent \subseteq consent' /\ consent' \subseteq Policy!Members \X Policy!Versions
      /\ x.path[1] = "accept" /\ x.path[2] = x.by /\ Policy!By(x.file) = x.by => <<x.by, x.path[3]>> \in consent'
  <2>1. x.path[1] = "accept" => x.path \in Policy!Entries
    <3>1. Policy!Other[1] = "other"
      BY DEF Policy!Other
    <3> QED
      BY <1>2, <3>1 DEF Policy!Paths
  <2>2. x.path[1] = "accept" => x.path[3] \in Policy!Versions
    BY <2>1, EntryFacts
  <2> QED
    BY <1>1, <1>2, <1>3, <2>2 DEF Policy!Writes, LedgerTypes
<1>7. \A s \in {x.by} \cap Policy!Members, v \in Policy!Versions : Policy!By(tree[Policy!Accept(s, v)]) = s => <<s, v>> \in consent'
  <2>1. Consented(ledger, {x.by})
    BY <1>2 DEF LedgerInv, Consented
  <2>2. x.path[1] = "accept" /\ x.path[2] \in {x.by} \cap Policy!Members /\ Policy!By(x.file) = x.path[2]
           => <<x.path[2], x.path[3]>> \in consent'
    BY <1>6
  <2> QED
    BY <1>2, <1>4, <1>6, <2>1, <2>2, SetConsented
<1>8. k \in PRs => RequestOK(k)'
  BY <1>2, <1>3, <1>5, <1>7 DEF RequestOK, Consented, Policy!AppendOnly
<1>9. LedgerTypes'
  BY <1>1, <1>3, <1>5, <1>6 DEF LedgerTypes
<1> QED
  BY <1>3, <1>5, <1>6, <1>8, <1>9, RequestStep

\* A commit by hand to an open pull request; a check of it is void.
LEMMA PushByHandInv ==
  ASSUME LedgerInv, NEW k \in PRs, NEW x \in Commits, Policy!PushByHand(k, x)
  PROVE  LedgerInv'
<1> DEFINE tree == [pr[k].head EXCEPT ![x.path] = x.file]
           new == [pr[k] EXCEPT !.head = tree, !.edges = @ \cup {<<pr[k].head, tree>>}, !.refs = @ \cup x.refs,
                                !.event = tip, !.verdict = "open"]
<1>1. LedgerTypes
  BY DEF LedgerInv
<1>2. x.by \in Policy!Members /\ x.path \in Policy!Paths /\ x.file \in Policy!Files \cup {Policy!Absent} /\ x.refs \in SUBSET ChangeRecords
  BY CommitsAssumption
<1>3. /\ pr \in [PRs -> Requests] /\ pr' = [pr EXCEPT ![k] = new] /\ pr[k] \in Requests
      /\ pr[k].author = x.by /\ pr[k].verdict # "none" /\ Policy!Writes(x.by, x.path, x.file)
      /\ UNCHANGED <<trusted, ledger, tip, cited, have, queued, handled, ledgerHead, local>>
  BY <1>1 DEF Policy!PushByHand, Policy!Hand, LedgerTypes
<1>4. tree \in Policy!Trees /\ pr[k].head \in Policy!Trees /\ tip \in Nat
  BY <1>1, <1>2, <1>3, TreeSet DEF Requests, LedgerTypes
<1> HIDE DEF tree
<1>5. /\ new \in Requests /\ new.author = pr[k].author /\ new.base = pr[k].base /\ new.head = tree
      /\ new.verdict = "open"
  <2>1. /\ pr[k].edges \cup {<<pr[k].head, tree>>} \in SUBSET (Policy!Trees \X Policy!Trees)
        /\ pr[k].refs \cup x.refs \in SUBSET ChangeRecords
    BY <1>2, <1>3, <1>4 DEF Requests
  <2> QED
    BY <1>3, <1>4, <2>1 DEF Requests
<1>6. /\ consent \subseteq consent' /\ consent' \subseteq Policy!Members \X Policy!Versions
      /\ x.path[1] = "accept" /\ x.path[2] = x.by /\ Policy!By(x.file) = x.by => <<x.by, x.path[3]>> \in consent'
  <2>1. x.path[1] = "accept" => x.path \in Policy!Entries
    <3>1. Policy!Other[1] = "other"
      BY DEF Policy!Other
    <3> QED
      BY <1>2, <3>1 DEF Policy!Paths
  <2>2. x.path[1] = "accept" => x.path[3] \in Policy!Versions
    BY <2>1, EntryFacts
  <2> QED
    BY <1>1, <1>2, <1>3, <2>2 DEF Policy!Writes, LedgerTypes
<1>7. RequestOK(k)
  BY DEF LedgerInv
<1>8. \A s \in {x.by} \cap Policy!Members, v \in Policy!Versions : Policy!By(tree[Policy!Accept(s, v)]) = s => <<s, v>> \in consent'
  <2> USE DEF tree
  <2>1. Consented(pr[k].head, {x.by})
    BY <1>3, <1>7 DEF RequestOK
  <2>2. x.path[1] = "accept" /\ x.path[2] \in {x.by} \cap Policy!Members /\ Policy!By(x.file) = x.path[2]
           => <<x.path[2], x.path[3]>> \in consent'
    BY <1>6
  <2> QED
    BY <1>2, <1>4, <1>6, <2>1, <2>2, SetConsented
<1> HIDE DEF new
<1>9. pr'[k] = new /\ \A j \in PRs : j # k => pr'[j] = pr[j]
  BY <1>3
<1>10. RequestOK(k)'
  BY <1>3, <1>5, <1>7, <1>8, <1>9 DEF RequestOK, Consented, Policy!AppendOnly
<1>11. LedgerTypes'
  BY <1>1, <1>3, <1>5, <1>6 DEF LedgerTypes
<1> QED
  BY <1>3, <1>6, <1>9, <1>10, <1>11, RequestStep

\* An update brings what is in the trusted ledger.
LEMMA UpdateByHandInv ==
  ASSUME LedgerInv, NEW k \in PRs, Policy!UpdateByHand(k)
  PROVE  LedgerInv'
<1> DEFINE tree == Policy!Merged(pr[k].base, pr[k].head, ledger)
           new == [pr[k] EXCEPT !.head = tree, !.edges = @ \cup {<<pr[k].head, tree>>, <<ledger, tree>>},
                                !.base = ledger, !.from = tip, !.event = tip, !.verdict = "open"]
<1>1. LedgerTypes
  BY DEF LedgerInv
<1>2. /\ pr \in [PRs -> Requests] /\ pr' = [pr EXCEPT ![k] = new] /\ pr[k] \in Requests
      /\ pr[k].verdict # "none"
      /\ UNCHANGED <<trusted, ledger, tip, cited, have, queued, handled, ledgerHead, local, consent>>
  BY <1>1 DEF Policy!UpdateByHand, Policy!Hand, LedgerTypes
<1>3. pr[k].base \in Policy!Trees /\ pr[k].head \in Policy!Trees /\ tip \in Nat /\ ledger \in Policy!Trees
  BY <1>1, <1>2 DEF Requests, LedgerTypes
<1>4. tree \in Policy!Trees
  BY <1>3, TreeMerged
<1>5. \A p \in Policy!Paths : tree[p] \in {ledger[p], pr[k].head[p]}
  BY DEF Policy!Merged
<1> HIDE DEF tree
<1>6. /\ new \in Requests /\ new.author = pr[k].author /\ new.base = ledger /\ new.head = tree
      /\ new.verdict = "open"
  <2>1. pr[k].edges \cup {<<pr[k].head, tree>>, <<ledger, tree>>} \in SUBSET (Policy!Trees \X Policy!Trees)
    BY <1>2, <1>3, <1>4 DEF Requests
  <2> QED
    BY <1>2, <1>3, <1>4, <2>1 DEF Requests
<1>7. RequestOK(k) /\ pr[k].author \in Policy!Members
  BY <1>2 DEF LedgerInv, RequestOK
<1>8. \A s \in {pr[k].author} \cap Policy!Members, v \in Policy!Versions : Policy!By(tree[Policy!Accept(s, v)]) = s => <<s, v>> \in consent'
  <2>1. Consented(pr[k].head, {pr[k].author}) /\ Consented(ledger, Policy!Members)
    BY <1>7 DEF RequestOK, LedgerInv
  <2>2. \A s \in Policy!Members, v \in Policy!Versions : Policy!Accept(s, v) \in Policy!Paths
    BY EntryFacts
  <2> QED
    BY <1>2, <1>5, <2>1, <2>2 DEF Consented
<1> HIDE DEF new
<1>9. pr'[k] = new /\ \A j \in PRs : j # k => pr'[j] = pr[j]
  BY <1>2
<1>10. RequestOK(k)'
  BY <1>2, <1>6, <1>7, <1>8, <1>9 DEF RequestOK, Consented, Policy!AppendOnly
<1>11. LedgerTypes'
  BY <1>1, <1>2, <1>6 DEF LedgerTypes
<1> QED
  BY <1>2, <1>9, <1>10, <1>11, RequestStep

-----------------------------------------------------------------------------
(* Merging *)

\* A merge adds to the ledger what the pull request added to its base, and
\* takes nothing back.
LEMMA MergeFacts ==
  ASSUME LedgerInv, NEW k \in PRs, Policy!Merge(k)
  PROVE  /\ ledger' \in Policy!Trees /\ Policy!AppendOnly(<<ledger, ledger'>>)
         /\ \A p \in Policy!Paths : ledger'[p] # ledger[p] => ledger'[p] = pr[k].head[p] /\ p \in Policy!Changed(k)
         /\ \A p \in Policy!Entries : ledger'[p] # ledger[p] =>
               /\ Policy!By(ledger'[p]) = pr[k].author
               /\ IF p[1] = "accept" THEN p[2] = pr[k].author ELSE Policy!Administers(pr[k].author)
<1> DEFINE base == pr[k].base
           ours == pr[k].head
<1>1. /\ pr[k].verdict = "passed" /\ Policy!Conflicts(base, ours, ledger) = {} /\ ledger' = Policy!Merged(base, ours, ledger)
  BY DEF Policy!Merge
<1>2. base \in Policy!Trees /\ ours \in Policy!Trees /\ ledger \in Policy!Trees
  BY DEF LedgerInv, LedgerTypes, Requests
<1>3. Policy!AppendOnly(<<base, ours>>) /\ Policy!AdditionsFit(<<base, ours>>, pr[k].author, pr[k].version)
  BY <1>1 DEF LedgerInv, RequestOK, Policy!Edges
<1>4. ledger' \in Policy!Trees
  BY <1>1, <1>2, TreeMerged
<1> HIDE DEF base, ours
<1>5. ASSUME NEW p \in Policy!Paths
      PROVE  /\ ledger'[p] = IF ours[p] = base[p] THEN ledger[p] ELSE ours[p]
             /\ ours[p] # base[p] => ledger[p] \in {base[p], ours[p]}
  BY <1>1 DEF Policy!Merged, Policy!Conflicts
<1>6. Policy!AppendOnly(<<ledger, ledger'>>)
  <2> SUFFICES ASSUME NEW p \in Policy!Entries, ledger[p] # Policy!Absent
               PROVE  ledger'[p] = ledger[p]
    BY DEF Policy!AppendOnly
  <2>1. base[p] # Policy!Absent => ours[p] = base[p]
    BY <1>3 DEF Policy!AppendOnly
  <2> QED
    BY <1>5, <2>1, EntryFacts
<1>7. ASSUME NEW p \in Policy!Paths, ledger'[p] # ledger[p]
      PROVE  ledger'[p] = ours[p] /\ p \in Policy!Changed(k)
  BY <1>5, <1>7 DEF Policy!Changed, base, ours
<1>8. ASSUME NEW p \in Policy!Entries, ledger'[p] # ledger[p]
      PROVE  /\ Policy!By(ledger'[p]) = pr[k].author
             /\ IF p[1] = "accept" THEN p[2] = pr[k].author ELSE Policy!Administers(pr[k].author)
  <2>1. ledger'[p] = ours[p] /\ ours[p] # base[p]
    BY <1>5, <1>8, EntryFacts
  <2>2. base[p] = Policy!Absent /\ ours[p] # Policy!Absent
    BY <1>3, <2>1 DEF Policy!AppendOnly
  <2> QED
    BY <1>3, <2>1, <2>2 DEF Policy!AdditionsFit
<1> QED
  BY <1>4, <1>6, <1>7, <1>8 DEF ours

\* What passed the check and merges keeps the ledger as it must be.
LEMMA MergeInv ==
  ASSUME LedgerInv, NEW k \in PRs, Policy!Merge(k)
  PROVE  LedgerInv'
<1> DEFINE new == [pr[k] EXCEPT !.verdict = "merged"]
<1>1. LedgerTypes /\ RequestOK(k)
  BY DEF LedgerInv
<1>2. /\ pr \in [PRs -> Requests] /\ pr' = [pr EXCEPT ![k] = new] /\ pr[k] \in Requests
      /\ pr[k].verdict = "passed" /\ tip' = tip + 1
      /\ UNCHANGED <<trusted, cited, have, queued, handled, ledgerHead, local, consent>>
  BY <1>1 DEF Policy!Merge, LedgerTypes, Policy!machine
<1>3. /\ new \in Requests /\ new.author = pr[k].author /\ new.base = pr[k].base /\ new.head = pr[k].head
      /\ new.verdict = "merged"
  BY <1>2 DEF Requests
<1> HIDE DEF new
<1>4. pr'[k] = new /\ \A j \in PRs : j # k => pr'[j] = pr[j]
  BY <1>2
<1>5. /\ ledger' \in Policy!Trees /\ Policy!AppendOnly(<<ledger, ledger'>>)
      /\ \A p \in Policy!Paths : ledger'[p] # ledger[p] => ledger'[p] = pr[k].head[p]
      /\ \A p \in Policy!Entries : ledger'[p] # ledger[p] /\ p[1] = "accept" => p[2] = pr[k].author
  BY MergeFacts
<1>6. LedgerTypes'
  BY <1>1, <1>2, <1>3, <1>5 DEF LedgerTypes
<1>7. Consented(ledger, Policy!Members)'
  <2> SUFFICES ASSUME NEW s \in Policy!Members, NEW v \in Policy!Versions, Policy!By(ledger'[Policy!Accept(s, v)]) = s
               PROVE  <<s, v>> \in consent
    BY <1>2 DEF Consented
  <2>1. Policy!Accept(s, v) \in Policy!Entries /\ Policy!Accept(s, v) \in Policy!Paths /\ Policy!Accept(s, v)[1] = "accept" /\ Policy!Accept(s, v)[2] = s
    BY EntryFacts DEF Policy!Accept
  <2>2. CASE ledger'[Policy!Accept(s, v)] = ledger[Policy!Accept(s, v)]
    BY <2>2 DEF LedgerInv, Consented
  <2>3. CASE ledger'[Policy!Accept(s, v)] # ledger[Policy!Accept(s, v)]
    <3>1. s = pr[k].author /\ Policy!By(pr[k].head[Policy!Accept(s, v)]) = s
      BY <1>5, <2>1, <2>3
    <3> QED
      BY <1>1, <3>1 DEF RequestOK, Consented
  <2> QED
    BY <2>2, <2>3
<1>8. \A m \in Machines : Consented(local[m], Policy!Members)'
  BY <1>2 DEF LedgerInv, Consented
<1>9. RequestOK(k)'
  <2>1. Policy!AppendOnly(<<pr[k].base, ledger'>>)
    BY <1>1, <1>2, <1>5 DEF RequestOK, Policy!AppendOnly
  <2> QED
    BY <1>1, <1>2, <1>3, <1>4, <2>1 DEF RequestOK, Consented
<1>10. ASSUME NEW j \in PRs, j # k
       PROVE  RequestOK(j)'
  BY <1>2, <1>4, <1>5, <1>10, RequestStays DEF LedgerInv
<1> QED
  BY <1>6, <1>7, <1>8, <1>9, <1>10 DEF LedgerInv
-----------------------------------------------------------------------------
(* Every step *)

\* Every step keeps the invariant.
LEMMA LedgerNextInv ==
  ASSUME LedgerInv, [Policy!Next]_(Policy!vars)
  PROVE  LedgerInv'
<1>1. CASE UNCHANGED Policy!vars
  <2>1. LedgerTypes' /\ UNCHANGED <<Policy!upstream, local, consent>>
    BY <1>1 DEF LedgerInv, LedgerTypes, Policy!vars, Policy!upstream, Policy!machine
  <2> QED
    BY <2>1, MachineStep DEF LedgerInv, Consented
<1>2. ASSUME NEW m \in Machines,
             \/ Policy!Accepts(m) \/ Policy!AcceptsAtLaunch(m) \/ Policy!Requeues(m) \/ Policy!Pulls(m) \/ Policy!TidyByHand(m)
             \/ \E s \in Policy!Members : Policy!Supersedes(m, s)
             \/ \E piece \in {"manifest", "doc"} : Policy!Refreshes(m, piece)
             \/ \E p \in Policy!Entries, c \in Policy!Files : Policy!Publishes(m, p, c)
      PROVE  LedgerInv'
  BY <1>2, AcceptsInv, SupersedesInv, OwnStepsInv, PublishesInv DEF Policy!AcceptsAtLaunch
<1>3. ASSUME NEW k \in PRs,
             \/ Policy!Check(k) \/ Policy!Merge(k) \/ Policy!UpdateByHand(k) \/ \E r \in ChangeRecords : Policy!Cite(r, k)
             \/ \E x \in Commits : Policy!PushByHand(k, x)
      PROVE  LedgerInv'
  BY <1>3, VerdictInv, MergeInv, UpdateByHandInv, CiteInv, PushByHandInv
<1> QED
  BY <1>1, <1>2, <1>3, OpenByHandInv, PolicyInv DEF Policy!Next

\* Only a merge changes the ledger or has a pull request merged.
LEMMA OnlyMergesMerge ==
  ASSUME LedgerInv, Policy!Next, \A k \in PRs : ~Policy!Merge(k)
  PROVE  ledger' = ledger /\ \A j \in PRs : pr'[j].verdict = "merged" => pr[j].verdict = "merged"
<1>1. LedgerTypes /\ pr \in [PRs -> Requests]
  BY DEF LedgerInv, LedgerTypes
<1>2. ASSUME NEW k, NEW author, NEW tree, NEW refs, Policy!Opened(k, author, tree, refs), NEW j \in PRs,
             pr'[j].verdict = "merged"
      PROVE  pr[j].verdict = "merged"
  BY <1>1, <1>2 DEF Policy!Opened
<1>3. CASE \E m \in Machines :
              \/ Policy!Accepts(m) \/ Policy!AcceptsAtLaunch(m) \/ Policy!Requeues(m) \/ Policy!Pulls(m) \/ Policy!TidyByHand(m)
              \/ \E s \in Policy!Members : Policy!Supersedes(m, s)
              \/ \E piece \in {"manifest", "doc"} : Policy!Refreshes(m, piece)
  BY <1>3 DEF Policy!Accepts, Policy!AcceptsAtLaunch, Policy!Requeues, Policy!Pulls, Policy!TidyByHand, Policy!Hand, Policy!Supersedes, Policy!Refreshes, Policy!upstream
<1>4. ASSUME NEW m \in Machines, NEW p \in Policy!Entries, NEW c \in Policy!Files, Policy!Publishes(m, p, c)
      PROVE  ledger' = ledger /\ \A j \in PRs : pr'[j].verdict = "merged" => pr[j].verdict = "merged"
  BY <1>2, <1>4 DEF Policy!Publishes
<1>5. ASSUME NEW k \in PRs,
             Policy!Check(k) \/ Policy!UpdateByHand(k) \/ (\E r \in ChangeRecords : Policy!Cite(r, k)) \/ \E x \in Commits : Policy!PushByHand(k, x)
      PROVE  ledger' = ledger /\ \A j \in PRs : pr'[j].verdict = "merged" => pr[j].verdict = "merged"
  <2>1. pr[k] \in Requests
    BY <1>1
  <2>2. \A j \in PRs : j # k => pr'[j] = pr[j]
    BY <1>1, <1>5 DEF Policy!Check, Policy!UpdateByHand, Policy!Cite, Policy!PushByHand
  <2>3. pr'[k].verdict # "merged"
    <3>1. CASE Policy!Check(k)
      BY <1>1, <2>1, <3>1 DEF Policy!Check, Requests
    <3>2. CASE Policy!UpdateByHand(k)
      BY <1>1, <2>1, <3>2 DEF Policy!UpdateByHand, Requests
    <3>3. CASE \E r \in ChangeRecords : Policy!Cite(r, k)
      BY <1>1, <2>1, <3>3 DEF Policy!Cite, Requests
    <3>4. CASE \E x \in Commits : Policy!PushByHand(k, x)
      BY <1>1, <2>1, <3>4 DEF Policy!PushByHand, Requests
    <3> QED
      BY <1>5, <3>1, <3>2, <3>3, <3>4
  <2>4. ledger' = ledger
    BY <1>5 DEF Policy!Check, Policy!UpdateByHand, Policy!Cite, Policy!PushByHand, Policy!Hand
  <2> QED
    BY <2>2, <2>3, <2>4
<1>6. ASSUME NEW x \in Commits, Policy!OpenByHand(x)
      PROVE  ledger' = ledger /\ \A j \in PRs : pr'[j].verdict = "merged" => pr[j].verdict = "merged"
  BY <1>2, <1>6 DEF Policy!OpenByHand, Policy!Hand
<1>7. CASE Policy!WritePolicy \/ Policy!DeclarePolicy
  BY <1>7 DEF Policy!WritePolicy, Policy!DeclarePolicy
<1> QED
  BY <1>3, <1>4, <1>5, <1>6, <1>7 DEF Policy!Next

\* What a launch goes by was accepted.
LEMMA LaunchFacts ==
  ASSUME LedgerInv', NEW m \in Machines, Policy!MayLaunch(m)'
  PROVE  (<<Owner(m), have[m].manifest>> \in consent)'
<1>1. have'[m].manifest \in Policy!Versions /\ Owner(m) \in Policy!Members
  BY DEF LedgerInv, LedgerTypes, Declared, Policy!Members
<1>2. Policy!By(local'[m][Policy!Accept(Owner(m), have'[m].manifest)]) = Owner(m)
  BY DEF Policy!MayLaunch, Policy!Mine
<1> QED
  BY <1>1, <1>2 DEF LedgerInv, Consented

\* A pull request that changes anything but the ledger is merged with its
\* author's acceptance in the trusted ledger and one record.
LEMMA MergeKeeps ==
  ASSUME LedgerInv, NEW k \in PRs, Policy!Merge(k), ledger'[Policy!Other] # ledger[Policy!Other]
  PROVE  /\ Policy!By(ledger[Policy!Accept(pr[k].author, pr[k].version)]) = pr[k].author
         /\ \E r \in ChangeRecords : pr[k].refs = {r} /\ <<r, k>> \in cited
<1>1. /\ pr[k].verdict = "passed" /\ pr[k].author \in Policy!Members /\ pr[k].version \in Policy!Versions
      /\ Policy!AuthorAccepted(k, pr[k].version) /\ Policy!RecordLinked(k) /\ Policy!AppendOnly(<<pr[k].base, ledger>>)
  BY DEF Policy!Merge, LedgerInv, RequestOK
<1>2. Policy!Other \in Policy!Changed(k)
  BY MergeFacts, EntryFacts
<1>3. Policy!By(pr[k].base[Policy!Accept(pr[k].author, pr[k].version)]) = pr[k].author
  BY <1>1, <1>2, EntryFacts DEF Policy!AuthorAccepted, Policy!Accepted
<1>4. Policy!Accept(pr[k].author, pr[k].version) \in Policy!Entries
  BY <1>1, EntryFacts
<1>5. pr[k].base[Policy!Accept(pr[k].author, pr[k].version)] # Policy!Absent
  BY <1>1, <1>3, ByFacts
<1>6. ledger[Policy!Accept(pr[k].author, pr[k].version)] = pr[k].base[Policy!Accept(pr[k].author, pr[k].version)]
  BY <1>1, <1>4, <1>5 DEF Policy!AppendOnly
<1> QED
  BY <1>1, <1>2, <1>3, <1>6 DEF Policy!RecordLinked

\* And every step appends only what its subjects gave, and launches with it.
LEMMA StepKeepsConsent ==
  ASSUME LedgerInv, LedgerInv', Policy!Next
  PROVE  Policy!KeepsConsent
<1>1. \A m \in Machines : Policy!MayLaunch(m)' => <<Owner(m), have[m].manifest>>' \in consent'
  BY LaunchFacts
<1>2. CASE \A k \in PRs : ~Policy!Merge(k)
  BY <1>1, <1>2, OnlyMergesMerge, LedgerStays, EntryFacts DEF Policy!KeepsConsent
<1>3. ASSUME NEW k \in PRs, Policy!Merge(k)
      PROVE  Policy!KeepsConsent
  <2>1. /\ Policy!AppendOnly(<<ledger, ledger'>>)
        /\ \A p \in Policy!Entries : ledger'[p] # ledger[p] =>
              /\ Policy!By(ledger'[p]) = pr[k].author
              /\ IF p[1] = "accept" THEN p[2] = pr[k].author ELSE Policy!Administers(pr[k].author)
    BY <1>3, MergeFacts
  <2>2. ASSUME NEW p \in Policy!Entries, ledger'[p] # ledger[p]
        PROVE  IF p[1] = "accept" THEN Policy!By(ledger'[p]) = p[2] /\ <<p[2], p[3]>> \in consent'
               ELSE Policy!By(ledger'[p]) \in Admins
    <3>1. CASE p[1] = "accept"
      <4>1. Policy!By(ledger'[p]) = p[2] /\ p = Policy!Accept(p[2], p[3]) /\ p[2] \in Policy!Members /\ p[3] \in Policy!Versions
        BY <2>1, <2>2, <3>1, EntryFacts
      <4>2. Policy!By(ledger'[Policy!Accept(p[2], p[3])]) = p[2] => <<p[2], p[3]>> \in consent'
        BY <4>1 DEF LedgerInv, Consented
      <4> QED
        BY <3>1, <4>1, <4>2
    <3>2. CASE p[1] # "accept"
      BY <2>1, <2>2, <3>2 DEF Policy!Administers
    <3> QED
      BY <3>1, <3>2
  <2>3. ASSUME NEW j \in PRs, pr'[j].verdict = "merged", pr[j].verdict # "merged"
        PROVE  /\ \A e \in pr[j].edges : Policy!AppendOnly(e)
               /\ ledger'[Policy!Other] # ledger[Policy!Other] =>
                     /\ Policy!By(ledger[Policy!Accept(pr[j].author, pr[j].version)]) = pr[j].author
                     /\ \E r \in ChangeRecords : pr[j].refs = {r} /\ <<r, j>> \in cited
    <3>1. j = k
      BY <1>3, <2>3 DEF Policy!Merge, LedgerInv, LedgerTypes
    <3>2. \A e \in pr[k].edges : Policy!AppendOnly(e)
      BY <1>3 DEF Policy!Merge, LedgerInv, RequestOK, Policy!Edges
    <3> QED
      BY <1>3, <3>1, <3>2, MergeKeeps
  <2> QED
    BY <1>1, <2>1, <2>2, <2>3 DEF Policy!KeepsConsent
<1> QED
  BY <1>2, <1>3

-----------------------------------------------------------------------------
(***************************************************************************)
(* The parts together.                                                     *)
(***************************************************************************)

\* The contract is delivered whatever the other parts do.
LEMMA DeliveryAmongParts == PartsSpec => Spec
<1>1. PartsInit => Init
  BY DEF PartsInit
<1>2. [PartsNext]_partsVars => [Next]_vars
  <2>1. CASE UNCHANGED partsVars
    BY <2>1 DEF partsVars
  <2>2. CASE PartsNext
    BY <2>2 DEF PartsNext, OnlyDelivery, OnlySync, OnlyAdmin, OnlyShared, OnlyPolicy, OnlyInventory
  <2> QED
    BY <2>1, <2>2
<1> QED
  BY <1>1, <1>2, PTL DEF PartsSpec, Spec

\* Among the other parts too, a receipt stands for a conversation that was given
\* its revision, none is given twice without a cause, and what was withdrawn is
\* retracted (Deliver, Context).
THEOREM DeliveryKeepsItsWord == PartsSpec => []ReceiptMeansTold /\ NoRepeat /\ RetractsWhatItTold
BY DeliveryAmongParts, ReceiptsAreTrue, NothingIsRepeated, WithdrawnRulesAreRetracted

\* The invariant of the admin commands, where they act.
LEMMA AdminAmongParts == PartsSpec => [](part = "admin" => AdminInv)
<1>1. PartsInit => (part = "admin" => AdminInv)
  BY AdminInit DEF PartsInit
<1>2. (part = "admin" => AdminInv) /\ [PartsNext]_partsVars => (part = "admin" => AdminInv)'
  BY PartSteps, AdminStep
<1> QED
  BY <1>1, <1>2, PTL DEF PartsSpec

\* Wherever an admin command was stopped, by a crash or by a write that failed,
\* what can be read of the checkout is accepted: nothing refers to what is not
\* declared (adminSkillsRemove, writeContractEdit).
THEOREM AdminConsistent == PartsSpec => []Consistent
<1>1. (part = "admin" => AdminInv) => Consistent
  BY InvIsConsistent DEF Consistent
<1> QED
  BY <1>1, AdminAmongParts, PTL

\* The contract changes in one step, with the last write of a contract edit, and
\* by what that edit asks for; no other command, stopped edit or older release
\* changes what members read (writeContractEdit).
THEOREM ContractAsAsked == PartsSpec => RulesAsAsked
<1>1. (part = "admin" => AdminInv) /\ [PartsNext]_partsVars => [part = "admin" => Admin!ChangesAsAsked]_partsVars
  <2> SUFFICES ASSUME part = "admin", AdminInv, [PartsNext]_partsVars, ~UNCHANGED partsVars
               PROVE  Admin!ChangesAsAsked
    OBVIOUS
  <2>1. [Admin!ChangesAsAsked]_(Admin!vars)
    BY PartSteps, AdminStep
  <2>2. UNCHANGED Admin!vars => files' = files
    BY DEF Admin!vars
  <2> QED
    BY <2>1, <2>2 DEF Admin!ChangesAsAsked
<1> QED
  BY <1>1, AdminAmongParts, PTL DEF PartsSpec, RulesAsAsked

\* The invariant of the ledger, where it is at work.
LEMMA LedgerAmongParts == PartsSpec => [](part = "policy" => LedgerInv)
<1>1. PartsInit => (part = "policy" => LedgerInv)
  BY LedgerInit DEF PartsInit
<1>2. (part = "policy" => LedgerInv) /\ [PartsNext]_partsVars => (part = "policy" => LedgerInv)'
  BY PartSteps, LedgerNextInv
<1> QED
  BY <1>1, <1>2, PTL DEF PartsSpec

\* The ledger is append-only and holds what its subjects gave, and nothing
\* else is merged or launched without it (governance.Check, runPolicyAccept).
THEOREM LedgerKeepsConsent == PartsSpec => LedgerIsConsent
<1>1. /\ part = "policy" => LedgerInv
      /\ (part = "policy" => LedgerInv)'
      /\ [PartsNext]_partsVars
      => [part = "policy" => Policy!KeepsConsent]_partsVars
  <2> SUFFICES ASSUME part = "policy", LedgerInv, (part = "policy" => LedgerInv)', PartsNext
               PROVE  Policy!KeepsConsent
    OBVIOUS
  <2>1. Policy!Next /\ part' = part
    BY DEF PartsNext, OnlyDelivery, OnlySync, OnlyAdmin, OnlyShared, OnlyPolicy, OnlyInventory
  <2> QED
    BY <2>1, StepKeepsConsent
<1> QED
  BY <1>1, LedgerAmongParts, PTL DEF PartsSpec, LedgerIsConsent

\* The variables of every part keep their types.
THEOREM TypesAreKept == PartsSpec => []TypesOK
<1>1. ASSUME AdminInv PROVE Admin!TypeOK
  BY <1>1 DEF AdminInv, AdminTypes, FileSets, Guides, Changes, Admin!TypeOK
<1>2. ASSUME LedgerInv PROVE Policy!TypeOK
  BY <1>2 DEF LedgerInv, LedgerTypes, RequestOK, Requests, Declared, Policy!TypeOK
<1>3. SyncInv => Sync!TypeOK
  BY DEF SyncInv, SyncTypes
<1>4. SkillsInv => Shared!TypeOK
  BY DEF SkillsInv
<1>5. InventoryInv => Inventory!TypeOK
  BY DEF InventoryInv, InventoryTypes
<1>6. /\ TypeOK
      /\ part = "sync" => SyncInv
      /\ part = "admin" => AdminInv
      /\ part = "skills" => SkillsInv /\ Counted
      /\ part = "policy" => LedgerInv
      /\ part = "inventory" => InventoryInv
      => TypesOK
  BY <1>1, <1>2, <1>3, <1>4, <1>5 DEF TypesOK
<1> QED
  BY <1>6, DeliveryAmongParts, TypeCorrect, SyncAmongParts, AdminAmongParts, SkillsAmongParts, LedgerAmongParts,
     InventoryAmongParts, PTL
=============================================================================
