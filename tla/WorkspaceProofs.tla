--------------------------- MODULE WorkspaceProofs ---------------------------
(***************************************************************************)
(* Proofs about the parts of a member's workspace that carry its files:    *)
(* the synchronization of repositories, the skills and the umbrella's      *)
(* inventory; each part's invariant, kept by its steps, and what that      *)
(* gives for the parts together, where the others leave its variables      *)
(* alone.                                                                  *)
(***************************************************************************)
EXTENDS Workspace, FiniteSetTheorems, SequenceTheorems, WellFoundedInduction, TLAPS

(***************************************************************************)
(* Repository synchronization.                                             *)
(***************************************************************************)
Trunk(c) == upstream[about[c].remote]

SyncTypes ==
  /\ Sync!TypeOK
  /\ opt.entries \subseteq Checkouts

\* A checkout has, besides its own changes, only those of its remote; what it
\* shows of the remote is there.
OwnOrTrunk ==
  \A c \in Checkouts :
    /\ seen[c] \subseteq Trunk(c)
    /\ \A x \in head[c] : x[1] = c \/ x \in Trunk(c)

\* A phase has checkouts ahead, and all are covered.
InHand == at # "idle" => todo # {} /\ todo \subseteq opt.entries

\* What a checkout may publish, or a sync would commit there, is on the remote,
\* or was inspected, or was written later.
Accounted(c) ==
  /\ \A k \in Sync!Kinds : <<c, k>> \in head[c] => <<c, k>> \in Trunk(c) \cup late \cup res[c].changed \/ k \in res[c].dirty
  /\ \A k \in changed[c] : k \in res[c].dirty \/ <<c, k>> \in late

PendingAccounted == \A c \in opt.entries : Sync!Inspected(c) /\ res[c].status = "pending" => Accounted(c)

Approved(c) == c \in opt.entries /\ res[c].status = "pending" /\ Sync!Passes(c)

\* What is about to be pushed has passed the gates, and the members that a
\* coordinated push takes along have nothing of their own.
PushApproved ==
  /\ at = "push" => Approved(Sync!First)
  /\ at \in {"gnit commit", "gnit push"} =>
       /\ \A c \in todo : Approved(c)
       /\ \A m \in Sync!Members \ todo : head[m] \subseteq Trunk(m) \cup late

SyncInv == SyncTypes /\ OwnOrTrunk /\ InHand /\ PendingAccounted /\ PushApproved

-----------------------------------------------------------------------------
(* What the steps look at *)

\* A set of natural numbers that is not empty has a least one.
LEMMA NatMin ==
  ASSUME NEW S, S \subseteq Nat, S # {}
  PROVE  \E m \in S : \A k \in S : m <= k
<1> DEFINE R == {ss \in Nat \X Nat : ss[1] < ss[2]}
<1>1. IsWellFoundedOn(R, Nat)
  BY NatLessThanWellFounded DEF OpToRel
<1>2. \A k, m \in Nat : (k < m) => <<k, m>> \in R
  OBVIOUS
<1> HIDE DEF R
<1>3. PICK m \in S : \A k \in S : ~(<<k, m>> \in R)
  BY <1>1, WFMin
<1>4. ASSUME NEW k \in S PROVE m <= k
  <2>1. ~(k < m)
    BY <1>2, <1>3
  <2> QED
    BY <2>1
<1> QED
  BY <1>4

\* A phase has a first checkout ahead.
LEMMA FirstAhead ==
  ASSUME SyncTypes, todo # {}
  PROVE  Sync!First \in todo /\ Sync!First \in Checkouts
BY NatMin, CheckoutsAssumption DEF SyncTypes, Sync!TypeOK, Sync!First

\* Each checkout has a remote.
LEMMA HasRemote == \A c \in Checkouts : SyncTypes => about[c].remote \in Sync!Remotes
<1> SUFFICES ASSUME NEW c \in Checkouts, SyncTypes PROVE about[c].remote \in Sync!Remotes
  OBVIOUS
<1>1. PICK s \in Settings : s = [root |-> space, about |-> about]
  BY DEF SyncTypes, Sync!TypeOK
<1>2. s.about = about
  BY <1>1
<1> QED
  BY <1>2 DEF Sync!Remotes

\* A workspace begins in the invariant.
LEMMA WorkspaceInitInv == Sync!Init => SyncInv
<1> SUFFICES ASSUME Sync!Init PROVE SyncInv
  OBVIOUS
<1>1. [root |-> space, about |-> about] \in Settings
  BY SettingsAssumption DEF Sync!Init
<1>2. SyncTypes
  BY <1>1 DEF Sync!Init, SyncTypes, Sync!TypeOK, Sync!NoResult, Sync!NoOpt
<1> QED
  BY <1>2 DEF Sync!Init, SyncInv, OwnOrTrunk, InHand, PendingAccounted, PushApproved, Sync!NoOpt

-----------------------------------------------------------------------------
(* The user and other clones *)

\* Where remotes and what came late only grow, and nothing else is touched
\* that the sync knows of, what it decided stands.
LEMMA StillApproved ==
  ASSUME SyncTypes, PushApproved, UNCHANGED <<about, space, opt, at, todo, res>>,
         late \subseteq late', \A c \in Checkouts : Trunk(c) \subseteq Trunk(c)',
         \A m \in Checkouts : head'[m] \subseteq head[m] \cup Trunk(m)' \cup late' \/ at = "idle" \/ at = "inspect"
  PROVE  PushApproved'
<1>1. \A c : Approved(c)' <=> Approved(c)
  BY DEF Approved, Sync!Passes, Sync!PendingSibling, Sync!ContentOnly, Sync!Touched, Sync!InContent
<1>2. Sync!Members' = Sync!Members /\ Sync!First' = Sync!First /\ Sync!Members \subseteq Checkouts
  BY DEF Sync!Members, Sync!First
<1> QED
  BY <1>1, <1>2 DEF PushApproved

\* A file that is edited after the inspection is written down as late.
LEMMA UserEditInv == ASSUME SyncInv, NEW c \in Checkouts, NEW k \in Sync!Kinds, Sync!Edit(c, k) PROVE SyncInv'
<1> USE DEF SyncInv
<1>1. SyncTypes'
  <2>1. <<c, k>> \in Sync!Changes
    BY DEF Sync!Changes
  <2> QED
    BY <2>1 DEF Sync!Edit, Sync!setting, SyncTypes, Sync!TypeOK
<1>2. OwnOrTrunk' /\ InHand'
  BY DEF Sync!Edit, Sync!setting, OwnOrTrunk, InHand, Trunk
<1>3. PendingAccounted'
  <2> SUFFICES ASSUME NEW d \in opt.entries, Sync!Inspected(d), res[d].status = "pending" PROVE Accounted(d)'
    BY DEF PendingAccounted, Sync!Edit, Sync!setting, Sync!Inspected
  <2>1. Accounted(d) /\ d \in Checkouts
    BY DEF PendingAccounted, SyncTypes
  <2>2. changed'[d] = IF d = c THEN changed[d] \cup {k} ELSE changed[d]
    BY <2>1 DEF Sync!Edit, SyncTypes, Sync!TypeOK
  <2>3. /\ UNCHANGED <<head, upstream, about, res>> /\ late \subseteq late'
        /\ d = c => <<c, k>> \in late'
    BY DEF Sync!Edit, Sync!setting
  <2> QED
    BY <2>1, <2>2, <2>3 DEF Accounted, Trunk
<1>4. PushApproved'
  BY StillApproved DEF Sync!Edit, Sync!setting, Trunk
<1> QED
  BY <1>1, <1>2, <1>3, <1>4

\* A commit of the user moves changes to the branch, and is late as well.
LEMMA CommitInv == ASSUME SyncInv, NEW c \in Checkouts, Sync!Commit(c) PROVE SyncInv'
<1> USE DEF SyncInv
<1> DEFINE own == {<<c, IF k = "new" THEN "in" ELSE k>> : k \in changed[c]}
<1>1. /\ head' = [head EXCEPT ![c] = @ \cup own] /\ changed' = [changed EXCEPT ![c] = {}]
      /\ late' = late \cup IF Sync!Inspected(c) THEN own ELSE {}
      /\ UNCHANGED <<about, space, opt, seen, upstream, at, todo, res>>
  BY DEF Sync!Commit, Sync!setting
<1>2. own \subseteq Sync!Changes /\ \A x \in own : x[1] = c
  <2>1. changed[c] \subseteq Sync!Kinds
    BY DEF SyncTypes, Sync!TypeOK
  <2>2. \A k \in changed[c] : (IF k = "new" THEN "in" ELSE k) \in Sync!Kinds
    BY <2>1 DEF Sync!Kinds
  <2>3. \A k \in Sync!Kinds : <<c, k>> \in Sync!Changes
    BY DEF Sync!Changes
  <2> QED
    BY <2>2, <2>3
<1> HIDE DEF own
<1>3. SyncTypes'
  BY <1>1, <1>2 DEF SyncTypes, Sync!TypeOK
<1>4. OwnOrTrunk' /\ InHand'
  BY <1>1, <1>2 DEF OwnOrTrunk, InHand, Trunk, SyncTypes, Sync!TypeOK
<1>5. PendingAccounted'
  <2> SUFFICES ASSUME NEW d \in opt.entries, Sync!Inspected(d), res[d].status = "pending" PROVE Accounted(d)'
    BY <1>1 DEF PendingAccounted, Sync!Inspected
  <2>1. Accounted(d) /\ d \in Checkouts
    BY DEF PendingAccounted, SyncTypes
  <2>2. /\ head'[d] = IF d = c THEN head[d] \cup own ELSE head[d]
        /\ changed'[d] = IF d = c THEN {} ELSE changed[d]
    BY <1>1, <2>1 DEF SyncTypes, Sync!TypeOK
  <2>3. late \subseteq late' /\ (d = c => own \subseteq late')
    BY <1>1
  <2> QED
    BY <1>1, <2>1, <2>2, <2>3 DEF Accounted, Trunk
<1>6. PushApproved'
  <2>1. ASSUME NEW m \in Checkouts, at # "idle", at # "inspect" PROVE head'[m] \subseteq head[m] \cup late'
    <3>1. Sync!Inspected(c)
      BY <2>1 DEF Sync!Inspected
    <3> QED
      BY <1>1, <3>1 DEF SyncTypes, Sync!TypeOK
  <2> QED
    BY <1>1, <2>1, StillApproved DEF Trunk
<1> QED
  BY <1>3, <1>4, <1>5, <1>6

\* Another clone adds to a remote.
LEMMA OtherPushesInv == ASSUME SyncInv, NEW r \in Sync!Remotes, Sync!OtherPushes(r) PROVE SyncInv'
<1> USE DEF SyncInv
<1>1. /\ upstream' = [upstream EXCEPT ![r] = @ \cup {<<0, "in">>}]
      /\ UNCHANGED <<about, space, opt, head, seen, changed, at, todo, res, late>>
  BY DEF Sync!OtherPushes, Sync!setting
<1>2. SyncTypes'
  BY <1>1 DEF SyncTypes, Sync!TypeOK, Sync!Changes
<1>3. \A c \in Checkouts : Trunk(c) \subseteq Trunk(c)'
  BY <1>1, HasRemote DEF Trunk, SyncTypes, Sync!TypeOK
<1>4. OwnOrTrunk' /\ InHand'
  BY <1>1, <1>3 DEF OwnOrTrunk, InHand
<1>5. PendingAccounted'
  BY <1>1, <1>3 DEF PendingAccounted, Sync!Inspected, Accounted, SyncTypes
<1>6. PushApproved'
  BY <1>1, <1>3, StillApproved
<1> QED
  BY <1>2, <1>4, <1>5, <1>6

-----------------------------------------------------------------------------
(* Begin and inspect *)

\* A sync that begins has inspected nothing.
LEMMA BeginInv == ASSUME SyncInv, NEW o \in Options, Sync!Begin(o) PROVE SyncInv'
<1> USE DEF SyncInv
<1> DEFINE entries == Sync!Covered(o.scope) \ Sync!Blocked(o)
<1>1. /\ opt'.entries = entries /\ todo' = entries
      /\ at' = "idle" \/ (at' = "inspect" /\ entries # {})
      /\ late' = {} /\ res' = [c \in Checkouts |-> Sync!NoResult]
      /\ UNCHANGED <<about, space, head, seen, changed, upstream>>
  BY DEF Sync!Begin, Sync!repos
<1>2. entries \subseteq Checkouts
  BY DEF Sync!Covered
<1> HIDE DEF entries
<1>3. SyncTypes'
  BY <1>1, <1>2 DEF SyncTypes, Sync!TypeOK, Sync!NoResult
<1>4. OwnOrTrunk'
  BY <1>1 DEF OwnOrTrunk, Trunk
<1>5. InHand'
  BY <1>1 DEF InHand
<1>6. PendingAccounted' /\ PushApproved'
  BY <1>1 DEF PendingAccounted, Sync!Inspected, PushApproved
<1> QED
  BY <1>3, <1>4, <1>5, <1>6

\* What Advance makes of the phase, where the next one is not a push.
LEMMA AdvanceFacts ==
  ASSUME SyncInv, NEW c \in todo, NEW next \in {"idle", "inbound", "plan", "reconcile"},
         at # "idle", Sync!Advance(c, next), opt' = opt
  PROVE  /\ InHand' /\ todo' \subseteq Checkouts /\ at' \in {at, next}
         /\ at' = at => todo' = todo \ {c} \/ at = next
         /\ at' # at => todo = {c}
<1>1. todo # {} /\ todo \subseteq opt.entries /\ opt.entries \subseteq Checkouts
  BY DEF SyncInv, SyncTypes, InHand
<1> QED
  BY <1>1 DEF InHand, Sync!Advance

\* An inspection accounts for all there is.
LEMMA InspectInv == ASSUME SyncInv, Sync!Inspect PROVE SyncInv'
<1> USE DEF SyncInv
<1> PICK c : c = Sync!First
  OBVIOUS
<1> DEFINE next == IF opt.coordinated THEN "inbound" ELSE "reconcile"
<1>1. at = "inspect" /\ Sync!Advance(c, next) /\ UNCHANGED <<about, space, opt, head, changed, upstream, late>>
  BY DEF Sync!Inspect, Sync!setting
<1>2. c \in todo /\ c \in Checkouts
  BY <1>1, FirstAhead DEF InHand
<1> HIDE DEF next
<1>3. InHand' /\ todo' \subseteq Checkouts /\ at' \in {"inspect", "inbound", "reconcile"} /\ (at' = "inspect" => todo' = todo \ {c}) /\ (at' # "inspect" => todo = {c})
  BY <1>1, <1>2, AdvanceFacts DEF next
<1>4. /\ seen' = seen \/ seen' = [seen EXCEPT ![c] = Trunk(c)]
      /\ \A d \in Checkouts \ {c} : res'[d] = res[d]
      /\ res' \in [Checkouts -> [status : {"", "already landed", "pending", "held back", "failed", "pulled", "pushed"},
                                 behind : BOOLEAN, changed : SUBSET Sync!Changes, dirty : SUBSET Sync!Kinds]]
      /\ res'[c].status = "pending" => res'[c].changed = head[c] \ Trunk(c) /\ res'[c].dirty = changed[c]
  <2>1. Sync!Seen(c, Trunk(c)) \in [status : {"already landed", "pending"}, behind : BOOLEAN,
                              changed : SUBSET Sync!Changes, dirty : SUBSET Sync!Kinds]
    BY <1>2 DEF Sync!Seen, SyncTypes, Sync!TypeOK
  <2>2. \/ seen' = [seen EXCEPT ![c] = Trunk(c)] /\ res' = [res EXCEPT ![c] = Sync!Seen(c, Trunk(c))]
        \/ seen' = [seen EXCEPT ![c] = Trunk(c)] /\ res' = [res EXCEPT ![c] = [Sync!Seen(c, Trunk(c)) EXCEPT !.status = "held back"]]
        \/ seen' = seen /\ res' = [res EXCEPT ![c].status = "failed"]
    BY DEF Sync!Inspect, Trunk
  <2>3. Sync!Seen(c, Trunk(c)).changed = head[c] \ Trunk(c) /\ Sync!Seen(c, Trunk(c)).dirty = changed[c]
    BY DEF Sync!Seen
  <2>4. res \in [Checkouts -> [status : {"", "already landed", "pending", "held back", "failed", "pulled", "pushed"},
                               behind : BOOLEAN, changed : SUBSET Sync!Changes, dirty : SUBSET Sync!Kinds]]
    BY DEF SyncTypes, Sync!TypeOK
  <2>5. CASE seen' = [seen EXCEPT ![c] = Trunk(c)] /\ res' = [res EXCEPT ![c] = Sync!Seen(c, Trunk(c))]
    BY <2>1, <2>3, <2>4, <2>5, <1>2
  <2>6. CASE seen' = [seen EXCEPT ![c] = Trunk(c)] /\ res' = [res EXCEPT ![c] = [Sync!Seen(c, Trunk(c)) EXCEPT !.status = "held back"]]
    BY <2>1, <2>4, <2>6, <1>2
  <2>7. CASE seen' = seen /\ res' = [res EXCEPT ![c].status = "failed"]
    BY <2>4, <2>7, <1>2
  <2> QED
    BY <2>2, <2>5, <2>6, <2>7
<1>5. \A d \in Checkouts : Trunk(d)' = Trunk(d) /\ Trunk(d) \subseteq Sync!Changes
  BY <1>1, HasRemote DEF Trunk, SyncTypes, Sync!TypeOK
<1>0. seen' \in [Checkouts -> SUBSET Sync!Changes]
  <2>1. seen \in [Checkouts -> SUBSET Sync!Changes]
    BY DEF SyncTypes, Sync!TypeOK
  <2> QED
    BY <2>1, <1>2, <1>4, <1>5
<1>6. SyncTypes'
  BY <1>0, <1>1, <1>2, <1>3, <1>4, <1>5 DEF SyncTypes, Sync!TypeOK
<1>7. OwnOrTrunk'
  <2>1. ASSUME NEW d \in Checkouts PROVE seen'[d] \subseteq Trunk(d)
    <3>1. seen \in [Checkouts -> SUBSET Sync!Changes] /\ seen[d] \subseteq Trunk(d)
      BY DEF SyncTypes, Sync!TypeOK, OwnOrTrunk
    <3> QED
      BY <3>1, <1>4
  <2> QED
    BY <2>1, <1>1, <1>5 DEF OwnOrTrunk
<1>8. PendingAccounted'
  <2> SUFFICES ASSUME NEW d \in opt.entries, Sync!Inspected(d)', res'[d].status = "pending" PROVE Accounted(d)'
    BY <1>1 DEF PendingAccounted
  <2>0. d \in Checkouts
    BY DEF SyncTypes
  <2>1. CASE d = c
    BY <2>0, <2>1, <1>1, <1>4, <1>5 DEF Accounted
  <2>2. CASE d # c
    <3>1. Sync!Inspected(d)
      BY <2>2, <1>1, <1>3 DEF Sync!Inspected
    <3>2. Accounted(d) /\ res'[d] = res[d]
      BY <2>0, <2>2, <3>1, <1>4 DEF PendingAccounted
    <3> QED
      BY <3>2, <2>0, <1>1, <1>5 DEF Accounted
  <2> QED
    BY <2>1, <2>2
<1>9. PushApproved'
  BY <1>3 DEF PushApproved
<1> QED
  BY <1>3, <1>6, <1>7, <1>8, <1>9

-----------------------------------------------------------------------------
(* One checkout after the other *)

Statuses == {"", "already landed", "pending", "held back", "failed", "pulled", "pushed"}
Results == [status : Statuses, behind : BOOLEAN, changed : SUBSET Sync!Changes, dirty : SUBSET Sync!Kinds]

\* A checkout that is dealt with keeps its branch or follows its remote, and is
\* no longer pending when it does.
LEMMA SettledInv ==
  ASSUME SyncInv, NEW c \in todo, NEW next \in {"idle", "plan"}, at \in {"inbound", "reconcile"}, Sync!Advance(c, next),
         UNCHANGED <<about, space, opt, changed, upstream, late>>,
         head' \in {head, [head EXCEPT ![c] = Trunk(c)]}, seen' \in {seen, [seen EXCEPT ![c] = Trunk(c)]},
         res' \in [Checkouts -> Results], \A d \in Checkouts \ {c} : res'[d] = res[d],
         (res' = res /\ head' = head) \/ res'[c].status # "pending"
  PROVE  SyncInv'
<1> USE DEF SyncInv
<1>1. c \in Checkouts
  BY DEF InHand, SyncTypes
<1>2. InHand' /\ todo' \subseteq Checkouts /\ at' \in {"inbound", "reconcile", "idle", "plan"}
  BY <1>1, AdvanceFacts
<1>3. \A d \in Checkouts : Trunk(d)' = Trunk(d) /\ Trunk(d) \subseteq Sync!Changes
  BY HasRemote DEF Trunk, SyncTypes, Sync!TypeOK
<1>4. head \in [Checkouts -> SUBSET Sync!Changes] /\ seen \in [Checkouts -> SUBSET Sync!Changes]
  BY DEF SyncTypes, Sync!TypeOK
<1>5. \A d \in Checkouts : head'[d] \in {head[d], Trunk(d)} /\ seen'[d] \in {seen[d], Trunk(d)} /\ (d # c => head'[d] = head[d])
  BY <1>1, <1>4
<1>6. SyncTypes'
  <2>1. head' \in [Checkouts -> SUBSET Sync!Changes] /\ seen' \in [Checkouts -> SUBSET Sync!Changes]
    BY <1>1, <1>3, <1>4
  <2> QED
    BY <1>2, <2>1 DEF SyncTypes, Sync!TypeOK, Results, Statuses
<1>7. OwnOrTrunk'
  BY <1>3, <1>5 DEF OwnOrTrunk
<1>8. PendingAccounted'
  <2> SUFFICES ASSUME NEW d \in opt.entries, res'[d].status = "pending" PROVE Accounted(d)'
    BY DEF PendingAccounted
  <2>0. d \in Checkouts
    BY DEF SyncTypes
  <2>1. res'[d] = res[d] /\ head'[d] = head[d] /\ Sync!Inspected(d)
    BY <1>5, <2>0 DEF Sync!Inspected
  <2>2. Accounted(d)
    BY <2>1 DEF PendingAccounted
  <2> QED
    BY <2>0, <2>1, <2>2, <1>3 DEF Accounted
<1>9. PushApproved'
  BY <1>2 DEF PushApproved
<1> QED
  BY <1>2, <1>6, <1>7, <1>8, <1>9

\* A pull brings the branch to its remote, or fails.
LEMMA PullFacts ==
  ASSUME SyncTypes, NEW c \in Checkouts, Sync!Pull(c)
  PROVE  /\ head' \in {head, [head EXCEPT ![c] = Trunk(c)]} /\ seen' \in {seen, [seen EXCEPT ![c] = Trunk(c)]}
         /\ res' \in [Checkouts -> Results] /\ \A d \in Checkouts \ {c} : res'[d] = res[d]
         /\ res'[c].status # "pending"
<1>1. res \in [Checkouts -> Results]
  BY DEF SyncTypes, Sync!TypeOK, Results, Statuses
<1>2. \E s \in {"pulled", "failed"} : res' = [res EXCEPT ![c].status = s]
  BY DEF Sync!Pull
<1>3. PICK s \in {"pulled", "failed"} : res' = [res EXCEPT ![c].status = s]
  BY <1>2
<1>4. res'[c].status = s /\ \A d \in Checkouts \ {c} : res'[d] = res[d]
  BY <1>1, <1>3 DEF Results
<1>5. res' \in [Checkouts -> Results]
  BY <1>1, <1>3 DEF Results, Statuses
<1> QED
  BY <1>4, <1>5 DEF Sync!Pull, Trunk

\* Checkouts that are only behind are pulled before a coordinated publication.
LEMMA InboundInv == ASSUME SyncInv, Sync!Inbound PROVE SyncInv'
<1> PICK c : c = Sync!First
  OBVIOUS
<1>1. at = "inbound" /\ Sync!Advance(c, "plan") /\ UNCHANGED <<about, space, opt, changed, upstream, late>>
  BY DEF Sync!Inbound, Sync!setting
<1>2. c \in todo /\ c \in Checkouts
  BY <1>1, FirstAhead DEF SyncInv, InHand
<1>3. CASE Sync!Pull(c)
  BY <1>1, <1>2, <1>3, PullFacts, SettledInv DEF SyncInv
<1>4. CASE UNCHANGED <<head, seen, res>>
  <2>1. res' \in [Checkouts -> Results]
    BY <1>4 DEF SyncInv, SyncTypes, Sync!TypeOK, Results, Statuses
  <2> QED
    BY <1>1, <1>2, <1>4, <2>1, SettledInv
<1> QED
  BY <1>3, <1>4 DEF Sync!Inbound

\* A checkout that passed is committed, and is then about to be pushed.
LEMMA CommittedInv ==
  ASSUME SyncInv, at = "reconcile", NEW c \in Checkouts, c = Sync!First, res[c].status = "pending", Sync!Passes(c),
         at' = "push", UNCHANGED <<about, space, opt, seen, upstream, todo, res, late>>,
         \/ UNCHANGED <<head, changed>>
         \/ head' = [head EXCEPT ![c] = Sync!Committed(c)] /\ changed' = [changed EXCEPT ![c] = Sync!StillDirty(c)]
  PROVE  SyncInv'
<1> USE DEF SyncInv
<1>1. c \in todo /\ c \in opt.entries
  BY FirstAhead DEF InHand
<1>2. head \in [Checkouts -> SUBSET Sync!Changes] /\ changed \in [Checkouts -> SUBSET Sync!Kinds]
  BY DEF SyncTypes, Sync!TypeOK
<1>3. /\ \A d \in Checkouts : changed'[d] \subseteq changed[d] /\ (d # c => head'[d] = head[d])
      /\ \A x \in head'[c] : x \in head[c] \/ \E k \in changed[c] : x = <<c, k>>
  BY <1>2 DEF Sync!Committed, Sync!StillDirty
<1>4. SyncTypes'
  <2>1. Sync!Committed(c) \subseteq Sync!Changes /\ Sync!StillDirty(c) \subseteq Sync!Kinds
    BY <1>2 DEF Sync!Committed, Sync!StillDirty, Sync!Changes
  <2>2. head' \in [Checkouts -> SUBSET Sync!Changes] /\ changed' \in [Checkouts -> SUBSET Sync!Kinds]
    BY <1>2, <2>1
  <2> QED
    BY <2>2 DEF SyncTypes, Sync!TypeOK
<1>5. OwnOrTrunk' /\ InHand'
  <2>1. ASSUME NEW d \in Checkouts, NEW x \in head'[d] PROVE x[1] = d \/ x \in Trunk(d)
    BY <1>3, <2>1 DEF OwnOrTrunk
  <2> QED
    BY <2>1 DEF OwnOrTrunk, InHand, Trunk
<1>6. PendingAccounted'
  <2> SUFFICES ASSUME NEW d \in opt.entries, res[d].status = "pending" PROVE Accounted(d)'
    BY DEF PendingAccounted
  <2>1. Accounted(d) /\ d \in Checkouts
    BY DEF PendingAccounted, Sync!Inspected, SyncTypes
  <2>2. \A k \in Sync!Kinds : <<d, k>> \in head'[d] => <<d, k>> \in head[d] \/ k \in changed[d]
    BY <1>3, <2>1
  <2> QED
    BY <2>1, <2>2, <1>3 DEF Accounted, Trunk
<1>7. PushApproved'
  BY <1>1 DEF PushApproved, Approved, Sync!Passes, Sync!PendingSibling, Sync!ContentOnly, Sync!Touched, Sync!InContent, Sync!First
<1> QED
  BY <1>4, <1>5, <1>6, <1>7

\* Reconciling a checkout settles it, or commits it and leaves it to be pushed.
LEMMA ReconcileInv == ASSUME SyncInv, Sync!Reconcile PROVE SyncInv'
<1> PICK c : c = Sync!First
  OBVIOUS
<1>1. at = "reconcile" /\ UNCHANGED <<about, space, opt, upstream, late>>
  BY DEF Sync!Reconcile, Sync!setting
<1>2. c \in todo /\ c \in Checkouts
  BY <1>1, FirstAhead DEF SyncInv, InHand
<1>3. res \in [Checkouts -> Results]
  BY DEF SyncInv, SyncTypes, Sync!TypeOK, Results, Statuses
<1>4. ASSUME NEW s \in {"held back", "failed"}, res' = [res EXCEPT ![c].status = s]
      PROVE  /\ res' \in [Checkouts -> Results] /\ \A d \in Checkouts \ {c} : res'[d] = res[d]
             /\ res'[c].status # "pending"
  <2>1. res'[c].status = s /\ \A d \in Checkouts \ {c} : res'[d] = res[d]
    BY <1>2, <1>3, <1>4 DEF Results
  <2>2. res' \in [Checkouts -> Results]
    BY <1>3, <1>4 DEF Results, Statuses
  <2> QED
    BY <2>1, <2>2
<1>5. CASE Sync!Advance(c, "idle") /\ UNCHANGED <<head, seen, changed, res>>
  BY <1>1, <1>2, <1>3, <1>5, SettledInv
<1>6. CASE Sync!Pull(c) /\ Sync!Advance(c, "idle") /\ changed' = changed
  BY <1>1, <1>2, <1>6, PullFacts, SettledInv DEF SyncInv
<1>7. CASE res' = [res EXCEPT ![c].status = "held back"] /\ Sync!Advance(c, "idle") /\ UNCHANGED <<head, seen, changed>>
  BY <1>1, <1>2, <1>4, <1>7, SettledInv
<1>8. CASE res' = [res EXCEPT ![c].status = "failed"] /\ Sync!Advance(c, "idle") /\ UNCHANGED <<head, seen, changed>>
  BY <1>1, <1>2, <1>4, <1>8, SettledInv
<1>9. CASE /\ res[c].status = "pending" /\ Sync!Passes(c) /\ at' = "push" /\ UNCHANGED <<seen, res, todo>>
           /\ \/ UNCHANGED <<head, changed>>
              \/ head' = [head EXCEPT ![c] = Sync!Committed(c)] /\ changed' = [changed EXCEPT ![c] = Sync!StillDirty(c)]
  BY <1>1, <1>2, <1>9, CommittedInv
<1> QED
  BY <1>5, <1>6, <1>7, <1>8, <1>9 DEF Sync!Reconcile

-----------------------------------------------------------------------------
(* Pushes *)

\* What a push, and the checkouts that follow it, make of branches and remotes:
\* a remote only grows, by what a pusher has; who is still pending keeps its
\* branch.
LEMMA AfterPushFacts ==
  ASSUME SyncTypes, OwnOrTrunk, NEW pushers, pushers \subseteq Checkouts, NEW results,
         \A c \in pushers : Trunk(c) \subseteq head[c],
         \A c, d \in pushers : c # d => about[c].remote # about[d].remote,
         Sync!AfterPush(pushers, results), UNCHANGED <<about, space, opt, changed>>
  PROVE  /\ upstream' \in [Sync!Remotes -> SUBSET Sync!Changes] /\ head' \in [Checkouts -> SUBSET Sync!Changes]
         /\ seen' \in [Checkouts -> SUBSET Sync!Changes] /\ res' \in [Checkouts -> Results]
         /\ OwnOrTrunk'
         /\ \A d \in Checkouts : Trunk(d) \subseteq Trunk(d)'
         /\ \A d \in Checkouts : res'[d].status = "pending" =>
               res[d].status = "pending" /\ res'[d].changed = res[d].changed /\ res'[d].dirty = res[d].dirty
               /\ head'[d] = head[d]
         /\ \A d \in Checkouts : \A x \in Trunk(d)' \ Trunk(d) :
               \E c \in pushers : about[c].remote = about[d].remote /\ x \in head[c]
<1> DEFINE remotes == [r \in Sync!Remotes |-> IF \E c \in pushers : about[c].remote = r
                                         THEN head[CHOOSE c \in pushers : about[c].remote = r] ELSE upstream[r]]
           claimed == [d \in Checkouts |-> IF d \in results THEN "pushed" ELSE res[d].status]
           status == Sync!Follow(claimed, pushers \cap results, head, remotes)
<1>1. /\ upstream' = remotes
      /\ res' = [d \in Checkouts |-> [res[d] EXCEPT !.status = status[d]]]
      /\ head' = [d \in Checkouts |-> IF status[d] = "pulled" /\ res[d].status = "already landed"
                                      THEN remotes[about[d].remote] ELSE head[d]]
      /\ seen' = [d \in Checkouts |-> IF d \in pushers \/ head'[d] # head[d] THEN remotes[about[d].remote] ELSE seen[d]]
  BY DEF Sync!AfterPush
<1>2. /\ head \in [Checkouts -> SUBSET Sync!Changes] /\ seen \in [Checkouts -> SUBSET Sync!Changes]
      /\ upstream \in [Sync!Remotes -> SUBSET Sync!Changes] /\ res \in [Checkouts -> Results]
  BY DEF SyncTypes, Sync!TypeOK, Results, Statuses
<1>3. \A d \in Checkouts : status[d] \in {"pulled", "failed", "pushed", res[d].status}
  BY DEF Sync!Follow
<1>4. \A d \in Checkouts : status[d] = "pending" => res[d].status = "pending"
  BY DEF Sync!Follow
<1>5. \A r \in Sync!Remotes : \/ remotes[r] = upstream[r]
                              \/ \E c \in pushers : about[c].remote = r /\ remotes[r] = head[c]
  <2>1. ASSUME NEW r \in Sync!Remotes, \E c \in pushers : about[c].remote = r
        PROVE  \E c \in pushers : about[c].remote = r /\ remotes[r] = head[c]
    <3> PICK e : e = CHOOSE c \in pushers : about[c].remote = r
      OBVIOUS
    <3>1. e \in pushers /\ about[e].remote = r
      BY <2>1
    <3> QED
      BY <2>1, <3>1
  <2> QED
    BY <2>1
<1>6. \A c \in pushers : remotes[about[c].remote] = head[c]
  <2> SUFFICES ASSUME NEW c \in pushers PROVE remotes[about[c].remote] = head[c]
    OBVIOUS
  <2> PICK e : e = CHOOSE d \in pushers : about[d].remote = about[c].remote
    OBVIOUS
  <2>1. e \in pushers /\ about[e].remote = about[c].remote
    OBVIOUS
  <2> QED
    BY <2>1, HasRemote
<1> HIDE DEF remotes, status, claimed
<1>7. \A d \in Checkouts : about[d].remote \in Sync!Remotes /\ Trunk(d)' = remotes[about[d].remote] /\ Trunk(d) = upstream[about[d].remote]
  BY <1>1, HasRemote DEF Trunk
<1>8. \A d \in Checkouts : Trunk(d) \subseteq Trunk(d)'
  BY <1>5, <1>7 DEF Trunk
<1>9. \A d \in Checkouts : \A x \in Trunk(d)' \ Trunk(d) :
        \E c \in pushers : about[c].remote = about[d].remote /\ x \in head[c]
  BY <1>5, <1>7
<1>10. /\ upstream' \in [Sync!Remotes -> SUBSET Sync!Changes]
       /\ \A d \in Checkouts : Trunk(d)' \subseteq Sync!Changes
  <2>1. upstream' = [r \in Sync!Remotes |-> remotes[r]]
    BY <1>1 DEF remotes
  <2>2. \A r \in Sync!Remotes : remotes[r] \subseteq Sync!Changes
    BY <1>2, <1>5
  <2> QED
    BY <2>1, <2>2, <1>7
<1>11. \A d \in Checkouts : head'[d] \in {head[d], Trunk(d)'} /\ (res[d].status = "pending" => head'[d] = head[d])
  BY <1>1, <1>7
<1>12. \A d \in Checkouts : seen'[d] \in {seen[d], Trunk(d)'}
  BY <1>1, <1>7
<1>13. head' \in [Checkouts -> SUBSET Sync!Changes] /\ seen' \in [Checkouts -> SUBSET Sync!Changes]
  <2>1. head' = [d \in Checkouts |-> head'[d]] /\ seen' = [d \in Checkouts |-> seen'[d]]
    BY <1>1
  <2>2. \A d \in Checkouts : head'[d] \subseteq Sync!Changes /\ seen'[d] \subseteq Sync!Changes
    BY <1>2, <1>10, <1>11, <1>12
  <2> QED
    BY <2>1, <2>2
<1>14. \A d \in Checkouts : /\ res'[d] \in Results /\ res'[d].status = status[d]
                            /\ res'[d].changed = res[d].changed /\ res'[d].dirty = res[d].dirty
  BY <1>1, <1>2, <1>3 DEF Results, Statuses
<1>15. res' \in [Checkouts -> Results]
  BY <1>1, <1>14
<1>16. OwnOrTrunk'
  <2>1. ASSUME NEW d \in Checkouts PROVE seen'[d] \subseteq Trunk(d)'
    BY <1>8, <1>12 DEF OwnOrTrunk
  <2>2. ASSUME NEW d \in Checkouts, NEW x \in head'[d] PROVE x[1] = d \/ x \in Trunk(d)'
    BY <1>8, <1>11, <2>2 DEF OwnOrTrunk
  <2> QED
    BY <2>1, <2>2 DEF OwnOrTrunk
<1> QED
  BY <1>4, <1>8, <1>9, <1>10, <1>11, <1>13, <1>14, <1>15, <1>16

\* What a push leaves of the accounts.
LEMMA StillAccounted ==
  ASSUME SyncInv, at \in {"push", "gnit push"}, UNCHANGED <<opt, changed, late>>,
         \A d \in Checkouts : Trunk(d) \subseteq Trunk(d)',
         \A d \in Checkouts : res'[d].status = "pending" =>
               res[d].status = "pending" /\ res'[d].changed = res[d].changed /\ res'[d].dirty = res[d].dirty
               /\ head'[d] = head[d]
  PROVE  PendingAccounted'
<1> SUFFICES ASSUME NEW d \in opt.entries, res'[d].status = "pending" PROVE Accounted(d)'
  BY DEF PendingAccounted
<1>1. d \in Checkouts
  BY DEF SyncInv, SyncTypes
<1>2. Accounted(d)
  BY <1>1 DEF SyncInv, PendingAccounted, Sync!Inspected
<1> QED
  BY <1>1, <1>2 DEF Accounted

\* The push of one checkout.
LEMMA PushInv == ASSUME SyncInv, Sync!Push PROVE SyncInv'
<1> USE DEF SyncInv
<1> PICK c : c = Sync!First
  OBVIOUS
<1>1. /\ at = "push" /\ todo' = todo \ {c} /\ at' = IF todo = {c} THEN "idle" ELSE "reconcile"
      /\ UNCHANGED <<about, space, opt, changed, late>>
  BY DEF Sync!Push, Sync!setting
<1>2. c \in todo /\ c \in Checkouts /\ todo \subseteq Checkouts
  BY <1>1, FirstAhead DEF InHand, SyncTypes
<1>3. InHand' /\ PushApproved' /\ todo' \subseteq Checkouts
  BY <1>1, <1>2 DEF InHand, PushApproved
<1>4. CASE Trunk(c) \subseteq head[c] /\ Sync!AfterPush({c}, {c})
  <2>1. PICK pushers : pushers = {c}
    OBVIOUS
  <2>0. /\ pushers \subseteq Checkouts /\ Sync!AfterPush(pushers, pushers)
        /\ \A d \in pushers : Trunk(d) \subseteq head[d]
        /\ \A d, e \in pushers : d # e => about[d].remote # about[e].remote
    BY <1>2, <1>4, <2>1
  <2>2. /\ upstream' \in [Sync!Remotes -> SUBSET Sync!Changes] /\ head' \in [Checkouts -> SUBSET Sync!Changes]
        /\ seen' \in [Checkouts -> SUBSET Sync!Changes] /\ res' \in [Checkouts -> Results]
        /\ OwnOrTrunk'
        /\ \A d \in Checkouts : Trunk(d) \subseteq Trunk(d)'
        /\ \A d \in Checkouts : res'[d].status = "pending" =>
               res[d].status = "pending" /\ res'[d].changed = res[d].changed /\ res'[d].dirty = res[d].dirty
               /\ head'[d] = head[d]
    BY <1>1, <2>0, AfterPushFacts
  <2>3. SyncTypes'
    BY <1>1, <1>3, <2>2 DEF SyncTypes, Sync!TypeOK, Results, Statuses
  <2>4. PendingAccounted'
    BY <1>1, <2>2, StillAccounted
  <2> QED
    BY <1>3, <2>2, <2>3, <2>4
<1>5. CASE res' = [res EXCEPT ![c].status = "failed"] /\ UNCHANGED <<head, seen, upstream>>
  <2>1. res \in [Checkouts -> Results]
    BY DEF SyncTypes, Sync!TypeOK, Results, Statuses
  <2>2. res' \in [Checkouts -> Results] /\ res'[c].status = "failed" /\ \A d \in Checkouts \ {c} : res'[d] = res[d]
    BY <1>2, <1>5, <2>1 DEF Results, Statuses
  <2>3. SyncTypes'
    BY <1>1, <1>3, <1>5, <2>2 DEF SyncTypes, Sync!TypeOK, Results, Statuses
  <2>4. OwnOrTrunk' /\ \A d \in Checkouts : Trunk(d) \subseteq Trunk(d)'
    BY <1>1, <1>5 DEF OwnOrTrunk, Trunk
  <2>5. PendingAccounted'
    BY <1>1, <1>2, <1>5, <2>2, <2>4, StillAccounted
  <2> QED
    BY <1>3, <2>3, <2>4, <2>5
<1> QED
  BY <1>4, <1>5 DEF Sync!Push, Trunk

-----------------------------------------------------------------------------
(* The coordinated backend *)

\* A plan holds checkouts back and lets go only what passed, with members that
\* have nothing else to push.
LEMMA PlanInv == ASSUME SyncInv, Sync!Plan PROVE SyncInv'
<1> USE DEF SyncInv
<1> DEFINE pending == {c \in opt.entries : res[c].status = "pending"}
           routed == {c \in pending : Sync!Route(c) = "gnit"}
           gone == {c \in pending : Sync!Route(c) = "none"}
           abort == opt.forced /\ gone # {}
           passed == IF abort THEN {} ELSE {c \in routed : Sync!Passes(c)}
           go == IF Sync!Scope(passed) THEN passed ELSE {}
           held == gone \cup (routed \ go)
<1>1. /\ at = "plan" /\ UNCHANGED <<about, space, opt, head, seen, changed, upstream, late>>
      /\ res' = [c \in Checkouts |-> IF c \in held THEN [res[c] EXCEPT !.status = "held back"] ELSE res[c]]
      /\ at' = IF abort THEN "idle" ELSE IF go # {} THEN "gnit commit" ELSE "reconcile"
      /\ todo' = IF abort THEN {} ELSE IF go # {} THEN go ELSE opt.entries
  BY DEF Sync!Plan, Sync!setting, Sync!repos
<1>2. /\ go \subseteq pending /\ (go # {} => Sync!Scope(go)) /\ \A c \in go : Sync!Passes(c)
      /\ pending \subseteq opt.entries /\ \A c \in pending : res[c].status = "pending"
      /\ \A c \in go : Sync!Route(c) = "gnit"
  OBVIOUS
<1>3. \A c \in go : c \notin held
  OBVIOUS
<1>4. opt.entries \subseteq Checkouts /\ opt.entries # {}
  BY <1>1 DEF SyncTypes, InHand
<1> HIDE DEF go, held, pending, abort
<1>5. res \in [Checkouts -> Results]
  BY DEF SyncTypes, Sync!TypeOK, Results, Statuses
<1>6. \A c \in Checkouts : /\ res'[c] \in Results
                           /\ res'[c].changed = res[c].changed /\ res'[c].dirty = res[c].dirty /\ res'[c].behind = res[c].behind
                           /\ res'[c].status = "pending" => res[c].status = "pending"
                           /\ c \notin held => res'[c].status = res[c].status
  BY <1>1, <1>5 DEF Results, Statuses
<1>7. res' \in [Checkouts -> Results]
  BY <1>1, <1>6
<1>8. SyncTypes'
  BY <1>1, <1>2, <1>4, <1>7 DEF SyncTypes, Sync!TypeOK, Results, Statuses
<1>9. OwnOrTrunk' /\ InHand'
  BY <1>1, <1>2, <1>4 DEF OwnOrTrunk, InHand, Trunk
<1>10. PendingAccounted'
  <2> SUFFICES ASSUME NEW d \in opt.entries, res'[d].status = "pending" PROVE Accounted(d)'
    BY <1>1 DEF PendingAccounted
  <2>1. d \in Checkouts
    BY <1>4
  <2>2. Accounted(d)
    BY <2>1, <1>1, <1>6 DEF PendingAccounted, Sync!Inspected
  <2> QED
    BY <2>1, <2>2, <1>1, <1>6 DEF Accounted, Trunk
<1>11. PushApproved'
  <2>1. CASE abort \/ go = {}
    BY <1>1, <2>1 DEF PushApproved
  <2>2. CASE ~abort /\ go # {}
    <3>1. at' = "gnit commit" /\ todo' = go
      BY <1>1, <2>2
    <3>2. ASSUME NEW c \in go PROVE Approved(c)'
      <4>1. c \in opt.entries /\ c \in Checkouts /\ res'[c].status = "pending" /\ Sync!Passes(c)
        BY <1>2, <1>3, <1>4, <1>6
      <4>2. Sync!Passes(c)'
        <5>1. Sync!Touched(c)' = Sync!Touched(c) /\ \A k \in Sync!Touched(c) : Sync!InContent(c, k)' = Sync!InContent(c, k)
          BY <1>1, <1>6, <4>1 DEF Sync!Touched, Sync!InContent
        <5>2. Sync!PendingSibling(c)' <=> Sync!PendingSibling(c)
          BY <1>1, <1>4, <1>6 DEF Sync!PendingSibling
        <5>3. Sync!ContentOnly(c)' <=> Sync!ContentOnly(c)
          BY <5>1 DEF Sync!ContentOnly
        <5> QED
          BY <1>1, <1>6, <4>1, <5>2, <5>3 DEF Sync!Passes
      <4> QED
        BY <1>1, <4>1, <4>2 DEF Approved
    <3>3. Sync!Members' = Sync!Members /\ Sync!Members \subseteq Checkouts
      BY <1>1 DEF Sync!Members
    <3>4. ASSUME NEW m \in Sync!Members, m \notin go PROVE head[m] \subseteq Trunk(m)
      BY <1>2, <2>2, <3>3, <3>4 DEF Sync!Scope, OwnOrTrunk
    <3> QED
      BY <1>1, <3>1, <3>2, <3>3, <3>4 DEF PushApproved, Trunk
  <2> QED
    BY <2>1, <2>2
<1> QED
  BY <1>8, <1>9, <1>10, <1>11

\* The coordinated commit takes in content of those that passed.
LEMMA GnitCommitInv == ASSUME SyncInv, Sync!GnitCommit PROVE SyncInv'
<1> USE DEF SyncInv
<1> DEFINE ready == {c \in todo : res[c].dirty # {}}
<1>1. /\ at = "gnit commit" /\ at' = "gnit push" /\ UNCHANGED <<about, space, opt, seen, upstream, todo, res, late>>
      /\ head' = [c \in Checkouts |-> IF c \in ready THEN Sync!Committed(c) ELSE head[c]]
      /\ changed' = [c \in Checkouts |-> IF c \in ready THEN Sync!StillDirty(c) ELSE changed[c]]
  BY DEF Sync!GnitCommit, Sync!setting
<1>2. head \in [Checkouts -> SUBSET Sync!Changes] /\ changed \in [Checkouts -> SUBSET Sync!Kinds] /\ ready \subseteq todo
  BY DEF SyncTypes, Sync!TypeOK
<1> HIDE DEF ready
<1>3. \A d \in Checkouts : /\ changed'[d] \subseteq changed[d] /\ (d \notin todo => head'[d] = head[d])
                           /\ \A x \in head'[d] : x \in head[d] \/ \E k \in changed[d] : x = <<d, k>>
  BY <1>1, <1>2 DEF Sync!Committed, Sync!StillDirty
<1>4. SyncTypes'
  <2>1. \A c \in Checkouts : head'[c] \subseteq Sync!Changes /\ changed'[c] \subseteq Sync!Kinds
    BY <1>2, <1>3 DEF Sync!Changes
  <2>2. head' \in [Checkouts -> SUBSET Sync!Changes] /\ changed' \in [Checkouts -> SUBSET Sync!Kinds]
    BY <1>1, <2>1
  <2> QED
    BY <1>1, <2>2 DEF SyncTypes, Sync!TypeOK
<1>5. OwnOrTrunk' /\ InHand'
  <2>1. ASSUME NEW d \in Checkouts, NEW x \in head'[d] PROVE x[1] = d \/ x \in Trunk(d)
    BY <1>3, <2>1 DEF OwnOrTrunk
  <2> QED
    BY <1>1, <2>1 DEF OwnOrTrunk, InHand, Trunk
<1>6. PendingAccounted'
  <2> SUFFICES ASSUME NEW d \in opt.entries, res[d].status = "pending" PROVE Accounted(d)'
    BY <1>1 DEF PendingAccounted
  <2>1. Accounted(d) /\ d \in Checkouts
    BY <1>1 DEF PendingAccounted, Sync!Inspected, SyncTypes
  <2>2. \A k \in Sync!Kinds : <<d, k>> \in head'[d] => <<d, k>> \in head[d] \/ k \in changed[d]
    BY <1>3, <2>1
  <2> QED
    BY <1>1, <2>1, <2>2, <1>3 DEF Accounted, Trunk
<1>7. PushApproved'
  <2>1. \A c : Approved(c)' <=> Approved(c)
    BY <1>1 DEF Approved, Sync!Passes, Sync!PendingSibling, Sync!ContentOnly, Sync!Touched, Sync!InContent
  <2>2. Sync!Members' = Sync!Members /\ Sync!Members \subseteq Checkouts
    BY <1>1 DEF Sync!Members
  <2>3. \A m \in Sync!Members \ todo : head'[m] = head[m] /\ Trunk(m)' = Trunk(m)
    BY <1>1, <1>3, <2>2 DEF Trunk
  <2> QED
    BY <1>1, <2>1, <2>2, <2>3 DEF PushApproved
<1> QED
  BY <1>4, <1>5, <1>6, <1>7

\* The coordinated push, which may fail after some members: which they are.
LEMMA GnitPushFacts ==
  ASSUME SyncInv, Sync!GnitPush
  PROVE  /\ at = "gnit push" /\ at' = "reconcile" /\ todo' = opt.entries
         /\ UNCHANGED <<about, space, opt, changed, late>>
         /\ \E done \in SUBSET Sync!Members :
              /\ \A c \in done : Trunk(c) \subseteq head[c]
              /\ \A c, d \in done : c # d => about[c].remote # about[d].remote
              /\ \/ Sync!AfterPush(done, todo)
                 \/ /\ upstream' = [r \in Sync!Remotes |-> IF \E c \in done : about[c].remote = r
                                    THEN head[CHOOSE c \in done : about[c].remote = r] ELSE upstream[r]]
                    /\ seen' = [d \in Checkouts |-> IF d \in done THEN head[d] ELSE seen[d]]
                    /\ res' = [d \in Checkouts |-> IF d \in todo THEN [res[d] EXCEPT !.status = "failed"] ELSE res[d]]
                    /\ head' = head
<1>1. at = "gnit push" /\ at' = "reconcile" /\ todo' = opt.entries /\ UNCHANGED <<about, space, opt, changed, late>>
  BY DEF Sync!GnitPush, Sync!setting
<1> DEFINE ahead == {m \in Sync!Members : head[m] # seen[m]}
           able == {m \in ahead : upstream[about[m].remote] \subseteq head[m]}
<1>2. PICK done \in SUBSET able :
         /\ \A c, d \in done : c # d => about[c].remote # about[d].remote
         /\ \/ Sync!AfterPush(done, todo)
            \/ /\ upstream' = [r \in Sync!Remotes |-> IF \E c \in done : about[c].remote = r
                               THEN head[CHOOSE c \in done : about[c].remote = r] ELSE upstream[r]]
               /\ seen' = [d \in Checkouts |-> IF d \in done THEN head[d] ELSE seen[d]]
               /\ res' = [d \in Checkouts |-> IF d \in todo THEN [res[d] EXCEPT !.status = "failed"] ELSE res[d]]
               /\ head' = head
  BY DEF Sync!GnitPush
<1>3. done \in SUBSET Sync!Members /\ \A c \in done : Trunk(c) \subseteq head[c]
  BY <1>2 DEF Trunk
<1> QED
  BY <1>1, <1>2, <1>3

\* A push of several members, whether it ends well or not: AfterPushFacts of both.
LEMMA GnitPushed ==
  ASSUME SyncInv, Sync!GnitPush
  PROVE  /\ upstream' \in [Sync!Remotes -> SUBSET Sync!Changes] /\ head' \in [Checkouts -> SUBSET Sync!Changes]
         /\ seen' \in [Checkouts -> SUBSET Sync!Changes] /\ res' \in [Checkouts -> Results]
         /\ OwnOrTrunk'
         /\ \A d \in Checkouts : Trunk(d) \subseteq Trunk(d)'
         /\ \A d \in Checkouts : res'[d].status = "pending" =>
               res[d].status = "pending" /\ res'[d].changed = res[d].changed /\ res'[d].dirty = res[d].dirty
               /\ head'[d] = head[d]
         /\ \A d \in Checkouts : \A x \in Trunk(d)' \ Trunk(d) :
               \E c \in Sync!Members : about[c].remote = about[d].remote /\ x \in head[c]
<1> USE DEF SyncInv
<1>0. UNCHANGED <<about, space, opt, changed, late>> /\ Sync!Members \subseteq Checkouts
  BY GnitPushFacts DEF Sync!Members
<1>1. PICK done \in SUBSET Sync!Members :
              /\ \A c \in done : Trunk(c) \subseteq head[c]
              /\ \A c, d \in done : c # d => about[c].remote # about[d].remote
              /\ \/ Sync!AfterPush(done, todo)
                 \/ /\ upstream' = [r \in Sync!Remotes |-> IF \E c \in done : about[c].remote = r
                                    THEN head[CHOOSE c \in done : about[c].remote = r] ELSE upstream[r]]
                    /\ seen' = [d \in Checkouts |-> IF d \in done THEN head[d] ELSE seen[d]]
                    /\ res' = [d \in Checkouts |-> IF d \in todo THEN [res[d] EXCEPT !.status = "failed"] ELSE res[d]]
                    /\ head' = head
  BY GnitPushFacts
<1>2. done \subseteq Checkouts
  BY <1>0
<1>3. CASE Sync!AfterPush(done, todo)
  BY <1>0, <1>1, <1>2, <1>3, AfterPushFacts
<1>4. CASE /\ upstream' = [r \in Sync!Remotes |-> IF \E c \in done : about[c].remote = r
                           THEN head[CHOOSE c \in done : about[c].remote = r] ELSE upstream[r]]
           /\ seen' = [d \in Checkouts |-> IF d \in done THEN head[d] ELSE seen[d]]
           /\ res' = [d \in Checkouts |-> IF d \in todo THEN [res[d] EXCEPT !.status = "failed"] ELSE res[d]]
           /\ head' = head
  <2>1. /\ head \in [Checkouts -> SUBSET Sync!Changes] /\ seen \in [Checkouts -> SUBSET Sync!Changes]
        /\ upstream \in [Sync!Remotes -> SUBSET Sync!Changes] /\ res \in [Checkouts -> Results]
    BY DEF SyncTypes, Sync!TypeOK, Results, Statuses
  <2>2. \A r \in Sync!Remotes : \/ upstream'[r] = upstream[r]
                                \/ \E c \in done : about[c].remote = r /\ upstream'[r] = head[c]
    <3>1. ASSUME NEW r \in Sync!Remotes, \E c \in done : about[c].remote = r
          PROVE  \E c \in done : about[c].remote = r /\ upstream'[r] = head[c]
      <4> PICK e : e = CHOOSE c \in done : about[c].remote = r
        OBVIOUS
      <4>1. e \in done /\ about[e].remote = r
        BY <3>1
      <4> QED
        BY <1>4, <3>1, <4>1
    <3> QED
      BY <1>4, <3>1
  <2>3. \A c \in done : upstream'[about[c].remote] = head[c]
    <3> SUFFICES ASSUME NEW c \in done PROVE upstream'[about[c].remote] = head[c]
      OBVIOUS
    <3> PICK e : e = CHOOSE d \in done : about[d].remote = about[c].remote
      OBVIOUS
    <3>1. e \in done /\ about[e].remote = about[c].remote
      OBVIOUS
    <3>2. e = c /\ about[c].remote \in Sync!Remotes
      BY <1>1, <1>2, <3>1, HasRemote
    <3> QED
      BY <1>4, <3>2
  <2>4. \A d \in Checkouts : about[d].remote \in Sync!Remotes /\ Trunk(d)' = upstream'[about[d].remote] /\ Trunk(d) = upstream[about[d].remote]
    BY <1>0, HasRemote DEF Trunk
  <2>5. \A d \in Checkouts : Trunk(d) \subseteq Trunk(d)'
    <3> SUFFICES ASSUME NEW d \in Checkouts PROVE upstream[about[d].remote] \subseteq upstream'[about[d].remote]
      BY <2>4
    <3>1. CASE upstream'[about[d].remote] = upstream[about[d].remote]
      BY <3>1
    <3>2. ASSUME NEW c \in done, about[c].remote = about[d].remote, upstream'[about[d].remote] = head[c]
          PROVE  upstream[about[d].remote] \subseteq upstream'[about[d].remote]
      BY <1>1, <3>2 DEF Trunk
    <3> QED
      BY <2>2, <2>4, <3>1, <3>2
  <2>6. \A d \in Checkouts : \A x \in Trunk(d)' \ Trunk(d) :
          \E c \in Sync!Members : about[c].remote = about[d].remote /\ x \in head[c]
    BY <2>2, <2>4
  <2>7. upstream' \in [Sync!Remotes -> SUBSET Sync!Changes]
    <3>1. \A r \in Sync!Remotes : upstream'[r] \subseteq Sync!Changes
      BY <1>2, <2>1, <2>2
    <3> QED
      BY <1>4, <3>1
  <2>8. seen' \in [Checkouts -> SUBSET Sync!Changes]
    BY <1>4, <2>1
  <2>9. \A d \in Checkouts : /\ res'[d] \in Results
                             /\ res'[d].status = "pending" => res'[d] = res[d]
    BY <1>4, <2>1 DEF Results, Statuses
  <2>10. res' \in [Checkouts -> Results]
    BY <1>4, <2>9
  <2>11. OwnOrTrunk'
    <3>1. ASSUME NEW d \in Checkouts PROVE seen'[d] \subseteq Trunk(d)'
      <4>1. CASE d \in done
        BY <1>4, <2>3, <2>4, <4>1
      <4>2. CASE d \notin done
        BY <1>4, <2>5, <4>2 DEF OwnOrTrunk
      <4> QED
        BY <4>1, <4>2
    <3>2. ASSUME NEW d \in Checkouts, NEW x \in head'[d] PROVE x[1] = d \/ x \in Trunk(d)'
      BY <1>4, <2>5, <3>2 DEF OwnOrTrunk
    <3> QED
      BY <3>1, <3>2 DEF OwnOrTrunk
  <2> QED
    BY <1>4, <2>1, <2>5, <2>6, <2>7, <2>8, <2>9, <2>10, <2>11
<1> QED
  BY <1>1, <1>3, <1>4

\* A coordinated push keeps the invariant.
LEMMA GnitPushInv == ASSUME SyncInv, Sync!GnitPush PROVE SyncInv'
<1> USE DEF SyncInv
<1>1. /\ at = "gnit push" /\ at' = "reconcile" /\ todo' = opt.entries
      /\ UNCHANGED <<about, space, opt, changed, late>>
  BY GnitPushFacts
<1>2. /\ upstream' \in [Sync!Remotes -> SUBSET Sync!Changes] /\ head' \in [Checkouts -> SUBSET Sync!Changes]
      /\ seen' \in [Checkouts -> SUBSET Sync!Changes] /\ res' \in [Checkouts -> Results]
      /\ OwnOrTrunk'
      /\ \A d \in Checkouts : Trunk(d) \subseteq Trunk(d)'
      /\ \A d \in Checkouts : res'[d].status = "pending" =>
             res[d].status = "pending" /\ res'[d].changed = res[d].changed /\ res'[d].dirty = res[d].dirty
             /\ head'[d] = head[d]
  BY GnitPushed
<1>3. InHand' /\ PushApproved'
  BY <1>1 DEF InHand, PushApproved
<1>4. SyncTypes'
  BY <1>1, <1>2 DEF SyncTypes, Sync!TypeOK, Results, Statuses
<1>5. PendingAccounted'
  BY <1>1, <1>2, StillAccounted
<1> QED
  BY <1>2, <1>3, <1>4, <1>5

-----------------------------------------------------------------------------
(* What is published *)

\* The invariant is kept.
LEMMA SyncStep == SyncInv /\ [Sync!Next]_(Sync!vars) => SyncInv'
<1> SUFFICES ASSUME SyncInv, [Sync!Next]_(Sync!vars) PROVE SyncInv'
  OBVIOUS
<1>1. CASE UNCHANGED Sync!vars
  <2>1. UNCHANGED <<about, space, head, seen, changed, upstream, opt, at, todo, res, late>>
    BY <1>1 DEF Sync!vars
  <2>2. SyncTypes'
    BY <2>1 DEF SyncInv, SyncTypes, Sync!TypeOK
  <2>3. OwnOrTrunk' /\ InHand'
    BY <2>1 DEF SyncInv, OwnOrTrunk, InHand, Trunk
  <2>4. PendingAccounted'
    BY <2>1 DEF SyncInv, PendingAccounted, Sync!Inspected, Accounted, Trunk
  <2>5. PushApproved'
    BY <2>1, StillApproved DEF SyncInv, Trunk
  <2> QED
    BY <2>2, <2>3, <2>4, <2>5 DEF SyncInv
<1>2. ASSUME NEW o \in Options, Sync!Begin(o) PROVE SyncInv'
  BY <1>2, BeginInv
<1>3. CASE Sync!Step
  BY <1>3, InspectInv, InboundInv, ReconcileInv, PushInv, PlanInv, GnitCommitInv, GnitPushInv DEF Sync!Step
<1>4. ASSUME NEW c \in Checkouts, Sync!Commit(c) PROVE SyncInv'
  BY <1>4, CommitInv
<1>5. ASSUME NEW c \in Checkouts, NEW k \in Sync!Kinds, Sync!Edit(c, k) PROVE SyncInv'
  BY <1>5, UserEditInv
<1>6. ASSUME NEW r \in Sync!Remotes, Sync!OtherPushes(r) PROVE SyncInv'
  BY <1>6, OtherPushesInv
<1> QED
  BY <1>1, <1>2, <1>3, <1>4, <1>5, <1>6 DEF Sync!Next

\* What passed the gates may be published.
LEMMA ApprovedMayGo ==
  ASSUME SyncInv, NEW c \in Checkouts, NEW k \in Sync!Kinds, Approved(c), at \in {"push", "gnit push"},
         <<c, k>> \in head[c] \ (Trunk(c) \cup late)
  PROVE  /\ c \in opt.entries /\ res[c].status = "pending"
         /\ opt.publish = "auto" =>
              /\ about[c].role = "content" /\ about[c].private /\ k # "out"
              /\ k = "new" => <<c, k>> \in res[c].changed
<1>1. Accounted(c)
  BY DEF SyncInv, PendingAccounted, Approved, Sync!Inspected
<1>2. <<c, k>> \in res[c].changed \/ k \in res[c].dirty
  BY <1>1 DEF Accounted
<1>3. k \in Sync!Touched(c)
  <2>1. <<c, k>>[2] = k
    OBVIOUS
  <2> QED
    BY <1>2, <2>1 DEF Sync!Touched
<1> QED
  BY <1>2, <1>3 DEF Approved, Sync!Passes, Sync!ContentOnly, Sync!InContent

\* No step publishes what is held.
LEMMA StepPublishes ==
  ASSUME SyncInv, [Sync!Next]_(Sync!vars)
  PROVE  Sync!PublishesNothingHeld
<1> SUFFICES ASSUME NEW c \in Checkouts, NEW k \in Sync!Kinds, <<c, k>> \in Trunk(c)' \ (Trunk(c) \cup late)
             PROVE  /\ c \in opt.entries /\ res[c].status = "pending"
                    /\ opt.publish = "auto" =>
                         /\ about[c].role = "content" /\ about[c].private /\ k # "out"
                         /\ k = "new" => <<c, k>> \in res[c].changed
  <2>1. about' = about
    BY DEF Sync!Next, Sync!vars, Sync!Begin, Sync!Step, Sync!Inspect, Sync!Inbound, Sync!Reconcile, Sync!Push, Sync!Plan, Sync!GnitCommit, Sync!GnitPush, Sync!Commit, Sync!Edit,
      Sync!OtherPushes, Sync!setting
  <2> QED
    BY <2>1 DEF Sync!PublishesNothingHeld, Trunk
<1> USE DEF SyncInv
<1>1. CASE UNCHANGED <<about, upstream>>
  BY <1>1 DEF Trunk
<1>2. ASSUME NEW r \in Sync!Remotes, Sync!OtherPushes(r) PROVE FALSE
  <2>1. upstream' = [upstream EXCEPT ![r] = @ \cup {<<0, "in">>}] /\ about' = about
    BY <1>2 DEF Sync!OtherPushes, Sync!setting
  <2>2. c # 0 /\ about[c].remote \in Sync!Remotes /\ upstream \in [Sync!Remotes -> SUBSET Sync!Changes]
    BY CheckoutsAssumption, HasRemote DEF SyncTypes, Sync!TypeOK
  <2> QED
    BY <2>1, <2>2 DEF Trunk
<1>3. ASSUME NEW d \in Checkouts, about[d].remote = about[c].remote, <<c, k>> \in head[d] PROVE d = c
  <2>1. <<c, k>> \in Trunk(d) => <<c, k>> \in Trunk(c)
    BY <1>3 DEF Trunk
  <2> QED
    BY <1>3, <2>1 DEF OwnOrTrunk
<1>4. CASE Sync!Push
  <2> PICK d : d = Sync!First
    OBVIOUS
  <2>1. at = "push" /\ d \in Checkouts /\ Approved(d) /\ UNCHANGED <<about, space, opt, changed>>
    BY <1>4, FirstAhead DEF Sync!Push, Sync!setting, InHand, PushApproved
  <2>2. CASE Trunk(d) \subseteq head[d] /\ Sync!AfterPush({d}, {d})
    <3>1. PICK pushers : pushers = {d}
      OBVIOUS
    <3>2. /\ pushers \subseteq Checkouts /\ Sync!AfterPush(pushers, pushers)
          /\ \A e \in pushers : Trunk(e) \subseteq head[e]
          /\ \A e, f \in pushers : e # f => about[e].remote # about[f].remote
      BY <2>1, <2>2, <3>1
    <3>0. SyncTypes /\ OwnOrTrunk /\ UNCHANGED <<about, space, opt, changed>>
      BY <2>1
    <3>3. \A e \in Checkouts : \A x \in Trunk(e)' \ Trunk(e) :
             \E f \in pushers : about[f].remote = about[e].remote /\ x \in head[f]
      BY ONLY <3>0, <3>2, AfterPushFacts
    <3>4. d = c /\ <<c, k>> \in head[c]
      BY <1>3, <2>1, <3>1, <3>3
    <3> QED
      BY <2>1, <3>4, ApprovedMayGo
  <2>3. CASE UNCHANGED upstream
    BY <1>1, <2>1, <2>3
  <2> QED
    BY <1>4, <2>2, <2>3 DEF Sync!Push, Trunk
<1>5. CASE Sync!GnitPush
  <2>1. at = "gnit push" /\ Sync!Members \subseteq Checkouts
    BY <1>5, GnitPushFacts DEF Sync!Members
  <2>2. PICK m \in Sync!Members : about[m].remote = about[c].remote /\ <<c, k>> \in head[m]
    BY <1>5, GnitPushed
  <2>3. m = c /\ c \in Sync!Members /\ <<c, k>> \in head[c] \ (Trunk(c) \cup late)
    BY <1>3, <2>1, <2>2
  <2>4. c \in todo /\ Approved(c)
    BY <2>1, <2>3 DEF PushApproved
  <2> QED
    BY <2>1, <2>3, <2>4, ApprovedMayGo
<1> QED
  BY <1>1, <1>2, <1>4, <1>5 DEF Sync!Next, Sync!vars, Sync!Begin, Sync!Step, Sync!Inspect, Sync!Inbound, Sync!Reconcile, Sync!Plan, Sync!GnitCommit, Sync!Commit, Sync!Edit,
    Sync!setting, Sync!repos

-----------------------------------------------------------------------------
(***************************************************************************)
(* Skills in harnesses.                                                    *)
(***************************************************************************)
JobKinds == {"install", "uninstall", "prune", "purge", "legacy", "migrate", "refresh", "fix-self", "need-self",
             "materialize", "unselect", "reindex"}
Forms == {"link", "copy"}
Jobs == [do : JobKinds, place : Shared!Places, name : Shared!Names \cup {"none"}, as : Forms, scope : Shared!Scopes]
AboutSkills == {"install", "sync", "uninstall", "purge"}
SelfNames == {"self", "old"}
AtRoot(j) == j.do \in {"materialize", "unselect"}
InstallsSelf(j, h) == j.do = "install" /\ j.name = "self" /\ j.place = h

\* What a job of a command may be.  Only the commands about skills install them
\* by hand, or where a launch root serves.
IsJobOf(j, kind) ==
  /\ AtRoot(j) <=> j.place = Root
  /\ AtRoot(j) => kind = "launch" /\ j.name = "skill" /\ j.scope = "launch" /\ j.as = "copy"
  /\ j.do = "install" => \/ j.name = "self" /\ j.scope = "none"
                         \/ /\ j.name = "skill" /\ j.scope \in {"manual", "compat"}
                            /\ j.scope = "manual" \/ j.place \in Native => kind \in {"install", "sync"}
  /\ j.do = "migrate" => j.name = "old"
  /\ j.do \in {"refresh", "fix-self", "need-self"} => j.name = "self"
  /\ j.do = "refresh" => kind = "maintain"
  /\ j.do = "prune" /\ j.place \in Native => kind = "sync"
  /\ j.do = "purge" => kind = "purge"
  /\ kind = "purge" => j.do \in {"purge", "uninstall", "reindex"}
  /\ j.do = "uninstall" => j.name \in Shared!Names
  /\ j.do = "uninstall" /\ j.name \in SelfNames => kind \in {"purge", "self-uninstall"}

\* In which order: an old self-skill is moved before one is installed, unless it
\* is only maintained; a launch sees to its self-skill first and to the root last.
InOrder(s, kind) ==
  \A i \in DOMAIN s :
    /\ AtRoot(s[i]) => i = Len(s)
    /\ s[i].do = "need-self" => i = 1 /\ kind = "launch"
    /\ s[i].do = "migrate" /\ kind # "maintain" => \E k \in DOMAIN s : k > i /\ InstallsSelf(s[k], s[i].place)
    /\ \A k \in DOMAIN s : kind = "launch" /\ s[i].name = "self" /\ s[k].name = "self" => s[k].place = s[i].place

ListOK(s, kind) == s \in Seq(Jobs) /\ (\A i \in DOMAIN s : IsJobOf(s[i], kind)) /\ InOrder(s, kind)

\* What is uninstalled without being asked for by name is no manual install and
\* no self-skill.
UninstallOK(j, kind) ==
  j.do = "uninstall" =>
    /\ j.place \in Native /\ kind \notin AboutSkills => <<j.place, j.name>> \notin mine
    /\ j.name \in SelfNames /\ kind # "self-uninstall" => ~Shared!Managed(entry[j.place][j.name])
UninstallsOK == \A i \in DOMAIN jobs : UninstallOK(jobs[i], skillCmd.kind)

\* Where a command is in its first job.
StepOK ==
  /\ jobs = <<>> => skillAt = "none"
  /\ skillAt # "none" => Shared!Slot \notin mine
  /\ skillAt \in {"replace", "made since"} => Shared!job.do = "materialize"
  /\ skillAt = "replace" /\ Shared!Here = Shared!Own => skillCmd.answer = "replace"
  /\ skillAt = "place" => Shared!Here = Shared!None /\ Shared!job.do \in {"install", "materialize"}
  /\ skillAt = "mark" => Shared!Here = Shared!Bare /\ Shared!job.do \in {"install", "materialize"}
  /\ skillAt = "index" => Shared!job.do = "install" /\ Shared!job.name = "skill" /\ Shared!Here \in {Shared!Link, Shared!Entry("copy", Shared!job.scope)}
  /\ skillAt = "unindex" => Shared!Here = Shared!None /\ Shared!job.do = "uninstall"

\* A finished manual install is there, and known as one.
MineOK ==
  \A s \in mine : s[1] \in Harnesses /\ s[2] = "skill" /\ Shared!Managed(entry[s[1]]["skill"]) /\ Shared!Scope(s[1]) = "manual"

\* A harness has the self-skill, or is about to get it.
Promise(j, h) ==
  \/ InstallsSelf(j, h) /\ (entry[h]["self"] = Shared!None \/ skillCmd.force)
  \/ j.do = "refresh" /\ j.place = h /\ entry[h]["self"] = Shared!None
SelfStays(t, h) == Shared!HasSelf(h) \/ \E i \in DOMAIN t : Promise(t[i], h)
KeptSelf(h) == SelfStays(jobs, h) \/ (skillAt \in {"place", "mark"} /\ InstallsSelf(Shared!job, h))
SelfKept ==
  jobs # <<>> =>
    /\ skillCmd.kind # "self-uninstall" => \A h \in had : KeptSelf(h)
    /\ Shared!job.do = "need-self" => \A h \in had : Shared!HasSelf(h)

SkillsInv ==
  /\ Shared!TypeOK /\ (skillCmd.kind = "maintain" => ~skillCmd.force)
  /\ ListOK(jobs, skillCmd.kind) /\ UninstallsOK
  /\ StepOK /\ MineOK /\ SelfKept

\* What a step may take away, and what it leaves at the end of a command.
TakesOnly ==
  \A p \in Shared!Places, n \in Shared!Names :
    entry'[p][n] # entry[p][n] =>
      /\ entry[p][n] = Shared!Own => skillCmd.force \/ (p = Root /\ (skillCmd.answer = "replace" \/ skillAt = "made since"))
      /\ <<p, n>> \in mine /\ p \in Native => skillCmd.kind \in AboutSkills
EndsWell == jobs' = <<>> /\ skillCmd.kind # "self-uninstall" => \A h \in had : Shared!HasSelf(h)'
KeepsAll == SkillsInv' /\ TakesOnly /\ EndsWell

-----------------------------------------------------------------------------
(* Lists of jobs *)

\* A finite set as a sequence has each of its elements, and no others.
LEMMA SetAsSeq ==
  ASSUME NEW S, IsFiniteSet(S)
  PROVE  /\ Cardinality(S) \in Nat /\ Shared!SetToSeq(S) \in [1..Cardinality(S) -> S]
         /\ \A x \in S : \E i \in DOMAIN Shared!SetToSeq(S) : Shared!SetToSeq(S)[i] = x
<1> DEFINE n == Cardinality(S)
<1>1. n \in Nat /\ ExistsBijection(1..n, S)
  BY FS_CardinalityType
<1>2. PICK g : g \in Bijection(1..n, S)
  BY <1>1 DEF ExistsBijection
<1>3. g \in [1..n -> S] /\ IsInjective(g)
  BY <1>2 DEF Bijection, Injection
<1> PICK f : f = Shared!SetToSeq(S)
  OBVIOUS
<1>4. f \in [1..n -> S] /\ IsInjective(f)
  <2>1. Shared!Cardinality(S) = Cardinality(S)
    BY DEF Shared!Cardinality, Cardinality
  <2>2. \A h : Shared!IsInjective(h) <=> IsInjective(h)
    BY DEF Shared!IsInjective, IsInjective
  <2> QED
    BY <1>3, <2>1, <2>2 DEF Shared!SetToSeq
<1> DEFINE T == {f[i] : i \in 1..n}
<1>5. f \in Surjection(1..n, T) /\ f \in Injection(1..n, T)
  BY <1>4 DEF Surjection, Injection
<1>6. IsFiniteSet(1..n) /\ Cardinality(1..n) = n
  BY <1>1, FS_Interval
<1>7. Cardinality(T) = n
  BY <1>5, <1>6, FS_Surjection
<1>8. T \subseteq S
  BY <1>4
<1>9. T = S
  BY <1>7, <1>8, FS_Subset
<1> QED
  BY <1>1, <1>4, <1>9

\* A finite set of jobs is a list of them.
LEMMA JobsAsList ==
  ASSUME NEW S \in SUBSET Jobs, IsFiniteSet(S)
  PROVE  /\ Shared!SetToSeq(S) \in Seq(Jobs)
         /\ \A i \in DOMAIN Shared!SetToSeq(S) : Shared!SetToSeq(S)[i] \in S
         /\ \A x \in S : \E i \in DOMAIN Shared!SetToSeq(S) : Shared!SetToSeq(S)[i] = x
<1> PICK s : s = Shared!SetToSeq(S)
  OBVIOUS
<1> PICK n : n = Cardinality(S)
  OBVIOUS
<1>1. n \in Nat /\ s \in [1..n -> S] /\ \A x \in S : \E i \in DOMAIN s : s[i] = x
  BY SetAsSeq
<1>2. s \in [1..n -> Jobs] /\ \A i \in DOMAIN s : s[i] \in S
  BY <1>1
<1>3. s \in Seq(Jobs)
  BY ONLY <1>1, <1>2, SeqDef
<1> QED
  BY <1>1, <1>2, <1>3

\* The values the lists are made of.
LEMMA Values ==
  /\ {"install", "uninstall", "prune", "purge", "legacy", "migrate", "refresh", "fix-self", "need-self", "materialize",
      "unselect", "reindex"} \subseteq JobKinds
  /\ {"skill", "self", "old"} \subseteq Shared!Names /\ {"skill", "self", "old", "none"} \subseteq Shared!Names \cup {"none"}
  /\ {"none", "manual", "compat", "launch"} \subseteq Shared!Scopes /\ {"link", "copy"} \subseteq Forms
BY DEF JobKinds, Shared!Names, Shared!Scopes, Forms

\* What a job is.
LEMMA JobIs ==
  ASSUME NEW do \in JobKinds, NEW p \in Shared!Places, NEW n \in Shared!Names \cup {"none"}, NEW as \in Forms, NEW scope \in Shared!Scopes
  PROVE  /\ Shared!Job(do, p, n, as, scope) \in Jobs
         /\ Shared!Job(do, p, n, as, scope).do = do /\ Shared!Job(do, p, n, as, scope).place = p
         /\ Shared!Job(do, p, n, as, scope).name = n /\ Shared!Job(do, p, n, as, scope).as = as
         /\ Shared!Job(do, p, n, as, scope).scope = scope
BY DEF Shared!Job, Jobs

\* A job for each of some harnesses.
LEMMA EachIs ==
  ASSUME NEW H \in SUBSET Harnesses, NEW do \in JobKinds, NEW n \in Shared!Names \cup {"none"}, NEW as \in Forms, NEW scope \in Shared!Scopes
  PROVE  /\ Shared!Each(do, H, n, as, scope) \in Seq(Jobs)
         /\ \A i \in DOMAIN Shared!Each(do, H, n, as, scope) : \E h \in H : Shared!Each(do, H, n, as, scope)[i] = Shared!Job(do, h, n, as, scope)
         /\ \A h \in H : \E i \in DOMAIN Shared!Each(do, H, n, as, scope) : Shared!Each(do, H, n, as, scope)[i] = Shared!Job(do, h, n, as, scope)
<1> PICK S : S = {Shared!Job(do, h, n, as, scope) : h \in H}
  OBVIOUS
<1>1. IsFiniteSet(H)
  BY HarnessesAssumption, FS_Subset
<1>2. IsFiniteSet(S)
  <2> DEFINE f == [h \in H |-> Shared!Job(do, h, n, as, scope)]
  <2>1. f \in Surjection(H, S)
    BY DEF Surjection
  <2> QED
    BY <1>1, <2>1, FS_Surjection
<1>3. \A h \in H : Shared!Job(do, h, n, as, scope) \in Jobs
  BY JobIs DEF Shared!Places
<1>4. S \in SUBSET Jobs
  BY <1>3
<1>6. /\ Shared!SetToSeq(S) \in Seq(Jobs)
      /\ \A i \in DOMAIN Shared!SetToSeq(S) : Shared!SetToSeq(S)[i] \in S
      /\ \A x \in S : \E i \in DOMAIN Shared!SetToSeq(S) : Shared!SetToSeq(S)[i] = x
  BY <1>2, <1>4, JobsAsList
<1> PICK s : s = Shared!SetToSeq(S)
  OBVIOUS
<1>7. s = Shared!Each(do, H, n, as, scope)
  BY DEF Shared!Each
<1>8. s \in Seq(Jobs) /\ (\A i \in DOMAIN s : s[i] \in S) /\ \A x \in S : \E i \in DOMAIN s : s[i] = x
  BY <1>6
<1>9. /\ \A i \in DOMAIN s : \E h \in H : s[i] = Shared!Job(do, h, n, as, scope)
      /\ \A h \in H : \E i \in DOMAIN s : s[i] = Shared!Job(do, h, n, as, scope)
  BY <1>8
<1> QED
  BY ONLY <1>7, <1>8, <1>9

\* One list after another.
LEMMA Appended ==
  ASSUME NEW S, NEW s \in Seq(S), NEW t \in Seq(S)
  PROVE  /\ s \o t \in Seq(S) /\ Len(s \o t) = Len(s) + Len(t) /\ DOMAIN (s \o t) = 1..(Len(s) + Len(t))
         /\ \A i \in DOMAIN s : i \in DOMAIN (s \o t) /\ (s \o t)[i] = s[i]
         /\ \A i \in DOMAIN t : i + Len(s) \in DOMAIN (s \o t) /\ (s \o t)[i + Len(s)] = t[i]
         /\ \A i \in DOMAIN (s \o t) : \/ i \in DOMAIN s /\ (s \o t)[i] = s[i]
                                       \/ i \notin DOMAIN s /\ i - Len(s) \in DOMAIN t /\ (s \o t)[i] = t[i - Len(s)]
<1>1. DOMAIN s = 1..Len(s) /\ DOMAIN t = 1..Len(t) /\ Len(s) \in Nat /\ Len(t) \in Nat
  OBVIOUS
<1>2. /\ s \o t \in Seq(S) /\ Len(s \o t) = Len(s) + Len(t)
      /\ \A i \in 1..(Len(s) + Len(t)) : (s \o t)[i] = IF i <= Len(s) THEN s[i] ELSE t[i - Len(s)]
  OBVIOUS
<1>3. DOMAIN (s \o t) = 1..(Len(s) + Len(t))
  BY <1>2
<1> PICK u : u = s \o t
  OBVIOUS
<1> QED
  BY <1>1, <1>2, <1>3

\* The rest of a list.
LEMMA Rest ==
  ASSUME NEW S, NEW s \in Seq(S), s # <<>>
  PROVE  /\ Head(s) = s[1] /\ 1 \in DOMAIN s /\ s[1] \in S
         /\ Tail(s) \in Seq(S) /\ Len(Tail(s)) = Len(s) - 1 /\ DOMAIN Tail(s) = 1..(Len(s) - 1)
         /\ \A i \in DOMAIN Tail(s) : i + 1 \in DOMAIN s /\ Tail(s)[i] = s[i + 1]
         /\ \A i \in DOMAIN s : i = 1 \/ (i - 1 \in DOMAIN Tail(s) /\ Tail(s)[i - 1] = s[i])
OBVIOUS

\* Jobs that may stand in any order.
Loose(j, kind) ==
  /\ IsJobOf(j, kind) /\ ~AtRoot(j) /\ j.do \notin {"need-self", "migrate"}
  /\ kind = "launch" => j.name # "self"

\* Nothing is uninstalled at first but what was asked for.
Fresh(j, kind) == j.do = "uninstall" => kind = "uninstall" \/ (kind = "self-uninstall" /\ j.name \in SelfNames)
Plain(s, kind) == s \in Seq(Jobs) /\ \A i \in DOMAIN s : Loose(s[i], kind) /\ Fresh(s[i], kind)
Starts(s, kind) == ListOK(s, kind) /\ \A i \in DOMAIN s : Fresh(s[i], kind)

\* A job for each harness, where it may stand in any order.
LEMMA EachPlain ==
  ASSUME NEW H \in SUBSET Harnesses, NEW do \in JobKinds, NEW n \in Shared!Names \cup {"none"}, NEW as \in Forms, NEW scope \in Shared!Scopes,
         NEW kind, \A h \in H : IsJobOf(Shared!Job(do, h, n, as, scope), kind),
         do \notin {"materialize", "unselect", "need-self", "migrate"}, kind = "launch" => n # "self",
         do = "uninstall" => kind = "uninstall" \/ (kind = "self-uninstall" /\ n \in SelfNames)
  PROVE  Plain(Shared!Each(do, H, n, as, scope), kind)
<1>0. Shared!Each(do, H, n, as, scope) \in Seq(Jobs)
  BY ONLY EachIs
<1>e. \A i \in DOMAIN Shared!Each(do, H, n, as, scope) : \E h \in H : Shared!Each(do, H, n, as, scope)[i] = Shared!Job(do, h, n, as, scope)
  BY ONLY EachIs
<1> PICK s : s = Shared!Each(do, H, n, as, scope)
  OBVIOUS
<1>1. s \in Seq(Jobs) /\ \A i \in DOMAIN s : \E h \in H : s[i] = Shared!Job(do, h, n, as, scope)
  BY <1>0, <1>e
<1>2. \A h \in H : Shared!Job(do, h, n, as, scope).do = do /\ Shared!Job(do, h, n, as, scope).name = n
  BY DEF Shared!Job
<1>3. \A i \in DOMAIN s : IsJobOf(s[i], kind) /\ s[i].do = do /\ s[i].name = n
  BY <1>1, <1>2
<1> QED
  BY <1>1, <1>3 DEF Plain, Loose, Fresh, AtRoot

\* Jobs in any order may be put before those of a list, except before a check of
\* a launch's self-skill.
LEMMA LooseFirst ==
  ASSUME NEW kind, NEW s \in Seq(Jobs), \A i \in DOMAIN s : Loose(s[i], kind),
         NEW t, ListOK(t, kind), \A i \in DOMAIN t : t[i].do # "need-self"
  PROVE  ListOK(s \o t, kind)
<1>1. t \in Seq(Jobs)
  BY DEF ListOK
<1> PICK u : u = s \o t
  OBVIOUS
<1>2. /\ u \in Seq(Jobs) /\ Len(u) = Len(s) + Len(t) /\ Len(s) \in Nat
      /\ DOMAIN s = 1..Len(s) /\ DOMAIN t = 1..Len(t) /\ DOMAIN u = 1..Len(u)
      /\ \A i \in DOMAIN t : i + Len(s) \in DOMAIN u /\ u[i + Len(s)] = t[i]
      /\ \A i \in DOMAIN u : \/ i \in DOMAIN s /\ u[i] = s[i]
                             \/ i \notin DOMAIN s /\ i - Len(s) \in DOMAIN t /\ u[i] = t[i - Len(s)]
  BY <1>1, Appended
<1>3. ASSUME NEW i \in DOMAIN u
      PROVE  /\ IsJobOf(u[i], kind) /\ u[i].do # "need-self" /\ (AtRoot(u[i]) => i = Len(u))
             /\ u[i].do = "migrate" /\ kind # "maintain" => \E k \in DOMAIN u : k > i /\ InstallsSelf(u[k], u[i].place)
             /\ kind = "launch" /\ u[i].name = "self" => i - Len(s) \in DOMAIN t /\ u[i] = t[i - Len(s)]
  <2>1. CASE i \in DOMAIN s /\ u[i] = s[i]
    BY <2>1 DEF Loose
  <2>2. CASE i \notin DOMAIN s /\ i - Len(s) \in DOMAIN t /\ u[i] = t[i - Len(s)]
    <3>1. IsJobOf(u[i], kind) /\ u[i].do # "need-self" /\ (AtRoot(u[i]) => i - Len(s) = Len(t))
      BY <2>2 DEF ListOK, InOrder
    <3>2. ASSUME u[i].do = "migrate", kind # "maintain"
          PROVE  \E k \in DOMAIN u : k > i /\ InstallsSelf(u[k], u[i].place)
      <4>1. PICK k \in DOMAIN t : k > i - Len(s) /\ InstallsSelf(t[k], u[i].place)
        BY <2>2, <3>2 DEF ListOK, InOrder
      <4>2. k + Len(s) > i /\ k + Len(s) \in DOMAIN u /\ u[k + Len(s)] = t[k]
        BY <1>2, <4>1
      <4> QED
        BY <4>1, <4>2
    <3> QED
      BY <1>2, <2>2, <3>1, <3>2
  <2> QED
    BY <1>2, <2>1, <2>2
<1>4. ASSUME NEW i \in DOMAIN u, NEW k \in DOMAIN u, kind = "launch", u[i].name = "self", u[k].name = "self"
      PROVE  u[k].place = u[i].place
  <2>1. /\ i - Len(s) \in DOMAIN t /\ u[i] = t[i - Len(s)]
        /\ k - Len(s) \in DOMAIN t /\ u[k] = t[k - Len(s)]
    BY <1>3, <1>4
  <2> QED
    BY <1>4, <2>1 DEF ListOK, InOrder
<1> QED
  BY <1>2, <1>3, <1>4 DEF ListOK, InOrder

\* Two such lists.
LEMMA PlainConcat ==
  ASSUME NEW kind, NEW s, NEW t, Plain(s, kind), Plain(t, kind)
  PROVE  Plain(s \o t, kind)
<1>1. s \in Seq(Jobs) /\ t \in Seq(Jobs)
  BY DEF Plain
<1> PICK u : u = s \o t
  OBVIOUS
<1>2. /\ u \in Seq(Jobs)
      /\ \A i \in DOMAIN u : \/ i \in DOMAIN s /\ u[i] = s[i]
                             \/ i \notin DOMAIN s /\ i - Len(s) \in DOMAIN t /\ u[i] = t[i - Len(s)]
  BY <1>1, Appended
<1> QED
  BY <1>2 DEF Plain

\* Such a list is one a command may begin with.
LEMMA PlainStarts == ASSUME NEW kind, NEW s, Plain(s, kind) PROVE Starts(s, kind)
BY DEF Plain, Loose, Starts, ListOK, InOrder

\* Lists that do not belong to a launch may follow one another.
LEMMA StartsConcat ==
  ASSUME NEW kind, kind # "launch", NEW s, NEW t, Starts(s, kind), Starts(t, kind)
  PROVE  Starts(s \o t, kind)
<1> USE DEF Starts
<1>1. s \in Seq(Jobs) /\ t \in Seq(Jobs)
  BY DEF ListOK
<1> PICK u : u = s \o t
  OBVIOUS
<1>2. /\ u \in Seq(Jobs) /\ Len(s) \in Nat /\ DOMAIN s = 1..Len(s)
      /\ DOMAIN t = 1..Len(t)
      /\ \A i \in DOMAIN s : i \in DOMAIN u /\ u[i] = s[i]
      /\ \A i \in DOMAIN t : i + Len(s) \in DOMAIN u /\ u[i + Len(s)] = t[i]
      /\ \A i \in DOMAIN u : \/ i \in DOMAIN s /\ u[i] = s[i]
                             \/ i \notin DOMAIN s /\ i - Len(s) \in DOMAIN t /\ u[i] = t[i - Len(s)]
  BY <1>1, Appended
<1>3. ASSUME NEW i \in DOMAIN u PROVE IsJobOf(u[i], kind) /\ Fresh(u[i], kind)
  BY <1>2 DEF ListOK
<1>4. ASSUME NEW i \in DOMAIN u PROVE ~AtRoot(u[i]) /\ u[i].do # "need-self"
  <2>1. CASE i \in DOMAIN s /\ u[i] = s[i]
    BY <2>1 DEF ListOK, InOrder, IsJobOf
  <2>2. CASE i - Len(s) \in DOMAIN t /\ u[i] = t[i - Len(s)]
    BY <2>2 DEF ListOK, InOrder, IsJobOf
  <2> QED
    BY <1>2, <2>1, <2>2
<1>5. ASSUME NEW i \in DOMAIN u, u[i].do = "migrate", kind # "maintain"
      PROVE  \E k \in DOMAIN u : k > i /\ InstallsSelf(u[k], u[i].place)
  <2>1. CASE i \in DOMAIN s /\ u[i] = s[i]
    <3>1. PICK k \in DOMAIN s : k > i /\ InstallsSelf(s[k], s[i].place)
      BY <1>5, <2>1 DEF ListOK, InOrder
    <3> QED
      BY <1>2, <2>1, <3>1
  <2>2. CASE i \notin DOMAIN s /\ i - Len(s) \in DOMAIN t /\ u[i] = t[i - Len(s)]
    <3>1. PICK k \in DOMAIN t : k > i - Len(s) /\ InstallsSelf(t[k], u[i].place)
      BY <1>5, <2>2 DEF ListOK, InOrder
    <3>2. k + Len(s) > i /\ k + Len(s) \in DOMAIN u /\ u[k + Len(s)] = t[k]
      BY <1>2, <3>1
    <3> QED
      BY <3>1, <3>2
  <2> QED
    BY <1>2, <2>1, <2>2
<1> QED
  BY <1>2, <1>3, <1>4, <1>5 DEF ListOK, InOrder

\* So is an empty one.
LEMMA NoneIsPlain == \A kind : Plain(<<>>, kind)
BY DEF Plain

-----------------------------------------------------------------------------
(* What each command has to do *)

\* What is done about the other skills.
LEMMA OthersPlain ==
  ASSUME NEW H \in SUBSET Harnesses, NEW kind
  PROVE  Plain(Shared!OtherSkills(H), kind)
<1>1. \A h \in H : IsJobOf(Shared!Job("reindex", h, "none", "link", "none"), kind)
  BY HarnessesAssumption DEF IsJobOf, Shared!Job, AtRoot, SelfNames
<1>2. "reindex" \in JobKinds /\ "none" \in Shared!Names \cup {"none"} /\ "none" \in Shared!Scopes /\ "link" \in Forms
  BY Values
<1> QED
  BY <1>1, <1>2, EachPlain DEF Shared!OtherSkills

\* Installs of the skill.
LEMMA InstallsPlain ==
  ASSUME NEW H \in SUBSET Harnesses, NEW as \in Forms, NEW scope \in {"manual", "compat"}, NEW kind, kind # "purge",
         scope = "manual" \/ H \cap Native # {} => kind \in {"install", "sync"}
  PROVE  Plain(Shared!Installs(H, as, scope), kind)
<1>1. \A h \in H : IsJobOf(Shared!Job("install", h, "skill", as, scope), kind)
  BY HarnessesAssumption DEF IsJobOf, Shared!Job, AtRoot, SelfNames
<1>2. Plain(Shared!Each("install", H, "skill", as, scope), kind)
  <2>1. "install" \in JobKinds /\ "skill" \in Shared!Names \cup {"none"} /\ scope \in Shared!Scopes
    BY Values
  <2> QED
    BY <1>1, <2>1, EachPlain
<1>3. Plain(Shared!OtherSkills(H), kind)
  BY OthersPlain
<1> QED
  BY <1>2, <1>3, NoneIsPlain, PlainConcat DEF Shared!Installs

\* They and the prune after them.
LEMMA SkillSyncPlain ==
  ASSUME NEW H \in SUBSET Harnesses, NEW as \in Forms, NEW scope \in {"manual", "compat"},
         NEW kind, kind # "purge", scope = "manual" \/ H \cap Native # {} => kind = "sync"
  PROVE  Plain(Shared!SkillSync(H, as, scope), kind)
<1>1. \A h \in H : IsJobOf(Shared!Job("prune", h, "none", "link", "none"), kind)
  BY HarnessesAssumption DEF IsJobOf, Shared!Job, AtRoot, SelfNames
<1>2. Plain(Shared!Each("prune", H, "none", "link", "none"), kind)
  <2>1. "prune" \in JobKinds /\ "none" \in Shared!Names \cup {"none"} /\ "none" \in Shared!Scopes /\ "link" \in Forms
    BY Values
  <2> QED
    BY <1>1, <2>1, EachPlain
<1>3. Plain(Shared!Installs(H, as, scope), kind)
  BY InstallsPlain
<1> QED
  BY <1>2, <1>3, PlainConcat DEF Shared!SkillSync

\* The self-skill: what has its old name is moved first.
LEMMA SelfInstallStarts ==
  ASSUME NEW H \in SUBSET Harnesses, NEW as \in Forms, NEW kind, kind \notin {"purge", "launch"}
  PROVE  Starts(Shared!SelfInstall(H, as), kind)
<1>0. /\ "migrate" \in JobKinds /\ "install" \in JobKinds /\ "old" \in Shared!Names \cup {"none"}
      /\ "self" \in Shared!Names \cup {"none"} /\ "none" \in Shared!Scopes
  BY Values
<1>a. Shared!Each("migrate", H, "old", as, "none") \in Seq(Jobs) /\ Shared!Each("install", H, "self", as, "none") \in Seq(Jobs)
  BY ONLY <1>0, EachIs
<1>b. \A i \in DOMAIN Shared!Each("migrate", H, "old", as, "none") :
        \E h \in H : Shared!Each("migrate", H, "old", as, "none")[i] = Shared!Job("migrate", h, "old", as, "none")
  BY ONLY <1>0, EachIs
<1>c. \A i \in DOMAIN Shared!Each("install", H, "self", as, "none") :
        \E h \in H : Shared!Each("install", H, "self", as, "none")[i] = Shared!Job("install", h, "self", as, "none")
  BY ONLY <1>0, EachIs
<1>d. \A h \in H : \E i \in DOMAIN Shared!Each("install", H, "self", as, "none") :
        Shared!Each("install", H, "self", as, "none")[i] = Shared!Job("install", h, "self", as, "none")
  BY ONLY <1>0, EachIs
<1>s. PICK s : s = Shared!Each("migrate", H, "old", as, "none")
  OBVIOUS
<1>v. PICK t : t = Shared!Each("install", H, "self", as, "none")
  OBVIOUS
<1>t. s \in Seq(Jobs) /\ t \in Seq(Jobs)
  BY <1>a, <1>s, <1>v
<1>1. \A i \in DOMAIN s : \E h \in H : s[i] = Shared!Job("migrate", h, "old", as, "none")
  BY <1>b, <1>s
<1>2. /\ \A i \in DOMAIN t : \E h \in H : t[i] = Shared!Job("install", h, "self", as, "none")
      /\ \A h \in H : \E i \in DOMAIN t : t[i] = Shared!Job("install", h, "self", as, "none")
  BY <1>c, <1>d, <1>v
<1>u. PICK u : u = s \o t
  OBVIOUS
<1>3. /\ u \in Seq(Jobs) /\ Len(s) \in Nat /\ DOMAIN s = 1..Len(s) /\ DOMAIN t = 1..Len(t)
      /\ \A i \in DOMAIN t : i + Len(s) \in DOMAIN u /\ u[i + Len(s)] = t[i]
      /\ \A i \in DOMAIN u : \/ i \in DOMAIN s /\ u[i] = s[i]
                             \/ i \notin DOMAIN s /\ i - Len(s) \in DOMAIN t /\ u[i] = t[i - Len(s)]
  BY ONLY <1>t, <1>u, Appended
<1>4. \A i \in DOMAIN u : \E h \in H : \/ i \in DOMAIN s /\ u[i] = Shared!Job("migrate", h, "old", as, "none")
                                       \/ u[i] = Shared!Job("install", h, "self", as, "none")
  <2> TAKE i \in DOMAIN u
  <2>1. ASSUME i \in DOMAIN s, u[i] = s[i]
        PROVE  \E h \in H : i \in DOMAIN s /\ u[i] = Shared!Job("migrate", h, "old", as, "none")
    BY ONLY <1>1, <2>1
  <2>2. ASSUME i - Len(s) \in DOMAIN t, u[i] = t[i - Len(s)]
        PROVE  \E h \in H : u[i] = Shared!Job("install", h, "self", as, "none")
    BY ONLY <1>2, <2>2
  <2> QED
    BY ONLY <1>3, <2>1, <2>2
<1>5. \A h \in H : /\ IsJobOf(Shared!Job("migrate", h, "old", as, "none"), kind)
                   /\ IsJobOf(Shared!Job("install", h, "self", as, "none"), kind)
  BY HarnessesAssumption DEF IsJobOf, Shared!Job, AtRoot, SelfNames
<1>6. \A h \in H : /\ Shared!Job("migrate", h, "old", as, "none").do = "migrate"
                   /\ Shared!Job("migrate", h, "old", as, "none").place = h
                   /\ Shared!Job("install", h, "self", as, "none").do = "install"
                   /\ InstallsSelf(Shared!Job("install", h, "self", as, "none"), h)
  BY DEF Shared!Job, InstallsSelf
<1>7. ASSUME NEW i \in DOMAIN u
      PROVE  /\ IsJobOf(u[i], kind) /\ ~AtRoot(u[i]) /\ u[i].do # "need-self" /\ Fresh(u[i], kind)
             /\ u[i].do = "migrate" => \E k \in DOMAIN u : k > i /\ InstallsSelf(u[k], u[i].place)
  <2>1. PICK h \in H : \/ i \in DOMAIN s /\ u[i] = Shared!Job("migrate", h, "old", as, "none")
                       \/ u[i] = Shared!Job("install", h, "self", as, "none")
    BY <1>4
  <2>2. IsJobOf(u[i], kind) /\ u[i].do \in {"migrate", "install"}
    BY <1>5, <1>6, <2>1
  <2>3. ASSUME u[i].do = "migrate"
        PROVE  \E k \in DOMAIN u : k > i /\ InstallsSelf(u[k], u[i].place)
    <3>1. i \in DOMAIN s /\ u[i].place = h
      BY <1>6, <2>1, <2>3
    <3>2. PICK k \in DOMAIN t : t[k] = Shared!Job("install", h, "self", as, "none")
      BY <1>2
    <3>3. k + Len(s) \in DOMAIN u /\ u[k + Len(s)] = t[k] /\ k + Len(s) > i
      BY ONLY <1>3, <3>1
    <3>4. InstallsSelf(t[k], u[i].place)
      BY ONLY <1>6, <3>1, <3>2
    <3>5. k + Len(s) > i /\ InstallsSelf(u[k + Len(s)], u[i].place)
      BY ONLY <3>3, <3>4
    <3> QED
      BY ONLY <3>3, <3>5
  <2> QED
    BY <2>2, <2>3 DEF AtRoot, Fresh
<1> QED
  <2>1. Starts(u, kind)
    <3>1. kind # "launch"
      OBVIOUS
    <3> QED
      BY ONLY <1>3, <1>7, <3>1 DEF Starts, ListOK, InOrder
  <2>2. Shared!SelfInstall(H, as) = u
    BY ONLY <1>s, <1>v, <1>u DEF Shared!SelfInstall
  <2> QED
    BY <2>1, <2>2

\* Those of a harness without launch roots.
LEMMA CompatiblePlain ==
  ASSUME NEW H \in SUBSET Harnesses, NEW as \in Forms, NEW kind, kind # "purge"
  PROVE  Plain(Shared!Compatible(H, as), kind)
<1>1. H \ Native \in SUBSET Harnesses /\ (H \ Native) \cap Native = {}
  OBVIOUS
<1> QED
  BY <1>1, SkillSyncPlain DEF Shared!Compatible

\* What a launch does after it has seen to its self-skill.
RestOfLaunch(t) ==
  /\ t \in Seq(Jobs)
  /\ \A i \in DOMAIN t : /\ IsJobOf(t[i], "launch") /\ t[i].name # "self" /\ t[i].do \notin {"migrate", "need-self"}
                         /\ AtRoot(t[i]) => i = Len(t)
                         /\ t[i].do # "uninstall"

\* The root comes last.
LEMMA ProfileIsRest == \A profile : RestOfLaunch(Shared!ProfileSkills(profile))
<1>1. RestOfLaunch(<<>>)
  BY DEF RestOfLaunch
<1>2. ASSUME NEW do \in {"materialize", "unselect"}
      PROVE  RestOfLaunch(<<Shared!Job(do, Root, "skill", "copy", "launch")>>)
  <2>0. PICK j : j = Shared!Job(do, Root, "skill", "copy", "launch")
    OBVIOUS
  <2>1. j \in Jobs
    BY <2>0, Values DEF Shared!Job, Jobs, Shared!Places
  <2>2. IsJobOf(j, "launch") /\ j.name # "self" /\ j.do \notin {"migrate", "need-self", "uninstall"}
    BY <2>0 DEF IsJobOf, Shared!Job, AtRoot
  <2>3. RestOfLaunch(<<j>>)
    BY ONLY <2>1, <2>2 DEF RestOfLaunch
  <2> QED
    BY <2>0, <2>3
<1>3. /\ RestOfLaunch(<<Shared!Job("materialize", Root, "skill", "copy", "launch")>>)
      /\ RestOfLaunch(<<Shared!Job("unselect", Root, "skill", "copy", "launch")>>)
  BY <1>2
<1> QED
  BY <1>1, <1>3 DEF Shared!ProfileSkills

\* First the self-skill, then the rest.
LEMMA LaunchList ==
  ASSUME NEW j \in Jobs, j.do = "need-self", j.name = "self", IsJobOf(j, "launch"), NEW t, RestOfLaunch(t)
  PROVE  Starts(<<j>> \o t, "launch")
<1> PICK s : s = <<j>>
  OBVIOUS
<1>1. s \in Seq(Jobs) /\ Len(s) = 1 /\ s[1] = j /\ t \in Seq(Jobs) /\ DOMAIN s = {1}
  BY DEF RestOfLaunch
<1> PICK u : u = s \o t
  OBVIOUS
<1>2. /\ u \in Seq(Jobs) /\ Len(u) = 1 + Len(t) /\ DOMAIN u = 1..Len(u) /\ Len(t) \in Nat
      /\ \A i \in DOMAIN u : (i = 1 /\ u[i] = j) \/ (i # 1 /\ i - 1 \in DOMAIN t /\ u[i] = t[i - 1])
  BY <1>1, Appended
<1>3. ASSUME NEW i \in DOMAIN u
      PROVE  /\ IsJobOf(u[i], "launch") /\ u[i].do # "migrate" /\ Fresh(u[i], "launch")
             /\ (AtRoot(u[i]) => i = Len(u)) /\ (u[i].do = "need-self" => i = 1)
             /\ (u[i].name = "self" => i = 1)
  <2>1. CASE i = 1 /\ u[i] = j
    BY <2>1, <1>2 DEF AtRoot, Fresh
  <2>2. CASE i # 1 /\ i - 1 \in DOMAIN t /\ u[i] = t[i - 1]
    <3>1. /\ IsJobOf(u[i], "launch") /\ u[i].do \notin {"migrate", "need-self", "uninstall"} /\ u[i].name # "self"
          /\ AtRoot(u[i]) => i - 1 = Len(t)
      BY ONLY <2>2, RestOfLaunch(t) DEF RestOfLaunch
    <3> QED
      BY <3>1, <1>2 DEF Fresh
  <2> QED
    BY <1>2, <2>1, <2>2
<1> QED
  BY <1>2, <1>3 DEF Starts, ListOK, InOrder

\* One job for each harness, of a kind that may stand anywhere.
LEMMA EachStarts ==
  ASSUME NEW H \in SUBSET Harnesses
  PROVE  /\ Plain(Shared!Each("uninstall", H, "skill", "link", "none"), "uninstall")
         /\ Plain(Shared!Each("uninstall", H, "self", "link", "none"), "self-uninstall")
         /\ \A ref \in {"none", "skill", "self"} : Plain(Shared!Each("purge", H, ref, "link", "none"), "purge")
         /\ Plain(Shared!Each("legacy", H, "skill", "link", "none"), "doctor")
         /\ Plain(Shared!Each("fix-self", H, "self", "link", "none"), "doctor")
         /\ Plain(Shared!Each("refresh", H, "self", "link", "none"), "maintain")
<1>0. /\ {"uninstall", "purge", "legacy", "fix-self", "refresh"} \subseteq JobKinds
      /\ {"skill", "self", "none"} \subseteq Shared!Names \cup {"none"} /\ "link" \in Forms /\ "none" \in Shared!Scopes
  BY Values
<1>1. ASSUME NEW do \in {"uninstall", "purge", "legacy", "fix-self", "refresh"}, NEW n \in {"skill", "self", "none"},
             NEW kind, kind # "launch",
             do = "uninstall" => kind = "uninstall" \/ (kind = "self-uninstall" /\ n \in SelfNames),
             \A h \in H : IsJobOf(Shared!Job(do, h, n, "link", "none"), kind)
      PROVE  Plain(Shared!Each(do, H, n, "link", "none"), kind)
  <2>1. do \in JobKinds /\ n \in Shared!Names \cup {"none"} /\ do \notin {"materialize", "unselect", "need-self", "migrate"}
    BY <1>0
  <2> QED
    BY <1>0, <1>1, <2>1, EachPlain
<1>2. \A h \in H : /\ IsJobOf(Shared!Job("uninstall", h, "skill", "link", "none"), "uninstall")
                   /\ IsJobOf(Shared!Job("uninstall", h, "self", "link", "none"), "self-uninstall")
                   /\ IsJobOf(Shared!Job("legacy", h, "skill", "link", "none"), "doctor")
                   /\ IsJobOf(Shared!Job("fix-self", h, "self", "link", "none"), "doctor")
                   /\ IsJobOf(Shared!Job("refresh", h, "self", "link", "none"), "maintain")
  BY HarnessesAssumption DEF IsJobOf, Shared!Job, AtRoot, SelfNames, Shared!Names
<1>3. ASSUME NEW ref \in {"none", "skill", "self"}
      PROVE  \A h \in H : IsJobOf(Shared!Job("purge", h, ref, "link", "none"), "purge")
  BY HarnessesAssumption DEF IsJobOf, Shared!Job, AtRoot, SelfNames, Shared!Names
<1>4. ASSUME NEW ref \in {"none", "skill", "self"}
      PROVE  Plain(Shared!Each("purge", H, ref, "link", "none"), "purge")
  BY <1>1, <1>3
<1>5. "self" \in SelfNames /\ "self" \in {"skill", "self", "none"}
  BY DEF SelfNames
<1> QED
  BY <1>1, <1>2, <1>4, <1>5

\* What doctor begins with.
LEMMA DoctorStarts == Starts(Shared!DoctorSelf, "doctor") /\ Starts(Shared!DoctorDerived \o Shared!DoctorSelf, "doctor")
<1>1. Harnesses \in SUBSET Harnesses /\ Native \in SUBSET Harnesses /\ "link" \in Forms
  BY HarnessesAssumption, Values
<1>2. Plain(Shared!DoctorSelf, "doctor") /\ Plain(Shared!LegacyRemoval, "doctor")
  <2>1. Plain(Shared!DoctorSelf, "doctor") /\ Plain(Shared!Each("legacy", Native, "skill", "link", "none"), "doctor")
    BY <1>1, EachStarts DEF Shared!DoctorSelf
  <2>2. Plain(Shared!OtherSkills(Native), "doctor")
    BY <1>1, OthersPlain
  <2> QED
    BY <2>1, <2>2, PlainConcat DEF Shared!LegacyRemoval
<1>3. Plain(Shared!Derived, "doctor")
  BY <1>1, CompatiblePlain DEF Shared!Derived
<1>4. Plain(Shared!DoctorDerived, "doctor")
  BY <1>2, <1>3, PlainConcat DEF Shared!DoctorDerived
<1>5. Plain(Shared!DoctorDerived \o Shared!DoctorSelf, "doctor")
  BY <1>2, <1>4, PlainConcat
<1> QED
  BY <1>2, <1>5, PlainStarts

\* What the start of a command maintains.
LEMMA MaintainStarts == Starts(Shared!Maintain, "maintain")
<1>1. PICK H \in SUBSET Harnesses : H = {h \in Harnesses : entry[h]["old"] # Shared!None}
  OBVIOUS
<1>2. PICK G \in SUBSET Harnesses : G = {h \in Harnesses : entry[h]["self"] # Shared!None}
  OBVIOUS
<1>3. "migrate" \in JobKinds /\ "old" \in Shared!Names \cup {"none"} /\ "link" \in Forms /\ "none" \in Shared!Scopes
  BY Values
<1>4. Shared!Each("migrate", H, "old", "link", "none") \in Seq(Jobs)
  BY ONLY <1>1, <1>3, EachIs
<1>5. \A i \in DOMAIN Shared!Each("migrate", H, "old", "link", "none") :
        \E h \in H : Shared!Each("migrate", H, "old", "link", "none")[i] = Shared!Job("migrate", h, "old", "link", "none")
  BY ONLY <1>1, <1>3, EachIs
<1>6. PICK s : s = Shared!Each("migrate", H, "old", "link", "none")
  OBVIOUS
<1>7. \A h \in H : /\ IsJobOf(Shared!Job("migrate", h, "old", "link", "none"), "maintain")
                   /\ Shared!Job("migrate", h, "old", "link", "none").do = "migrate"
  BY HarnessesAssumption DEF IsJobOf, Shared!Job, AtRoot, SelfNames, Shared!Names
<1>8. s \in Seq(Jobs) /\ \A i \in DOMAIN s : IsJobOf(s[i], "maintain") /\ s[i].do = "migrate"
  BY ONLY <1>4, <1>5, <1>6, <1>7
<1>9. Starts(s, "maintain")
  BY ONLY <1>8 DEF Starts, ListOK, InOrder, AtRoot, Fresh
<1>10. Starts(Shared!Each("refresh", G, "self", "link", "none"), "maintain")
  BY EachStarts, PlainStarts
<1>11. Starts(s \o Shared!Each("refresh", G, "self", "link", "none"), "maintain")
  BY <1>9, <1>10, StartsConcat
<1> QED
  BY <1>1, <1>2, <1>6, <1>11 DEF Shared!Maintain

\* What a launch begins with.
LEMMA LaunchStarts == \A h \in Harnesses : \A profile : Starts(Shared!Launch(h, profile), "launch")
<1> SUFFICES ASSUME NEW h \in Harnesses, NEW profile PROVE Starts(Shared!Launch(h, profile), "launch")
  OBVIOUS
<1>0. PICK j : j = Shared!Job("need-self", h, "self", "link", "none")
  OBVIOUS
<1>1. j \in Jobs /\ j.do = "need-self" /\ j.name = "self" /\ j.place = h
  BY <1>0, Values DEF Shared!Job, Jobs, Shared!Places
<1>2. IsJobOf(j, "launch")
  BY <1>1, HarnessesAssumption DEF IsJobOf, AtRoot
<1>3. ASSUME h \notin Native PROVE RestOfLaunch(Shared!SkillSync({h}, "link", "compat"))
  <2>1. {h} \in SUBSET Harnesses /\ {h} \cap Native = {} /\ "link" \in Forms
    BY <1>3, Values
  <2>2. Plain(Shared!SkillSync({h}, "link", "compat"), "launch")
    BY <2>1, SkillSyncPlain
  <2> QED
    BY ONLY <2>2 DEF Plain, Loose, Fresh, RestOfLaunch
<1>4. RestOfLaunch(Shared!ProfileSkills(profile))
  BY ProfileIsRest
<1>5. RestOfLaunch(IF h \notin Native THEN Shared!SkillSync({h}, "link", "compat") ELSE Shared!ProfileSkills(profile))
  BY <1>3, <1>4
<1>6. PICK t : t = IF h \notin Native THEN Shared!SkillSync({h}, "link", "compat") ELSE Shared!ProfileSkills(profile)
  OBVIOUS
<1>7. Starts(<<j>> \o t, "launch")
  BY <1>1, <1>2, <1>5, <1>6, LaunchList
<1> QED
  BY <1>0, <1>6, <1>7 DEF Shared!Launch

\* Every list a command begins with.
LEMMA AllStart ==
  /\ \A H \in SUBSET Harnesses, as \in Forms :
       /\ Starts(Shared!Installs(H, as, "manual"), "install") /\ Starts(Shared!Installs(H, as, "manual"), "sync")
       /\ Starts(Shared!SkillSync(H, as, "manual"), "sync")
       /\ Starts(Shared!SelfInstall(H, as), "self-install") /\ Starts(Shared!Setup(H, as), "setup")
  /\ \A H \in SUBSET Harnesses :
       /\ Starts(Shared!Uninstalls(H), "uninstall") /\ Starts(Shared!SelfUninstall(H), "self-uninstall")
       /\ \A ref \in {"none", "skill", "self"} : Starts(Shared!Purge(H, ref), "purge")
  /\ Starts(Shared!Derived, "setup")
<1>1. ASSUME NEW H \in SUBSET Harnesses, NEW as \in Forms
      PROVE  /\ Starts(Shared!Installs(H, as, "manual"), "install") /\ Starts(Shared!Installs(H, as, "manual"), "sync")
             /\ Starts(Shared!SkillSync(H, as, "manual"), "sync")
             /\ Starts(Shared!SelfInstall(H, as), "self-install") /\ Starts(Shared!Setup(H, as), "setup")
  <2>1. Plain(Shared!Installs(H, as, "manual"), "install") /\ Plain(Shared!Installs(H, as, "manual"), "sync")
    BY InstallsPlain
  <2>2. Plain(Shared!SkillSync(H, as, "manual"), "sync")
    BY SkillSyncPlain
  <2>3. Starts(Shared!SelfInstall(H, as), "self-install") /\ Starts(Shared!SelfInstall(H, as), "setup")
    <3>1. ASSUME NEW kind \in {"self-install", "setup"} PROVE Starts(Shared!SelfInstall(H, as), kind)
      BY SelfInstallStarts
    <3> QED
      BY ONLY <3>1
  <2>4. Starts(Shared!Compatible(H, as), "setup")
    <3>1. ASSUME NEW kind \in {"setup"} PROVE Plain(Shared!Compatible(H, as), kind)
      BY CompatiblePlain
    <3>2. Plain(Shared!Compatible(H, as), "setup")
      BY ONLY <3>1
    <3> QED
      BY <3>2, PlainStarts
  <2>5. Starts(Shared!Setup(H, as), "setup")
    BY <2>3, <2>4, StartsConcat DEF Shared!Setup
  <2> QED
    BY <2>1, <2>2, <2>3, <2>5, PlainStarts
<1>2. ASSUME NEW H \in SUBSET Harnesses
      PROVE  Starts(Shared!Uninstalls(H), "uninstall") /\ Starts(Shared!SelfUninstall(H), "self-uninstall")
  <2>1. Plain(Shared!Uninstalls(H), "uninstall") /\ Plain(Shared!SelfUninstall(H), "self-uninstall")
    <3>1. Plain(Shared!OtherSkills(H), "uninstall")
      BY OthersPlain
    <3>2. Plain(Shared!Each("uninstall", H, "skill", "link", "none") \o Shared!OtherSkills(H), "uninstall")
      BY <3>1, EachStarts, PlainConcat
    <3>3. Plain(<<>> \o Shared!OtherSkills(H), "uninstall")
      BY <3>1, NoneIsPlain, PlainConcat
    <3>4. Plain(Shared!SelfUninstall(H), "self-uninstall")
      BY EachStarts DEF Shared!SelfUninstall
    <3> QED
      BY <3>2, <3>3, <3>4 DEF Shared!Uninstalls
  <2> QED
    BY <2>1, PlainStarts
<1>3. ASSUME NEW H \in SUBSET Harnesses, NEW ref \in {"none", "skill", "self"}
      PROVE  Starts(Shared!Purge(H, ref), "purge")
  <2>1. Plain(Shared!Each("purge", H, ref, "link", "none"), "purge") /\ Plain(Shared!OtherSkills(H), "purge")
    BY EachStarts, OthersPlain
  <2> QED
    BY <2>1, PlainConcat, PlainStarts DEF Shared!Purge
<1>4. Starts(Shared!Derived, "setup")
  <2>1. Harnesses \in SUBSET Harnesses /\ "link" \in Forms
    BY Values
  <2> QED
    BY <2>1, CompatiblePlain, PlainStarts DEF Shared!Derived
<1> QED
  BY <1>1, <1>2, <1>3, <1>4

-----------------------------------------------------------------------------
(* The first job and those after it *)

\* What is known of the job in hand.
LEMMA FirstJob ==
  ASSUME SkillsInv, jobs # <<>>
  PROVE  /\ Shared!job \in Jobs /\ IsJobOf(Shared!job, skillCmd.kind) /\ UninstallOK(Shared!job, skillCmd.kind)
         /\ Shared!job.place \in Shared!Places /\ (~AtRoot(Shared!job) => Shared!job.place \in Harnesses)
         /\ Shared!job.do = "need-self" => skillCmd.kind = "launch"
<1>1. jobs \in Seq(Jobs) /\ (\A i \in DOMAIN jobs : IsJobOf(jobs[i], skillCmd.kind) /\ UninstallOK(jobs[i], skillCmd.kind))
      /\ \A i \in DOMAIN jobs : jobs[i].do = "need-self" => skillCmd.kind = "launch"
  BY DEF SkillsInv, ListOK, InOrder, UninstallsOK
<1>2. Shared!job = jobs[1] /\ 1 \in DOMAIN jobs /\ jobs[1] \in Jobs
  BY <1>1, Rest DEF Shared!job
<1>3. Shared!job \in Jobs /\ IsJobOf(Shared!job, skillCmd.kind) /\ UninstallOK(Shared!job, skillCmd.kind) /\ (Shared!job.do = "need-self" => skillCmd.kind = "launch")
  BY <1>1, <1>2
<1>4. Shared!job.place \in Shared!Places
  BY <1>3 DEF Jobs
<1> QED
  BY <1>3, <1>4 DEF IsJobOf, Shared!Places

\* The rest of a command's list is one.
LEMMA RestOK ==
  ASSUME SkillsInv, jobs # <<>>, NEW t, t = Tail(jobs)
  PROVE  /\ ListOK(t, skillCmd.kind)
         /\ \A i \in DOMAIN t : t[i].do # "need-self" /\ UninstallOK(t[i], skillCmd.kind)
         /\ \A i \in DOMAIN jobs : jobs[i] = Shared!job \/ \E k \in DOMAIN t : t[k] = jobs[i]
         /\ Shared!job.do = "migrate" /\ skillCmd.kind # "maintain" => \E k \in DOMAIN t : InstallsSelf(t[k], Shared!job.place)
         /\ AtRoot(Shared!job) => t = <<>>
         /\ skillCmd.kind = "launch" /\ Shared!job.name = "self" =>
              \A i \in DOMAIN jobs : jobs[i].name = "self" => jobs[i].place = Shared!job.place
<1>1. jobs \in Seq(Jobs) /\ InOrder(jobs, skillCmd.kind)
      /\ \A i \in DOMAIN jobs : IsJobOf(jobs[i], skillCmd.kind) /\ UninstallOK(jobs[i], skillCmd.kind)
  BY DEF SkillsInv, ListOK, UninstallsOK
<1>2. /\ Shared!job = jobs[1] /\ 1 \in DOMAIN jobs /\ DOMAIN jobs = 1..Len(jobs) /\ Len(jobs) \in Nat
      /\ t \in Seq(Jobs) /\ Len(t) = Len(jobs) - 1 /\ DOMAIN t = 1..(Len(jobs) - 1)
      /\ \A i \in DOMAIN t : i + 1 \in DOMAIN jobs /\ t[i] = jobs[i + 1]
      /\ \A i \in DOMAIN jobs : i = 1 \/ (i - 1 \in DOMAIN t /\ t[i - 1] = jobs[i])
  BY <1>1, Rest DEF Shared!job
<1>3. \A i \in DOMAIN jobs : jobs[i] = Shared!job \/ \E k \in DOMAIN t : t[k] = jobs[i]
  BY ONLY <1>2
<1>4. ASSUME NEW i \in DOMAIN t
      PROVE  /\ IsJobOf(t[i], skillCmd.kind) /\ UninstallOK(t[i], skillCmd.kind)
             /\ AtRoot(t[i]) => i = Len(t)
             /\ t[i].do # "need-self"
  <2>1. i + 1 \in DOMAIN jobs /\ t[i] = jobs[i + 1] /\ i + 1 # 1 /\ i \in Nat
    BY ONLY <1>2, i \in DOMAIN t
  <2>2. /\ AtRoot(jobs[i + 1]) => i + 1 = Len(jobs)
        /\ jobs[i + 1].do = "need-self" => i + 1 = 1
    BY ONLY <1>1, <2>1 DEF InOrder
  <2> QED
    BY <1>1, <1>2, <2>1, <2>2
<1>5. ASSUME NEW i \in DOMAIN jobs, jobs[i].do = "migrate", skillCmd.kind # "maintain"
      PROVE  \E k \in DOMAIN t : k > i - 1 /\ InstallsSelf(t[k], jobs[i].place)
  <2>1. PICK k \in DOMAIN jobs : k > i /\ InstallsSelf(jobs[k], jobs[i].place)
    BY ONLY <1>1, <1>5 DEF InOrder
  <2>2. k - 1 \in DOMAIN t /\ t[k - 1] = jobs[k] /\ k - 1 > i - 1
    BY ONLY <1>2, <2>1, i \in DOMAIN jobs
  <2> QED
    BY <2>1, <2>2
<1>6. ASSUME NEW i \in DOMAIN t, t[i].do = "migrate", skillCmd.kind # "maintain"
      PROVE  \E k \in DOMAIN t : k > i /\ InstallsSelf(t[k], t[i].place)
  <2>1. i + 1 \in DOMAIN jobs /\ t[i] = jobs[i + 1] /\ i + 1 - 1 = i
    BY ONLY <1>2, i \in DOMAIN t
  <2> QED
    BY <1>5, <1>6, <2>1
<1>7. skillCmd.kind = "launch" => \A i, k \in DOMAIN t : t[i].name = "self" /\ t[k].name = "self" => t[k].place = t[i].place
  BY ONLY <1>1, <1>2 DEF InOrder
<1>8. ListOK(t, skillCmd.kind)
  BY <1>2, <1>4, <1>6, <1>7 DEF ListOK, InOrder
<1>9. Shared!job.do = "migrate" /\ skillCmd.kind # "maintain" => \E k \in DOMAIN t : InstallsSelf(t[k], Shared!job.place)
  BY <1>2, <1>5
<1>10. AtRoot(Shared!job) => t = <<>>
  <2>1. AtRoot(Shared!job) => 1 = Len(jobs)
    BY ONLY <1>1, <1>2 DEF InOrder
  <2> QED
    BY <1>2, <2>1
<1>11. skillCmd.kind = "launch" /\ Shared!job.name = "self" => \A i \in DOMAIN jobs : jobs[i].name = "self" => jobs[i].place = Shared!job.place
  BY ONLY <1>1, <1>2 DEF InOrder
<1> QED
  BY <1>3, <1>4, <1>8, <1>9, <1>10, <1>11

-----------------------------------------------------------------------------
(* What a step changes *)

Entries == [kind : {"none", "own", "link", "bare", "copy"}, scope : Shared!Scopes]

\* An entry that is written, and no other.
LEMMA EntryIsWritten ==
  ASSUME Shared!TypeOK, NEW p \in Shared!Places, NEW n \in Shared!Names, NEW e \in Entries, entry' = [entry EXCEPT ![p][n] = e]
  PROVE  /\ entry' \in [Shared!Places -> [Shared!Names -> Entries]] /\ entry'[p][n] = e
         /\ \A q \in Shared!Places, m \in Shared!Names : q # p \/ m # n => entry'[q][m] = entry[q][m]
BY DEF Shared!TypeOK, Entries

\* The entries that are written.
LEMMA EntryValues ==
  /\ {Shared!None, Shared!Own, Shared!Link, Shared!Bare} \subseteq Entries /\ \A scope \in Shared!Scopes : Shared!Entry("copy", scope) \in Entries
  /\ ~Shared!Managed(Shared!None) /\ ~Shared!Managed(Shared!Own) /\ ~Shared!Managed(Shared!Bare) /\ Shared!Managed(Shared!Link) /\ \A scope : Shared!Managed(Shared!Entry("copy", scope))
  /\ Shared!None # Shared!Own /\ Shared!Bare # Shared!Own /\ Shared!None # Shared!Bare
BY DEF Entries, Shared!None, Shared!Own, Shared!Link, Shared!Bare, Shared!Entry, Shared!Managed, Shared!Scopes

\* A manual install is not disturbed by what is written elsewhere.
LEMMA MineStays ==
  ASSUME SkillsInv, mine' \subseteq mine,
         \A h \in Harnesses : <<h, "skill">> \in mine' => entry'[h]["skill"] = entry[h]["skill"] /\ index'[h] = index[h]
  PROVE  MineOK' /\ mine' \subseteq Shared!Places \X Shared!Names
<1>1. ASSUME NEW s \in mine'
      PROVE  s[1] \in Harnesses /\ s[2] = "skill" /\ Shared!Managed(entry'[s[1]]["skill"]) /\ Shared!Scope(s[1])' = "manual"
  <2>1. s \in mine /\ s[1] \in Harnesses /\ s[2] = "skill" /\ Shared!Managed(entry[s[1]]["skill"]) /\ Shared!Scope(s[1]) = "manual"
    BY <1>1 DEF SkillsInv, MineOK
  <2>2. s = <<s[1], "skill">>
    <3>1. mine \subseteq Shared!Places \X Shared!Names
      BY DEF SkillsInv, Shared!TypeOK
    <3> QED
      BY ONLY <2>1, <3>1
  <2>3. entry'[s[1]]["skill"] = entry[s[1]]["skill"] /\ index'[s[1]] = index[s[1]]
    BY <2>1, <2>2
  <2> QED
    BY <2>1, <2>3 DEF Shared!Scope
<1>2. mine' \subseteq Shared!Places \X Shared!Names
  BY DEF SkillsInv, Shared!TypeOK
<1> QED
  BY <1>1, <1>2 DEF MineOK

\* A manual install is managed.
LEMMA MineManaged ==
  ASSUME SkillsInv, NEW p, NEW n, <<p, n>> \in mine
  PROVE  p \in Harnesses /\ n = "skill" /\ Shared!Managed(entry[p][n])
BY DEF SkillsInv, MineOK

\* A step that leaves a job, for a list t of what is still to do.
LEMMA Continued ==
  ASSUME SkillsInv, jobs # <<>>, NEW t, Shared!Continue(t), ListOK(t, skillCmd.kind),
         NEW kind, kind = skillCmd.kind,
         \A i \in DOMAIN t : t[i].do # "need-self" /\ UninstallOK(t[i], kind)',
         entry' \in [Shared!Places -> [Shared!Names -> Entries]], index' \in [Harnesses -> Shared!Scopes], declared' = declared,
         mine' \subseteq Shared!Places \X Shared!Names, MineOK',
         kind # "self-uninstall" => \A h \in had : SelfStays(t, h)'
  PROVE  SkillsInv' /\ EndsWell
<1>1. skillAt' = "none" /\ jobs' = t /\ had' \in {had, {}}
  BY DEF Shared!Continue
<1>2. t \in Seq(Jobs) /\ \A i \in DOMAIN t : t[i] \in Jobs
  BY DEF ListOK
<1>3. Shared!TypeOK'
  <2>1. \A i \in DOMAIN t : t[i].place \in Shared!Places /\ t[i].name \in Shared!Names \cup {"none"}
    BY <1>2 DEF Jobs
  <2> QED
    BY <1>1, <2>1 DEF SkillsInv, Shared!TypeOK, Entries
<1>4. EndsWell
  BY <1>1 DEF EndsWell, SelfStays
<1>5. CASE t = <<>>
  <2>1. jobs' = <<>> /\ skillCmd'.kind = "none"
    BY <1>5 DEF Shared!Continue, Shared!NoCommand
  <2>2. ListOK(jobs', skillCmd'.kind)
    BY <2>1 DEF ListOK, InOrder
  <2>3. UninstallsOK' /\ StepOK' /\ SelfKept'
    BY <1>1, <2>1 DEF UninstallsOK, StepOK, SelfKept
  <2> QED
    BY <1>3, <1>4, <2>1, <2>2, <2>3 DEF SkillsInv
<1>6. CASE t # <<>>
  <2>1. jobs' = t /\ skillCmd' = skillCmd /\ had' = had
    BY <1>6 DEF Shared!Continue
  <2>2. UninstallsOK'
    BY <2>1 DEF UninstallsOK
  <2>3. StepOK'
    BY <1>1, <1>6 DEF StepOK
  <2>4. Shared!job'.do # "need-self"
    <3>1. Head(t) = t[1] /\ 1 \in DOMAIN t
      BY <1>2, <1>6, Rest
    <3> QED
      BY <2>1, <3>1 DEF Shared!job
  <2>5. SelfKept'
    BY <2>1, <2>4 DEF SelfKept, KeptSelf
  <2> QED
    BY <1>3, <1>4, <2>1, <2>2, <2>3, <2>5 DEF SkillsInv
<1> QED
  BY <1>5, <1>6

\* A step that stays in a job.
LEMMA Stayed ==
  ASSUME SkillsInv, jobs # <<>>, Shared!job.do # "need-self", NEW step \in {"place", "mark", "index", "unindex", "replace"}, Shared!At(step),
         NEW kind, kind = skillCmd.kind, \A i \in DOMAIN jobs : UninstallOK(jobs[i], kind)',
         entry' \in [Shared!Places -> [Shared!Names -> Entries]], index' \in [Harnesses -> Shared!Scopes], declared' = declared,
         mine' \subseteq Shared!Places \X Shared!Names, MineOK', StepOK',
         kind # "self-uninstall" => \A h \in had : KeptSelf(h)'
  PROVE  SkillsInv' /\ EndsWell
<1>1. skillAt' = step /\ jobs' = jobs /\ skillCmd' = skillCmd /\ had' = had /\ Shared!job' = Shared!job
  BY DEF Shared!At, Shared!job
<1>2. Shared!TypeOK'
  BY <1>1 DEF SkillsInv, Shared!TypeOK, Entries
<1>3. UninstallsOK' /\ SelfKept' /\ EndsWell
  BY <1>1 DEF UninstallsOK, SelfKept, EndsWell
<1> QED
  BY <1>1, <1>2, <1>3 DEF SkillsInv

\* What is promised stays so where the self-skill's entry is the same.
LEMMA KeptStays ==
  ASSUME NEW t, NEW h, SelfStays(t, h), t # <<>> => skillCmd' = skillCmd,
         entry'[h]["self"] = entry[h]["self"], Shared!HasSelf(h) => Shared!HasSelf(h)'
  PROVE  SelfStays(t, h)'
<1>1. CASE Shared!HasSelf(h)
  BY <1>1 DEF SelfStays
<1>2. CASE t = <<>>
  BY <1>2 DEF SelfStays
<1>3. ASSUME t # <<>>, NEW i \in DOMAIN t, Promise(t[i], h) PROVE SelfStays(t, h)'
  <2>1. Promise(t[i], h)'
    BY <1>3 DEF Promise
  <2> QED
    BY <2>1 DEF SelfStays
<1> QED
  BY <1>1, <1>2, <1>3 DEF SelfStays

\* Before a command's first job is begun, the others promise what is not there.
LEMMA KeptByRest ==
  ASSUME SkillsInv, jobs # <<>>, NEW h, skillAt \notin {"place", "mark"} \/ ~InstallsSelf(Shared!job, h),
         ~Promise(Shared!job, h) \/ Shared!HasSelf(h), KeptSelf(h), NEW t, t = Tail(jobs)
  PROVE  SelfStays(t, h)
<1>1. CASE Shared!HasSelf(h)
  BY <1>1 DEF SelfStays
<1>2. ASSUME ~Shared!HasSelf(h) PROVE SelfStays(t, h)
  <2>1. PICK i \in DOMAIN jobs : Promise(jobs[i], h)
    BY <1>2 DEF KeptSelf, SelfStays, InstallsSelf
  <2>2. PICK k \in DOMAIN t : t[k] = jobs[i]
    BY <1>2, <2>1, RestOK
  <2> QED
    BY <2>1, <2>2 DEF SelfStays
<1> QED
  BY <1>1, <1>2

\* A step that takes an entry away, or writes one where nothing was taken.
LEMMA TakesHere ==
  ASSUME SkillsInv, jobs # <<>>, Shared!job.name \in Shared!Names, NEW e \in Entries, Shared!SetHere(e),
         Shared!Here = Shared!Own => skillCmd.force \/ (Shared!job.place = Root /\ (skillCmd.answer = "replace" \/ skillAt = "made since")),
         Shared!Slot \in mine /\ Shared!job.place \in Native => skillCmd.kind \in AboutSkills
  PROVE  TakesOnly
<1>1. Shared!job.place \in Shared!Places
  BY FirstJob
<1>2. \A q \in Shared!Places, m \in Shared!Names : q # Shared!job.place \/ m # Shared!job.name => entry'[q][m] = entry[q][m]
  BY <1>1, EntryIsWritten DEF Shared!SetHere, SkillsInv
<1> QED
  BY <1>2 DEF TakesOnly, Shared!Here, Shared!Slot

\* Nothing is taken where no entry is written.
LEMMA TakesNone == entry' = entry => TakesOnly
BY DEF TakesOnly

\* What the job in hand is about.
LEMMA FirstJobFits ==
  ASSUME SkillsInv, jobs # <<>>
  PROVE  /\ Shared!job.do = "install" =>
              /\ Shared!job.place \in Harnesses /\ Shared!job.name \in {"skill", "self"} /\ (Shared!job.name = "self" <=> Shared!job.scope = "none")
              /\ Shared!job.name = "skill" => /\ Shared!job.scope \in {"manual", "compat"}
                                              /\ Shared!job.scope = "manual" \/ Shared!job.place \in Native => skillCmd.kind \in {"install", "sync"}
         /\ Shared!job.do \in {"materialize", "unselect"} =>
              /\ Shared!job.place = Root /\ Shared!job.place \notin Harnesses /\ Shared!job.name = "skill" /\ Shared!job.scope = "launch"
              /\ Shared!job.as = "copy" /\ skillCmd.kind = "launch"
         /\ Shared!job.do \in {"migrate", "refresh", "fix-self", "need-self", "uninstall", "prune", "purge", "legacy"} =>
              Shared!job.place \in Harnesses
         /\ Shared!job.do = "migrate" => Shared!job.name = "old"
         /\ Shared!job.do \in {"refresh", "fix-self", "need-self"} => Shared!job.name = "self"
         /\ Shared!job.do = "refresh" => skillCmd.kind = "maintain"
         /\ Shared!job.do = "uninstall" => Shared!job.name \in Shared!Names
         /\ Shared!job.do = "prune" /\ Shared!job.place \in Native => skillCmd.kind = "sync"
         /\ Shared!job.do = "purge" <=> skillCmd.kind = "purge" /\ Shared!job.do \notin {"uninstall", "reindex"}
<1>1. /\ Shared!job \in Jobs /\ IsJobOf(Shared!job, skillCmd.kind) /\ Shared!job.place \in Shared!Places /\ (~AtRoot(Shared!job) => Shared!job.place \in Harnesses)
  BY FirstJob
<1> QED
  BY ONLY <1>1, HarnessesAssumption DEF IsJobOf, AtRoot

\* What is uninstalled without being asked for stays no manual install and no
\* self-skill, where neither comes in, or no purge has named it.
LEMMA UninstallsStay ==
  ASSUME SkillsInv, jobs # <<>>, NEW kind, kind = skillCmd.kind,
         NEW s, \A i \in DOMAIN s : IsJobOf(s[i], kind) /\ UninstallOK(s[i], kind),
         \/ Shared!job.do \notin {"purge", "uninstall", "reindex"}
         \/ \A q, m : Shared!Managed(entry'[q][m]) => Shared!Managed(entry[q][m]),
         \A q \in Native : \A m : <<q, m>> \in mine' => <<q, m>> \in mine \/ kind \in AboutSkills
  PROVE  \A i \in DOMAIN s : UninstallOK(s[i], kind)'
<1> SUFFICES ASSUME NEW i \in DOMAIN s, s[i].do = "uninstall"
             PROVE  /\ s[i].place \in Native /\ kind \notin AboutSkills => <<s[i].place, s[i].name>> \notin mine'
                    /\ s[i].name \in SelfNames /\ kind # "self-uninstall" => ~Shared!Managed(entry'[s[i].place][s[i].name])
  BY DEF UninstallOK
<1>1. /\ s[i].place \in Native /\ kind \notin AboutSkills => <<s[i].place, s[i].name>> \notin mine
      /\ s[i].name \in SelfNames /\ kind # "self-uninstall" => ~Shared!Managed(entry[s[i].place][s[i].name])
  BY DEF UninstallOK
<1>2. s[i].name \in SelfNames => kind \in {"purge", "self-uninstall"}
  BY DEF IsJobOf
<1>3. kind = "purge" => Shared!job.do \in {"purge", "uninstall", "reindex"}
  BY FirstJob DEF IsJobOf
<1> QED
  BY <1>1, <1>2, <1>3

\* A list of the command fits it.
LEMMA ListFits ==
  ASSUME SkillsInv, jobs # <<>>, NEW t, t = Tail(jobs)
  PROVE  /\ \A i \in DOMAIN jobs : IsJobOf(jobs[i], skillCmd.kind) /\ UninstallOK(jobs[i], skillCmd.kind)
         /\ \A i \in DOMAIN t : IsJobOf(t[i], skillCmd.kind) /\ UninstallOK(t[i], skillCmd.kind)
BY RestOK DEF SkillsInv, ListOK, UninstallsOK

-----------------------------------------------------------------------------
(* Entries and their marks *)

\* An entry is written where there is none, or one without its marker.
LEMMA WrittenKeeps ==
  ASSUME SkillsInv, jobs # <<>>, NEW e \in Entries, Shared!SetHere(e), mine' = mine, UNCHANGED <<index, declared>>,
         Shared!job.do \in {"install", "materialize"}, ~Shared!Managed(Shared!Here), Shared!Here # Shared!Own,
         \/ Shared!At("mark") /\ e = Shared!Bare
         \/ Shared!At("index") /\ Shared!job.do = "install" /\ Shared!job.scope # "none" /\ e \in {Shared!Link, Shared!Entry("copy", Shared!job.scope)}
         \/ Shared!Done /\ ((Shared!job.scope = "none" /\ Shared!Managed(e)) \/ Shared!job.place = Root)
  PROVE  KeepsAll
<1>1. Shared!SetHere(e) /\ e \in Entries /\ mine' = mine
  OBVIOUS
<1>2. /\ Shared!job.name \in {"skill", "self"} /\ Shared!job.name \in Shared!Names /\ Shared!job.do # "need-self" /\ Shared!job.place \in Shared!Places
      /\ Shared!job.name = "self" => Shared!job.do = "install" /\ Shared!job.scope = "none"
      /\ Shared!job.do = "materialize" => Shared!job.scope = "launch" /\ Shared!job.place = Root
      /\ Shared!job.scope # "none" => Shared!job.name = "skill"
  BY FirstJobFits, FirstJob DEF Shared!Names
<1>3. /\ entry' \in [Shared!Places -> [Shared!Names -> Entries]] /\ entry'[Shared!job.place][Shared!job.name] = e
      /\ \A q \in Shared!Places, m \in Shared!Names : q # Shared!job.place \/ m # Shared!job.name => entry'[q][m] = entry[q][m]
  <2>1. Shared!TypeOK /\ entry' = [entry EXCEPT ![Shared!job.place][Shared!job.name] = e]
    BY <1>1 DEF Shared!SetHere, SkillsInv
  <2> QED
    BY ONLY <1>1, <1>2, <2>1, EntryIsWritten
<1>4. Shared!Slot \notin mine /\ ~Shared!Managed(Shared!Here)
  BY MineManaged DEF Shared!Slot, Shared!Here
<1>5. MineOK' /\ mine' \subseteq Shared!Places \X Shared!Names
  <2>1. ASSUME NEW h \in Harnesses, <<h, "skill">> \in mine'
        PROVE  entry'[h]["skill"] = entry[h]["skill"] /\ index'[h] = index[h]
    <3>1. h # Shared!job.place \/ "skill" # Shared!job.name
      BY <1>1, <1>4, <2>1 DEF Shared!Slot
    <3>2. h \in Shared!Places /\ "skill" \in Shared!Names
      BY DEF Shared!Places, Shared!Names
    <3> QED
      BY <1>3, <3>1, <3>2
  <2> QED
    BY <1>1, <2>1, MineStays
<1>6. PICK kind : kind = skillCmd.kind
  OBVIOUS
<1>7. PICK t : t = Tail(jobs)
  OBVIOUS
<1>8. PICK s : s = jobs
  OBVIOUS
<1>9. (\A i \in DOMAIN s : UninstallOK(s[i], kind)') /\ \A i \in DOMAIN t : UninstallOK(t[i], kind)'
  <2>1. Shared!job.do \notin {"purge", "uninstall", "reindex"} /\ \A q \in Native : \A m : <<q, m>> \in mine' => <<q, m>> \in mine
    BY <1>1
  <2>2. /\ \A i \in DOMAIN s : IsJobOf(s[i], kind) /\ UninstallOK(s[i], kind)
        /\ \A i \in DOMAIN t : IsJobOf(t[i], kind) /\ UninstallOK(t[i], kind)
    BY <1>6, <1>7, <1>8, ListFits
  <2> QED
    BY <1>6, <2>1, <2>2, UninstallsStay
<1>10. TakesOnly
  BY <1>1, <1>2, <1>4, TakesHere, EntryValues
<1>11. index' \in [Harnesses -> Shared!Scopes] /\ declared' = declared /\ "self" \in Shared!Names /\ "old" \in Shared!Names
  BY DEF SkillsInv, Shared!TypeOK, Shared!Names
<1>12. ASSUME NEW h \in had, ~InstallsSelf(Shared!job, h)
       PROVE  entry'[h]["self"] = entry[h]["self"] /\ (Shared!HasSelf(h) => Shared!HasSelf(h)')
  <2>1. h \in Shared!Places /\ (h # Shared!job.place \/ "self" # Shared!job.name)
    BY <1>2, <1>12 DEF SkillsInv, Shared!TypeOK, Shared!Places, InstallsSelf
  <2>2. entry'[h]["self"] = entry[h]["self"]
    BY <1>3, <1>11, <2>1
  <2>3. ASSUME NEW n \in {"self", "old"}, Shared!Managed(entry[h][n]) PROVE Shared!Managed(entry'[h][n])
    <3>1. h # Shared!job.place \/ n # Shared!job.name
      BY <1>4, <2>3 DEF Shared!Here
    <3>2. n \in Shared!Names
      BY <1>11
    <3> QED
      BY <1>3, <2>1, <2>3, <3>1, <3>2
  <2> QED
    BY <2>2, <2>3 DEF Shared!HasSelf
<1>13. kind # "self-uninstall" => \A h \in had : KeptSelf(h)
  BY <1>6 DEF SkillsInv, SelfKept
<1>14. ASSUME NEW step \in {"mark", "index"}, Shared!At(step), step = "mark" => e = Shared!Bare,
              step = "index" => Shared!job.do = "install" /\ Shared!job.scope # "none" /\ e \in {Shared!Link, Shared!Entry("copy", Shared!job.scope)}
       PROVE  KeepsAll
  <2>1. Shared!job' = Shared!job /\ Shared!Slot' = Shared!Slot /\ Shared!Here' = e /\ skillAt' = step /\ jobs' = jobs /\ skillCmd' = skillCmd
    BY <1>3, <1>14 DEF Shared!At, Shared!job, Shared!Slot, Shared!Here
  <2>2. StepOK'
    <3>1. jobs' # <<>> /\ Shared!Slot' \notin mine' /\ skillAt' \in {"mark", "index"} /\ Shared!job'.do \in {"install", "materialize"}
      BY <1>1, <1>4, <2>1
    <3>2. skillAt' = "mark" => Shared!Here' = Shared!Bare
      BY <1>14, <2>1
    <3>3. skillAt' = "index" => Shared!job'.do = "install" /\ Shared!job'.name = "skill" /\ Shared!Here' \in {Shared!Link, Shared!Entry("copy", Shared!job'.scope)}
      BY <1>2, <1>14, <2>1
    <3> QED
      BY ONLY <3>1, <3>2, <3>3 DEF StepOK
  <2>3. ASSUME NEW h \in had, kind # "self-uninstall" PROVE KeptSelf(h)'
    <3>1. CASE InstallsSelf(Shared!job, h)
      <4>1. step = "mark"
        BY <1>2, <1>14, <3>1 DEF InstallsSelf
      <4> QED
        BY <2>1, <3>1, <4>1 DEF KeptSelf, InstallsSelf
    <3>2. CASE ~InstallsSelf(Shared!job, h)
      <4>1. SelfStays(s, h)
        BY <1>8, <1>13, <2>3, <3>2 DEF KeptSelf
      <4>2. SelfStays(s, h)'
        BY <1>12, <2>1, <3>2, <4>1, KeptStays
      <4> QED
        BY <1>8, <2>1, <4>2 DEF KeptSelf, SelfStays
    <3> QED
      BY <3>1, <3>2
  <2>4. \A i \in DOMAIN jobs : UninstallOK(jobs[i], kind)'
    BY <1>8, <1>9, <2>1 DEF UninstallOK
  <2>5. SkillsInv' /\ EndsWell
    BY <1>2, <1>3, <1>5, <1>6, <1>11, <1>14, <2>2, <2>3, <2>4, Stayed
  <2> QED
    BY <1>10, <2>5 DEF KeepsAll
<1>15. ASSUME Shared!Done, (Shared!job.scope = "none" /\ Shared!Managed(e)) \/ Shared!job.place = Root PROVE KeepsAll
  <2>2. ListOK(t, skillCmd.kind) /\ \A i \in DOMAIN t : t[i].do # "need-self"
    BY <1>7, RestOK
  <2>3. Shared!Continue(t)
    BY <1>7, <1>15 DEF Shared!Done
  <2>4. ASSUME NEW h \in had, kind # "self-uninstall" PROVE SelfStays(t, h)'
    <3>1. CASE InstallsSelf(Shared!job, h)
      <4>1. Shared!job.scope = "none" /\ Shared!Managed(e)
        BY <1>15, <3>1, FirstJobFits, HarnessesAssumption DEF InstallsSelf
      <4>2. entry'[h]["self"] = e
        BY <1>3, <3>1 DEF InstallsSelf
      <4> QED
        BY <4>1, <4>2 DEF SelfStays, Shared!HasSelf
    <3>2. CASE ~InstallsSelf(Shared!job, h)
      <4>1. SelfStays(t, h)
        BY <1>7, <1>13, <2>4, <3>2, KeptByRest DEF Promise
      <4>2. t # <<>> => skillCmd' = skillCmd
        BY <2>3 DEF Shared!Continue
      <4> QED
        BY <1>12, <3>2, <4>1, <4>2, KeptStays
    <3> QED
      BY <3>1, <3>2
  <2>5. SkillsInv' /\ EndsWell
    BY <1>3, <1>5, <1>6, <1>9, <1>11, <2>2, <2>3, <2>4, Continued
  <2> QED
    BY <1>10, <2>5 DEF KeepsAll
<1> QED
  BY <1>14, <1>15

\* A link, or a copy that is to be marked, is put where there is nothing.
LEMMA PutKeeps ==
  ASSUME SkillsInv, jobs # <<>>, Shared!Put, Shared!job.do \in {"install", "materialize"}, Shared!Here = Shared!None, UNCHANGED <<index, declared>>
  PROVE  KeepsAll
<1>1. PICK e : e = IF Shared!job.as = "link" THEN Shared!Link ELSE Shared!Bare
  OBVIOUS
<1>2. e \in Entries /\ Shared!SetHere(e) /\ mine' = mine /\ ~Shared!Managed(Shared!Here) /\ Shared!Here # Shared!Own
  BY <1>1, EntryValues DEF Shared!Put
<1>3. /\ Shared!job.as # "link" => Shared!At("mark") /\ e = Shared!Bare
      /\ Shared!job.as = "link" => e = Shared!Link /\ Shared!Managed(e) /\ IF Shared!job.scope # "none" THEN Shared!At("index") ELSE Shared!Done
  BY <1>1, EntryValues DEF Shared!Put
<1>4. Shared!job.as = "link" => Shared!job.do = "install"
  BY FirstJobFits
<1> QED
  BY <1>2, <1>3, <1>4, WrittenKeeps

\* The copy gets its marker.
LEMMA MarkKeeps == ASSUME SkillsInv, Shared!Mark PROVE KeepsAll
<1>1. jobs # <<>> /\ Shared!Here = Shared!Bare /\ Shared!job.do \in {"install", "materialize"}
  BY DEF Shared!Mark, SkillsInv, StepOK
<1>2. PICK e : e = Shared!Entry("copy", Shared!job.scope)
  OBVIOUS
<1>3. Shared!job.do = "materialize" => Shared!job.place = Root
  BY <1>1, FirstJobFits
<1>4. e \in Entries /\ Shared!Managed(e) /\ Shared!SetHere(e) /\ mine' = mine /\ ~Shared!Managed(Shared!Here) /\ Shared!Here # Shared!Own
  <2>1. Shared!job.scope \in Shared!Scopes
    BY <1>1, FirstJob DEF Jobs
  <2> QED
    BY <1>1, <1>2, <2>1, EntryValues DEF Shared!Mark
<1>5. /\ Shared!job.scope = "none" \/ Shared!job.place = Root => Shared!Done
      /\ ~(Shared!job.scope = "none" \/ Shared!job.place = Root) => Shared!At("index")
      /\ UNCHANGED <<index, declared>>
  BY DEF Shared!Mark
<1> QED
  <2>1. \/ Shared!At("index") /\ Shared!job.do = "install" /\ Shared!job.scope # "none" /\ e \in {Shared!Link, Shared!Entry("copy", Shared!job.scope)}
        \/ Shared!Done /\ ((Shared!job.scope = "none" /\ Shared!Managed(e)) \/ Shared!job.place = Root)
    BY <1>1, <1>2, <1>3, <1>4, <1>5
  <2> QED
    BY ONLY SkillsInv, <1>1, <1>4, <1>5, <2>1, WrittenKeeps

\* An entry is taken away, and what comes next is done in its place.
LEMMA TakeAwayKeeps ==
  ASSUME SkillsInv, jobs # <<>>, Shared!TakeAway, UNCHANGED <<index, declared>>, Shared!Here # Shared!None,
         \/ Shared!job.do = "install" /\ (Shared!Managed(Shared!Here) \/ skillCmd.force) /\ Shared!At("place")
         \/ /\ Shared!job.do = "materialize" /\ (Shared!Here = Shared!Own => skillCmd.answer = "replace" \/ skillAt = "made since")
            /\ Shared!At("place")
         \/ Shared!job.do = "uninstall" /\ (Shared!Managed(Shared!Here) \/ skillCmd.force) /\ Shared!At("unindex")
  PROVE  KeepsAll
<1>1. /\ Shared!job.name \in Shared!Names /\ Shared!job.place \in Shared!Places /\ Shared!job.do \in {"install", "materialize", "uninstall"}
      /\ UninstallOK(Shared!job, skillCmd.kind) /\ jobs \in Seq(Jobs) /\ 1 \in DOMAIN jobs /\ jobs[1] = Shared!job
  BY FirstJobFits, FirstJob, Rest DEF Shared!Names, SkillsInv, ListOK, Shared!job
<1>2. /\ entry' \in [Shared!Places -> [Shared!Names -> Entries]] /\ entry'[Shared!job.place][Shared!job.name] = Shared!None
      /\ \A q \in Shared!Places, m \in Shared!Names : q # Shared!job.place \/ m # Shared!job.name => entry'[q][m] = entry[q][m]
  <2>1. Shared!TypeOK /\ entry' = [entry EXCEPT ![Shared!job.place][Shared!job.name] = Shared!None] /\ Shared!None \in Entries
    BY EntryValues DEF Shared!TakeAway, Shared!SetHere, SkillsInv
  <2>2. PICK e : e = Shared!None
    OBVIOUS
  <2>3. /\ entry' \in [Shared!Places -> [Shared!Names -> Entries]] /\ entry'[Shared!job.place][Shared!job.name] = e
        /\ \A q \in Shared!Places, m \in Shared!Names : q # Shared!job.place \/ m # Shared!job.name => entry'[q][m] = entry[q][m]
    <3>1. Shared!job.name \in Shared!Names /\ Shared!job.place \in Shared!Places
      BY <1>1
    <3>2. e \in Entries /\ Shared!TypeOK /\ entry' = [entry EXCEPT ![Shared!job.place][Shared!job.name] = e]
      BY <2>1, <2>2
    <3> QED
      BY ONLY <3>1, <3>2, EntryIsWritten
  <2> QED
    BY ONLY <2>2, <2>3
<1>3. mine' = mine \ {Shared!Slot}
  BY DEF Shared!TakeAway
<1>4. MineOK' /\ mine' \subseteq Shared!Places \X Shared!Names
  <2>1. ASSUME NEW h \in Harnesses, <<h, "skill">> \in mine'
        PROVE  entry'[h]["skill"] = entry[h]["skill"] /\ index'[h] = index[h]
    <3>1. h # Shared!job.place \/ "skill" # Shared!job.name
      BY <1>3, <2>1 DEF Shared!Slot
    <3>2. h \in Shared!Places /\ "skill" \in Shared!Names
      BY DEF Shared!Places, Shared!Names
    <3> QED
      BY <1>2, <3>1, <3>2
  <2> QED
    BY <1>3, <2>1, MineStays
<1>5. PICK kind : kind = skillCmd.kind
  OBVIOUS
<1>6. PICK s : s = jobs
  OBVIOUS
<1>7. PICK step \in {"place", "unindex"} : Shared!At(step) /\ (step = "place" => Shared!job.do \in {"install", "materialize"})
        /\ (step = "unindex" => Shared!job.do = "uninstall")
  OBVIOUS
<1>8. jobs' = jobs /\ skillCmd' = skillCmd /\ had' = had /\ skillAt' = step /\ Shared!job' = Shared!job /\ Shared!Slot' = Shared!Slot /\ Shared!Here' = Shared!None
  BY <1>2, <1>7 DEF Shared!At, Shared!job, Shared!Slot, Shared!Here
<1>9. ASSUME NEW q \in Shared!Places, NEW m \in Shared!Names, Shared!Managed(entry'[q][m]) PROVE Shared!Managed(entry[q][m]) /\ entry'[q][m] = entry[q][m]
  BY <1>2, <1>9, EntryValues
<1>10. \A i \in DOMAIN jobs : UninstallOK(jobs[i], kind)'
  <2> SUFFICES ASSUME NEW i \in DOMAIN s PROVE UninstallOK(s[i], kind)'
    BY <1>6, <1>8 DEF UninstallOK
  <2>1. UninstallOK(s[i], kind) /\ s[i].place \in Shared!Places /\ (s[i].do = "uninstall" => s[i].name \in Shared!Names)
    BY <1>5, <1>6 DEF SkillsInv, Shared!TypeOK, UninstallsOK, ListOK, IsJobOf
  <2> QED
    BY <1>3, <1>9, <2>1 DEF UninstallOK
<1>11. StepOK'
  <2>1. jobs' # <<>> /\ Shared!Slot' \notin mine' /\ Shared!Here' = Shared!None
    BY <1>3, <1>8
  <2>2. /\ skillAt' \in {"place", "unindex"} /\ (skillAt' = "place" => Shared!job'.do \in {"install", "materialize"})
        /\ skillAt' = "unindex" => Shared!job'.do = "uninstall"
    BY <1>7, <1>8
  <2> QED
    BY ONLY <2>1, <2>2 DEF StepOK
<1>12. TakesOnly
  <2>1. Shared!Here = Shared!Own => skillCmd.force \/ (Shared!job.place = Root /\ (skillCmd.answer = "replace" \/ skillAt = "made since"))
    <3>1. Shared!Here = Shared!Own => ~Shared!Managed(Shared!Here) /\ Shared!Here.kind # "copy"
      BY EntryValues DEF Shared!Own, Shared!Entry
    <3> QED
      BY <3>1, FirstJobFits
  <2>2. Shared!Slot \in mine /\ Shared!job.place \in Native => skillCmd.kind \in AboutSkills
    <3>1. Shared!Slot \in mine => Shared!job.place \in Harnesses /\ Shared!job.name = "skill"
      BY MineManaged DEF Shared!Slot
    <3>2. Shared!job.do = "uninstall" /\ Shared!job.place \in Native /\ skillCmd.kind \notin AboutSkills => Shared!Slot \notin mine
      BY <1>1 DEF UninstallOK, Shared!Slot
    <3> QED
      BY <3>1, <3>2, FirstJobFits DEF AboutSkills
  <2>3. Shared!None \in Entries /\ Shared!SetHere(Shared!None)
    BY EntryValues DEF Shared!TakeAway
  <2> QED
    BY <1>1, <2>1, <2>2, <2>3, TakesHere
<1>13. ASSUME NEW h \in had, kind # "self-uninstall" PROVE KeptSelf(h)'
  <2>1. KeptSelf(h) /\ h \in Shared!Places /\ {"self", "old"} \subseteq Shared!Names
    BY <1>5, <1>13 DEF SkillsInv, SelfKept, Shared!TypeOK, Shared!Places, Shared!Names
  <2>2. CASE InstallsSelf(Shared!job, h) /\ Shared!job.do # "uninstall"
    BY <1>7, <1>8, <2>2 DEF KeptSelf, InstallsSelf
  <2>3. CASE ~InstallsSelf(Shared!job, h)
    <3>1. ASSUME NEW n \in {"self", "old"}, Shared!Managed(entry[h][n]) PROVE entry'[h][n] = entry[h][n]
      <4>1. Shared!job.place = h /\ Shared!job.name = n => Shared!job.do = "uninstall"
        <5>1. Shared!job.place = h => Shared!job.place \in Harnesses
          BY DEF SkillsInv, Shared!TypeOK
        <5> QED
          BY <1>1, <2>3, <5>1, FirstJobFits DEF InstallsSelf
      <4>2. ~(Shared!job.place = h /\ Shared!job.name = n)
        BY <1>1, <1>5, <1>13, <3>1, <4>1 DEF UninstallOK, SelfNames
      <4> QED
        BY <1>2, <2>1, <4>2
    <3>2. Shared!HasSelf(h) => Shared!HasSelf(h)'
      BY <3>1 DEF Shared!HasSelf
    <3>3. SelfStays(s, h)
      BY <1>6, <2>1, <2>3 DEF KeptSelf
    <3>4. entry[h]["self"] = Shared!None => entry'[h]["self"] = Shared!None
      BY <1>2, <2>1
    <3>5. ASSUME NEW i \in DOMAIN s, Promise(s[i], h) PROVE Promise(s[i], h)'
      BY <1>8, <3>4, <3>5 DEF Promise
    <3>6. SelfStays(s, h)'
      BY <3>2, <3>3, <3>5 DEF SelfStays
    <3> QED
      BY <1>6, <1>8, <3>6 DEF KeptSelf, SelfStays
  <2> QED
    BY <2>2, <2>3 DEF InstallsSelf
<1>14. index' \in [Harnesses -> Shared!Scopes] /\ declared' = declared /\ Shared!job.do # "need-self"
  BY <1>1 DEF SkillsInv, Shared!TypeOK
<1>15. SkillsInv' /\ EndsWell
  BY <1>2, <1>4, <1>5, <1>7, <1>10, <1>11, <1>13, <1>14, Stayed
<1> QED
  BY <1>12, <1>15 DEF KeepsAll

\* A job that only ends changes no entry.
LEMMA DoneKeeps ==
  ASSUME SkillsInv, jobs # <<>>, Shared!Done, UNCHANGED <<entry, index, declared, mine>>, skillAt = "none",
         \A h \in had : ~Promise(Shared!job, h) \/ Shared!HasSelf(h)
  PROVE  KeepsAll
<1>1. PICK t : t = Tail(jobs)
  OBVIOUS
<1>2. PICK kind : kind = skillCmd.kind
  OBVIOUS
<1>3. Shared!Continue(t)
  BY <1>1 DEF Shared!Done
<1>4. ListOK(t, skillCmd.kind) /\ \A i \in DOMAIN t : t[i].do # "need-self" /\ UninstallOK(t[i], kind)
  BY <1>1, <1>2, RestOK
<1>5. \A i \in DOMAIN t : UninstallOK(t[i], kind)'
  BY <1>4 DEF UninstallOK
<1>6. /\ entry' \in [Shared!Places -> [Shared!Names -> Entries]] /\ index' \in [Harnesses -> Shared!Scopes]
      /\ mine' \subseteq Shared!Places \X Shared!Names /\ declared' = declared
  BY DEF SkillsInv, Shared!TypeOK, Entries
<1>7. MineOK'
  BY DEF SkillsInv, MineOK, Shared!Scope
<1>8. ASSUME NEW h \in had, kind # "self-uninstall" PROVE SelfStays(t, h)'
  <2>1. KeptSelf(h)
    BY <1>2, <1>8 DEF SkillsInv, SelfKept
  <2>2. SelfStays(t, h)
    BY <1>1, <2>1, KeptByRest
  <2>3. t # <<>> => skillCmd' = skillCmd
    BY <1>3 DEF Shared!Continue
  <2>4. Shared!HasSelf(h) => Shared!HasSelf(h)'
    BY DEF Shared!HasSelf
  <2> QED
    BY <2>2, <2>3, <2>4, KeptStays
<1>9. SkillsInv' /\ EndsWell
  BY <1>2, <1>3, <1>4, <1>5, <1>6, <1>7, <1>8, Continued
<1> QED
  BY <1>9, TakesNone DEF KeepsAll

\* An installation, where the entry is free, is managed, or is the user's.
LEMMA InstallKeeps == ASSUME SkillsInv, Shared!Install PROVE KeepsAll
<1>1. jobs # <<>> /\ Shared!job.do = "install" /\ skillAt = "none" /\ UNCHANGED <<index, declared>>
  BY DEF Shared!Install, Shared!Doing
<1>2. CASE Shared!Here = Shared!None /\ Shared!Put
  BY <1>1, <1>2, PutKeeps
<1>3. CASE Shared!Here # Shared!None /\ (Shared!Managed(Shared!Here) \/ skillCmd.force) /\ Shared!TakeAway /\ Shared!At("place")
  BY <1>1, <1>3, TakeAwayKeeps
<1>4. CASE /\ Shared!Here # Shared!None /\ ~Shared!Managed(Shared!Here) /\ ~skillCmd.force
           /\ Shared!Continue(IF skillCmd.kind = "launch" /\ Shared!job.name = "self" THEN <<>> ELSE Tail(jobs))
           /\ UNCHANGED <<entry, mine>>
  <2>1. \A h : ~Promise(Shared!job, h)
    BY <1>1, <1>4 DEF Promise, InstallsSelf, Shared!Here
  <2>2. CASE ~(skillCmd.kind = "launch" /\ Shared!job.name = "self")
    BY <1>1, <1>4, <2>1, <2>2, DoneKeeps DEF Shared!Done
  <2>3. CASE skillCmd.kind = "launch" /\ Shared!job.name = "self"
    <3>1. PICK t : t = Tail(jobs)
      OBVIOUS
    <3>2. PICK kind : kind = skillCmd.kind
      OBVIOUS
    <3>3. PICK none : none = <<>>
      OBVIOUS
    <3>4. Shared!Continue(none) /\ ListOK(none, skillCmd.kind) /\ DOMAIN none = {}
      BY <1>4, <2>3, <3>3 DEF ListOK, InOrder
    <3>5. ASSUME NEW h \in had PROVE SelfStays(none, h)'
      <4>1. KeptSelf(h)
        BY <1>1, <2>3 DEF SkillsInv, SelfKept
      <4>2. ASSUME NEW i \in DOMAIN jobs PROVE ~Promise(jobs[i], h)
        <5>1. \/ /\ jobs[i].do \in {"install", "refresh"} /\ jobs[i].place = h
                 /\ jobs[i].do = "refresh" \/ jobs[i].name = "self"
              \/ ~Promise(jobs[i], h)
          BY DEF Promise, InstallsSelf
        <5>2. jobs[i].do = "refresh" => jobs[i].name = "self"
          BY <1>1, ListFits DEF IsJobOf
        <5>3. jobs[i].name = "self" => jobs[i].place = Shared!job.place
          BY <1>1, <2>3, <3>1, RestOK
        <5>4. Shared!job.place = h => entry[h]["self"] # Shared!None
          BY <1>4, <2>3 DEF Shared!Here
        <5> QED
          BY <1>4, <5>1, <5>2, <5>3, <5>4 DEF Promise
      <4>3. Shared!HasSelf(h)
        BY <1>1, <4>1, <4>2 DEF KeptSelf, SelfStays
      <4> QED
        BY <1>4, <4>3 DEF SelfStays, Shared!HasSelf
    <3>6. /\ entry' \in [Shared!Places -> [Shared!Names -> Entries]] /\ index' \in [Harnesses -> Shared!Scopes]
          /\ mine' \subseteq Shared!Places \X Shared!Names /\ declared' = declared
      BY <1>1, <1>4 DEF SkillsInv, Shared!TypeOK, Entries
    <3>7. MineOK'
      BY <1>1, <1>4 DEF SkillsInv, MineOK, Shared!Scope
    <3>8. SkillsInv' /\ EndsWell
      BY <1>1, <3>2, <3>4, <3>5, <3>6, <3>7, Continued
    <3> QED
      BY <1>4, <3>8, TakesNone DEF KeepsAll
  <2> QED
    BY <2>2, <2>3
<1> QED
  BY <1>2, <1>3, <1>4 DEF Shared!Install

\* What is placed is placed where something was taken away.
LEMMA PlaceKeeps == ASSUME SkillsInv, Shared!Place PROVE KeepsAll
<1>1. skillAt = "place" /\ Shared!Put /\ UNCHANGED <<index, declared>>
  BY DEF Shared!Place
<1>2. jobs # <<>> /\ Shared!Here = Shared!None /\ Shared!job.do \in {"install", "materialize"}
  BY <1>1 DEF SkillsInv, StepOK
<1> QED
  BY <1>1, <1>2, PutKeeps

\* The scope is kept beside the entries: from here on an install is the user's.
LEMMA IndexKeeps == ASSUME SkillsInv, Shared!Index PROVE KeepsAll
<1>1. /\ skillAt = "index" /\ jobs # <<>> /\ Shared!job.do = "install" /\ Shared!job.name = "skill"
      /\ Shared!Here \in {Shared!Link, Shared!Entry("copy", Shared!job.scope)} /\ Shared!Slot \notin mine
  BY DEF Shared!Index, SkillsInv, StepOK
<1>2. /\ index' = [index EXCEPT ![Shared!job.place] = Shared!job.scope] /\ Shared!Done /\ UNCHANGED <<entry, declared>>
      /\ mine' = IF Shared!job.scope = "manual" THEN mine \cup {Shared!Slot} ELSE mine \ {Shared!Slot}
  BY DEF Shared!Index
<1>3. /\ Shared!job.place \in Harnesses /\ Shared!job.scope \in {"manual", "compat"} /\ Shared!job.scope \in Shared!Scopes
      /\ Shared!job.place \in Native /\ Shared!job.scope = "manual" => skillCmd.kind \in {"install", "sync"}
  BY <1>1, FirstJobFits DEF Shared!Scopes
<1>4. index \in [Harnesses -> Shared!Scopes]
  BY DEF SkillsInv, Shared!TypeOK
<1>5. /\ index' \in [Harnesses -> Shared!Scopes] /\ index'[Shared!job.place] = Shared!job.scope
      /\ \A h \in Harnesses : h # Shared!job.place => index'[h] = index[h]
  BY <1>2, <1>3, <1>4
<1>6. mine' \subseteq Shared!Places \X Shared!Names
  BY <1>1, <1>2, <1>3 DEF SkillsInv, Shared!TypeOK, Shared!Slot, Shared!Places, Shared!Names
<1>7. ASSUME NEW s \in mine'
      PROVE  s[1] \in Harnesses /\ s[2] = "skill" /\ Shared!Managed(entry'[s[1]]["skill"]) /\ Shared!Scope(s[1])' = "manual"
  <2>1. CASE s = Shared!Slot
    <3>1. s[1] = Shared!job.place /\ s[2] = "skill" /\ Shared!job.scope = "manual"
      BY <1>1, <1>2, <1>7, <2>1 DEF Shared!Slot
    <3>2. entry'[Shared!job.place]["skill"] \in {Shared!Link, Shared!Entry("copy", "manual")}
      BY <1>1, <1>2, <3>1 DEF Shared!Here
    <3>3. Shared!Managed(entry'[Shared!job.place]["skill"])
      BY <3>2, EntryValues
    <3>4. entry'[Shared!job.place]["skill"].scope \in {"none", "manual"}
      BY <3>2 DEF Shared!Link, Shared!Entry
    <3> QED
      BY <1>3, <1>5, <3>1, <3>3, <3>4 DEF Shared!Scope
  <2>2. CASE s # Shared!Slot
    <3>1. s \in mine /\ s[1] \in Harnesses /\ s[2] = "skill" /\ Shared!Managed(entry[s[1]]["skill"]) /\ Shared!Scope(s[1]) = "manual"
      BY <1>2, <1>7, <2>2 DEF SkillsInv, MineOK
    <3>2. s = <<s[1], "skill">>
      <4>1. mine \subseteq Shared!Places \X Shared!Names
        BY DEF SkillsInv, Shared!TypeOK
      <4> QED
        BY ONLY <3>1, <4>1
    <3>3. s[1] # Shared!job.place
      BY <1>1, <2>2, <3>2 DEF Shared!Slot
    <3> QED
      BY <1>2, <1>5, <3>1, <3>3 DEF Shared!Scope
  <2> QED
    BY <2>1, <2>2
<1>8. MineOK'
  BY <1>7 DEF MineOK
<1>9. PICK kind : kind = skillCmd.kind
  OBVIOUS
<1>10. PICK t : t = Tail(jobs)
  OBVIOUS
<1>11. Shared!Continue(t) /\ ListOK(t, skillCmd.kind) /\ \A i \in DOMAIN t : t[i].do # "need-self"
  BY <1>1, <1>2, <1>10, RestOK DEF Shared!Done
<1>12. \A i \in DOMAIN t : UninstallOK(t[i], kind)'
  <2>1. \A q \in Native : \A m : <<q, m>> \in mine' => <<q, m>> \in mine \/ kind \in AboutSkills
    BY <1>2, <1>3, <1>9 DEF Shared!Slot, AboutSkills
  <2>2. \A i \in DOMAIN t : IsJobOf(t[i], kind) /\ UninstallOK(t[i], kind)
    BY <1>1, <1>9, <1>10, ListFits
  <2> QED
    BY <1>1, <1>9, <2>1, <2>2, UninstallsStay
<1>13. ASSUME NEW h \in had, kind # "self-uninstall" PROVE SelfStays(t, h)'
  <2>1. KeptSelf(h)
    BY <1>1, <1>9, <1>13 DEF SkillsInv, SelfKept
  <2>2. SelfStays(t, h)
    BY <1>1, <1>10, <2>1, KeptByRest DEF Promise, InstallsSelf
  <2>3. (t # <<>> => skillCmd' = skillCmd) /\ (Shared!HasSelf(h) => Shared!HasSelf(h)')
    BY <1>2, <1>11 DEF Shared!Continue, Shared!HasSelf
  <2> QED
    BY <1>2, <2>2, <2>3, KeptStays
<1>14. entry' \in [Shared!Places -> [Shared!Names -> Entries]] /\ declared' = declared
  BY <1>2 DEF SkillsInv, Shared!TypeOK, Entries
<1>15. SkillsInv' /\ EndsWell
  BY <1>1, <1>5, <1>6, <1>8, <1>9, <1>11, <1>12, <1>13, <1>14, Continued
<1> QED
  BY <1>2, <1>15, TakesNone DEF KeepsAll

\* An entry is removed where it is managed or the user forces it.
LEMMA UninstallKeeps == ASSUME SkillsInv, Shared!Uninstall PROVE KeepsAll
<1>1. jobs # <<>> /\ Shared!job.do = "uninstall" /\ skillAt = "none" /\ UNCHANGED <<index, declared>>
  BY DEF Shared!Uninstall, Shared!Doing
<1>2. CASE Shared!Here # Shared!None /\ (Shared!Managed(Shared!Here) \/ skillCmd.force) /\ Shared!TakeAway /\ Shared!At("unindex")
  BY <1>1, <1>2, TakeAwayKeeps
<1>3. CASE Shared!Done /\ UNCHANGED <<entry, mine>>
  BY <1>1, <1>3, DoneKeeps DEF Promise, InstallsSelf
<1> QED
  BY <1>2, <1>3 DEF Shared!Uninstall

\* Its scope is forgotten.
LEMMA UnindexKeeps == ASSUME SkillsInv, Shared!Unindex PROVE KeepsAll
<1>1. skillAt = "unindex" /\ jobs # <<>> /\ Shared!job.do = "uninstall" /\ Shared!Slot \notin mine
  BY DEF Shared!Unindex, SkillsInv, StepOK
<1>2. /\ index' = IF Shared!job.name = "skill" THEN [index EXCEPT ![Shared!job.place] = "none"] ELSE index
      /\ Shared!Done /\ UNCHANGED <<entry, declared, mine>>
  BY DEF Shared!Unindex
<1>3. Shared!job.place \in Harnesses /\ index \in [Harnesses -> Shared!Scopes] /\ "none" \in Shared!Scopes
  BY <1>1, FirstJobFits DEF SkillsInv, Shared!TypeOK, Shared!Scopes
<1>4. /\ index' \in [Harnesses -> Shared!Scopes]
      /\ \A h \in Harnesses : h # Shared!job.place \/ Shared!job.name # "skill" => index'[h] = index[h]
  BY <1>2, <1>3
<1>5. MineOK' /\ mine' \subseteq Shared!Places \X Shared!Names
  <2>1. ASSUME NEW h \in Harnesses, <<h, "skill">> \in mine'
        PROVE  entry'[h]["skill"] = entry[h]["skill"] /\ index'[h] = index[h]
    BY <1>1, <1>2, <1>4, <2>1 DEF Shared!Slot
  <2> QED
    BY <1>2, <2>1, MineStays
<1>6. PICK kind : kind = skillCmd.kind
  OBVIOUS
<1>7. PICK t : t = Tail(jobs)
  OBVIOUS
<1>8. Shared!Continue(t) /\ ListOK(t, skillCmd.kind) /\ \A i \in DOMAIN t : t[i].do # "need-self" /\ UninstallOK(t[i], kind)
  BY <1>1, <1>2, <1>6, <1>7, RestOK DEF Shared!Done
<1>9. \A i \in DOMAIN t : UninstallOK(t[i], kind)'
  BY <1>2, <1>8 DEF UninstallOK
<1>10. ASSUME NEW h \in had, kind # "self-uninstall" PROVE SelfStays(t, h)'
  <2>1. KeptSelf(h)
    BY <1>1, <1>6, <1>10 DEF SkillsInv, SelfKept
  <2>2. SelfStays(t, h)
    BY <1>1, <1>7, <2>1, KeptByRest DEF Promise, InstallsSelf
  <2>3. (t # <<>> => skillCmd' = skillCmd) /\ (Shared!HasSelf(h) => Shared!HasSelf(h)')
    BY <1>2, <1>8 DEF Shared!Continue, Shared!HasSelf
  <2> QED
    BY <1>2, <2>2, <2>3, KeptStays
<1>11. entry' \in [Shared!Places -> [Shared!Names -> Entries]] /\ declared' = declared
  BY <1>2 DEF SkillsInv, Shared!TypeOK, Entries
<1>12. SkillsInv' /\ EndsWell
  BY <1>1, <1>4, <1>5, <1>6, <1>8, <1>9, <1>10, <1>11, Continued
<1> QED
  BY <1>2, <1>12, TakesNone DEF KeepsAll

\* A job is replaced by others, before the rest or, where nothing is promised,
\* instead of it.
LEMMA ReplacedKeeps ==
  ASSUME SkillsInv, jobs # <<>>, NEW s \in Seq(Jobs), NEW t, NEW kind, kind = skillCmd.kind,
         \A i \in DOMAIN s : s[i].do # "need-self" /\ UninstallOK(s[i], kind),
         t = Tail(jobs) \/ (t = <<>> /\ \A h \in had : Shared!HasSelf(h)), ListOK(s \o t, kind),
         Shared!Continue(s \o t), UNCHANGED <<entry, index, declared, mine>>, skillAt = "none",
         \A h \in had : Promise(Shared!job, h) => Shared!HasSelf(h) \/ \E i \in DOMAIN s : Promise(s[i], h)
  PROVE  KeepsAll
<1>2. PICK u : u = s \o t
  OBVIOUS
<1>3. t \in Seq(Jobs) /\ \A i \in DOMAIN t : t[i].do # "need-self" /\ UninstallOK(t[i], kind)
  BY RestOK DEF ListOK
<1>4. ListOK(u, skillCmd.kind)
  BY <1>2
<1>5. /\ \A i \in DOMAIN s : i \in DOMAIN u /\ u[i] = s[i]
      /\ \A i \in DOMAIN t : i + Len(s) \in DOMAIN u /\ u[i + Len(s)] = t[i]
      /\ \A i \in DOMAIN u : \/ i \in DOMAIN s /\ u[i] = s[i]
                             \/ i \notin DOMAIN s /\ i - Len(s) \in DOMAIN t /\ u[i] = t[i - Len(s)]
  BY ONLY <1>2, <1>3, s \in Seq(Jobs), Appended
<1>6. Shared!Continue(u)
  BY <1>2
<1>7. \A i \in DOMAIN u : u[i].do # "need-self" /\ UninstallOK(u[i], kind)
  BY <1>3, <1>5
<1>8. \A i \in DOMAIN u : UninstallOK(u[i], kind)'
  BY <1>7 DEF UninstallOK
<1>9. /\ entry' \in [Shared!Places -> [Shared!Names -> Entries]] /\ index' \in [Harnesses -> Shared!Scopes]
      /\ mine' \subseteq Shared!Places \X Shared!Names /\ declared' = declared
  BY DEF SkillsInv, Shared!TypeOK, Entries
<1>10. MineOK'
  BY DEF SkillsInv, MineOK, Shared!Scope
<1>11. ASSUME NEW h \in had, kind # "self-uninstall" PROVE SelfStays(u, h)'
  <2>1. KeptSelf(h)
    BY <1>11 DEF SkillsInv, SelfKept
  <2>2. CASE Shared!HasSelf(h)
    BY <2>2 DEF SelfStays, Shared!HasSelf
  <2>3. ASSUME ~Shared!HasSelf(h) PROVE SelfStays(u, h)'
    <3>1. PICK i \in DOMAIN jobs : Promise(jobs[i], h)
      BY <2>1, <2>3 DEF KeptSelf, SelfStays
    <3>2. jobs[i] = Shared!job \/ \E k \in DOMAIN t : t[k] = jobs[i]
      BY <1>11, <2>3, RestOK
    <3>3. \E k \in DOMAIN u : Promise(u[k], h)
      <4>1. CASE jobs[i] = Shared!job
        <5>1. PICK k \in DOMAIN s : Promise(s[k], h)
          BY <2>3, <3>1, <4>1
        <5> QED
          BY <1>5, <5>1
      <4>2. ASSUME NEW k \in DOMAIN t, t[k] = jobs[i] PROVE \E l \in DOMAIN u : Promise(u[l], h)
        <5>1. k + Len(s) \in DOMAIN u /\ u[k + Len(s)] = jobs[i]
          BY ONLY <1>5, <4>2
        <5> QED
          BY <3>1, <5>1
      <4> QED
        BY <3>2, <4>1, <4>2
    <3>4. SelfStays(u, h) /\ u # <<>>
      BY <3>3 DEF SelfStays
    <3>5. skillCmd' = skillCmd
      BY <1>6, <3>4 DEF Shared!Continue
    <3> QED
      BY <3>4, <3>5, KeptStays DEF Shared!HasSelf
  <2> QED
    BY <2>2, <2>3
<1>12. SkillsInv' /\ EndsWell
  BY <1>4, <1>6, <1>7, <1>8, <1>9, <1>10, <1>11, Continued
<1> QED
  BY <1>12, TakesNone DEF KeepsAll

\* What a prune, a purge or the legacy scan lists.
LEMMA TakenFits ==
  ASSUME SkillsInv, jobs # <<>>, NEW do \in {"prune", "purge", "legacy"}, Shared!job.do = do, NEW kind, kind = skillCmd.kind,
         NEW taken, taken = CASE do = "prune" -> Shared!Stale(Shared!job.place) [] do = "purge" -> Shared!PurgeTargets(Shared!job.place, Shared!job.name)
                              [] do = "legacy" -> Shared!Legacy(Shared!job.place)
  PROVE  \A n \in taken : n \in Shared!Names =>
           /\ n \in SelfNames => kind = "purge" /\ ~Shared!Managed(entry[Shared!job.place][n])
           /\ Shared!job.place \in Native /\ kind \notin AboutSkills => <<Shared!job.place, n>> \notin mine
<1> SUFFICES ASSUME NEW n \in taken, n \in Shared!Names
             PROVE  /\ n \in SelfNames => kind = "purge" /\ ~Shared!Managed(entry[Shared!job.place][n])
                    /\ Shared!job.place \in Native /\ kind \notin AboutSkills => <<Shared!job.place, n>> \notin mine
  OBVIOUS
<1>1. CASE do = "prune"
  <2>1. n \in Shared!Stale(Shared!job.place)
    BY <1>1
  <2>2. n \notin SelfNames
    BY <2>1 DEF Shared!Stale, Shared!SelfMade, SelfNames
  <2>3. Shared!job.place \in Native => kind \in AboutSkills
    BY <1>1, FirstJobFits DEF AboutSkills
  <2> QED
    BY <2>2, <2>3
<1>2. CASE do = "purge"
  <2>1. n \in Shared!PurgeTargets(Shared!job.place, Shared!job.name) /\ kind = "purge" /\ kind \in AboutSkills
    BY <1>2, FirstJobFits DEF AboutSkills
  <2>2. n \in SelfNames => ~Shared!Managed(entry[Shared!job.place][n])
    BY <2>1 DEF Shared!PurgeTargets, Shared!SelfMade, SelfNames
  <2> QED
    BY <2>1, <2>2
<1>3. CASE do = "legacy"
  <2>1. n \in Shared!Legacy(Shared!job.place)
    BY <1>3
  <2>2. n = "skill" /\ Shared!Scope(Shared!job.place) # "manual"
    BY <2>1 DEF Shared!Legacy, Shared!Declared
  <2>3. <<Shared!job.place, n>> \notin mine
    BY <2>2 DEF SkillsInv, MineOK
  <2> QED
    BY <2>2, <2>3 DEF SelfNames
<1> QED
  BY <1>1, <1>2, <1>3

\* What is listed for removal goes before the rest.
LEMMA ListKeeps == ASSUME SkillsInv, Shared!List PROVE KeepsAll
<1>1. PICK do \in {"prune", "purge", "legacy"} :
        /\ Shared!Doing(do)
        /\ LET h == Shared!job.place
               taken == CASE do = "prune" -> Shared!Stale(h) [] do = "purge" -> Shared!PurgeTargets(h, Shared!job.name)
                          [] do = "legacy" -> Shared!Legacy(h)
           IN  Shared!Continue(Shared!SetToSeq({Shared!Job("uninstall", h, n, "link", "none") : n \in taken}) \o Tail(jobs))
  BY DEF Shared!List
<1>2. PICK taken : taken = CASE do = "prune" -> Shared!Stale(Shared!job.place) [] do = "purge" -> Shared!PurgeTargets(Shared!job.place, Shared!job.name)
                             [] do = "legacy" -> Shared!Legacy(Shared!job.place)
  OBVIOUS
<1>3. PICK p : p = Shared!job.place
  OBVIOUS
<1>4. PICK S : S = {Shared!Job("uninstall", p, n, "link", "none") : n \in taken}
  OBVIOUS
<1>5. /\ jobs # <<>> /\ Shared!job.do = do /\ skillAt = "none" /\ Shared!Continue(Shared!SetToSeq(S) \o Tail(jobs))
      /\ UNCHANGED <<entry, index, declared, mine>>
  BY <1>1, <1>2, <1>3, <1>4 DEF Shared!Doing, Shared!List
<1>6. p \in Harnesses /\ p \in Shared!Places /\ (do = "purge" => Shared!job.name \in Shared!Names \/ Shared!job.name = "none")
  BY <1>3, <1>5, FirstJobFits, FirstJob DEF Shared!Places, Jobs
<1>7. taken \subseteq Shared!Names
  <2>1. Shared!Stale(Shared!job.place) \subseteq Shared!Names /\ Shared!Legacy(Shared!job.place) \subseteq Shared!Names
    BY DEF Shared!Stale, Shared!Legacy, Shared!Declared, Shared!Names
  <2>2. do = "purge" => Shared!PurgeTargets(Shared!job.place, Shared!job.name) \subseteq Shared!Names
    BY <1>6 DEF Shared!PurgeTargets
  <2> QED
    BY <1>2, <2>1, <2>2
<1>8. PICK kind : kind = skillCmd.kind
  OBVIOUS
<1>9. \A n \in taken : /\ n \in SelfNames => kind = "purge" /\ ~Shared!Managed(entry[p][n])
                       /\ p \in Native /\ kind \notin AboutSkills => <<p, n>> \notin mine
  BY <1>2, <1>3, <1>5, <1>7, <1>8, TakenFits
<1>10. ASSUME NEW n \in taken
       PROVE  /\ Shared!Job("uninstall", p, n, "link", "none") \in Jobs
              /\ Loose(Shared!Job("uninstall", p, n, "link", "none"), kind)
              /\ Shared!Job("uninstall", p, n, "link", "none").do # "need-self"
              /\ UninstallOK(Shared!Job("uninstall", p, n, "link", "none"), kind)
  <2>1. PICK j : j = Shared!Job("uninstall", p, n, "link", "none")
    OBVIOUS
  <2>2. j \in Jobs /\ j.do = "uninstall" /\ j.place = p /\ j.name = n
    BY <1>6, <1>7, <2>1, Values DEF Shared!Job, Jobs
  <2>3. kind = "launch" => n \notin SelfNames
    BY <1>9
  <2>4. IsJobOf(j, kind)
    BY <1>6, <1>7, <1>9, <2>2, HarnessesAssumption DEF IsJobOf, AtRoot
  <2>5. Loose(j, kind)
    BY <2>2, <2>3, <2>4 DEF Loose, AtRoot, SelfNames
  <2>6. UninstallOK(j, kind)
    BY <1>9, <2>2 DEF UninstallOK
  <2> QED
    BY <2>1, <2>2, <2>5, <2>6
<1>11. S \in SUBSET Jobs /\ \A j \in S : Loose(j, kind) /\ j.do # "need-self" /\ UninstallOK(j, kind)
  BY <1>4, <1>10
<1>12. IsFiniteSet(S)
  <2>1. IsFiniteSet(Shared!Names)
    <3>1. Shared!Names = {"skill"} \cup ({"self"} \cup {"old"})
      BY DEF Shared!Names
    <3> QED
      BY <3>1, FS_Singleton, FS_Union
  <2>2. IsFiniteSet(taken)
    BY <1>7, <2>1, FS_Subset
  <2> DEFINE f == [n \in taken |-> Shared!Job("uninstall", p, n, "link", "none")]
  <2>3. f \in Surjection(taken, S)
    BY <1>4 DEF Surjection
  <2> QED
    BY <2>2, <2>3, FS_Surjection
<1>13. PICK s : s = Shared!SetToSeq(S)
  OBVIOUS
<1>14. s \in Seq(Jobs) /\ \A i \in DOMAIN s : s[i] \in S
  BY ONLY <1>11, <1>12, <1>13, JobsAsList
<1>15. \A i \in DOMAIN s : Loose(s[i], kind) /\ s[i].do # "need-self" /\ UninstallOK(s[i], kind)
  BY <1>11, <1>14
<1>16. PICK t : t = Tail(jobs)
  OBVIOUS
<1>17. ListOK(t, kind) /\ \A i \in DOMAIN t : t[i].do # "need-self"
  BY <1>5, <1>8, <1>16, RestOK
<1>18. ListOK(s \o t, kind)
  BY ONLY <1>14, <1>15, <1>17, LooseFirst
<1>19. Shared!Continue(s \o t)
  BY <1>5, <1>13, <1>16
<1>20. \A h : ~Promise(Shared!job, h)
  BY <1>5 DEF Promise, InstallsSelf
<1> QED
  BY ONLY SkillsInv, <1>5, <1>8, <1>14, <1>15, <1>16, <1>18, <1>19, <1>20, ReplacedKeeps

\* A self-skill is installed again, when maintenance finds another release's.
LEMMA RefreshKeeps == ASSUME SkillsInv, Shared!Refresh PROVE KeepsAll
<1>1. jobs # <<>> /\ Shared!job.do = "refresh" /\ skillAt = "none" /\ UNCHANGED <<entry, index, declared, mine>>
  BY DEF Shared!Refresh, Shared!Doing
<1>2. Shared!job.name = "self" /\ skillCmd.kind = "maintain" /\ Shared!job.place \in Harnesses /\ Shared!job.as \in Forms
  BY <1>1, FirstJobFits, FirstJob DEF Jobs
<1>3. \A h \in had : Promise(Shared!job, h) => h = Shared!job.place /\ Shared!Here = Shared!None
  BY <1>1, <1>2 DEF Promise, InstallsSelf, Shared!Here
<1>4. CASE Shared!Here # Shared!None /\ Shared!Done
  BY <1>1, <1>3, <1>4, DoneKeeps
<1>5. ASSUME NEW as \in Forms, Shared!Continue(<<Shared!Again(as)>> \o Tail(jobs)) PROVE KeepsAll
  <2>1. PICK j : j = Shared!Again(as)
    OBVIOUS
  <2>2. /\ j \in Jobs /\ j.do = "install" /\ j.place = Shared!job.place /\ j.name = "self" /\ j.scope = "none"
    BY <1>2, <2>1, Values DEF Shared!Again, Shared!Job, Jobs, Shared!Places
  <2>3. PICK kind : kind = skillCmd.kind
    OBVIOUS
  <2>4. Loose(j, kind) /\ j.do # "need-self" /\ UninstallOK(j, kind)
    BY <1>2, <2>2, <2>3, HarnessesAssumption DEF Loose, IsJobOf, AtRoot, UninstallOK, SelfNames
  <2>5. PICK s : s = <<j>>
    OBVIOUS
  <2>6. s \in Seq(Jobs) /\ DOMAIN s = {1} /\ s[1] = j
    BY <2>2, <2>5
  <2>7. \A i \in DOMAIN s : Loose(s[i], kind) /\ s[i].do # "need-self" /\ UninstallOK(s[i], kind)
    BY <2>4, <2>6
  <2>8. PICK t : t = Tail(jobs)
    OBVIOUS
  <2>9. ListOK(t, kind) /\ \A i \in DOMAIN t : t[i].do # "need-self"
    BY <1>1, <2>3, <2>8, RestOK
  <2>10. ListOK(s \o t, kind)
    BY ONLY <2>6, <2>7, <2>9, LooseFirst
  <2>11. Shared!Continue(s \o t)
    BY <1>5, <2>1, <2>5, <2>8
  <2>12. \A h \in had : Promise(Shared!job, h) => Shared!HasSelf(h) \/ \E i \in DOMAIN s : Promise(s[i], h)
    <3> SUFFICES ASSUME NEW h \in had, Promise(Shared!job, h) PROVE \E i \in DOMAIN s : Promise(s[i], h)
      OBVIOUS
    <3>1. h = Shared!job.place /\ entry[h]["self"] = Shared!None
      BY <1>2, <1>3 DEF Shared!Here
    <3>2. Promise(s[1], h)
      BY <2>2, <2>6, <3>1 DEF Promise, InstallsSelf
    <3> QED
      BY <2>6, <3>2
  <2> QED
    BY ONLY SkillsInv, <1>1, <2>3, <2>6, <2>7, <2>8, <2>10, <2>11, <2>12, ReplacedKeeps
<1>6. Shared!Kind(Shared!Here) \in Forms
  BY Values DEF Shared!Kind
<1> QED
  BY <1>2, <1>4, <1>5, <1>6 DEF Shared!Refresh

\* What moves an old self-skill and installs one.
SelfList(p) == <<Shared!Job("migrate", p, "old", "link", "none"), Shared!Job("install", p, "self", "link", "none")>>

\* It comes before the rest.
LEMMA SelfFirst ==
  ASSUME NEW kind, kind # "purge", NEW p \in Harnesses, NEW s,
         s = SelfList(p),
         NEW t, ListOK(t, kind), \A i \in DOMAIN t : t[i].do # "need-self",
         kind = "launch" => \A i \in DOMAIN t : t[i].name = "self" => t[i].place = p
  PROVE  /\ s \in Seq(Jobs) /\ ListOK(s \o t, kind)
         /\ \A i \in DOMAIN s : s[i].do # "need-self" /\ s[i].do # "uninstall"
<1>1. PICK j : j = Shared!Job("migrate", p, "old", "link", "none")
  OBVIOUS
<1>2. PICK k : k = Shared!Job("install", p, "self", "link", "none")
  OBVIOUS
<1>3. /\ j \in Jobs /\ j.do = "migrate" /\ j.place = p /\ j.name = "old"
      /\ k \in Jobs /\ k.do = "install" /\ k.place = p /\ k.name = "self" /\ k.scope = "none"
  BY <1>1, <1>2, Values DEF Shared!Job, Jobs, Shared!Places
<1>4. s = <<j, k>>
  BY <1>1, <1>2 DEF SelfList
<1>5. s \in Seq(Jobs) /\ Len(s) = 2 /\ DOMAIN s = 1..2 /\ s[1] = j /\ s[2] = k
  BY ONLY <1>3, <1>4
<1>6. IsJobOf(j, kind) /\ IsJobOf(k, kind) /\ ~AtRoot(j) /\ ~AtRoot(k)
  BY <1>3, HarnessesAssumption DEF IsJobOf, AtRoot, SelfNames
<1>7. PICK u : u = s \o t
  OBVIOUS
<1>8. /\ t \in Seq(Jobs) /\ \A i \in DOMAIN t : IsJobOf(t[i], kind)
      /\ InOrder(t, kind)
  BY DEF ListOK
<1>9. /\ u \in Seq(Jobs) /\ Len(u) = 2 + Len(t) /\ DOMAIN u = 1..Len(u) /\ Len(t) \in Nat /\ DOMAIN t = 1..Len(t)
      /\ u[1] = j /\ u[2] = k
      /\ \A i \in DOMAIN t : i + 2 \in DOMAIN u /\ u[i + 2] = t[i]
      /\ \A i \in DOMAIN u : i = 1 \/ i = 2 \/ (i - 2 \in DOMAIN t /\ u[i] = t[i - 2])
  <2>1. /\ u \in Seq(Jobs) /\ Len(u) = Len(s) + Len(t) /\ DOMAIN u = 1..(Len(s) + Len(t))
        /\ \A i \in DOMAIN s : i \in DOMAIN u /\ u[i] = s[i]
        /\ \A i \in DOMAIN t : i + Len(s) \in DOMAIN u /\ u[i + Len(s)] = t[i]
        /\ \A i \in DOMAIN u : \/ i \in DOMAIN s /\ u[i] = s[i]
                               \/ i \notin DOMAIN s /\ i - Len(s) \in DOMAIN t /\ u[i] = t[i - Len(s)]
    <3>1. s \in Seq(Jobs) /\ t \in Seq(Jobs)
      BY ONLY <1>5, <1>8
    <3> QED
      BY ONLY <1>7, <3>1, Appended
  <2> QED
    BY ONLY <1>5, <1>8, <2>1
<1>10. ASSUME NEW i \in DOMAIN u
       PROVE  /\ IsJobOf(u[i], kind) /\ u[i].do # "need-self" /\ (AtRoot(u[i]) => i = Len(u))
              /\ u[i].do = "migrate" /\ kind # "maintain" => \E l \in DOMAIN u : l > i /\ InstallsSelf(u[l], u[i].place)
              /\ kind = "launch" /\ u[i].name = "self" => u[i].place = p
  <2>1. CASE i = 1
    <3>1. InstallsSelf(u[2], u[1].place) /\ 2 > 1 /\ 2 \in DOMAIN u
      BY <1>3, <1>9 DEF InstallsSelf
    <3> QED
      BY <1>3, <1>6, <1>9, <2>1, <3>1
  <2>2. CASE i = 2
    BY <1>3, <1>6, <1>9, <2>2
  <2>3. CASE i - 2 \in DOMAIN t /\ u[i] = t[i - 2]
    <3>1. /\ IsJobOf(u[i], kind) /\ u[i].do # "need-self"
          /\ kind = "launch" /\ u[i].name = "self" => u[i].place = p
      BY <1>8, <2>3
    <3>2. AtRoot(u[i]) => i = Len(u)
      <4>1. AtRoot(t[i - 2]) => i - 2 = Len(t)
        BY ONLY <1>8, <2>3 DEF InOrder
      <4> QED
        BY <1>9, <2>3, <4>1
    <3>3. ASSUME u[i].do = "migrate", kind # "maintain"
          PROVE  \E l \in DOMAIN u : l > i /\ InstallsSelf(u[l], u[i].place)
      <4>1. PICK l \in DOMAIN t : l > i - 2 /\ InstallsSelf(t[l], t[i - 2].place)
        BY ONLY <1>8, <2>3, <3>3 DEF InOrder
      <4>2. l + 2 > i /\ l + 2 \in DOMAIN u /\ u[l + 2] = t[l]
        BY ONLY <1>9, <4>1, i \in DOMAIN u
      <4> QED
        BY <2>3, <4>1, <4>2
    <3> QED
      BY <3>1, <3>2, <3>3
  <2> QED
    BY <1>9, <2>1, <2>2, <2>3
<1>11. ListOK(u, kind)
  BY <1>9, <1>10 DEF ListOK, InOrder
<1>12. \A i \in DOMAIN s : s[i].do # "need-self" /\ s[i].do # "uninstall"
  BY ONLY <1>3, <1>5
<1> QED
  BY <1>5, <1>7, <1>11, <1>12

\* Doctor and launch see to the self-skill: one that a launch ends for is there.
LEMMA SelfFixKeeps == ASSUME SkillsInv, Shared!SelfFix PROVE KeepsAll
<1>1. /\ jobs # <<>> /\ Shared!job.do \in {"fix-self", "need-self"} /\ skillAt = "none" /\ UNCHANGED <<entry, index, declared, mine>>
  BY DEF Shared!SelfFix, Shared!Doing
<1>2. Shared!job.name = "self" /\ Shared!job.place \in Harnesses /\ skillCmd.kind # "purge"
  BY <1>1, FirstJobFits
<1>3. \A h : ~Promise(Shared!job, h)
  BY <1>1 DEF Promise, InstallsSelf
<1>4. CASE Shared!Here # Shared!None /\ Shared!Done
  BY <1>1, <1>3, <1>4, DoneKeeps
<1>5. PICK p : p = Shared!job.place
  OBVIOUS
<1>6. PICK s : s = SelfList(p)
  OBVIOUS
<1>7. PICK kind : kind = skillCmd.kind
  OBVIOUS
<1>8. ASSUME NEW t, Shared!Continue(s \o t), t = Tail(jobs) \/ (t = <<>> /\ Shared!job.do = "need-self")
      PROVE  KeepsAll
  <2>1. /\ ListOK(t, kind) /\ \A i \in DOMAIN t : t[i].do # "need-self"
        /\ kind = "launch" => \A i \in DOMAIN t : t[i].name = "self" => t[i].place = p
    <3>1. CASE t = <<>>
      BY <3>1 DEF ListOK, InOrder
    <3>2. CASE t = Tail(jobs)
      <4>1. ListOK(t, kind) /\ \A i \in DOMAIN t : t[i].do # "need-self"
        BY <1>1, <1>7, <3>2, RestOK
      <4>2. ASSUME kind = "launch", NEW i \in DOMAIN t, t[i].name = "self" PROVE t[i].place = p
        <5>1. PICK k \in DOMAIN jobs : t[i] = jobs[k]
          BY <1>1, <3>2, Rest DEF SkillsInv, ListOK
        <5> QED
          BY <1>1, <1>2, <1>5, <1>7, <4>2, <5>1, <3>2, RestOK
      <4> QED
        BY <4>1, <4>2
    <3> QED
      BY <1>8, <3>1, <3>2
  <2>2. p \in Harnesses /\ kind # "purge"
    BY <1>2, <1>5, <1>7
  <2>3. s \in Seq(Jobs) /\ ListOK(s \o t, kind) /\ \A i \in DOMAIN s : s[i].do # "need-self" /\ s[i].do # "uninstall"
    <3>1. /\ kind # "purge" /\ p \in Harnesses
          /\ s = SelfList(p)
          /\ ListOK(t, kind) /\ \A i \in DOMAIN t : t[i].do # "need-self"
          /\ kind = "launch" => \A i \in DOMAIN t : t[i].name = "self" => t[i].place = p
      BY ONLY <1>6, <2>1, <2>2
    <3> QED
      BY ONLY <3>1, SelfFirst
  <2>4. \A i \in DOMAIN s : s[i].do # "need-self" /\ UninstallOK(s[i], kind)
    BY <2>3 DEF UninstallOK
  <2>5. t = Tail(jobs) \/ (t = <<>> /\ \A h \in had : Shared!HasSelf(h))
    BY <1>1, <1>8 DEF SkillsInv, SelfKept
  <2> QED
    BY ONLY SkillsInv, <1>1, <1>3, <1>7, <1>8, <2>3, <2>4, <2>5, ReplacedKeeps
<1>9. CASE Shared!Here # Shared!None /\ Shared!Done
  BY <1>4, <1>9
<1>10. ASSUME ~(Shared!Here # Shared!None /\ Shared!Done) PROVE KeepsAll
  <2>1. PICK t : t = IF Shared!job.do = "need-self" /\ Shared!Managed(entry[Shared!job.place]["old"]) THEN <<>> ELSE Tail(jobs)
    OBVIOUS
  <2>2. Shared!Continue(s \o t)
    BY <1>5, <1>6, <1>10, <2>1 DEF Shared!SelfFix, Shared!Again, SelfList
  <2> QED
    BY <1>8, <2>1, <2>2
<1> QED
  BY <1>9, <1>10

\* An old self-skill moves or goes, and one is there after it or installed next.
LEMMA MigrateKeeps == ASSUME SkillsInv, Shared!Migrate PROVE KeepsAll
<1>1. /\ jobs # <<>> /\ Shared!job.do = "migrate" /\ skillAt = "none" /\ UNCHANGED <<index, declared, mine>>
  BY DEF Shared!Migrate, Shared!Doing
<1>2. Shared!job.name = "old" /\ Shared!job.place \in Harnesses /\ skillCmd.kind # "purge"
  BY <1>1, FirstJobFits
<1>3. PICK p \in Harnesses : p = Shared!job.place
  BY <1>2
<1>4. Shared!Here = entry[p]["old"] /\ p \in Shared!Places /\ {"self", "old", "skill"} \subseteq Shared!Names
  BY <1>2, <1>3 DEF Shared!Here, Shared!Places, Shared!Names
<1>5. \A h : ~Promise(Shared!job, h)
  BY <1>1 DEF Promise, InstallsSelf
<1>6. CASE Shared!Done /\ UNCHANGED entry
  BY <1>1, <1>5, <1>6, DoneKeeps
<1>7. PICK t : t = Tail(jobs)
  OBVIOUS
<1>8. PICK kind : kind = skillCmd.kind
  OBVIOUS
<1>9. PICK j : j = Shared!Job("refresh", p, "self", Shared!Kind(Shared!Here), "none")
  OBVIOUS
<1>10. PICK u : u = IF kind # "maintain" \/ \E i \in DOMAIN jobs : jobs[i].do = "refresh" /\ jobs[i].place = p
                    THEN t ELSE Append(t, j)
  OBVIOUS
<1>11. /\ ListOK(t, kind) /\ (kind # "maintain" => \E k \in DOMAIN t : InstallsSelf(t[k], p))
       /\ \A i \in DOMAIN t : t[i].do # "need-self" /\ UninstallOK(t[i], kind)
       /\ \A i \in DOMAIN jobs : jobs[i] = Shared!job \/ \E k \in DOMAIN t : t[k] = jobs[i]
  BY <1>1, <1>3, <1>7, <1>8, RestOK
<1>12. /\ j \in Jobs /\ j.do = "refresh" /\ j.place = p /\ j.name = "self"
  BY <1>4, <1>9, Values DEF Shared!Job, Jobs, Shared!Kind
<1>13. /\ u \in Seq(Jobs) /\ \A i \in DOMAIN t : i \in DOMAIN u /\ u[i] = t[i]
       /\ \A i \in DOMAIN u : (i \in DOMAIN t /\ u[i] = t[i]) \/ (kind = "maintain" /\ u[i] = j)
       /\ u # t => kind = "maintain" /\ u = Append(t, j) /\ \E i \in DOMAIN u : u[i] = j
  <2>1. t \in Seq(Jobs)
    BY <1>11 DEF ListOK
  <2>2. CASE u = t
    BY <2>1, <2>2
  <2>3. CASE kind = "maintain" /\ u = Append(t, j)
    <3>1. /\ u \in Seq(Jobs) /\ Len(u) = Len(t) + 1 /\ DOMAIN u = 1..(Len(t) + 1) /\ DOMAIN t = 1..Len(t) /\ Len(t) \in Nat
          /\ u[Len(t) + 1] = j /\ \A i \in DOMAIN t : u[i] = t[i]
      BY ONLY <1>12, <2>1, <2>3
    <3>2. \A i \in DOMAIN t : i \in DOMAIN u /\ u[i] = t[i]
      BY ONLY <3>1
    <3>3. \A i \in DOMAIN u : (i \in DOMAIN t /\ u[i] = t[i]) \/ u[i] = j
      <4>1. TAKE i \in DOMAIN u
      <4>2. i \in DOMAIN t \/ i = Len(t) + 1
        BY ONLY <3>1, <4>1
      <4> QED
        BY ONLY <3>1, <4>2
    <3>4. Len(t) + 1 \in DOMAIN u
      BY ONLY <3>1
    <3>5. \E i \in DOMAIN u : u[i] = j
      BY ONLY <3>1, <3>4
    <3> QED
      BY ONLY <2>3, <3>1, <3>2, <3>3, <3>5
  <2> QED
    BY <1>10, <2>2, <2>3
<1>14. ListOK(u, kind) /\ \A i \in DOMAIN u : u[i].do # "need-self" /\ UninstallOK(u[i], kind)
  <2>1. CASE u = t
    BY <1>11, <2>1
  <2>2. CASE u # t
    <3>1. kind = "maintain"
      BY <1>13, <2>2
    <3>2. IsJobOf(j, kind) /\ ~AtRoot(j) /\ j.do # "need-self" /\ UninstallOK(j, kind)
      BY <1>12, <3>1, HarnessesAssumption DEF IsJobOf, AtRoot, UninstallOK
    <3>3. \A i \in DOMAIN t : IsJobOf(t[i], kind) /\ ~AtRoot(t[i]) /\ t[i].do # "need-self" /\ UninstallOK(t[i], kind)
      BY <1>11, <3>1 DEF ListOK, IsJobOf
    <3>4. \A i \in DOMAIN u : IsJobOf(u[i], kind) /\ ~AtRoot(u[i]) /\ u[i].do # "need-self" /\ UninstallOK(u[i], kind)
      BY ONLY <1>13, <3>2, <3>3
    <3> QED
      BY <1>13, <3>1, <3>4 DEF ListOK, InOrder
  <2> QED
    BY <2>1, <2>2
<1>15. kind = "maintain" => \E i \in DOMAIN u : u[i].do = "refresh" /\ u[i].place = p
  <2>1. CASE u = t /\ \E i \in DOMAIN jobs : jobs[i].do = "refresh" /\ jobs[i].place = p
    <3>1. PICK i \in DOMAIN jobs : jobs[i].do = "refresh" /\ jobs[i].place = p
      BY <2>1
    <3>2. PICK k \in DOMAIN t : t[k] = jobs[i]
      BY <1>1, <1>11, <3>1
    <3> QED
      BY <2>1, <3>1, <3>2
  <2>2. CASE \E i \in DOMAIN u : u[i] = j
    BY <1>12, <2>2
  <2>3. kind # "maintain" \/ (u = t /\ \E i \in DOMAIN jobs : jobs[i].do = "refresh" /\ jobs[i].place = p) \/ u = Append(t, j)
    BY <1>10
  <2>4. ASSUME u = Append(t, j) PROVE \E i \in DOMAIN u : u[i] = j
    <3>1. t \in Seq(Jobs)
      BY <1>11 DEF ListOK
    <3>2. Len(t) + 1 \in DOMAIN u /\ u[Len(t) + 1] = j
      BY ONLY <1>12, <2>4, <3>1
    <3> QED
      BY <3>2
  <2> QED
    BY <2>1, <2>2, <2>3, <2>4
<1>16. ASSUME Shared!Continue(u), Shared!Managed(Shared!Here),
              entry' \in [Shared!Places -> [Shared!Names -> Entries]], entry'[p]["old"] = Shared!None,
              \A q \in Shared!Places, m \in Shared!Names : q # p \/ m = "skill" => entry'[q][m] = entry[q][m],
              \/ Shared!Managed(entry'[p]["self"])
              \/ entry'[p]["self"] = Shared!None
              \/ entry'[p]["self"] = entry[p]["self"] /\ skillCmd.force,
              entry[p]["self"] = Shared!Own => entry'[p]["self"] = Shared!Own
       PROVE  KeepsAll
  <2>1. MineOK' /\ mine' \subseteq Shared!Places \X Shared!Names
    <3>1. ASSUME NEW h \in Harnesses, <<h, "skill">> \in mine'
          PROVE  entry'[h]["skill"] = entry[h]["skill"] /\ index'[h] = index[h]
      BY <1>1, <1>4, <1>16 DEF Shared!Places
    <3> QED
      BY <1>1, <3>1, MineStays
  <2>2. \A i \in DOMAIN u : UninstallOK(u[i], kind)'
    <3>1. \A i \in DOMAIN u : IsJobOf(u[i], kind) /\ UninstallOK(u[i], kind)
      BY <1>14 DEF ListOK
    <3> QED
      BY <1>1, <1>8, <3>1, UninstallsStay
  <2>3. ASSUME NEW h \in had, kind # "self-uninstall" PROVE SelfStays(u, h)'
    <3>1. KeptSelf(h) /\ h \in Shared!Places
      BY <1>1, <1>8, <2>3 DEF SkillsInv, SelfKept, Shared!TypeOK, Shared!Places
    <3>2. (u # <<>> => skillCmd' = skillCmd)
      BY <1>16 DEF Shared!Continue
    <3>3. CASE h = p
      <4>1. CASE Shared!Managed(entry'[p]["self"])
        BY <3>3, <4>1 DEF SelfStays, Shared!HasSelf
      <4>2. ASSUME ~Shared!Managed(entry'[p]["self"]), kind = "maintain" PROVE SelfStays(u, h)'
        <5>1. PICK i \in DOMAIN u : u[i].do = "refresh" /\ u[i].place = p
          BY <1>15, <4>2
        <5>2. entry'[p]["self"] = Shared!None
          BY <1>8, <1>16, <4>2 DEF SkillsInv
        <5> QED
          BY <3>3, <5>1, <5>2 DEF SelfStays, Promise
      <4>3. ASSUME ~Shared!Managed(entry'[p]["self"]), kind # "maintain" PROVE SelfStays(u, h)'
        <5>1. PICK i \in DOMAIN u : InstallsSelf(u[i], p)
          BY <1>11, <1>13, <4>3
        <5>2. u # <<>>
          BY <5>1
        <5>3. entry'[p]["self"] = Shared!None \/ skillCmd'.force
          BY <1>16, <3>2, <4>3, <5>2
        <5>4. InstallsSelf(u[i], p)'
          BY <5>1 DEF InstallsSelf
        <5> QED
          BY <3>3, <5>1, <5>3, <5>4 DEF SelfStays, Promise
      <4> QED
        BY <4>1, <4>2, <4>3
    <3>4. CASE h # p
      <4>1. entry'[h]["self"] = entry[h]["self"] /\ entry'[h]["old"] = entry[h]["old"]
        BY <1>4, <1>16, <3>1, <3>4
      <4>2. SelfStays(t, h)
        BY <1>1, <1>5, <1>7, <3>1, KeptByRest
      <4>3. SelfStays(u, h)
        BY <1>13, <4>2 DEF SelfStays
      <4> QED
        BY <3>2, <4>1, <4>3, KeptStays DEF Shared!HasSelf
    <3> QED
      BY <3>3, <3>4
  <2>4. index' \in [Harnesses -> Shared!Scopes] /\ declared' = declared
    BY <1>1 DEF SkillsInv, Shared!TypeOK
  <2>5. SkillsInv' /\ EndsWell
    BY <1>1, <1>8, <1>14, <1>16, <2>1, <2>2, <2>3, <2>4, Continued
  <2>6. TakesOnly
    <3> SUFFICES ASSUME NEW q \in Shared!Places, NEW m \in Shared!Names, entry'[q][m] # entry[q][m]
                 PROVE  /\ entry[q][m] = Shared!Own => skillCmd.force \/ (q = Root /\ skillCmd.answer = "replace")
                        /\ <<q, m>> \in mine /\ q \in Native => skillCmd.kind \in AboutSkills
      BY DEF TakesOnly
    <3>1. q = p /\ m \in {"self", "old"}
      BY <1>16 DEF Shared!Names
    <3>2. <<q, m>> \notin mine
      BY <3>1, MineManaged
    <3>3. entry[q][m] # Shared!Own
      BY <1>4, <1>16, <3>1, EntryValues
    <3> QED
      BY <3>2, <3>3
  <2> QED
    BY <2>5, <2>6 DEF KeepsAll
<1>17. CASE /\ Shared!Managed(Shared!Here) /\ entry[p]["self"] = Shared!None /\ Shared!Continue(u)
            /\ entry' = [entry EXCEPT ![p]["old"] = Shared!None, ![p]["self"] = Shared!Here]
  <2>1. /\ entry \in [Shared!Places -> [Shared!Names -> Entries]] /\ Shared!None \in Entries /\ Shared!Here \in Entries
    BY <1>4, EntryValues DEF SkillsInv, Shared!TypeOK, Entries
  <2>2. /\ entry' \in [Shared!Places -> [Shared!Names -> Entries]] /\ entry'[p]["old"] = Shared!None /\ entry'[p]["self"] = Shared!Here
        /\ \A q \in Shared!Places, m \in Shared!Names : q # p \/ m = "skill" => entry'[q][m] = entry[q][m]
    BY <1>4, <1>17, <2>1
  <2> QED
    BY <1>16, <1>17, <2>2, EntryValues
<1>18. CASE /\ Shared!Managed(Shared!Here) /\ Shared!Continue(u) /\ Shared!SetHere(Shared!None)
            /\ entry[p]["self"] = Shared!None \/ Shared!Managed(entry[p]["self"]) \/ skillCmd.force
  <2>1. PICK e : e = Shared!None
    OBVIOUS
  <2>2. Shared!TypeOK /\ entry' = [entry EXCEPT ![p]["old"] = e] /\ e \in Entries
    BY <1>2, <1>3, <1>18, <2>1, EntryValues DEF Shared!SetHere, SkillsInv
  <2>3. "old" \in Shared!Names /\ "self" \in Shared!Names /\ p \in Shared!Places
    BY <1>4
  <2>4. /\ entry' \in [Shared!Places -> [Shared!Names -> Entries]] /\ entry'[p]["old"] = e
        /\ \A q \in Shared!Places, m \in Shared!Names : q # p \/ m # "old" => entry'[q][m] = entry[q][m]
    BY ONLY <2>2, <2>3, EntryIsWritten
  <2>5. entry'[p]["self"] = entry[p]["self"] /\ entry'[p]["old"] = Shared!None
    BY <2>1, <2>3, <2>4
  <2>6. \A q \in Shared!Places, m \in Shared!Names : q # p \/ m = "skill" => entry'[q][m] = entry[q][m]
    BY <2>4
  <2> QED
    BY <1>16, <1>18, <2>4, <2>5, <2>6
<1>19. \/ Shared!Done /\ UNCHANGED entry
       \/ /\ Shared!Managed(Shared!Here) /\ entry[p]["self"] = Shared!None /\ Shared!Continue(u)
          /\ entry' = [entry EXCEPT ![p]["old"] = Shared!None, ![p]["self"] = Shared!Here]
       \/ /\ Shared!Managed(Shared!Here) /\ Shared!Continue(u) /\ Shared!SetHere(Shared!None)
          /\ entry[p]["self"] = Shared!None \/ Shared!Managed(entry[p]["self"]) \/ skillCmd.force
  BY <1>3, <1>7, <1>8, <1>9, <1>10 DEF Shared!Migrate
<1> QED
  BY <1>6, <1>17, <1>18, <1>19
\* In a launch root a copy goes that is no longer selected.
LEMMA UnselectKeeps == ASSUME SkillsInv, Shared!Unselect PROVE KeepsAll
<1>1. jobs # <<>> /\ Shared!job.do = "unselect" /\ skillAt = "none" /\ UNCHANGED <<index, declared, mine>> /\ Shared!Done
  BY DEF Shared!Unselect, Shared!Doing
<1>2. /\ Shared!job.place = Root /\ Root \notin Harnesses /\ Root \in Shared!Places /\ Shared!job.name = "skill" /\ "skill" \in Shared!Names
      /\ skillCmd.kind = "launch" /\ AtRoot(Shared!job)
  BY <1>1, FirstJobFits DEF AtRoot, Shared!Places, Shared!Names
<1>3. \A h : ~Promise(Shared!job, h)
  BY <1>1 DEF Promise, InstallsSelf
<1>4. CASE UNCHANGED entry
  BY <1>1, <1>3, <1>4, DoneKeeps
<1>8. CASE Shared!Here.kind = "copy" /\ Shared!SetHere(Shared!None)
  <2>1. PICK e : e = Shared!None
    OBVIOUS
  <2>2. e \in Entries /\ Shared!SetHere(e) /\ Shared!Here # Shared!Own /\ Shared!job.name \in Shared!Names
    BY <1>2, <1>8, <2>1, EntryValues DEF Shared!Own, Shared!Entry
  <2>3. Shared!Slot \notin mine
    BY <1>2, MineManaged DEF Shared!Slot
  <2>4. TakesOnly
    BY <1>1, <2>2, <2>3, TakesHere
  <2>5. /\ entry' \in [Shared!Places -> [Shared!Names -> Entries]]
        /\ \A q \in Shared!Places, m \in Shared!Names : q # Root \/ m # "skill" => entry'[q][m] = entry[q][m]
    <3>1. Shared!TypeOK /\ entry' = [entry EXCEPT ![Root]["skill"] = e] /\ Root \in Shared!Places /\ "skill" \in Shared!Names /\ e \in Entries
      BY <1>2, <2>2 DEF Shared!SetHere, SkillsInv
    <3> QED
      BY ONLY <3>1, EntryIsWritten
  <2>6. \A h \in Harnesses, n \in Shared!Names : entry'[h][n] = entry[h][n]
    BY <1>2, <2>5 DEF Shared!Places
  <2>7. MineOK' /\ mine' \subseteq Shared!Places \X Shared!Names
    <3>1. \A h \in Harnesses : entry'[h]["skill"] = entry[h]["skill"] /\ index'[h] = index[h]
      BY <1>1, <1>2, <2>6
    <3> QED
      BY <1>1, <3>1, MineStays
  <2>8. PICK t : t = Tail(jobs)
    OBVIOUS
  <2>9. PICK kind : kind = skillCmd.kind
    OBVIOUS
  <2>10. t = <<>> /\ ListOK(t, skillCmd.kind) /\ DOMAIN t = {} /\ Shared!Continue(t)
    <3>1. t = <<>> /\ ListOK(t, skillCmd.kind)
      BY <1>1, <1>2, <2>8, RestOK
    <3>2. Shared!Continue(t)
      BY <1>1, <2>8 DEF Shared!Done
    <3> QED
      BY <3>1, <3>2
  <2>11. ASSUME NEW h \in had PROVE SelfStays(t, h)'
    <3>1. KeptSelf(h)
      BY <1>1, <1>2 DEF SkillsInv, SelfKept
    <3>2. SelfStays(t, h)
      BY <1>1, <1>3, <2>8, <3>1, KeptByRest
    <3>3. h \in Harnesses /\ "self" \in Shared!Names /\ "old" \in Shared!Names
      BY <2>11 DEF SkillsInv, Shared!TypeOK, Shared!Names
    <3>4. Shared!HasSelf(h)
      BY <2>10, <3>2 DEF SelfStays
    <3> QED
      BY <2>6, <3>3, <3>4 DEF SelfStays, Shared!HasSelf
  <2>12. index' \in [Harnesses -> Shared!Scopes] /\ declared' = declared
    BY <1>1 DEF SkillsInv, Shared!TypeOK
  <2>13. SkillsInv' /\ EndsWell
    BY <1>1, <2>5, <2>7, <2>9, <2>10, <2>11, <2>12, Continued
  <2> QED
    BY <2>4, <2>13 DEF KeepsAll
<1> QED
  BY <1>1, <1>4, <1>8 DEF Shared!Unselect

\* What a launch collides with stays, or waits to be replaced with consent.
LEMMA MaterializeKeeps == ASSUME SkillsInv, Shared!Materialize PROVE KeepsAll
<1>1. jobs # <<>> /\ Shared!job.do = "materialize" /\ skillAt = "none" /\ UNCHANGED <<entry, index, declared, mine>>
  BY DEF Shared!Materialize, Shared!Doing
<1>2. /\ Shared!job.place = Root /\ Root \notin Harnesses /\ AtRoot(Shared!job)
  BY <1>1, FirstJobFits, HarnessesAssumption DEF AtRoot
<1>3. \A h : ~Promise(Shared!job, h)
  BY <1>1 DEF Promise, InstallsSelf
<1>4. CASE Shared!Done
  BY <1>1, <1>3, <1>4, DoneKeeps
<1>5. CASE Shared!Continue(<<>>)
  <2>1. PICK t : t = Tail(jobs)
    OBVIOUS
  <2>2. t = <<>>
    BY <1>1, <1>2, <2>1, RestOK
  <2> QED
    BY <1>4, <1>5, <2>1, <2>2 DEF Shared!Done
<1>6. CASE (Shared!Collides => skillCmd.answer = "replace") /\ Shared!At("replace")
  <2>1. skillAt' = "replace" /\ jobs' = jobs /\ skillCmd' = skillCmd /\ had' = had /\ Shared!job' = Shared!job /\ Shared!Here' = Shared!Here /\ Shared!Slot' = Shared!Slot
    BY <1>1, <1>6 DEF Shared!At, Shared!job, Shared!Here, Shared!Slot
  <2>2. Shared!Slot \notin mine
    BY <1>2, MineManaged DEF Shared!Slot
  <2>3. Shared!Here = Shared!Own => skillCmd.answer = "replace"
    BY <1>6 DEF Shared!Collides, Shared!Own, Shared!None, Shared!Entry
  <2>4. StepOK'
    BY <1>1, <2>1, <2>2, <2>3 DEF StepOK
  <2>5. MineOK' /\ mine' \subseteq Shared!Places \X Shared!Names
    BY <1>1 DEF SkillsInv, Shared!TypeOK, MineOK, Shared!Scope
  <2>6. PICK kind : kind = skillCmd.kind
    OBVIOUS
  <2>7. \A i \in DOMAIN jobs : UninstallOK(jobs[i], kind)'
    BY <1>1, <2>1, <2>6 DEF SkillsInv, UninstallsOK, UninstallOK
  <2>8. ASSUME NEW h \in had, kind # "self-uninstall" PROVE KeptSelf(h)'
    <3>1. KeptSelf(h) /\ ~InstallsSelf(Shared!job, h)
      BY <1>1, <2>6, <2>8 DEF SkillsInv, SelfKept, InstallsSelf
    <3> QED
      BY <1>1, <2>1, <3>1 DEF KeptSelf, SelfStays, Promise, Shared!HasSelf, InstallsSelf
  <2>9. /\ entry' \in [Shared!Places -> [Shared!Names -> Entries]] /\ index' \in [Harnesses -> Shared!Scopes] /\ Shared!job.do # "need-self"
    BY <1>1 DEF SkillsInv, Shared!TypeOK, Entries
  <2>10. SkillsInv' /\ EndsWell
    BY <1>1, <1>6, <2>4, <2>5, <2>6, <2>7, <2>8, <2>9, Stayed
  <2> QED
    BY <1>1, <2>10, TakesNone DEF KeepsAll
<1> QED
  BY <1>1, <1>4, <1>5, <1>6 DEF Shared!Materialize

\* What is there by then goes, and the copy is put in its place.
LEMMA ReplaceKeeps == ASSUME SkillsInv, Shared!Replace PROVE KeepsAll
<1>1. jobs # <<>> /\ Shared!job.do = "materialize" /\ UNCHANGED <<index, declared>>
      /\ (Shared!Here = Shared!Own => skillCmd.answer = "replace" \/ skillAt = "made since")
  BY DEF Shared!Replace, SkillsInv, StepOK
<1>2. CASE Shared!Here # Shared!None /\ Shared!TakeAway /\ Shared!At("place")
  BY <1>1, <1>2, TakeAwayKeeps
<1>3. CASE Shared!Here = Shared!None /\ Shared!Put
  BY <1>1, <1>3, PutKeeps
<1> QED
  BY <1>2, <1>3 DEF Shared!Replace

\* Another skill's write of the index.
LEMMA ReindexKeeps == ASSUME SkillsInv, Shared!Reindex PROVE KeepsAll
<1>1. jobs # <<>> /\ Shared!job.do = "reindex" /\ skillAt = "none" /\ Shared!Done /\ UNCHANGED <<entry, index, declared, mine>>
  BY DEF Shared!Reindex, Shared!Doing
<1> QED
  BY <1>1, DoneKeeps DEF Promise, InstallsSelf

\* Every step of a command.
LEMMA StepKeeps == ASSUME SkillsInv, Shared!Step PROVE KeepsAll
BY InstallKeeps, PlaceKeeps, MarkKeeps, IndexKeeps, UninstallKeeps, UnindexKeeps, ListKeeps, MigrateKeeps, RefreshKeeps,
   SelfFixKeeps, UnselectKeeps, MaterializeKeeps, ReplaceKeeps, ReindexKeeps DEF Shared!Step

-----------------------------------------------------------------------------
(* Between steps *)

\* A command that dies, or goes on after a failed write, leaves entries as they
\* are; a torn index forgets what it said of its harness.
LEMMA StopKeeps == ASSUME SkillsInv, Shared!Stop PROVE SkillsInv'
<1>1. /\ jobs # <<>> /\ skillAt' = "none" /\ had' = {} /\ UNCHANGED <<entry, declared>>
      /\ (jobs' = <<>> /\ skillCmd' = Shared!NoCommand) \/ (jobs' = Tail(jobs) /\ skillCmd' = IF Tail(jobs) = <<>> THEN Shared!NoCommand ELSE skillCmd)
  BY DEF Shared!Stop
<1>f. \/ UNCHANGED <<index, mine>>
      \/ /\ index' = [index EXCEPT ![Shared!job.place] = "none"]
         /\ mine' = {s \in mine : s[1] # Shared!job.place \/ entry[s[1]]["skill"].scope = "manual"}
  BY DEF Shared!Stop
<1>g. index \in [Harnesses -> Shared!Scopes] /\ mine \subseteq Shared!Places \X Shared!Names
  BY DEF SkillsInv, Shared!TypeOK
<1>i. /\ index' \in [Harnesses -> Shared!Scopes] /\ mine' \subseteq mine
      /\ \A s \in mine' : s[1] \in Harnesses => index'[s[1]] = index[s[1]] \/ entry[s[1]]["skill"].scope = "manual"
  BY <1>f, <1>g DEF Shared!Scopes
<1>2. MineOK' /\ SelfKept'
  <2>1. ASSUME NEW s \in mine'
        PROVE  s[1] \in Harnesses /\ s[2] = "skill" /\ Shared!Managed(entry'[s[1]]["skill"]) /\ Shared!Scope(s[1])' = "manual"
    <3>1. s \in mine /\ s[1] \in Harnesses /\ s[2] = "skill" /\ Shared!Managed(entry[s[1]]["skill"]) /\ Shared!Scope(s[1]) = "manual"
      BY <1>i, <2>1 DEF SkillsInv, MineOK
    <3>2. index'[s[1]] = index[s[1]] \/ entry[s[1]]["skill"].scope = "manual"
      BY <1>i, <2>1, <3>1
    <3> QED
      BY <1>1, <3>1, <3>2 DEF Shared!Scope
  <2> QED
    BY <1>1, <2>1 DEF MineOK, SelfKept
<1>3. StepOK'
  BY <1>1 DEF StepOK
<1>4. ASSUME jobs' = <<>>, skillCmd' = Shared!NoCommand PROVE SkillsInv'
  <2>1. Shared!TypeOK'
    <3>1. Shared!TypeOK /\ DOMAIN jobs' = {} /\ mine' \subseteq Shared!Places \X Shared!Names /\ had' \subseteq Harnesses
      BY <1>1, <1>g, <1>i, <1>4 DEF SkillsInv
    <3> QED
      BY ONLY <1>1, <1>i, <3>1 DEF Shared!TypeOK
  <2>2. ListOK(jobs', skillCmd'.kind) /\ UninstallsOK' /\ skillCmd'.kind = "none"
    BY <1>4 DEF ListOK, InOrder, UninstallsOK, Shared!NoCommand
  <2> QED
    BY <1>2, <1>3, <2>1, <2>2 DEF SkillsInv
<1>5. PICK t : t = Tail(jobs)
  OBVIOUS
<1>6. ASSUME jobs' = t, skillCmd' = skillCmd PROVE SkillsInv'
  <2>1. PICK kind : kind = skillCmd.kind
    OBVIOUS
  <2>2. ListOK(t, kind) /\ \A i \in DOMAIN t : UninstallOK(t[i], kind)
    BY <1>1, <1>5, <2>1, RestOK
  <2>3. \A i \in DOMAIN t : t[i] \in Jobs
    BY <2>2 DEF ListOK
  <2>4. Shared!TypeOK'
    BY <1>1, <1>g, <1>i, <1>6, <2>3 DEF SkillsInv, Shared!TypeOK, Jobs
  <2>5. \A i \in DOMAIN t : UninstallOK(t[i], kind)'
    BY <1>1, <1>i, <2>2 DEF UninstallOK
  <2>6. UninstallsOK' /\ skillCmd'.kind = kind
    BY <1>6, <2>1, <2>5 DEF UninstallsOK
  <2> QED
    BY <1>2, <1>3, <1>6, <2>1, <2>2, <2>4, <2>6 DEF SkillsInv
<1> QED
  BY <1>1, <1>4, <1>5, <1>6

\* A command begins with a list that is one of its kind.
LEMMA BeginKeeps ==
  ASSUME SkillsInv, NEW kind, NEW force, NEW answer, NEW tasks, Shared!Begin(kind, force, answer, tasks), Starts(tasks, kind),
         kind = "maintain" => ~force
  PROVE  SkillsInv' /\ entry' = entry /\ jobs = <<>>
<1>1. /\ jobs = <<>> /\ tasks # <<>> /\ skillCmd' = [kind |-> kind, force |-> force, answer |-> answer] /\ jobs' = tasks
      /\ had' = {h \in Harnesses : Shared!HasSelf(h)} /\ UNCHANGED <<entry, index, declared, skillAt, mine>>
  BY DEF Shared!Begin
<1>2. skillAt' = "none"
  BY <1>1 DEF SkillsInv, StepOK
<1>3. ListOK(tasks, kind) /\ \A i \in DOMAIN tasks : tasks[i] \in Jobs /\ IsJobOf(tasks[i], kind) /\ Fresh(tasks[i], kind)
  BY DEF Starts, ListOK
<1>4. Shared!TypeOK'
  BY <1>1, <1>2, <1>3 DEF SkillsInv, Shared!TypeOK, Jobs
<1>5. MineOK' /\ StepOK'
  BY <1>1, <1>2 DEF SkillsInv, MineOK, Shared!Scope, StepOK
<1>6. ASSUME NEW i \in DOMAIN tasks PROVE UninstallOK(tasks[i], kind)'
  <2>1. ASSUME tasks[i].do = "uninstall", tasks[i].place \in Native, kind \notin AboutSkills
        PROVE  <<tasks[i].place, tasks[i].name>> \notin mine'
    <3>1. tasks[i].name \in SelfNames
      BY <1>3, <2>1 DEF Fresh, AboutSkills
    <3> QED
      BY <1>1, <3>1, MineManaged DEF SelfNames
  <2>2. tasks[i].do = "uninstall" /\ tasks[i].name \in SelfNames => kind = "self-uninstall"
    BY <1>3 DEF IsJobOf, Fresh
  <2> QED
    BY <2>1, <2>2 DEF UninstallOK
<1>7. UninstallsOK' /\ skillCmd'.kind = kind /\ skillCmd'.force = force
  BY <1>1, <1>6 DEF UninstallsOK
<1>8. SelfKept'
  <2>1. \A h \in had' : Shared!HasSelf(h)'
    BY <1>1 DEF Shared!HasSelf
  <2> QED
    BY <2>1 DEF SelfKept, KeptSelf, SelfStays
<1> QED
  BY <1>1, <1>3, <1>4, <1>5, <1>7, <1>8 DEF SkillsInv

\* Between commands an entry changes, and is no manual install of `my` after it.
LEMMA ChangeKeeps ==
  ASSUME SkillsInv, Shared!ByHand, NEW p \in Shared!Places, NEW n \in Shared!Names, NEW e \in Entries, Shared!Change(p, n, e)
  PROVE  SkillsInv'
<1>1. /\ jobs = <<>> /\ UNCHANGED <<index, skillCmd, jobs, skillAt, had, declared>>
      /\ entry' = [entry EXCEPT ![p][n] = e] /\ mine' = mine \ {<<p, n>>}
  BY DEF Shared!ByHand, Shared!Change
<1>2. Shared!TypeOK
  BY DEF SkillsInv
<1>3. /\ entry' \in [Shared!Places -> [Shared!Names -> Entries]]
      /\ \A q \in Shared!Places, m \in Shared!Names : q # p \/ m # n => entry'[q][m] = entry[q][m]
  BY ONLY <1>1, <1>2, EntryIsWritten, p \in Shared!Places, n \in Shared!Names, e \in Entries
<1>4. MineOK' /\ mine' \subseteq Shared!Places \X Shared!Names
  <2>1. ASSUME NEW h \in Harnesses, <<h, "skill">> \in mine'
        PROVE  entry'[h]["skill"] = entry[h]["skill"] /\ index'[h] = index[h]
    <3>1. (h # p \/ "skill" # n) /\ h \in Shared!Places /\ "skill" \in Shared!Names
      BY <1>1, <2>1 DEF Shared!Places, Shared!Names
    <3> QED
      BY <1>1, <1>3, <3>1
  <2> QED
    BY <1>1, <2>1, MineStays
<1>5. Shared!TypeOK'
  BY <1>1, <1>3, <1>4 DEF SkillsInv, Shared!TypeOK, Entries
<1>6. jobs' = <<>> /\ skillCmd' = skillCmd /\ skillAt' = "none"
  BY <1>1 DEF SkillsInv, StepOK
<1>7. ListOK(jobs', skillCmd'.kind) /\ UninstallsOK' /\ StepOK' /\ SelfKept'
  BY <1>6 DEF ListOK, InOrder, UninstallsOK, StepOK, SelfKept
<1> QED
  BY <1>4, <1>5, <1>6, <1>7 DEF SkillsInv

\* While a launch waits, what the user does concerns the launch root only.
LEMMA MeanwhileKeeps == ASSUME SkillsInv, Shared!UserMeanwhile PROVE SkillsInv'
<1>1. /\ skillAt \in {"replace", "made since"} /\ jobs # <<>> /\ Shared!job.do = "materialize"
      /\ UNCHANGED <<index, declared, skillCmd, jobs, mine, had>>
  BY DEF Shared!UserMeanwhile, SkillsInv, StepOK
<1>2. PICK e \in {Shared!None, Shared!Own} : Shared!SetHere(e) /\ skillAt' = IF e = Shared!Own THEN "made since" ELSE skillAt
  BY DEF Shared!UserMeanwhile
<1>3. /\ Shared!job.place = Root /\ Root \notin Harnesses /\ Root \in Shared!Places /\ Shared!job.name = "skill" /\ "skill" \in Shared!Names
  BY <1>1, FirstJobFits DEF AtRoot, Shared!Places, Shared!Names
<1>4. e \in Entries
  BY EntryValues
<1>5. /\ entry' \in [Shared!Places -> [Shared!Names -> Entries]] /\ entry'[Root]["skill"] = e
      /\ \A q \in Shared!Places, m \in Shared!Names : q # Root \/ m # "skill" => entry'[q][m] = entry[q][m]
  <2>1. Shared!TypeOK /\ entry' = [entry EXCEPT ![Root]["skill"] = e]
    BY <1>2, <1>3 DEF Shared!SetHere, SkillsInv
  <2>2. PICK x : x = e
    OBVIOUS
  <2>3. Shared!TypeOK /\ Root \in Shared!Places /\ "skill" \in Shared!Names /\ x \in Entries /\ entry' = [entry EXCEPT ![Root]["skill"] = x]
    BY <1>3, <1>4, <2>1, <2>2
  <2>4. /\ entry' \in [Shared!Places -> [Shared!Names -> Entries]] /\ entry'[Root]["skill"] = x
        /\ \A q \in Shared!Places, m \in Shared!Names : q # Root \/ m # "skill" => entry'[q][m] = entry[q][m]
    BY ONLY <2>3, EntryIsWritten
  <2> QED
    BY ONLY <2>2, <2>4
<1>6. \A h \in Harnesses, n \in Shared!Names : entry'[h][n] = entry[h][n]
  BY <1>3, <1>5 DEF Shared!Places
<1>7. MineOK' /\ mine' \subseteq Shared!Places \X Shared!Names
  <2>1. \A h \in Harnesses : entry'[h]["skill"] = entry[h]["skill"] /\ index'[h] = index[h]
    BY <1>1, <1>3, <1>6
  <2> QED
    BY <1>1, <2>1, MineStays
<1>8. Shared!job' = Shared!job /\ Shared!Slot' = Shared!Slot /\ Shared!Here' = e /\ skillAt' \in {"replace", "made since"} /\ Shared!Slot \notin mine
  <2>1. Shared!Slot \notin mine
    BY <1>1 DEF SkillsInv, StepOK
  <2> QED
    BY <1>1, <1>2, <1>3, <1>5, <2>1 DEF Shared!job, Shared!Slot, Shared!Here
<1>9. StepOK'
  <2>1. jobs' # <<>> /\ Shared!Slot' \notin mine' /\ Shared!job'.do = "materialize" /\ (Shared!Here' = Shared!Own => skillAt' = "made since")
    BY <1>1, <1>2, <1>8
  <2> QED
    BY ONLY <1>8, <2>1 DEF StepOK
<1>10. Shared!TypeOK'
  BY <1>1, <1>5, <1>7, <1>8 DEF SkillsInv, Shared!TypeOK, Entries
<1>11. UninstallsOK'
  <2>1. ASSUME NEW i \in DOMAIN jobs PROVE UninstallOK(jobs[i], skillCmd.kind)'
    <3>1. UninstallOK(jobs[i], skillCmd.kind)
      BY DEF SkillsInv, UninstallsOK
    <3>2. jobs[i].place \in Shared!Places
      BY DEF SkillsInv, Shared!TypeOK
    <3>3. jobs[i].name \in SelfNames => entry'[jobs[i].place][jobs[i].name] = entry[jobs[i].place][jobs[i].name]
      BY <1>5, <3>2 DEF SelfNames, Shared!Names
    <3> QED
      BY <1>1, <3>1, <3>3 DEF UninstallOK
  <2> QED
    BY <1>1, <2>1 DEF UninstallsOK
<1>12. SelfKept'
  <2>1. ASSUME NEW h \in had, KeptSelf(h) PROVE KeptSelf(h)'
    <3>1. h \in Harnesses /\ "self" \in Shared!Names /\ "old" \in Shared!Names
      BY DEF SkillsInv, Shared!TypeOK, Shared!Names
    <3>2. SelfStays(jobs, h)
      BY <1>1, <2>1 DEF KeptSelf
    <3> QED
      BY <1>1, <1>6, <3>1, <3>2 DEF KeptSelf, SelfStays, Promise, Shared!HasSelf
  <2> QED
    BY <1>1, <1>8, <2>1 DEF SkillsInv, SelfKept
<1> QED
  BY <1>1, <1>7, <1>9, <1>10, <1>11, <1>12 DEF SkillsInv

\* The manifest declares the skill, or no longer does.
LEMMA RedeclareKeeps == ASSUME SkillsInv, Shared!Redeclare PROVE SkillsInv'
<1>1. /\ jobs = <<>> /\ UNCHANGED <<entry, index, skillCmd, jobs, skillAt, had, mine>> /\ declared' = ~declared
  BY DEF Shared!ByHand, Shared!Redeclare
<1>2. Shared!TypeOK' /\ MineOK' /\ UninstallsOK'
  <2>1. Shared!TypeOK'
    BY <1>1 DEF SkillsInv, Shared!TypeOK
  <2> QED
    BY <1>1, <2>1 DEF SkillsInv, MineOK, Shared!Scope, UninstallsOK
<1>3. StepOK' /\ SelfKept' /\ skillCmd' = skillCmd /\ jobs' = jobs
  BY <1>1 DEF SkillsInv, StepOK, SelfKept
<1> QED
  BY <1>2, <1>3 DEF SkillsInv

-----------------------------------------------------------------------------
(* The specification *)

\* What is counted.
Counted == skillByHand \in Nat /\ skillStops \in Nat

\* Nothing is there at first.
LEMMA SkillsInit == Shared!Init => SkillsInv /\ Counted
<1> SUFFICES ASSUME Shared!Init PROVE SkillsInv /\ Counted
  OBVIOUS
<1>1. /\ jobs = <<>> /\ skillAt = "none" /\ mine = {} /\ skillCmd.kind = "none" /\ Counted
  BY DEF Shared!Init, Shared!NoCommand, Counted
<1>2. Shared!TypeOK
  BY EntryValues DEF Shared!Init, Shared!TypeOK, Shared!Scopes, Entries
<1>3. ListOK(jobs, skillCmd.kind) /\ UninstallsOK /\ StepOK /\ MineOK /\ SelfKept
  BY <1>1 DEF ListOK, InOrder, UninstallsOK, StepOK, MineOK, SelfKept
<1> QED
  BY <1>1, <1>2, <1>3 DEF SkillsInv

\* What a command begins with is a list of its kind.
LEMMA Begins ==
  ASSUME NEW H \in Groups, NEW w \in Ways
  PROVE  /\ H \in SUBSET Harnesses /\ w.as \in Forms
         /\ Starts(Shared!Installs(H, w.as, "manual"), "install")
         /\ \A tasks \in {Shared!Installs(H, w.as, "manual"), Shared!SkillSync(H, w.as, "manual")} : Starts(tasks, "sync")
         /\ Starts(Shared!SelfInstall(H, w.as), "self-install") /\ Starts(Shared!Setup(H, w.as), "setup")
         /\ Starts(Shared!Uninstalls(H), "uninstall") /\ Starts(Shared!SelfUninstall(H), "self-uninstall")
         /\ \A ref \in {"none", "skill", "self"} : Starts(Shared!Purge(H, ref), "purge")
<1>1. H \in SUBSET Harnesses /\ w.as \in Forms
  BY WaysAssumption DEF Forms
<1> QED
  BY <1>1, AllStart

\* A command's beginning.
LEMMA CommandKeeps ==
  ASSUME SkillsInv, NEW kind, NEW force, NEW answer, NEW tasks, Shared!Begin(kind, force, answer, tasks), Starts(tasks, kind),
         kind = "maintain" => ~force
  PROVE  SkillsInv' /\ Shared!TakesNothing /\ UNCHANGED <<skillByHand, skillStops>>
<1>1. SkillsInv' /\ entry' = entry /\ jobs = <<>>
  BY BeginKeeps
<1> QED
  BY <1>1 DEF Shared!TakesNothing, Shared!Begin

\* What one of the steps does keeps what is promised, and takes nothing it may not.
LEMMA NextKeeps ==
  ASSUME SkillsInv, Counted, Shared!Next
  PROVE  SkillsInv' /\ Shared!TakesNothing /\ Counted'
<1>1. ASSUME NEW H \in Groups, NEW w \in Ways,
             \/ Shared!Begin("install", w.force, "none", Shared!Installs(H, w.as, "manual"))
             \/ \E tasks \in {Shared!Installs(H, w.as, "manual"), Shared!SkillSync(H, w.as, "manual")} :
                   Shared!Begin("sync", w.force, "none", tasks)
             \/ Shared!Begin("self-install", w.force, "none", Shared!SelfInstall(H, w.as))
             \/ Shared!Begin("setup", w.force, "none", Shared!Setup(H, w.as))
             \/ Shared!Begin("uninstall", w.force, "none", Shared!Uninstalls(H))
             \/ Shared!Begin("self-uninstall", w.force, "none", Shared!SelfUninstall(H))
             \/ \E ref \in {"none", "skill", "self"} : Shared!Begin("purge", w.force, "none", Shared!Purge(H, ref))
      PROVE  SkillsInv' /\ Shared!TakesNothing /\ Counted'
  BY <1>1, Begins, CommandKeeps DEF Counted
<1>2. CASE Shared!Rederive
  BY <1>2, AllStart, CommandKeeps DEF Shared!Rederive, Counted
<1>3. CASE \E tasks \in {Shared!DoctorSelf, Shared!DoctorDerived \o Shared!DoctorSelf} : Shared!Begin("doctor", FALSE, "none", tasks)
  BY <1>3, DoctorStarts, CommandKeeps DEF Counted
<1>4. CASE Shared!Begin("maintain", FALSE, "none", Shared!Maintain)
  BY <1>4, MaintainStarts, CommandKeeps DEF Counted
<1>5. CASE \E h \in Harnesses, profile \in {"with", "without"}, answer \in {"none", "skip", "replace"} :
             Shared!Begin("launch", FALSE, answer, Shared!Launch(h, profile))
  BY <1>5, LaunchStarts, CommandKeeps DEF Counted
<1>6. CASE Shared!Step
  <2>1. KeepsAll
    BY <1>6, StepKeeps
  <2>2. skillByHand' = skillByHand /\ skillStops' \in {skillStops, skillStops + 1}
    BY <1>6 DEF Shared!Step, Shared!Install, Shared!Place, Shared!Mark, Shared!Index, Shared!Uninstall, Shared!Unindex, Shared!List, Shared!Migrate, Shared!Refresh, Shared!SelfFix, Shared!Reindex, Shared!Unselect, Shared!Materialize, Shared!Replace,
         Shared!bounds
  <2>3. SkillsInv' /\ Counted'
    BY <2>1, <2>2 DEF KeepsAll, Counted
  <2>4. \A p \in Shared!Places, n \in Shared!Names :
          entry'[p][n] # entry[p][n] =>
            /\ entry[p][n] = Shared!Own => skillCmd.force \/ (p = Root /\ (skillCmd.answer = "replace" \/ skillAt = "made since"))
            /\ <<p, n>> \in mine /\ p \in Native => skillCmd.kind \in {"install", "sync", "uninstall", "purge"}
    BY ONLY <2>1 DEF KeepsAll, TakesOnly, AboutSkills
  <2>5. jobs # <<>> /\ jobs' = <<>> /\ skillCmd.kind # "self-uninstall" =>
          \A h \in had : skillStops' # skillStops \/ Shared!HasSelf(h)'
    BY ONLY <2>1 DEF KeepsAll, EndsWell
  <2> QED
    BY ONLY <2>3, <2>4, <2>5 DEF Shared!TakesNothing
<1>7. CASE Shared!Stop
  <2>1. entry' = entry /\ skillStops' = skillStops + 1 /\ skillStops' # skillStops /\ skillStops' \in Nat /\ skillByHand' = skillByHand
    BY <1>7 DEF Shared!Stop, Counted
  <2> QED
    BY <1>7, <2>1, StopKeeps DEF Shared!TakesNothing, Counted
<1>8. ASSUME Shared!ByHand PROVE Shared!TakesNothing /\ Counted'
  <2>1. skillByHand' = skillByHand + 1 /\ skillByHand' # skillByHand /\ skillByHand' \in Nat /\ skillStops' = skillStops
    BY <1>8 DEF Shared!ByHand, Counted
  <2> QED
    BY <2>1 DEF Shared!TakesNothing, Counted
<1>9. ASSUME NEW p \in Shared!Places, NEW n \in Shared!Names, Shared!UserMakes(p, n) \/ Shared!UserRemoves(p, n)
      PROVE  SkillsInv' /\ Shared!TakesNothing /\ Counted'
  BY <1>8, <1>9, ChangeKeeps, EntryValues DEF Shared!UserMakes, Shared!UserRemoves
<1>10. ASSUME NEW h \in Harnesses, NEW n \in {"skill", "old"}, NEW e \in {Shared!Link, Shared!Entry("copy", "none")}, Shared!OlderRelease(h, n, e)
       PROVE  SkillsInv' /\ Shared!TakesNothing /\ Counted'
  <2>1. e \in Entries /\ h \in Shared!Places /\ n \in Shared!Names
    BY EntryValues DEF Shared!Scopes, Shared!Places, Shared!Names
  <2> QED
    BY <1>8, <1>10, <2>1, ChangeKeeps DEF Shared!OlderRelease
<1>11. CASE Shared!Redeclare
  BY <1>8, <1>11, RedeclareKeeps DEF Shared!Redeclare
<1>12. CASE Shared!UserMeanwhile
  <2>1. skillByHand' = skillByHand + 1 /\ skillByHand' # skillByHand /\ skillByHand' \in Nat /\ skillStops' = skillStops
    <3>1. skillByHand' = skillByHand + 1 /\ skillStops' = skillStops
      BY <1>12 DEF Shared!UserMeanwhile
    <3>2. skillByHand \in Nat
      BY DEF Counted
    <3> QED
      BY ONLY <3>1, <3>2
  <2> QED
    BY <1>12, <2>1, MeanwhileKeeps DEF Shared!TakesNothing, Counted
<1> QED
  BY <1>1, <1>2, <1>3, <1>4, <1>5, <1>6, <1>7, <1>9, <1>10, <1>11, <1>12 DEF Shared!Next

\* Nor does a step of something else.
LEMMA SkillsStep == SkillsInv /\ Counted /\ [Shared!Next]_(Shared!vars) => SkillsInv' /\ Shared!TakesNothing /\ Counted'
<1>1. ASSUME SkillsInv, Counted, UNCHANGED Shared!vars PROVE SkillsInv' /\ Shared!TakesNothing /\ Counted'
  <2>1. UNCHANGED <<entry, index, declared, skillCmd, jobs, skillAt, mine, had, skillByHand, skillStops>>
    BY <1>1 DEF Shared!vars
  <2>2. SkillsInv'
    <3>1. Shared!TypeOK' /\ ListOK(jobs, skillCmd.kind)' /\ UninstallsOK'
      BY <1>1, <2>1 DEF SkillsInv, Shared!TypeOK, ListOK, InOrder, UninstallsOK, UninstallOK
    <3>2. StepOK'
      BY <1>1, <2>1 DEF SkillsInv, StepOK, Shared!job, Shared!Here, Shared!Slot
    <3>3. MineOK'
      BY <1>1, <2>1 DEF SkillsInv, MineOK, Shared!Scope
    <3>4. SelfKept'
      BY <1>1, <2>1 DEF SkillsInv, SelfKept, KeptSelf, SelfStays, Promise, Shared!HasSelf, Shared!job
    <3> QED
      BY <1>1, <2>1, <3>1, <3>2, <3>3, <3>4 DEF SkillsInv
  <2>3. Shared!TakesNothing /\ Counted'
    BY <1>1, <2>1 DEF Shared!TakesNothing, Counted
  <2> QED
    BY <2>2, <2>3
<1> QED
  BY <1>1, NextKeeps

-----------------------------------------------------------------------------
(***************************************************************************)
(* The umbrella's inventory.                                               *)
(***************************************************************************)
NoPlace == Inventory!Dir("none", "none")
ToDo == {"manifest", "migrate", "ensure", "save", "refresh", "role", "mounts", "record-mounts", "repos",
         "record-repos", "repo", "end", "pull", "sync", "remove", "forget"}
AllJobs == [do : ToDo, at : Inventory!Places \cup {NoPlace}]
Roles == {ask.role : ask \in Asked} \cup {"none"}
States == [there : BOOLEAN, role : Roles, selected : SUBSET Repos, legacy : SUBSET Repos, listed : SUBSET (Repos \cup Inventory!Mounts)]
InventoryIds == Repos \cup Inventory!Mounts \cup {"none"}
CommandKinds == {"none", "setup", "mount-sync", "sync-all", "repo-sync", "repo-add", "remove", "manifest-sync"}
Commands == [kind : CommandKinds, id : InventoryIds, ask : Asked \cup {Inventory!NoRole}, role : Roles, jobs : Seq(AllJobs), mem : States,
             tried : SUBSET Inventory!Places, failed : SUBSET Inventory!Places]

\* What a job of a command may be.
MayBe(j, kind, id) ==
  /\ j.do \in {"sync", "remove"} => j.at \in Inventory!Places
  /\ j.do \notin {"sync", "remove"} => j = Inventory!Do(j.do)
  /\ j.do \in {"manifest", "refresh", "role", "mounts", "repos", "end"} => kind = "setup"
  /\ j.do \in {"pull", "repo", "remove", "forget"} => kind # "setup"
  /\ j.do = "remove" => kind = "remove" /\ j.at[2] = id
  /\ j.do = "forget" => kind = "remove"
  /\ j.do = "repo" => kind = "repo-add"

\* What reads the state file for the write that follows.
Reads == {"ensure", "record-mounts", "record-repos", "forget"}

\* What a setup does before it looks for its repos.
Early == {"manifest", "migrate", "ensure", "refresh", "role", "mounts", "record-mounts"}

\* Whether a may come before b.
MayPrecede(a, b) ==
  /\ a # "end"
  /\ a = "repos" => b = "end"
  /\ a = "record-repos" => b # "sync"
  /\ a = "role" => b # "ensure"

HasIn(s, do) == \E i \in DOMAIN s : s[i].do = do
PendingIn(s, pl) == \E i \in DOMAIN s : s[i] = Inventory!Job("sync", pl)
FirstIs(s, do) == s # <<>> /\ s[1].do = do

\* In which order: a write of the state file follows its read, and a setup goes
\* on to its repos.
InSequence(s, kind) ==
  /\ \A i \in DOMAIN s : i - 1 \in DOMAIN s /\ s[i].do = "save" => s[i - 1].do \in Reads
  /\ \A i \in DOMAIN s : s[i].do \in Reads => i + 1 \in DOMAIN s /\ s[i + 1].do = "save"
  /\ \A i, k \in DOMAIN s : i < k => MayPrecede(s[i].do, s[k].do)
  /\ kind = "setup" => \A i \in DOMAIN s : s[i].do \in Early => \E k \in DOMAIN s : i < k /\ s[k].do = "repos"

MayDo(s, kind, id) == s \in Seq(AllJobs) /\ (\A i \in DOMAIN s : MayBe(s[i], kind, id)) /\ InSequence(s, kind)

\* A process is idle, or has a list of jobs.
CommandOK(c) ==
  /\ c.jobs = <<>> => c = Inventory!Idle
  /\ MayDo(c.jobs, c.kind, c.id) /\ (c.kind = "repo-add" => c.id \in Repos)

InventoryTypes ==
  /\ Inventory!TypeOK /\ trouble \in Nat
  /\ saved \in States /\ running \in [Procs -> Commands]

\* A command that nothing disturbed is the only one.
OnlyOne(p) == running[p].jobs # <<>> /\ \A q \in Procs : q # p => running[q] = Inventory!Idle

\* What it is about to write keeps what is selected and listed.
MemKeeps(c) == Inventory!Selected(saved) \subseteq Inventory!Selected(c.mem) /\ saved.listed \subseteq c.mem.listed
WritesAll(c) ==
  c.kind # "remove" =>
    /\ FirstIs(c.jobs, "save") => MemKeeps(c)
    /\ HasIn(c.jobs, "role") /\ ~HasIn(c.jobs, "ensure") => MemKeeps(c)

\* What a setup has reached by now; its manifest whatever others do.
ManifestThere(c) == c.kind = "setup" /\ ~HasIn(c.jobs, "manifest") => Inventory!Synced
RoleSet(c) ==
  c.ask.set /\ ~HasIn(c.jobs, "role") =>
    IF FirstIs(c.jobs, "save") THEN c.mem.role = c.ask.role ELSE saved.role = c.ask.role
MountsThere(c) ==
  /\ ~HasIn(c.jobs, "mounts") =>
       \A m \in Needed : \/ PendingIn(c.jobs, Inventory!Dir("mount", m)) \/ disk[Inventory!Dir("mount", m)] \in Inventory!Git
                         \/ Inventory!Dir("mount", m) \in c.failed
  /\ ~HasIn(c.jobs, "repos") => \A m \in Needed : disk[Inventory!Dir("mount", m)] \in Inventory!Git
\* A place of a repo that was seen to, or is to be.
SeenTo(c, r) == \E k \in {"repos", "products"} : PendingIn(c.jobs, Inventory!Dir(k, r)) \/ Inventory!Dir(k, r) \in c.tried
ReposThere(c) ==
  ~HasIn(c.jobs, "repos") =>
    \A r \in Inventory!doc.defaults :
      IF HasIn(c.jobs, "record-repos") THEN SeenTo(c, r)
      ELSE IF HasIn(c.jobs, "save") THEN r \in c.mem.selected ELSE r \in saved.selected
SetupReached(c) ==
  c.kind = "setup" => RoleSet(c) /\ MountsThere(c) /\ ReposThere(c)

InventoryInv ==
  /\ InventoryTypes
  /\ \A p \in Procs : CommandOK(running[p]) /\ ManifestThere(running[p])
  /\ \A p \in alone : OnlyOne(p) /\ WritesAll(running[p]) /\ SetupReached(running[p])

-----------------------------------------------------------------------------
(* Lists of jobs *)

\* A finite set as a sequence has each of its elements, and no others.
LEMMA SetInSequence ==
  ASSUME NEW S, IsFiniteSet(S)
  PROVE  /\ Cardinality(S) \in Nat /\ Inventory!SetToSeq(S) \in [1..Cardinality(S) -> S]
         /\ \A x \in S : \E i \in DOMAIN Inventory!SetToSeq(S) : Inventory!SetToSeq(S)[i] = x
<1> DEFINE n == Cardinality(S)
<1>1. n \in Nat /\ ExistsBijection(1..n, S)
  BY FS_CardinalityType
<1>2. PICK g : g \in Bijection(1..n, S)
  BY <1>1 DEF ExistsBijection
<1>3. g \in [1..n -> S] /\ IsInjective(g)
  BY <1>2 DEF Bijection, Injection
<1> PICK f : f = Inventory!SetToSeq(S)
  OBVIOUS
<1>4. f \in [1..n -> S] /\ IsInjective(f)
  <2>1. Inventory!Cardinality(S) = Cardinality(S)
    BY DEF Inventory!Cardinality, Cardinality
  <2>2. \A h : Inventory!IsInjective(h) <=> IsInjective(h)
    BY DEF Inventory!IsInjective, IsInjective
  <2> QED
    BY <1>3, <2>1, <2>2 DEF Inventory!SetToSeq
<1> DEFINE T == {f[i] : i \in 1..n}
<1>5. f \in Surjection(1..n, T) /\ f \in Injection(1..n, T)
  BY <1>4 DEF Surjection, Injection
<1>6. IsFiniteSet(1..n) /\ Cardinality(1..n) = n
  BY <1>1, FS_Interval
<1>7. Cardinality(T) = n
  BY <1>5, <1>6, FS_Surjection
<1>8. T \subseteq S
  BY <1>4
<1>9. T = S
  BY <1>7, <1>8, FS_Subset
<1> QED
  BY <1>1, <1>4, <1>9

\* A job of each kind.
LEMMA DoIs ==
  ASSUME NEW do \in ToDo
  PROVE  Inventory!Do(do) \in AllJobs /\ Inventory!Do(do).do = do /\ Inventory!Do(do).at = NoPlace
BY DEF Inventory!Do, Inventory!Job, AllJobs, NoPlace

\* Places to be synchronized, in some order.
Syncs(s, P) ==
  /\ s \in Seq(AllJobs) /\ \A i \in DOMAIN s : s[i].do = "sync" /\ s[i].at \in P /\ s[i] = Inventory!Job("sync", s[i].at)
  /\ \A pl \in P : \E i \in DOMAIN s : s[i] = Inventory!Job("sync", pl)

\* The jobs that synchronize a set of places.
LEMMA SyncJobsAre ==
  ASSUME NEW P \in SUBSET Inventory!Places, IsFiniteSet(P)
  PROVE  Syncs(Inventory!SyncJobs(P), P)
<1> PICK S : S = {Inventory!Job("sync", pl) : pl \in P}
  OBVIOUS
<1>1. IsFiniteSet(S)
  <2> DEFINE f == [pl \in P |-> Inventory!Job("sync", pl)]
  <2>1. f \in Surjection(P, S)
    BY DEF Surjection
  <2> QED
    BY <2>1, FS_Surjection
<1>2. \A pl \in P : Inventory!Job("sync", pl) \in AllJobs /\ Inventory!Job("sync", pl).do = "sync" /\ Inventory!Job("sync", pl).at = pl
  BY DEF Inventory!Job, AllJobs, ToDo
<1> PICK s : s = Inventory!SetToSeq(S)
  OBVIOUS
<1> PICK n : n = Cardinality(S)
  OBVIOUS
<1>3. n \in Nat /\ s \in [1..n -> S] /\ \A x \in S : \E i \in DOMAIN s : s[i] = x
  BY <1>1, SetInSequence
<1>4. s \in [1..n -> AllJobs]
  BY <1>2, <1>3
<1>5. s \in Seq(AllJobs)
  BY ONLY <1>3, <1>4, SeqDef
<1>6. s = Inventory!SyncJobs(P)
  BY DEF Inventory!SyncJobs
<1>7. \A i \in DOMAIN s : s[i].do = "sync" /\ s[i].at \in P /\ s[i] = Inventory!Job("sync", s[i].at)
  BY <1>2, <1>3
<1>8. \A pl \in P : \E i \in DOMAIN s : s[i] = Inventory!Job("sync", pl)
  BY <1>3
<1> QED
  BY <1>5, <1>6, <1>7, <1>8 DEF Syncs

\* What is left of a list after its first job.
LEMMA Popped ==
  ASSUME NEW s \in Seq(AllJobs), s # <<>>, NEW kind, NEW id, MayDo(s, kind, id)
  PROVE  /\ MayDo(Tail(s), kind, id)
         /\ FirstIs(Tail(s), "save") <=> s[1].do \in Reads
         /\ \A do : HasIn(s, do) <=> s[1].do = do \/ HasIn(Tail(s), do)
         /\ \A pl : PendingIn(s, pl) <=> s[1] = Inventory!Job("sync", pl) \/ PendingIn(Tail(s), pl)
         /\ kind = "setup" /\ s[1].do \in Early => HasIn(Tail(s), "repos")
         /\ \A do : HasIn(Tail(s), do) => MayPrecede(s[1].do, do)
<1> PICK t : t = Tail(s)
  OBVIOUS
<1>1. /\ 1 \in DOMAIN s /\ s[1] \in AllJobs /\ DOMAIN s = 1..Len(s) /\ Len(s) \in Nat /\ Len(s) > 0
      /\ t \in Seq(AllJobs) /\ Len(t) = Len(s) - 1 /\ DOMAIN t = 1..(Len(s) - 1)
      /\ \A i \in DOMAIN t : i + 1 \in DOMAIN s /\ t[i] = s[i + 1]
      /\ \A i \in DOMAIN s : i = 1 \/ (i - 1 \in DOMAIN t /\ t[i - 1] = s[i])
  BY Rest
<1>2. \A do : HasIn(s, do) <=> s[1].do = do \/ HasIn(t, do)
  <2>1. ASSUME NEW do, NEW i \in DOMAIN s, s[i].do = do PROVE s[1].do = do \/ HasIn(t, do)
    BY <1>1, <2>1 DEF HasIn
  <2>2. ASSUME NEW do, HasIn(t, do) PROVE HasIn(s, do)
    BY <1>1, <2>2 DEF HasIn
  <2>3. \A do : s[1].do = do => HasIn(s, do)
    BY <1>1 DEF HasIn
  <2> QED
    BY <2>1, <2>2, <2>3 DEF HasIn
<1>3. \A pl : PendingIn(s, pl) <=> s[1] = Inventory!Job("sync", pl) \/ PendingIn(t, pl)
  <2>1. ASSUME NEW pl, NEW i \in DOMAIN s, s[i] = Inventory!Job("sync", pl) PROVE s[1] = Inventory!Job("sync", pl) \/ PendingIn(t, pl)
    BY <1>1, <2>1 DEF PendingIn
  <2>2. ASSUME NEW pl, PendingIn(t, pl) PROVE PendingIn(s, pl)
    BY <1>1, <2>2 DEF PendingIn
  <2>3. \A pl : s[1] = Inventory!Job("sync", pl) => PendingIn(s, pl)
    BY <1>1 DEF PendingIn
  <2> QED
    BY <2>1, <2>2, <2>3 DEF PendingIn
<1>4. \A do : HasIn(t, do) => MayPrecede(s[1].do, do)
  BY <1>1 DEF MayDo, InSequence, HasIn
<1>5. FirstIs(t, "save") <=> s[1].do \in Reads
  <2>1. ASSUME s[1].do \in Reads PROVE FirstIs(t, "save")
    BY <1>1, <2>1 DEF MayDo, InSequence, FirstIs
  <2>2. ASSUME FirstIs(t, "save") PROVE s[1].do \in Reads
    <3>1. 2 \in DOMAIN s /\ s[2].do = "save"
      BY <1>1, <2>2 DEF FirstIs
    <3>2. 2 - 1 \in DOMAIN s
      BY <1>1
    <3>3. s[2 - 1].do \in Reads
      BY <3>1, <3>2 DEF MayDo, InSequence
    <3> QED
      BY <3>3
  <2> QED
    BY <2>1, <2>2
<1>6. kind = "setup" /\ s[1].do \in Early => HasIn(t, "repos")
  BY <1>1 DEF MayDo, InSequence, HasIn
<1>7. MayDo(t, kind, id)
  <2>1. \A i \in DOMAIN t : MayBe(t[i], kind, id)
    BY <1>1 DEF MayDo
  <2>2. \A i \in DOMAIN t : i - 1 \in DOMAIN t /\ t[i].do = "save" => t[i - 1].do \in Reads
    <3>1. ASSUME NEW i \in DOMAIN t, i - 1 \in DOMAIN t, t[i].do = "save" PROVE t[i - 1].do \in Reads
      <4>1. i + 1 \in DOMAIN s /\ (i + 1) - 1 \in DOMAIN s /\ s[i + 1].do = "save" /\ (i + 1) - 1 = (i - 1) + 1
        BY <1>1, <3>1
      <4>2. s[(i + 1) - 1].do \in Reads
        BY <4>1 DEF MayDo, InSequence
      <4> QED
        BY <1>1, <3>1, <4>1, <4>2
    <3> QED
      BY <3>1
  <2>3. \A i \in DOMAIN t : t[i].do \in Reads => i + 1 \in DOMAIN t /\ t[i + 1].do = "save"
    <3>1. ASSUME NEW i \in DOMAIN t, t[i].do \in Reads PROVE i + 1 \in DOMAIN t /\ t[i + 1].do = "save"
      <4>1. (i + 1) + 1 \in DOMAIN s /\ s[(i + 1) + 1].do = "save"
        BY <1>1, <3>1 DEF MayDo, InSequence
      <4> QED
        BY <1>1, <4>1
    <3> QED
      BY <3>1
  <2>4. \A i, k \in DOMAIN t : i < k => MayPrecede(t[i].do, t[k].do)
    BY <1>1 DEF MayDo, InSequence
  <2>5. ASSUME kind = "setup", NEW i \in DOMAIN t, t[i].do \in Early
        PROVE  \E k \in DOMAIN t : i < k /\ t[k].do = "repos"
    <3>1. PICK k \in DOMAIN s : i + 1 < k /\ s[k].do = "repos"
      BY <1>1, <2>5 DEF MayDo, InSequence
    <3>2. k - 1 \in DOMAIN t /\ t[k - 1] = s[k] /\ i < k - 1
      BY <1>1, <3>1
    <3> QED
      BY <3>1, <3>2
  <2> QED
    BY <1>1, <2>1, <2>2, <2>3, <2>4, <2>5 DEF MayDo, InSequence
<1> QED
  BY <1>2, <1>3, <1>4, <1>5, <1>6, <1>7

\* Synchronizations before a list.
LEMMA SyncsFirst ==
  ASSUME NEW P \in SUBSET Inventory!Places, NEW s, Syncs(s, P), NEW t, NEW kind, NEW id, MayDo(t, kind, id), ~FirstIs(t, "save")
  PROVE  /\ MayDo(s \o t, kind, id) /\ ~FirstIs(s \o t, "save")
         /\ \A do : do # "sync" => (HasIn(s \o t, do) <=> HasIn(t, do))
         /\ \A pl : PendingIn(t, pl) => PendingIn(s \o t, pl)
         /\ \A pl \in P : PendingIn(s \o t, pl)
<1>1. t \in Seq(AllJobs) /\ s \in Seq(AllJobs)
  BY DEF MayDo, Syncs
<1> PICK u : u = s \o t
  OBVIOUS
<1>2. /\ u \in Seq(AllJobs) /\ Len(u) = Len(s) + Len(t) /\ Len(s) \in Nat /\ Len(t) \in Nat
      /\ DOMAIN s = 1..Len(s) /\ DOMAIN t = 1..Len(t) /\ DOMAIN u = 1..Len(u)
      /\ \A i \in DOMAIN s : i \in DOMAIN u /\ u[i] = s[i]
      /\ \A i \in DOMAIN t : i + Len(s) \in DOMAIN u /\ u[i + Len(s)] = t[i]
      /\ \A i \in DOMAIN u : \/ i \in DOMAIN s /\ u[i] = s[i]
                             \/ i \notin DOMAIN s /\ i - Len(s) \in DOMAIN t /\ u[i] = t[i - Len(s)]
  BY <1>1, Appended
<1>3. \A i \in DOMAIN s : s[i].do = "sync" /\ s[i].at \in Inventory!Places /\ s[i] = Inventory!Job("sync", s[i].at)
  BY DEF Syncs
<1>4. \A do : do # "sync" => (HasIn(u, do) <=> HasIn(t, do))
  BY <1>2, <1>3 DEF HasIn
<1>5. \A pl : PendingIn(t, pl) => PendingIn(u, pl)
  BY <1>2 DEF PendingIn
<1>6. \A pl \in P : PendingIn(u, pl)
  BY <1>2 DEF PendingIn, Syncs
<1>7. t # <<>> => 1 \in DOMAIN t
  BY <1>1
<1>8. ~FirstIs(u, "save")
  <2>1. ASSUME FirstIs(u, "save") PROVE FALSE
    <3>1. 1 \in DOMAIN u /\ u[1].do = "save"
      BY <1>2, <2>1 DEF FirstIs
    <3>2. 1 - Len(s) \in DOMAIN t /\ u[1] = t[1 - Len(s)] /\ 1 \notin DOMAIN s
      BY <1>2, <1>3, <3>1
    <3>3. 1 - Len(s) = 1
      BY <1>2, <3>2
    <3>4. t # <<>>
      BY <1>2, <3>2
    <3> QED
      BY <3>1, <3>2, <3>3, <3>4 DEF FirstIs
  <2> QED
    BY <2>1
<1>9. MayDo(u, kind, id)
  <2>1. ASSUME NEW i \in DOMAIN u PROVE MayBe(u[i], kind, id)
    BY <1>2, <1>3 DEF MayDo, MayBe
  <2>2. ASSUME NEW i \in DOMAIN u, i - 1 \in DOMAIN u, u[i].do = "save" PROVE u[i - 1].do \in Reads
    <3>1. i - Len(s) \in DOMAIN t /\ u[i] = t[i - Len(s)]
      BY <1>2, <1>3, <2>2
    <3>2. i - Len(s) # 1
      <4>1. ASSUME i - Len(s) = 1 PROVE FALSE
        <5>1. 1 \in DOMAIN t /\ t[1].do = "save"
          BY <2>2, <3>1, <4>1
        <5>2. t # <<>>
          BY <5>1, <1>2
        <5> QED
          BY <5>1, <5>2 DEF FirstIs
      <4> QED
        BY <4>1
    <3>3. (i - Len(s)) - 1 \in DOMAIN t /\ u[i - 1] = t[(i - Len(s)) - 1]
      <4>1. (i - Len(s)) - 1 \in DOMAIN t /\ ((i - Len(s)) - 1) + Len(s) = i - 1
        BY <1>2, <3>1, <3>2
      <4>2. u[((i - Len(s)) - 1) + Len(s)] = t[(i - Len(s)) - 1]
        BY <1>2, <4>1
      <4> QED
        BY <4>1, <4>2
    <3> QED
      BY <2>2, <3>1, <3>3 DEF MayDo, InSequence
  <2>3. ASSUME NEW i \in DOMAIN u, u[i].do \in Reads PROVE i + 1 \in DOMAIN u /\ u[i + 1].do = "save"
    <3>1. i - Len(s) \in DOMAIN t /\ u[i] = t[i - Len(s)]
      BY <1>2, <1>3, <2>3 DEF Reads
    <3>2. (i - Len(s)) + 1 \in DOMAIN t /\ t[(i - Len(s)) + 1].do = "save"
      BY <2>3, <3>1 DEF MayDo, InSequence
    <3>3. ((i - Len(s)) + 1) + Len(s) \in DOMAIN u /\ u[((i - Len(s)) + 1) + Len(s)] = t[(i - Len(s)) + 1]
      BY <1>2, <3>2
    <3>4. ((i - Len(s)) + 1) + Len(s) = i + 1
      BY <1>2
    <3> QED
      BY <3>2, <3>3, <3>4
  <2>4. ASSUME NEW i \in DOMAIN u, NEW k \in DOMAIN u, i < k PROVE MayPrecede(u[i].do, u[k].do)
    <3>1. CASE i \in DOMAIN s
      BY <1>2, <1>3, <3>1 DEF MayPrecede
    <3>2. CASE i \notin DOMAIN s
      <4>1. i - Len(s) \in DOMAIN t /\ k - Len(s) \in DOMAIN t /\ u[i] = t[i - Len(s)] /\ u[k] = t[k - Len(s)]
            /\ i - Len(s) < k - Len(s)
        BY <1>2, <2>4, <3>2
      <4> QED
        BY <4>1 DEF MayDo, InSequence
    <3> QED
      BY <3>1, <3>2
  <2>5. ASSUME kind = "setup", NEW i \in DOMAIN u, u[i].do \in Early PROVE \E k \in DOMAIN u : i < k /\ u[k].do = "repos"
    <3>1. i - Len(s) \in DOMAIN t /\ u[i] = t[i - Len(s)]
      BY <1>2, <1>3, <2>5 DEF Early
    <3>2. PICK k \in DOMAIN t : i - Len(s) < k /\ t[k].do = "repos"
      BY <2>5, <3>1 DEF MayDo, InSequence
    <3>3. k + Len(s) \in DOMAIN u /\ u[k + Len(s)] = t[k] /\ i < k + Len(s)
      BY <1>2, <3>2
    <3> QED
      BY <3>2, <3>3
  <2> QED
    BY <1>2, <2>1, <2>2, <2>3, <2>4, <2>5 DEF MayDo, InSequence
<1> QED
  BY <1>4, <1>5, <1>6, <1>8, <1>9

\* One job before a list.
LEMMA OneFirst ==
  ASSUME NEW j \in AllJobs, NEW t, NEW kind, NEW id, MayBe(j, kind, id), MayDo(t, kind, id),
         FirstIs(t, "save") <=> j.do \in Reads, \A do : HasIn(t, do) => MayPrecede(j.do, do),
         kind = "setup" /\ j.do \in Early => HasIn(t, "repos")
  PROVE  /\ MayDo(<<j>> \o t, kind, id) /\ (FirstIs(<<j>> \o t, "save") <=> j.do = "save")
         /\ \A do : HasIn(<<j>> \o t, do) <=> j.do = do \/ HasIn(t, do)
         /\ \A pl : PendingIn(t, pl) => PendingIn(<<j>> \o t, pl)
<1>1. t \in Seq(AllJobs) /\ <<j>> \in Seq(AllJobs) /\ Len(<<j>>) = 1 /\ DOMAIN <<j>> = 1..1 /\ <<j>>[1] = j
  BY DEF MayDo
<1> PICK u : u = <<j>> \o t
  OBVIOUS
<1>2. /\ u \in Seq(AllJobs) /\ Len(t) \in Nat /\ DOMAIN t = 1..Len(t) /\ DOMAIN u = 1..(1 + Len(t))
      /\ u[1] = j /\ 1 \in DOMAIN u
      /\ \A i \in DOMAIN t : i + 1 \in DOMAIN u /\ u[i + 1] = t[i]
      /\ \A i \in DOMAIN u : i = 1 \/ (i - 1 \in DOMAIN t /\ u[i] = t[i - 1])
  BY ONLY <1>1, u = <<j>> \o t
<1>3. FirstIs(u, "save") <=> j.do = "save"
  BY <1>2 DEF FirstIs
<1>4. \A do : HasIn(u, do) <=> j.do = do \/ HasIn(t, do)
  <2>1. ASSUME NEW do, NEW i \in DOMAIN u, u[i].do = do PROVE j.do = do \/ HasIn(t, do)
    BY <1>2, <2>1 DEF HasIn
  <2>2. ASSUME NEW do, HasIn(t, do) PROVE HasIn(u, do)
    BY <1>2, <2>2 DEF HasIn
  <2>3. \A do : j.do = do => HasIn(u, do)
    BY <1>2 DEF HasIn
  <2> QED
    BY <2>1, <2>2, <2>3 DEF HasIn
<1>5. \A pl : PendingIn(t, pl) => PendingIn(u, pl)
  BY <1>2 DEF PendingIn
<1>6. MayDo(u, kind, id)
  <2>1. \A i \in DOMAIN u : MayBe(u[i], kind, id)
    BY <1>2 DEF MayDo
  <2>2. ASSUME NEW i \in DOMAIN u, i - 1 \in DOMAIN u, u[i].do = "save" PROVE u[i - 1].do \in Reads
    <3>1. i # 1 /\ i - 1 \in DOMAIN t /\ u[i] = t[i - 1]
      BY <1>2, <2>2
    <3>2. CASE i - 1 = 1
      <4>1. t # <<>> /\ t[1].do = "save"
        BY <1>2, <2>2, <3>1, <3>2
      <4> QED
        BY <1>2, <3>2, <4>1 DEF FirstIs
    <3>3. CASE i - 1 # 1
      <4>1. (i - 1) - 1 \in DOMAIN t /\ u[((i - 1) - 1) + 1] = t[(i - 1) - 1] /\ ((i - 1) - 1) + 1 = i - 1
        BY <1>2, <3>1, <3>3
      <4> QED
        BY <2>2, <3>1, <4>1 DEF MayDo, InSequence
    <3> QED
      BY <3>2, <3>3
  <2>3. ASSUME NEW i \in DOMAIN u, u[i].do \in Reads PROVE i + 1 \in DOMAIN u /\ u[i + 1].do = "save"
    <3>1. CASE i = 1
      <4>1. t # <<>> /\ t[1].do = "save"
        BY <1>2, <2>3, <3>1 DEF FirstIs
      <4>2. 1 \in DOMAIN t
        BY <1>1, <4>1
      <4> QED
        BY <1>2, <3>1, <4>1, <4>2
    <3>2. CASE i # 1
      <4>1. i - 1 \in DOMAIN t /\ u[i] = t[i - 1]
        BY <1>2, <3>2
      <4>2. (i - 1) + 1 \in DOMAIN t /\ t[(i - 1) + 1].do = "save" /\ (i - 1) + 1 = i
        BY <1>2, <2>3, <4>1 DEF MayDo, InSequence
      <4> QED
        BY <1>2, <4>2
    <3> QED
      BY <3>1, <3>2
  <2>4. ASSUME NEW i \in DOMAIN u, NEW k \in DOMAIN u, i < k PROVE MayPrecede(u[i].do, u[k].do)
    <3>1. k - 1 \in DOMAIN t /\ u[k] = t[k - 1]
      BY <1>2, <2>4
    <3>2. CASE i = 1
      <4>1. HasIn(t, t[k - 1].do)
        BY <3>1 DEF HasIn
      <4> QED
        BY <1>2, <3>1, <3>2, <4>1
    <3>3. CASE i # 1
      BY <1>2, <2>4, <3>1, <3>3 DEF MayDo, InSequence
    <3> QED
      BY <3>2, <3>3
  <2>5. ASSUME kind = "setup", NEW i \in DOMAIN u, u[i].do \in Early PROVE \E k \in DOMAIN u : i < k /\ u[k].do = "repos"
    <3>1. CASE i = 1
      <4>1. PICK k \in DOMAIN t : t[k].do = "repos"
        BY <1>2, <2>5, <3>1 DEF HasIn
      <4>2. k + 1 \in DOMAIN u /\ u[k + 1] = t[k] /\ 1 < k + 1
        BY <1>2
      <4> QED
        BY <3>1, <4>1, <4>2
    <3>2. CASE i # 1
      <4>1. PICK k \in DOMAIN t : i - 1 < k /\ t[k].do = "repos"
        BY <1>2, <2>5, <3>2 DEF MayDo, InSequence
      <4>2. k + 1 \in DOMAIN u /\ u[k + 1] = t[k] /\ i < k + 1
        BY <1>2, <4>1
      <4> QED
        BY <4>1, <4>2
    <3> QED
      BY <3>1, <3>2
  <2> QED
    BY <1>2, <2>1, <2>2, <2>3, <2>4, <2>5 DEF MayDo, InSequence
<1> QED
  BY <1>3, <1>4, <1>5, <1>6

\* The jobs of a setup.
LEMMA SetupJobs ==
  ASSUME NEW s \in Seq(AllJobs), Len(s) = 11, s[1] = Inventory!Do("manifest"), s[2] = Inventory!Do("migrate"), s[3] = Inventory!Do("ensure"),
         s[4] = Inventory!Do("save"), s[5] = Inventory!Do("refresh"), s[6] = Inventory!Do("role"), s[7] = Inventory!Do("mounts"), s[8] = Inventory!Do("record-mounts"),
         s[9] = Inventory!Do("save"), s[10] = Inventory!Do("repos"), s[11] = Inventory!Do("end")
  PROVE  /\ MayDo(s, "setup", "none") /\ ~FirstIs(s, "save") /\ s # <<>> /\ HasIn(s, "ensure")
         /\ HasIn(s, "manifest") /\ HasIn(s, "role") /\ HasIn(s, "mounts") /\ HasIn(s, "repos")
<1> PICK d : d = <<"manifest", "migrate", "ensure", "save", "refresh", "role", "mounts", "record-mounts", "save", "repos", "end">>
  OBVIOUS
<1>1. d \in Seq(ToDo) /\ Len(d) = 11 /\ DOMAIN d = 1..11
  BY DEF ToDo
<1>2. /\ d[1] = "manifest" /\ d[2] = "migrate" /\ d[3] = "ensure" /\ d[4] = "save" /\ d[5] = "refresh" /\ d[6] = "role"
      /\ d[7] = "mounts" /\ d[8] = "record-mounts" /\ d[9] = "save" /\ d[10] = "repos" /\ d[11] = "end"
  OBVIOUS
<1>3. /\ s[1] = Inventory!Do("manifest") /\ s[2] = Inventory!Do("migrate") /\ s[3] = Inventory!Do("ensure") /\ s[4] = Inventory!Do("save") /\ s[5] = Inventory!Do("refresh")
      /\ s[6] = Inventory!Do("role") /\ s[7] = Inventory!Do("mounts") /\ s[8] = Inventory!Do("record-mounts") /\ s[9] = Inventory!Do("save") /\ s[10] = Inventory!Do("repos")
      /\ s[11] = Inventory!Do("end") /\ Len(s) = 11
  OBVIOUS
<1>5. s \in Seq(AllJobs)
  OBVIOUS
<1>6. \A i \in 1..11 : i \in {1, 2, 3, 4, 5, 6, 7, 8, 9, 10, 11}
  OBVIOUS
<1>7. \A i \in DOMAIN d : s[i] = Inventory!Do(d[i])
  BY ONLY <1>1, <1>2, <1>3, <1>6
<1>8. \A i \in DOMAIN d :
        /\ d[i] \notin {"sync", "remove", "pull", "repo", "forget", "record-repos"}
        /\ d[i] = "end" <=> i = 11
        /\ d[i] = "repos" <=> i = 10
        /\ d[i] = "role" <=> i = 6
        /\ d[i] = "ensure" <=> i = 3
        /\ d[i] = "save" <=> i \in {4, 9}
        /\ d[i] \in Reads <=> i \in {3, 8}
        /\ d[i] \in Early => i < 10
  BY <1>1, <1>2, <1>6 DEF Reads, Early
<1> HIDE DEF Reads, Early
<1>9. DOMAIN s = 1..11 /\ \A i \in DOMAIN s : s[i].do = d[i] /\ MayBe(s[i], "setup", "none")
  <2>1. \A i \in DOMAIN d : d[i] \in ToDo
    BY <1>1
  <2>2. \A i \in DOMAIN d : Inventory!Do(d[i]).do = d[i]
    BY <2>1, DoIs
  <2>3. \A i \in DOMAIN d : s[i].do = d[i]
    BY <1>7, <2>2
  <2>4. DOMAIN s = 1..11
    BY <1>3, <1>5
  <2>5. \A i \in DOMAIN d : MayBe(s[i], "setup", "none")
    BY <1>7, <1>8, <2>3 DEF MayBe
  <2> QED
    BY <1>1, <2>3, <2>4, <2>5
<1>10. \A i \in DOMAIN s : i - 1 \in DOMAIN s /\ s[i].do = "save" => s[i - 1].do \in Reads
  <2>1. ASSUME NEW i \in 1..11, s[i].do = "save" PROVE s[i - 1].do \in Reads
    <3>1. i = 4 \/ i = 9
      BY <1>1, <1>8, <1>9, <2>1
    <3>2. s[3].do \in Reads /\ s[8].do \in Reads
      BY <1>1, <1>8, <1>9
    <3> QED
      BY <3>1, <3>2
  <2> QED
    BY <1>9, <2>1
<1>11. \A i \in DOMAIN s : s[i].do \in Reads => i + 1 \in DOMAIN s /\ s[i + 1].do = "save"
  BY <1>1, <1>8, <1>9
<1>12. \A i, k \in DOMAIN s : i < k => MayPrecede(s[i].do, s[k].do)
  BY <1>1, <1>8, <1>9 DEF MayPrecede
<1>13. \A i \in DOMAIN s : s[i].do \in Early => \E k \in DOMAIN s : i < k /\ s[k].do = "repos"
  <2>1. 10 \in DOMAIN s /\ s[10].do = "repos"
    BY <1>1, <1>8, <1>9
  <2> QED
    BY <1>1, <1>8, <1>9, <2>1
<1>14. MayDo(s, "setup", "none")
  BY <1>5, <1>9, <1>10, <1>11, <1>12, <1>13 DEF MayDo, InSequence
<1>15. HasIn(s, "manifest") /\ HasIn(s, "role") /\ HasIn(s, "mounts") /\ HasIn(s, "repos") /\ HasIn(s, "ensure")
  BY <1>1, <1>2, <1>9 DEF HasIn
<1>16. ~FirstIs(s, "save") /\ s # <<>>
  <2>1. 1 \in DOMAIN s /\ s[1].do = "manifest"
    BY <1>1, <1>2, <1>9
  <2>2. s # <<>>
    BY <2>1
  <2> QED
    BY <2>1, <2>2 DEF FirstIs
<1> QED
  BY <1>14, <1>15, <1>16

\* There is nothing in an empty list.
LEMMA NothingToDo ==
  ASSUME NEW kind, NEW id
  PROVE  MayDo(<<>>, kind, id) /\ ~FirstIs(<<>>, "save") /\ \A do : ~HasIn(<<>>, do)
BY DEF MayDo, InSequence, FirstIs, HasIn

\* A record before a list.
LEMMA RecordFirst ==
  ASSUME NEW do \in {"record-mounts", "record-repos"}, NEW t, NEW kind, NEW id, MayDo(t, kind, id), ~FirstIs(t, "save"),
         \A d : HasIn(t, d) => MayPrecede(do, d), kind = "setup" => do = "record-repos"
  PROVE  /\ MayDo(Inventory!Record(do) \o t, kind, id) /\ ~FirstIs(Inventory!Record(do) \o t, "save") /\ Inventory!Record(do) \o t # <<>>
         /\ \A d : HasIn(Inventory!Record(do) \o t, d) <=> d \in {do, "save"} \/ HasIn(t, d)
<1>1. Inventory!Do("save") \in AllJobs /\ Inventory!Do("save").do = "save" /\ Inventory!Do(do) \in AllJobs /\ Inventory!Do(do).do = do
  BY DoIs DEF ToDo
<1>2. MayBe(Inventory!Do("save"), kind, id) /\ MayBe(Inventory!Do(do), kind, id)
  BY <1>1 DEF MayBe
<1> PICK u : u = <<Inventory!Do("save")>> \o t
  OBVIOUS
<1> PICK v : v = <<Inventory!Do(do)>> \o u
  OBVIOUS
<1>3. \A d : MayPrecede("save", d)
  BY DEF MayPrecede
<1>4. /\ MayDo(u, kind, id) /\ FirstIs(u, "save")
      /\ \A d : HasIn(u, d) <=> "save" = d \/ HasIn(t, d)
  <2>1. FirstIs(t, "save") <=> Inventory!Do("save").do \in Reads
    BY <1>1 DEF Reads
  <2>2. \A d : HasIn(t, d) => MayPrecede(Inventory!Do("save").do, d)
    BY <1>1, <1>3
  <2>3. kind = "setup" /\ Inventory!Do("save").do \in Early => HasIn(t, "repos")
    BY <1>1 DEF Early
  <2>4. /\ MayDo(<<Inventory!Do("save")>> \o t, kind, id) /\ (FirstIs(<<Inventory!Do("save")>> \o t, "save") <=> Inventory!Do("save").do = "save")
        /\ \A d : HasIn(<<Inventory!Do("save")>> \o t, d) <=> Inventory!Do("save").do = d \/ HasIn(t, d)
    BY ONLY <1>1, <1>2, MayDo(t, kind, id), <2>1, <2>2, <2>3, OneFirst
  <2> QED
    BY <1>1, <2>4
<1>5. /\ MayDo(v, kind, id) /\ ~FirstIs(v, "save")
      /\ \A d : HasIn(v, d) <=> do = d \/ HasIn(u, d)
  <2>1. FirstIs(u, "save") <=> Inventory!Do(do).do \in Reads
    BY <1>1, <1>4 DEF Reads
  <2>2. MayPrecede(do, "save")
    BY DEF MayPrecede
  <2>3. \A d : HasIn(u, d) => MayPrecede(Inventory!Do(do).do, d)
    BY <1>1, <1>4, <2>2
  <2>4. kind = "setup" /\ Inventory!Do(do).do \in Early => HasIn(u, "repos")
    BY <1>1 DEF Early
  <2>5. /\ MayDo(<<Inventory!Do(do)>> \o u, kind, id) /\ (FirstIs(<<Inventory!Do(do)>> \o u, "save") <=> Inventory!Do(do).do = "save")
        /\ \A d : HasIn(<<Inventory!Do(do)>> \o u, d) <=> Inventory!Do(do).do = d \/ HasIn(u, d)
    BY ONLY <1>1, <1>2, <1>4, <2>1, <2>3, <2>4, OneFirst
  <2> QED
    BY <1>1, <2>5
<1>6. Inventory!Record(do) \o t = v
  <2>1. t \in Seq(AllJobs)
    BY DEF MayDo
  <2>2. <<Inventory!Do(do), Inventory!Do("save")>> \o t = <<Inventory!Do(do)>> \o (<<Inventory!Do("save")>> \o t)
    BY <1>1, <2>1
  <2> QED
    BY <2>2 DEF Inventory!Record
<1>7. v # <<>>
  <2>1. HasIn(v, do)
    BY <1>5
  <2> QED
    BY <2>1 DEF HasIn
<1> QED
  BY <1>4, <1>5, <1>6, <1>7

\* The jobs that add a repo.
LEMMA RepoAddJobs ==
  ASSUME NEW s, s = Inventory!Ensure \o <<Inventory!Do("repo")>> \o Inventory!Record("record-repos"), NEW r \in Repos
  PROVE  /\ MayDo(s, "repo-add", r) /\ ~FirstIs(s, "save") /\ s # <<>> /\ ~HasIn(s, "role")
<1>1. /\ Inventory!Do("migrate") \in AllJobs /\ Inventory!Do("ensure") \in AllJobs /\ Inventory!Do("save") \in AllJobs /\ Inventory!Do("repo") \in AllJobs
      /\ Inventory!Do("record-repos") \in AllJobs
      /\ Inventory!Do("migrate").do = "migrate" /\ Inventory!Do("ensure").do = "ensure" /\ Inventory!Do("save").do = "save" /\ Inventory!Do("repo").do = "repo"
      /\ Inventory!Do("record-repos").do = "record-repos"
  BY DoIs DEF ToDo
<1> PICK e : e = Inventory!Ensure
  OBVIOUS
<1> PICK a : a = <<Inventory!Do("repo")>>
  OBVIOUS
<1> PICK r2 : r2 = Inventory!Record("record-repos")
  OBVIOUS
<1> PICK u : u = e \o a
  OBVIOUS
<1>2. /\ e \in Seq(AllJobs) /\ Len(e) = 3 /\ DOMAIN e = 1..3 /\ e[1] = Inventory!Do("migrate") /\ e[2] = Inventory!Do("ensure") /\ e[3] = Inventory!Do("save")
      /\ a \in Seq(AllJobs) /\ Len(a) = 1 /\ DOMAIN a = 1..1 /\ a[1] = Inventory!Do("repo")
      /\ r2 \in Seq(AllJobs) /\ Len(r2) = 2 /\ DOMAIN r2 = 1..2 /\ r2[1] = Inventory!Do("record-repos") /\ r2[2] = Inventory!Do("save")
  BY <1>1 DEF Inventory!Ensure, Inventory!Record
<1>i. /\ u \in Seq(AllJobs) /\ Len(u) = 4 /\ DOMAIN u = 1..4
      /\ u[1] = Inventory!Do("migrate") /\ u[2] = Inventory!Do("ensure") /\ u[3] = Inventory!Do("save") /\ u[4] = Inventory!Do("repo")
  <2>1. /\ u \in Seq(AllJobs) /\ Len(u) = Len(e) + Len(a) /\ DOMAIN u = 1..(Len(e) + Len(a))
        /\ \A i \in DOMAIN e : i \in DOMAIN u /\ u[i] = e[i]
        /\ \A i \in DOMAIN a : i + Len(e) \in DOMAIN u /\ u[i + Len(e)] = a[i]
    <3>1. e \in Seq(AllJobs) /\ a \in Seq(AllJobs) /\ u = e \o a
      BY <1>2
    <3> QED
      BY ONLY <3>1, Appended
  <2>2. 1 \in DOMAIN e /\ 2 \in DOMAIN e /\ 3 \in DOMAIN e /\ 1 \in DOMAIN a /\ 1 + Len(e) = 4 /\ Len(e) + Len(a) = 4
    BY ONLY <1>2
  <2> QED
    BY ONLY <1>2, <2>1, <2>2
<1> PICK z : z = s
  OBVIOUS
<1>3. /\ z[1] = Inventory!Do("migrate") /\ z[2] = Inventory!Do("ensure") /\ z[3] = Inventory!Do("save") /\ z[4] = Inventory!Do("repo")
      /\ z[5] = Inventory!Do("record-repos") /\ z[6] = Inventory!Do("save") /\ Len(z) = 6 /\ z \in Seq(AllJobs) /\ DOMAIN z = 1..6
  <2>0. z = u \o r2
    OBVIOUS
  <2>1. /\ z \in Seq(AllJobs) /\ Len(z) = Len(u) + Len(r2) /\ DOMAIN z = 1..(Len(u) + Len(r2))
        /\ \A i \in DOMAIN u : i \in DOMAIN z /\ z[i] = u[i]
        /\ \A i \in DOMAIN r2 : i + Len(u) \in DOMAIN z /\ z[i + Len(u)] = r2[i]
    <3>1. u \in Seq(AllJobs) /\ r2 \in Seq(AllJobs) /\ z = u \o r2
      BY <1>2, <1>i
    <3> QED
      BY ONLY <3>1, Appended
  <2>2. /\ 1 \in DOMAIN u /\ 2 \in DOMAIN u /\ 3 \in DOMAIN u /\ 4 \in DOMAIN u /\ 1 \in DOMAIN r2 /\ 2 \in DOMAIN r2
        /\ 1 + Len(u) = 5 /\ 2 + Len(u) = 6 /\ Len(u) + Len(r2) = 6
    BY ONLY <1>2, <1>i
  <2> QED
    BY ONLY <1>2, <1>i, <2>1, <2>2
<1>4. /\ z[1].do = "migrate" /\ z[2].do = "ensure" /\ z[3].do = "save" /\ z[4].do = "repo" /\ z[5].do = "record-repos"
      /\ z[6].do = "save"
  BY <1>1, <1>3
<1>5. \A i \in 1..6 : i \in {1, 2, 3, 4, 5, 6}
  OBVIOUS
<1>6. \A i \in DOMAIN z :
        /\ z[i].do \notin {"sync", "remove", "pull", "forget", "role", "end", "repos", "manifest", "refresh", "mounts"}
        /\ z[i].do = "record-repos" <=> i = 5
        /\ z[i].do = "save" <=> i \in {3, 6}
        /\ z[i].do \in Reads <=> i \in {2, 5}
  BY <1>3, <1>4, <1>5 DEF Reads
<1>7. \A i \in DOMAIN z : z[i] = Inventory!Do(z[i].do)
  <2>1. /\ z[1] = Inventory!Do(z[1].do) /\ z[2] = Inventory!Do(z[2].do) /\ z[3] = Inventory!Do(z[3].do) /\ z[4] = Inventory!Do(z[4].do) /\ z[5] = Inventory!Do(z[5].do)
        /\ z[6] = Inventory!Do(z[6].do)
    BY ONLY <1>3, <1>4
  <2> QED
    BY ONLY <1>3, <1>5, <2>1
<1>8. \A i \in DOMAIN z : MayBe(z[i], "repo-add", r)
  BY <1>6, <1>7 DEF MayBe
<1>9. \A i \in DOMAIN z : i - 1 \in DOMAIN z /\ z[i].do = "save" => z[i - 1].do \in Reads
  <2>1. z[2].do \in Reads /\ z[5].do \in Reads
    BY ONLY <1>3, <1>4 DEF Reads
  <2>2. ASSUME NEW i \in DOMAIN z, z[i].do = "save" PROVE z[i - 1].do \in Reads
    <3>1. i = 3 \/ i = 6
      BY <1>6, <2>2
    <3> QED
      BY <2>1, <3>1
  <2> QED
    BY <2>2
<1>10. \A i \in DOMAIN z : z[i].do \in Reads => i + 1 \in DOMAIN z /\ z[i + 1].do = "save"
  BY ONLY <1>3, <1>4, <1>6
<1>11. \A i, k \in DOMAIN z : i < k => MayPrecede(z[i].do, z[k].do)
  BY <1>6 DEF MayPrecede
<1>12. MayDo(z, "repo-add", r)
  BY <1>3, <1>8, <1>9, <1>10, <1>11 DEF MayDo, InSequence
<1>13. ~FirstIs(z, "save") /\ z # <<>> /\ ~HasIn(z, "role")
  BY <1>3, <1>4, <1>6 DEF FirstIs, HasIn
<1> QED
  BY <1>12, <1>13

\* The jobs that remove a checkout.
LEMMA RemoveJobs ==
  ASSUME NEW pl \in Inventory!Places, NEW id, pl[2] = id, NEW s, s = <<Inventory!Job("remove", pl)>> \o Inventory!Record("forget")
  PROVE  MayDo(s, "remove", id) /\ s # <<>>
<1>1. /\ Inventory!Job("remove", pl) \in AllJobs /\ Inventory!Do("forget") \in AllJobs /\ Inventory!Do("save") \in AllJobs
      /\ Inventory!Job("remove", pl).do = "remove" /\ Inventory!Job("remove", pl).at = pl /\ Inventory!Do("forget").do = "forget" /\ Inventory!Do("save").do = "save"
  <2>1. Inventory!Job("remove", pl) \in AllJobs /\ Inventory!Job("remove", pl).do = "remove" /\ Inventory!Job("remove", pl).at = pl
    BY DEF Inventory!Job, AllJobs, ToDo
  <2> QED
    BY <2>1, DoIs DEF ToDo
<1> PICK a : a = <<Inventory!Job("remove", pl)>>
  OBVIOUS
<1> PICK r : r = Inventory!Record("forget")
  OBVIOUS
<1> PICK z : z = s
  OBVIOUS
<1>2. /\ a \in Seq(AllJobs) /\ Len(a) = 1 /\ DOMAIN a = 1..1 /\ a[1] = Inventory!Job("remove", pl)
      /\ r \in Seq(AllJobs) /\ Len(r) = 2 /\ DOMAIN r = 1..2 /\ r[1] = Inventory!Do("forget") /\ r[2] = Inventory!Do("save")
  BY <1>1 DEF Inventory!Record
<1>3. /\ z[1] = Inventory!Job("remove", pl) /\ z[2] = Inventory!Do("forget") /\ z[3] = Inventory!Do("save") /\ Len(z) = 3 /\ z \in Seq(AllJobs)
      /\ DOMAIN z = 1..3 /\ z # <<>>
  <2>0. z = a \o r
    OBVIOUS
  <2>1. /\ z \in Seq(AllJobs) /\ Len(z) = Len(a) + Len(r) /\ DOMAIN z = 1..(Len(a) + Len(r))
        /\ \A i \in DOMAIN a : i \in DOMAIN z /\ z[i] = a[i]
        /\ \A i \in DOMAIN r : i + Len(a) \in DOMAIN z /\ z[i + Len(a)] = r[i]
    BY <1>2, <2>0, Appended
  <2>2. 1 \in DOMAIN a /\ 1 \in DOMAIN r /\ 2 \in DOMAIN r /\ 1 + Len(a) = 2 /\ 2 + Len(a) = 3 /\ Len(a) + Len(r) = 3
    BY <1>2
  <2> QED
    BY ONLY <1>2, <2>1, <2>2
<1>4. z[1].do = "remove" /\ z[2].do = "forget" /\ z[3].do = "save"
  BY <1>1, <1>3
<1>5. \A i \in 1..3 : i \in {1, 2, 3}
  OBVIOUS
<1>6. \A i \in DOMAIN z : MayBe(z[i], "remove", id)
  <2>1. MayBe(z[1], "remove", id)
    BY <1>1, <1>3 DEF MayBe
  <2>2. MayBe(z[2], "remove", id) /\ MayBe(z[3], "remove", id)
    BY <1>1, <1>3 DEF MayBe
  <2> QED
    BY <1>3, <1>5, <2>1, <2>2
<1>7. InSequence(z, "remove")
  <2>1. \A i \in DOMAIN z : i - 1 \in DOMAIN z /\ z[i].do = "save" => z[i - 1].do \in Reads
    <3>1. ASSUME NEW i \in DOMAIN z, z[i].do = "save" PROVE z[i - 1].do \in Reads
      <4>1. i = 3
        BY <1>3, <1>4, <1>5, <3>1
      <4> QED
        BY <1>4, <4>1 DEF Reads
    <3> QED
      BY <3>1
  <2>2. \A i \in DOMAIN z : z[i].do \in Reads => i = 2
    BY <1>3, <1>4, <1>5 DEF Reads
  <2>3. \A i, k \in DOMAIN z : MayPrecede(z[i].do, z[k].do)
    BY <1>3, <1>4, <1>5 DEF MayPrecede
  <2>4. \A i \in DOMAIN z : z[i].do \in Reads => i + 1 \in DOMAIN z /\ z[i + 1].do = "save"
    BY ONLY <1>3, <1>4, <2>2
  <2> QED
    BY ONLY <2>1, <2>3, <2>4 DEF InSequence
<1> QED
  BY <1>3, <1>6, <1>7 DEF MayDo

\* The job that brings the manifest up to date.
LEMMA PullJob == MayDo(<<Inventory!Do("pull")>>, "manifest-sync", "none") /\ ~HasIn(<<Inventory!Do("pull")>>, "role")
                 /\ ~FirstIs(<<Inventory!Do("pull")>>, "save") /\ <<Inventory!Do("pull")>> # <<>>
<1> PICK s : s = <<Inventory!Do("pull")>>
  OBVIOUS
<1>1. Inventory!Do("pull") \in AllJobs /\ Inventory!Do("pull").do = "pull"
  BY DoIs DEF ToDo
<1>2. s \in Seq(AllJobs) /\ DOMAIN s = 1..1 /\ s[1] = Inventory!Do("pull") /\ s # <<>>
  BY <1>1
<1>3. \A i \in DOMAIN s : i = 1 /\ s[i].do = "pull" /\ MayBe(s[i], "manifest-sync", "none")
  BY <1>1, <1>2 DEF MayBe
<1> QED
  BY <1>2, <1>3 DEF MayDo, InSequence, HasIn, FirstIs, MayPrecede, Reads, Early

-----------------------------------------------------------------------------
(* Steps of commands *)

WorldTypes ==
  /\ registry \in [source : Inventory!Sources, path : {"cache", Inventory!OwnPath}]
  /\ manifest \in [{"cache", Inventory!OwnPath} -> Inventory!Revisions \cup {0}] /\ newest \in [Inventory!Sources -> Inventory!Revisions]
  /\ disk \in [Inventory!Places -> Inventory!Content \cup {"none", "empty"}]
  /\ trouble \in Nat

\* What is known of a command that has something to do.
LEMMA AboutCommand ==
  ASSUME InventoryInv, NEW p \in Procs, running[p].jobs # <<>>, NEW b, b = running[p]
  PROVE  /\ b \in Commands /\ MayDo(b.jobs, b.kind, b.id) /\ (b.kind = "repo-add" => b.id \in Repos)
         /\ b.jobs \in Seq(AllJobs) /\ b.jobs[1] = Inventory!Now(p) /\ b.jobs[1] \in AllJobs /\ MayBe(b.jobs[1], b.kind, b.id)
         /\ \A do : Inventory!Doing(p, do) <=> b.jobs[1].do = do
         /\ alone \subseteq {p} /\ WorldTypes /\ saved \in States
         /\ p \in alone => WritesAll(b) /\ SetupReached(b)
         /\ ManifestThere(b)
<1>1. b \in Commands /\ CommandOK(b)
  BY DEF InventoryInv, InventoryTypes
<1>2. b.jobs \in Seq(AllJobs) /\ b.jobs # <<>> /\ MayDo(b.jobs, b.kind, b.id) /\ (b.kind = "repo-add" => b.id \in Repos)
  BY <1>1 DEF CommandOK, Commands
<1>3. Head(b.jobs) = b.jobs[1] /\ 1 \in DOMAIN b.jobs /\ b.jobs[1] \in AllJobs
  BY <1>2, Rest
<1>4. MayBe(b.jobs[1], b.kind, b.id)
  BY <1>2, <1>3 DEF MayDo
<1>5. ASSUME NEW q \in alone, q # p PROVE FALSE
  <2>1. running[p] = Inventory!Idle
    BY <1>5 DEF InventoryInv, OnlyOne
  <2> QED
    BY <2>1 DEF Inventory!Idle
<1>6. WorldTypes /\ saved \in States
  BY DEF InventoryInv, InventoryTypes, Inventory!TypeOK, WorldTypes
<1> QED
  BY <1>1, <1>2, <1>3, <1>4, <1>5, <1>6 DEF Inventory!Doing, Inventory!Now, InventoryInv

\* What a state and a command are made of.
LEMMA TypesMade ==
  ASSUME WorldTypes', saved' \in States, running' \in [Procs -> Commands], alone' \subseteq Procs
  PROVE  InventoryTypes'
<1>1. \A q \in Procs : running'[q].mem \in States /\ running'[q].failed \subseteq Inventory!Places /\ running'[q].tried \subseteq Inventory!Places
  BY DEF Commands
<1>2. \A s \in States : s.selected \cup s.legacy \subseteq Repos /\ s.listed \subseteq Repos \cup Inventory!Mounts
  BY DEF States
<1>3. \A s \in {saved'} \cup {running'[q].mem : q \in Procs} : s \in States
  BY <1>1
<1> QED
  BY <1>1, <1>2, <1>3 DEF InventoryTypes, Inventory!TypeOK, WorldTypes

\* A process goes on with its command, or ends it.
LEMMA CommandGoesOn ==
  ASSUME InventoryInv, NEW p \in Procs, running[p].jobs # <<>>, NEW c \in Commands, MayDo(c.jobs, c.kind, c.id),
         c.kind = "repo-add" => c.id \in Repos, Inventory!Continue(p, c), WorldTypes', saved' \in States,
         Inventory!Synced => Inventory!Synced', ManifestThere(c)',
         p \in alone /\ c.jobs # <<>> => WritesAll(c)' /\ SetupReached(c)'
  PROVE  InventoryInv'
<1>1. alone \subseteq {p} /\ running \in [Procs -> Commands]
  BY AboutCommand DEF InventoryInv, InventoryTypes
<1>2. Inventory!Idle \in Commands /\ CommandOK(Inventory!Idle) /\ Inventory!Idle.jobs = <<>>
  BY NothingToDo DEF Inventory!Idle, Commands, CommandOK, CommandKinds, InventoryIds, Roles, States, Inventory!NoState
<1>3. CASE c.jobs = <<>>
  <2>1. running' = [running EXCEPT ![p] = Inventory!Idle] /\ alone' = {}
    BY <1>3 DEF Inventory!Continue
  <2>2. running' \in [Procs -> Commands] /\ \A q \in Procs : running'[q] = Inventory!Idle \/ running'[q] = running[q]
    BY <1>1, <1>2, <2>1
  <2>3. InventoryTypes'
    BY <2>1, <2>2, TypesMade
  <2>4. \A q \in Procs : CommandOK(running'[q])
    BY <1>2, <2>2 DEF InventoryInv
  <2>5. \A q \in Procs : ManifestThere(running[q])'
    <3>1. \A q \in Procs : ManifestThere(running[q])
      BY DEF InventoryInv
    <3>2. Inventory!Idle.kind # "setup"
      BY DEF Inventory!Idle
    <3> QED
      BY <2>2, <3>1, <3>2 DEF ManifestThere
  <2> QED
    BY <2>1, <2>3, <2>4, <2>5 DEF InventoryInv, CommandOK
<1>4. CASE c.jobs # <<>>
  <2>1. running' = [running EXCEPT ![p] = c] /\ alone' = alone
    BY <1>4 DEF Inventory!Continue
  <2>2. running' \in [Procs -> Commands] /\ running'[p] = c /\ \A q \in Procs : q # p => running'[q] = running[q]
    BY <1>1, <2>1
  <2>3. InventoryTypes'
    BY <1>1, <2>1, <2>2, TypesMade
  <2>4. CommandOK(c)
    BY <1>4 DEF CommandOK
  <2>5. \A q \in Procs : CommandOK(running'[q])
    BY <2>2, <2>4 DEF InventoryInv
  <2>6. \A q \in alone' : q = p /\ p \in alone
    BY <1>1, <2>1
  <2>7. p \in alone => OnlyOne(p)'
    BY <1>4, <2>2 DEF OnlyOne, InventoryInv
  <2>8. p \in alone => WritesAll(running[p])' /\ SetupReached(running[p])'
    BY <1>4, <2>2
  <2>9. \A q \in Procs : ManifestThere(running[q])'
    <3>1. \A q \in Procs : ManifestThere(running[q])
      BY DEF InventoryInv
    <3> QED
      BY <2>2, <3>1 DEF ManifestThere
  <2> QED
    BY <2>3, <2>5, <2>6, <2>7, <2>8, <2>9 DEF InventoryInv, CommandOK
<1> QED
  BY <1>3, <1>4

\* What a command has reached is not undone by a job that neither reads nor
\* writes the state file, nor asks what is to be done.
LEMMA JobKeeps ==
  ASSUME InventoryInv, NEW p \in Procs, running[p].jobs # <<>>, NEW b, b = running[p],
         NEW c \in Commands, c.kind = b.kind, c.id = b.id, c.ask = b.ask, c.mem = b.mem, c.jobs = Tail(b.jobs),
         b.jobs[1].do \notin Reads \cup {"save", "role", "mounts", "repos"},
         b.tried \subseteq c.tried, c.kind = "setup" => b.failed \subseteq c.failed,
         \A pl : b.jobs[1] = Inventory!Job("sync", pl) => pl \in c.tried /\ (disk'[pl] \in Inventory!Git \/ pl \in c.failed),
         Inventory!Continue(p, c), WorldTypes', saved' = saved,
         c.kind = "setup" => \A m \in Needed : disk[Inventory!Dir("mount", m)] \in Inventory!Git => disk'[Inventory!Dir("mount", m)] \in Inventory!Git,
         Inventory!Synced \/ b.jobs[1].do = "manifest" => Inventory!Synced',
         b.jobs[1].do \notin {"manifest", "refresh", "pull"} => Inventory!doc' = Inventory!doc
  PROVE  InventoryInv'
<1> PICK t : t = Tail(b.jobs)
  OBVIOUS
<1> PICK do : do = b.jobs[1].do
  OBVIOUS
<1>1. /\ b \in Commands /\ MayDo(b.jobs, b.kind, b.id) /\ (b.kind = "repo-add" => b.id \in Repos) /\ b.jobs \in Seq(AllJobs)
      /\ b.jobs # <<>> /\ MayBe(b.jobs[1], b.kind, b.id) /\ saved \in States
      /\ p \in alone => WritesAll(b) /\ SetupReached(b)
      /\ ManifestThere(b)
  BY AboutCommand
<1>2. /\ MayDo(t, b.kind, b.id) /\ (FirstIs(t, "save") <=> do \in Reads)
      /\ \A d : HasIn(b.jobs, d) <=> do = d \/ HasIn(t, d)
      /\ \A pl : PendingIn(b.jobs, pl) <=> b.jobs[1] = Inventory!Job("sync", pl) \/ PendingIn(t, pl)
      /\ b.kind = "setup" /\ do \in Early => HasIn(t, "repos")
  BY <1>1, Popped
<1>3. do \notin Reads /\ do \notin {"save", "role", "mounts", "repos"}
  OBVIOUS
<1>4. do \notin {"ensure", "record-repos"}
  BY <1>3 DEF Reads
<1>5. /\ \A d \in {"role", "ensure", "mounts", "repos", "record-repos", "save"} : HasIn(t, d) <=> HasIn(b.jobs, d)
      /\ ~FirstIs(t, "save") /\ ~FirstIs(b.jobs, "save")
  BY <1>2, <1>3, <1>4 DEF FirstIs
<1>6. p \in alone => WritesAll(c)'
  BY <1>1, <1>5 DEF WritesAll, MemKeeps, Inventory!Selected
<1>m. ManifestThere(c)' /\ (Inventory!Synced => Inventory!Synced')
  BY <1>1, <1>2 DEF ManifestThere
<1>7. ASSUME p \in alone, b.kind = "setup" PROVE RoleSet(c)'
  <2>1. RoleSet(b)
    BY <1>1, <1>7 DEF SetupReached
  <2> QED
    BY <1>5, <2>1 DEF RoleSet
<1>8. ASSUME p \in alone, b.kind = "setup" PROVE MountsThere(c)'
  <2>1. MountsThere(b)
    BY <1>1, <1>8 DEF SetupReached
  <2>2. ASSUME ~HasIn(c.jobs, "mounts"), NEW m \in Needed
        PROVE  PendingIn(c.jobs, Inventory!Dir("mount", m)) \/ disk'[Inventory!Dir("mount", m)] \in Inventory!Git \/ Inventory!Dir("mount", m) \in c.failed
    <3>1. PendingIn(b.jobs, Inventory!Dir("mount", m)) \/ disk[Inventory!Dir("mount", m)] \in Inventory!Git \/ Inventory!Dir("mount", m) \in b.failed
      BY <1>5, <2>1, <2>2 DEF MountsThere
    <3> QED
      BY <1>2, <1>8, <3>1
  <2>3. ~HasIn(c.jobs, "repos") => \A m \in Needed : disk'[Inventory!Dir("mount", m)] \in Inventory!Git
    BY <1>5, <1>8, <2>1 DEF MountsThere
  <2> QED
    BY <2>2, <2>3 DEF MountsThere
<1>9. ASSUME p \in alone, b.kind = "setup" PROVE ReposThere(c)'
  <2>1. ReposThere(b)
    BY <1>1, <1>9 DEF SetupReached
  <2>2. ASSUME ~HasIn(c.jobs, "repos"), NEW r \in Inventory!doc'.defaults
        PROVE  IF HasIn(c.jobs, "record-repos") THEN SeenTo(c, r)
               ELSE IF HasIn(c.jobs, "save") THEN r \in c.mem.selected ELSE r \in saved'.selected
    <3>1. do \notin {"manifest", "refresh", "pull"}
      BY <1>1, <1>2, <1>9, <2>2 DEF Early, MayBe
    <3>2. r \in Inventory!doc.defaults
      BY <2>2, <3>1
    <3>3. IF HasIn(b.jobs, "record-repos") THEN SeenTo(b, r)
          ELSE IF HasIn(b.jobs, "save") THEN r \in b.mem.selected ELSE r \in saved.selected
      BY <1>5, <2>1, <2>2, <3>2 DEF ReposThere
    <3>4. SeenTo(b, r) => SeenTo(c, r)
      BY <1>2 DEF SeenTo
    <3> QED
      BY <1>5, <3>3, <3>4
  <2> QED
    BY <2>2 DEF ReposThere
<1>10. p \in alone => SetupReached(c)'
  BY <1>7, <1>8, <1>9 DEF SetupReached
<1> QED
  BY <1>1, <1>2, <1>6, <1>m, <1>10, CommandGoesOn

\* A command after its first job.
LEMMA AfterIs ==
  ASSUME InventoryInv, NEW p \in Procs, running[p].jobs # <<>>, NEW b, b = running[p], NEW c, c = Inventory!After(p)
  PROVE  /\ c \in Commands /\ c = [b EXCEPT !.jobs = Tail(b.jobs)]
         /\ c.kind = b.kind /\ c.id = b.id /\ c.ask = b.ask /\ c.mem = b.mem /\ c.jobs = Tail(b.jobs)
         /\ c.role = b.role /\ c.tried = b.tried /\ c.failed = b.failed
<1>1. b \in Commands /\ b.jobs \in Seq(AllJobs) /\ b.jobs # <<>>
  BY AboutCommand
<1>2. Tail(b.jobs) \in Seq(AllJobs)
  BY <1>1, Rest
<1> PICK t : t = Tail(b.jobs)
  OBVIOUS
<1>3. c = [b EXCEPT !.jobs = t]
  BY DEF Inventory!After
<1> QED
  BY <1>1, <1>2, <1>3 DEF Commands

\* A command that has nothing more to do is over.
LEMMA EndKeeps ==
  ASSUME InventoryInv, NEW p \in Procs, running[p].jobs # <<>>, Inventory!Ends(p), WorldTypes', saved' \in States, Inventory!Synced => Inventory!Synced'
  PROVE  InventoryInv'
<1>1. Inventory!Idle \in Commands /\ MayDo(Inventory!Idle.jobs, Inventory!Idle.kind, Inventory!Idle.id) /\ Inventory!Idle.jobs = <<>> /\ Inventory!Idle.kind # "repo-add"
  BY NothingToDo DEF Inventory!Idle, Commands, CommandKinds, InventoryIds, Roles, States, Inventory!NoState
<1>2. Inventory!Continue(p, Inventory!Idle)
  BY DEF Inventory!Ends
<1> PICK c : c = Inventory!Idle
  OBVIOUS
<1>3. InventoryInv /\ ManifestThere(c)'
  BY DEF ManifestThere, Inventory!Idle
<1>4. c \in Commands /\ MayDo(c.jobs, c.kind, c.id) /\ c.jobs = <<>> /\ c.kind # "repo-add" /\ Inventory!Continue(p, c)
  BY <1>1, <1>2
<1> QED
  BY <1>3, <1>4, CommandGoesOn

\* The manifest that a pull leaves.
LEMMA PulledIs ==
  ASSUME WorldTypes
  PROVE  Inventory!Pulled \in Inventory!Revisions /\ 0 \notin Inventory!Revisions
<1>1. 0 \notin Inventory!Revisions /\ Inventory!Revisions = DOMAIN Manifests
  BY InventoryAssumption DEF Inventory!Revisions
<1>2. manifest[registry.path] \in Inventory!Revisions \cup {0} /\ registry.source \in Inventory!Sources
  BY DEF WorldTypes
<1>3. Inventory!Synced => Inventory!doc.source \in Inventory!Sources
  BY <1>2 DEF Inventory!Synced, Inventory!doc, Inventory!Sources
<1> QED
  BY <1>1, <1>2, <1>3 DEF Inventory!Pulled, WorldTypes

\* A pull leaves a manifest where there was one.
LEMMA PullManifestKeeps ==
  ASSUME InventoryInv, NEW p \in Procs, Inventory!PullManifest(p)
  PROVE  InventoryInv'
<1> PICK b : b = running[p]
  OBVIOUS
<1> PICK c : c = Inventory!After(p)
  OBVIOUS
<1>1. b.jobs # <<>> /\ UNCHANGED <<registry, newest, disk, saved>>
  BY DEF Inventory!PullManifest, Inventory!Doing
<1>2. /\ b \in Commands /\ b.jobs \in Seq(AllJobs) /\ b.jobs[1] \in AllJobs /\ WorldTypes /\ saved \in States
      /\ \A do : Inventory!Doing(p, do) <=> b.jobs[1].do = do
  BY <1>1, AboutCommand
<1>3. /\ c \in Commands /\ c.kind = b.kind /\ c.id = b.id /\ c.ask = b.ask /\ c.mem = b.mem /\ c.jobs = Tail(b.jobs)
      /\ c.tried = b.tried /\ c.failed = b.failed
  BY <1>1, AfterIs
<1>4. Inventory!Pulled \in Inventory!Revisions /\ 0 \notin Inventory!Revisions
  BY <1>2, PulledIs
<1>5. \/ UNCHANGED manifest /\ (b.jobs[1].do = "manifest" => Inventory!Synced \/ Inventory!Ends(p)) /\ (Inventory!Continue(p, c) \/ Inventory!Ends(p))
      \/ manifest' = [manifest EXCEPT ![registry.path] = Inventory!Pulled] /\ Inventory!Continue(p, c)
  BY <1>2 DEF Inventory!PullManifest, Inventory!Done
<1>6. b.jobs[1].do \in {"manifest", "refresh", "pull"} /\ trouble' \in Nat
  BY <1>2 DEF Inventory!PullManifest, Inventory!MayFail, WorldTypes
<1>7. WorldTypes'
  BY <1>1, <1>2, <1>4, <1>5, <1>6 DEF WorldTypes
<1>s. Inventory!Synced => Inventory!Synced'
  BY <1>1, <1>2, <1>4, <1>5 DEF Inventory!Synced, WorldTypes
<1>8. CASE Inventory!Ends(p)
  BY <1>1, <1>2, <1>7, <1>s, <1>8, EndKeeps
<1>9. CASE ~Inventory!Ends(p)
  <2>1. Inventory!Continue(p, c)
    BY <1>5, <1>9
  <2>2. Inventory!Synced \/ b.jobs[1].do = "manifest" => Inventory!Synced'
    BY <1>1, <1>2, <1>4, <1>5, <1>9 DEF Inventory!Synced, WorldTypes
  <2>3. b.jobs[1].do \notin Reads \cup {"save", "role", "mounts", "repos"}
    BY <1>6 DEF Reads
  <2>4. \A pl : b.jobs[1] # Inventory!Job("sync", pl)
    BY <1>6 DEF Inventory!Job
  <2>5. /\ b.tried \subseteq c.tried /\ (c.kind = "setup" => b.failed \subseteq c.failed)
        /\ \A pl : b.jobs[1] = Inventory!Job("sync", pl) => pl \in c.tried /\ (disk'[pl] \in Inventory!Git \/ pl \in c.failed)
        /\ c.kind = "setup" => \A m \in Needed : disk[Inventory!Dir("mount", m)] \in Inventory!Git => disk'[Inventory!Dir("mount", m)] \in Inventory!Git
        /\ b.jobs[1].do \notin {"manifest", "refresh", "pull"} => Inventory!doc' = Inventory!doc
    BY <1>1, <1>3, <1>6, <2>4
  <2> QED
    BY <1>1, <1>3, <1>7, <2>1, <2>2, <2>3, <2>5, JobKeeps
<1> QED
  BY <1>8, <1>9

\* Where checkouts may be.
LEMMA PlacesAre ==
  /\ \A pl \in Inventory!Places : /\ pl = Inventory!Dir(pl[1], pl[2]) /\ pl[1] \in {"repos", "products", "mount"}
                                  /\ pl[1] \in {"repos", "products"} => pl[2] \in Repos
                                  /\ pl[1] = "mount" => pl[2] \in Inventory!Mounts
  /\ \A r \in Repos : Inventory!Dir("repos", r) \in Inventory!Places /\ Inventory!Dir("products", r) \in Inventory!Places /\ Inventory!RepoPath(r) \in Inventory!Places
  /\ \A m \in Inventory!Mounts : Inventory!Dir("mount", m) \in Inventory!Places
  /\ \A k, x : Inventory!Dir(k, x)[1] = k /\ Inventory!Dir(k, x)[2] = x
  /\ Needed \subseteq Inventory!Mounts
BY DEF Inventory!Places, Inventory!Dir, Inventory!RepoPath, Inventory!Mounts

\* Checkouts of products/ that are moved stay where they are looked for.
LEMMA MovingKeeps ==
  ASSUME InventoryInv, NEW p \in Procs, Inventory!Migrate(p)
  PROVE  InventoryInv'
<1> PICK b : b = running[p]
  OBVIOUS
<1> PICK c : c = Inventory!After(p)
  OBVIOUS
<1>1. b.jobs # <<>> /\ UNCHANGED <<registry, manifest, newest, saved, trouble>> /\ Inventory!Continue(p, c)
  BY DEF Inventory!Migrate, Inventory!Doing, Inventory!Done
<1>2. /\ b \in Commands /\ b.jobs \in Seq(AllJobs) /\ WorldTypes /\ b.jobs[1].do = "migrate"
      /\ b.tried \subseteq Inventory!Places
  <2>1. /\ b \in Commands /\ b.jobs \in Seq(AllJobs) /\ WorldTypes
        /\ \A do : Inventory!Doing(p, do) <=> b.jobs[1].do = do
    BY <1>1, AboutCommand
  <2> QED
    BY <2>1 DEF Inventory!Migrate, Commands
<1>3. /\ c \in Commands /\ c.kind = b.kind /\ c.id = b.id /\ c.ask = b.ask /\ c.mem = b.mem /\ c.jobs = Tail(b.jobs)
      /\ c.tried = b.tried /\ c.failed = b.failed
  BY <1>1, AfterIs
<1> PICK moved : moved = {r \in Repos : disk[Inventory!Dir("products", r)] # "none" /\ disk[Inventory!Dir("repos", r)] = "none"}
  OBVIOUS
<1>4. disk' = [pl \in Inventory!Places |->
                 IF pl[2] \notin moved \/ pl[1] = "mount" THEN disk[pl]
                 ELSE IF pl[1] = "repos" THEN disk[Inventory!Dir("products", pl[2])] ELSE "none"]
  BY DEF Inventory!Migrate
<1>5. disk' \in [Inventory!Places -> Inventory!Content \cup {"none", "empty"}]
  <2>1. disk \in [Inventory!Places -> Inventory!Content \cup {"none", "empty"}]
    BY <1>2 DEF WorldTypes
  <2> QED
    BY <1>4, <2>1, PlacesAre
<1>6. WorldTypes'
  BY <1>1, <1>2, <1>5 DEF WorldTypes
<1>7. \A m \in Needed : disk[Inventory!Dir("mount", m)] \in Inventory!Git => disk'[Inventory!Dir("mount", m)] \in Inventory!Git
  BY <1>4, PlacesAre
<1>8. Inventory!Synced' = Inventory!Synced /\ Inventory!doc' = Inventory!doc
  BY <1>1 DEF Inventory!Synced, Inventory!doc
<1>9. b.jobs[1].do \notin Reads \cup {"save", "role", "mounts", "repos"} /\ \A pl : b.jobs[1] # Inventory!Job("sync", pl)
  BY <1>2 DEF Reads, Inventory!Job
<1>10. /\ b.tried \subseteq c.tried /\ (c.kind = "setup" => b.failed \subseteq c.failed)
       /\ \A pl : b.jobs[1] = Inventory!Job("sync", pl) => pl \in c.tried /\ (disk'[pl] \in Inventory!Git \/ pl \in c.failed)
       /\ c.kind = "setup" => \A m \in Needed : disk[Inventory!Dir("mount", m)] \in Inventory!Git => disk'[Inventory!Dir("mount", m)] \in Inventory!Git
       /\ Inventory!Synced \/ b.jobs[1].do = "manifest" => Inventory!Synced'
       /\ b.jobs[1].do \notin {"manifest", "refresh", "pull"} => Inventory!doc' = Inventory!doc
  BY <1>2, <1>3, <1>7, <1>8, <1>9
<1> QED
  BY <1>1, <1>3, <1>6, <1>9, <1>10, JobKeeps

\* A place that was synchronized is a checkout, or has failed.
LEMMA SyncKeeps ==
  ASSUME InventoryInv, NEW p \in Procs, Inventory!Sync(p)
  PROVE  InventoryInv'
<1> PICK b : b = running[p]
  OBVIOUS
<1> PICK pl : pl = Inventory!Now(p).at
  OBVIOUS
<1> PICK a : a = Inventory!After(p)
  OBVIOUS
<1>1. b.jobs # <<>> /\ UNCHANGED <<registry, manifest, newest, saved>> /\ Inventory!Doing(p, "sync")
  BY DEF Inventory!Sync, Inventory!Doing
<1>2. /\ b \in Commands /\ b.jobs \in Seq(AllJobs) /\ WorldTypes /\ b.jobs[1].do = "sync" /\ b.jobs[1].at = pl
      /\ pl \in Inventory!Places
  <2>1. /\ b \in Commands /\ b.jobs \in Seq(AllJobs) /\ WorldTypes /\ b.jobs[1] = Inventory!Now(p) /\ MayBe(b.jobs[1], b.kind, b.id)
        /\ \A do : Inventory!Doing(p, do) <=> b.jobs[1].do = do
    BY <1>1, AboutCommand
  <2> QED
    BY <1>1, <2>1 DEF MayBe
<1>3. /\ a \in Commands /\ a.kind = b.kind /\ a.id = b.id /\ a.ask = b.ask /\ a.mem = b.mem /\ a.jobs = Tail(b.jobs)
      /\ a.tried = b.tried /\ a.failed = b.failed
  BY <1>1, AfterIs
<1>4. \E c : /\ c \in {[a EXCEPT !.tried = @ \cup {pl}, !.failed = @], [a EXCEPT !.tried = @ \cup {pl}, !.failed = @ \cup {pl}]}
             /\ Inventory!Continue(p, c) /\ (disk'[pl] \in Inventory!Git \/ pl \in c.failed)
  <2>1. CASE Inventory!Continue(p, [a EXCEPT !.tried = @ \cup {pl}, !.failed = @ \cup {pl}])
    <3>1. pl \in [a EXCEPT !.tried = @ \cup {pl}, !.failed = @ \cup {pl}].failed
      BY <1>3 DEF Commands
    <3> QED
      BY <2>1, <3>1
  <2>2. CASE Inventory!Continue(p, [a EXCEPT !.tried = @ \cup {pl}, !.failed = @]) /\ disk'[pl] \in Inventory!Git
    BY <2>2
  <2>3. disk[pl] = "none" /\ disk' = [disk EXCEPT ![pl] = "clone"] => disk'[pl] \in Inventory!Git
    BY <1>2 DEF WorldTypes, Inventory!Git
  <2> QED
    BY <2>1, <2>2, <2>3 DEF Inventory!Sync
<1>5. PICK c : /\ c \in {[a EXCEPT !.tried = @ \cup {pl}, !.failed = @], [a EXCEPT !.tried = @ \cup {pl}, !.failed = @ \cup {pl}]}
               /\ Inventory!Continue(p, c) /\ (disk'[pl] \in Inventory!Git \/ pl \in c.failed)
  BY <1>4
<1>6. /\ c \in Commands /\ c.kind = b.kind /\ c.id = b.id /\ c.ask = b.ask /\ c.mem = b.mem /\ c.jobs = Tail(b.jobs)
      /\ b.tried \subseteq c.tried /\ b.failed \subseteq c.failed /\ pl \in c.tried
  <2>1. PICK F : F \in {a.failed, a.failed \cup {pl}} /\ c = [a EXCEPT !.tried = a.tried \cup {pl}, !.failed = F]
    BY <1>5
  <2>2. a \in Commands /\ a.tried \subseteq Inventory!Places /\ a.failed \subseteq Inventory!Places
    BY <1>3 DEF Commands
  <2>3. F \subseteq Inventory!Places /\ a.tried \cup {pl} \subseteq Inventory!Places
    BY <1>2, <2>1, <2>2
  <2> PICK T : T = a.tried \cup {pl}
    OBVIOUS
  <2>4. T \in SUBSET Inventory!Places /\ F \in SUBSET Inventory!Places /\ c = [a EXCEPT !.tried = T, !.failed = F]
    BY <2>1, <2>3
  <2>5. /\ c \in Commands /\ c.kind = a.kind /\ c.id = a.id /\ c.ask = a.ask /\ c.mem = a.mem /\ c.jobs = a.jobs
        /\ c.tried = T /\ c.failed = F
    BY ONLY <2>2, <2>4 DEF Commands
  <2> QED
    BY <1>3, <2>1, <2>5
<1>7. disk' \in {disk, [disk EXCEPT ![pl] = "clone"]} /\ (disk' # disk => disk[pl] = "none") /\ trouble' \in Nat
  BY <1>2 DEF Inventory!Sync, Inventory!MayFail, WorldTypes
<1>8. /\ disk' \in [Inventory!Places -> Inventory!Content \cup {"none", "empty"}]
      /\ \A q \in Inventory!Places : disk[q] \in Inventory!Git => disk'[q] \in Inventory!Git
  <2>1. disk \in [Inventory!Places -> Inventory!Content \cup {"none", "empty"}] /\ "clone" \in Inventory!Git /\ "clone" \in Inventory!Content
    BY <1>2 DEF WorldTypes, Inventory!Git, Inventory!Content
  <2> QED
    BY <1>2, <1>7, <2>1
<1>9. WorldTypes'
  BY <1>1, <1>2, <1>7, <1>8 DEF WorldTypes
<1>10. \A m \in Needed : disk[Inventory!Dir("mount", m)] \in Inventory!Git => disk'[Inventory!Dir("mount", m)] \in Inventory!Git
  BY <1>8, PlacesAre
<1>11. Inventory!Synced' = Inventory!Synced /\ Inventory!doc' = Inventory!doc
  BY <1>1 DEF Inventory!Synced, Inventory!doc
<1>12. \A q : b.jobs[1] = Inventory!Job("sync", q) => q = pl
  BY <1>2 DEF Inventory!Job
<1>13. b.jobs[1].do \notin Reads \cup {"save", "role", "mounts", "repos"}
  BY <1>2 DEF Reads
<1>14. /\ (c.kind = "setup" => b.failed \subseteq c.failed)
       /\ \A q : b.jobs[1] = Inventory!Job("sync", q) => q \in c.tried /\ (disk'[q] \in Inventory!Git \/ q \in c.failed)
       /\ c.kind = "setup" => \A m \in Needed : disk[Inventory!Dir("mount", m)] \in Inventory!Git => disk'[Inventory!Dir("mount", m)] \in Inventory!Git
       /\ Inventory!Synced \/ b.jobs[1].do = "manifest" => Inventory!Synced'
       /\ b.jobs[1].do \notin {"manifest", "refresh", "pull"} => Inventory!doc' = Inventory!doc
  BY <1>2, <1>5, <1>6, <1>10, <1>11, <1>12
<1>15. Inventory!Continue(p, c) /\ saved' = saved
  BY <1>1, <1>5
<1> QED
  BY <1>1, <1>6, <1>9, <1>13, <1>14, <1>15, JobKeeps

\* Only a removal takes away a place, and it is no setup.
LEMMA RemoveTreeKeeps ==
  ASSUME InventoryInv, NEW p \in Procs, Inventory!RemoveTree(p)
  PROVE  InventoryInv'
<1> PICK b : b = running[p]
  OBVIOUS
<1> PICK pl : pl = Inventory!Now(p).at
  OBVIOUS
<1> PICK a : a = Inventory!After(p)
  OBVIOUS
<1>1. b.jobs # <<>> /\ UNCHANGED <<registry, manifest, newest, saved>> /\ Inventory!Doing(p, "remove")
  BY DEF Inventory!RemoveTree, Inventory!Doing
<1>2. /\ b \in Commands /\ b.jobs \in Seq(AllJobs) /\ WorldTypes /\ b.jobs[1].do = "remove" /\ pl \in Inventory!Places /\ b.kind = "remove"
  <2>1. /\ b \in Commands /\ b.jobs \in Seq(AllJobs) /\ WorldTypes /\ b.jobs[1] = Inventory!Now(p) /\ MayBe(b.jobs[1], b.kind, b.id)
        /\ \A do : Inventory!Doing(p, do) <=> b.jobs[1].do = do
    BY <1>1, AboutCommand
  <2> QED
    BY <1>1, <2>1 DEF MayBe
<1>3. /\ a \in Commands /\ a.kind = b.kind /\ a.id = b.id /\ a.ask = b.ask /\ a.mem = b.mem /\ a.jobs = Tail(b.jobs)
      /\ a.tried = b.tried
  BY <1>1, AfterIs
<1>4. PICK c : c \in {a, [a EXCEPT !.failed = {pl}]} /\ Inventory!Continue(p, c)
  BY DEF Inventory!RemoveTree, Inventory!Done
<1>5. /\ c \in Commands /\ c.kind = b.kind /\ c.id = b.id /\ c.ask = b.ask /\ c.mem = b.mem /\ c.jobs = Tail(b.jobs)
      /\ c.tried = b.tried
  <2>1. PICK F : F \in {a.failed, {pl}} /\ c = [a EXCEPT !.failed = F]
    <3>1. a = [a EXCEPT !.failed = a.failed]
      BY <1>3 DEF Commands
    <3> QED
      BY <1>4, <3>1
  <2>2. a \in Commands /\ F \in SUBSET Inventory!Places
    BY <1>2, <1>3, <2>1 DEF Commands
  <2>3. /\ c \in Commands /\ c.kind = a.kind /\ c.id = a.id /\ c.ask = a.ask /\ c.mem = a.mem /\ c.jobs = a.jobs
        /\ c.tried = a.tried
    BY ONLY <2>1, <2>2 DEF Commands
  <2> QED
    BY <1>3, <2>3
<1>6. disk' \in {disk, [disk EXCEPT ![pl] = "none"]} /\ trouble' \in Nat
  BY <1>2 DEF Inventory!RemoveTree, Inventory!MayFail, WorldTypes
<1>7. disk' \in [Inventory!Places -> Inventory!Content \cup {"none", "empty"}]
  <2>1. disk \in [Inventory!Places -> Inventory!Content \cup {"none", "empty"}]
    BY <1>2 DEF WorldTypes
  <2> QED
    BY <1>2, <1>6, <2>1
<1>8. WorldTypes'
  BY <1>1, <1>2, <1>6, <1>7 DEF WorldTypes
<1>9. Inventory!Synced' = Inventory!Synced /\ Inventory!doc' = Inventory!doc
  BY <1>1 DEF Inventory!Synced, Inventory!doc
<1>10. b.jobs[1].do \notin Reads \cup {"save", "role", "mounts", "repos"} /\ \A q : b.jobs[1] # Inventory!Job("sync", q)
  BY <1>2 DEF Reads, Inventory!Job
<1>11. /\ b.tried \subseteq c.tried /\ (c.kind = "setup" => b.failed \subseteq c.failed)
       /\ \A q : b.jobs[1] = Inventory!Job("sync", q) => q \in c.tried /\ (disk'[q] \in Inventory!Git \/ q \in c.failed)
       /\ c.kind = "setup" => \A m \in Needed : disk[Inventory!Dir("mount", m)] \in Inventory!Git => disk'[Inventory!Dir("mount", m)] \in Inventory!Git
       /\ Inventory!Synced \/ b.jobs[1].do = "manifest" => Inventory!Synced'
       /\ b.jobs[1].do \notin {"manifest", "refresh", "pull"} => Inventory!doc' = Inventory!doc
  BY <1>2, <1>5, <1>9, <1>10
<1>12. Inventory!Continue(p, c) /\ saved' = saved
  BY <1>1, <1>4
<1> QED
  BY <1>1, <1>5, <1>8, <1>10, <1>11, <1>12, JobKeeps

\* What was tried, by its kind.
LEMMA TriedAre ==
  ASSUME NEW p, running[p].tried \subseteq Inventory!Places
  PROVE  /\ Inventory!Tried(p, {"repos", "products"}) \subseteq Repos /\ Inventory!Tried(p, {"mount", "repos", "products"}) \subseteq Repos \cup Inventory!Mounts
         /\ \A r, k : k \in {"repos", "products"} /\ Inventory!Dir(k, r) \in running[p].tried => r \in Inventory!Tried(p, {"repos", "products"})
<1>1. \A pl \in Inventory!Places : /\ pl[1] \in {"repos", "products"} => pl[2] \in Repos
                                   /\ pl[1] = "mount" => pl[2] \in Inventory!Mounts
  BY PlacesAre
<1>2. ASSUME NEW r, NEW k, k \in {"repos", "products"}, Inventory!Dir(k, r) \in running[p].tried PROVE r \in Inventory!Tried(p, {"repos", "products"})
  <2>1. Inventory!Dir(k, r)[1] = k /\ Inventory!Dir(k, r)[2] = r
    BY DEF Inventory!Dir
  <2> PICK pl : pl = Inventory!Dir(k, r)
    OBVIOUS
  <2>2. pl \in {q \in running[p].tried : q[1] \in {"repos", "products"}} /\ pl[2] = r
    BY <1>2, <2>1
  <2> QED
    BY <2>2 DEF Inventory!Tried
<1>3. Inventory!Tried(p, {"repos", "products"}) \subseteq Repos /\ Inventory!Tried(p, {"mount", "repos", "products"}) \subseteq Repos \cup Inventory!Mounts
  BY <1>1 DEF Inventory!Tried
<1> QED
  BY <1>2, <1>3

\* What a command that reads the state file is about to write.
LEMMA WhatIsRead ==
  ASSUME InventoryInv, NEW p \in Procs, Inventory!ReadState(p), NEW b, b = running[p], NEW a, a = Inventory!After(p)
  PROVE  /\ b.jobs # <<>> /\ UNCHANGED <<registry, manifest, newest, disk, saved, trouble>>
         /\ b.jobs[1].do \in Reads
         /\ \E x \in States :
              /\ Inventory!Continue(p, [a EXCEPT !.mem = x]) /\ x.role = saved.role
              /\ b.kind # "remove" => Inventory!Selected(saved) \subseteq x.selected /\ saved.listed \subseteq x.listed
              /\ b.jobs[1].do = "record-repos" => Inventory!Tried(p, {"repos", "products"}) \subseteq x.selected
<1>1. b.jobs # <<>> /\ UNCHANGED <<registry, manifest, newest, disk, saved, trouble>>
  BY DEF Inventory!ReadState, Inventory!Edit, Inventory!Doing
<1>2. /\ b \in Commands /\ saved \in States /\ MayBe(b.jobs[1], b.kind, b.id)
      /\ \A do : Inventory!Doing(p, do) <=> b.jobs[1].do = do
  BY <1>1, AboutCommand
<1>3. b.tried \subseteq Inventory!Places
  BY <1>2 DEF Commands
<1> PICK R : R = Inventory!Tried(p, {"repos", "products"})
  OBVIOUS
<1> PICK M : M = Inventory!Tried(p, {"mount", "repos", "products"})
  OBVIOUS
<1>4. R \subseteq Repos /\ M \subseteq Repos \cup Inventory!Mounts
  BY <1>3, TriedAre
<1> PICK s : s = Inventory!Load(saved)
  OBVIOUS
<1>5. /\ s \in States /\ s.role = saved.role /\ s.selected = Inventory!Selected(saved) /\ s.listed = saved.listed
      /\ saved.listed \subseteq Repos \cup Inventory!Mounts /\ Inventory!Selected(saved) \subseteq Repos
  BY <1>2 DEF Inventory!Load, States, Inventory!Selected
<1>6. CASE Inventory!Doing(p, "ensure") /\ Inventory!Edit(p, s)
  BY <1>1, <1>2, <1>5, <1>6 DEF Inventory!Edit, Reads
<1>7. CASE Inventory!Doing(p, "record-mounts") /\ Inventory!Edit(p, [s EXCEPT !.listed = @ \cup M])
  <2> PICK x : x = [s EXCEPT !.listed = @ \cup M]
    OBVIOUS
  <2>1. x \in States /\ x.role = saved.role /\ x.selected = s.selected /\ x.listed = s.listed \cup M
    BY <1>4, <1>5 DEF States
  <2>2. Inventory!Continue(p, [a EXCEPT !.mem = x]) /\ b.jobs[1].do = "record-mounts"
    BY <1>2, <1>7 DEF Inventory!Edit
  <2> QED
    BY <1>1, <1>5, <2>1, <2>2 DEF Reads
<1>8. CASE Inventory!Doing(p, "record-repos") /\ Inventory!Edit(p, [s EXCEPT !.selected = @ \cup R, !.listed = @ \cup R])
  <2> PICK x : x = [s EXCEPT !.selected = @ \cup R, !.listed = @ \cup R]
    OBVIOUS
  <2>1. x \in States /\ x.role = saved.role /\ x.selected = s.selected \cup R /\ x.listed = s.listed \cup R
    BY <1>4, <1>5 DEF States
  <2>2. Inventory!Continue(p, [a EXCEPT !.mem = x]) /\ b.jobs[1].do = "record-repos"
    BY <1>2, <1>8 DEF Inventory!Edit
  <2> QED
    BY <1>1, <1>5, <2>1, <2>2 DEF Reads
<1>9. CASE Inventory!Doing(p, "forget") /\ \E gone : Inventory!Edit(p, [s EXCEPT !.selected = @ \ (gone \cap Repos), !.listed = @ \ gone])
  <2>1. PICK gone : Inventory!Edit(p, [s EXCEPT !.selected = @ \ (gone \cap Repos), !.listed = @ \ gone])
    BY <1>9
  <2> PICK x : x = [s EXCEPT !.selected = @ \ (gone \cap Repos), !.listed = @ \ gone]
    OBVIOUS
  <2>2. x \in States /\ x.role = saved.role
    BY <1>5 DEF States
  <2>3. Inventory!Continue(p, [a EXCEPT !.mem = x]) /\ b.jobs[1].do = "forget" /\ b.kind = "remove"
    BY <1>2, <1>9, <2>1 DEF Inventory!Edit, MayBe
  <2> QED
    BY <1>1, <2>2, <2>3 DEF Reads
<1> QED
  BY <1>6, <1>7, <1>8, <1>9 DEF Inventory!ReadState

\* What is read of the state file is about to be written with what was done.
LEMMA ReadStateKeeps ==
  ASSUME InventoryInv, NEW p \in Procs, Inventory!ReadState(p)
  PROVE  InventoryInv'
<1> PICK b : b = running[p]
  OBVIOUS
<1> PICK a : a = Inventory!After(p)
  OBVIOUS
<1>1. b.jobs # <<>> /\ UNCHANGED <<registry, manifest, newest, disk, saved, trouble>> /\ b.jobs[1].do \in Reads
  BY WhatIsRead
<1>2. PICK x \in States :
         /\ Inventory!Continue(p, [a EXCEPT !.mem = x]) /\ x.role = saved.role
         /\ b.kind # "remove" => Inventory!Selected(saved) \subseteq x.selected /\ saved.listed \subseteq x.listed
         /\ b.jobs[1].do = "record-repos" => Inventory!Tried(p, {"repos", "products"}) \subseteq x.selected
  BY WhatIsRead
<1> PICK c : c = [a EXCEPT !.mem = x]
  OBVIOUS
<1> PICK t : t = Tail(b.jobs)
  OBVIOUS
<1> PICK do : do = b.jobs[1].do
  OBVIOUS
<1>3. /\ b \in Commands /\ MayDo(b.jobs, b.kind, b.id) /\ (b.kind = "repo-add" => b.id \in Repos) /\ b.jobs \in Seq(AllJobs)
      /\ MayBe(b.jobs[1], b.kind, b.id) /\ WorldTypes /\ saved \in States
      /\ p \in alone => WritesAll(b) /\ SetupReached(b)
      /\ ManifestThere(b)
  BY <1>1, AboutCommand
<1>4. /\ c \in Commands /\ c.kind = b.kind /\ c.id = b.id /\ c.ask = b.ask /\ c.mem = x /\ c.jobs = t
      /\ c.tried = b.tried /\ c.failed = b.failed
  <2>1. /\ a \in Commands /\ a.kind = b.kind /\ a.id = b.id /\ a.ask = b.ask /\ a.jobs = t
        /\ a.tried = b.tried /\ a.failed = b.failed
    BY <1>1, AfterIs
  <2> QED
    BY <1>2, <2>1 DEF Commands
<1>5. /\ MayDo(t, b.kind, b.id) /\ (FirstIs(t, "save") <=> do \in Reads)
      /\ \A d : HasIn(b.jobs, d) <=> do = d \/ HasIn(t, d)
      /\ \A pl : PendingIn(b.jobs, pl) <=> b.jobs[1] = Inventory!Job("sync", pl) \/ PendingIn(t, pl)
      /\ b.kind = "setup" /\ do \in Early => HasIn(t, "repos")
      /\ \A d : HasIn(t, d) => MayPrecede(do, d)
  BY <1>1, <1>3, Popped
<1>6. do \in {"ensure", "record-mounts", "record-repos", "forget"} /\ do \notin {"save", "role", "mounts", "repos", "manifest"}
      /\ b.jobs[1].do # "sync"
  BY <1>1 DEF Reads
<1>7. \A d \in {"role", "mounts", "repos", "save", "manifest"} : HasIn(t, d) <=> HasIn(b.jobs, d)
  BY <1>5, <1>6
<1>8. FirstIs(t, "save") /\ ~FirstIs(b.jobs, "save") /\ \A pl : PendingIn(b.jobs, pl) <=> PendingIn(t, pl)
  <2>1. \A pl : b.jobs[1] # Inventory!Job("sync", pl)
    BY <1>6 DEF Inventory!Job
  <2> QED
    BY <1>1, <1>5, <1>6, <2>1 DEF FirstIs
<1>9. b.kind # "remove" => Inventory!Selected(saved) \subseteq Inventory!Selected(x) /\ saved.listed \subseteq x.listed
  BY <1>2 DEF Inventory!Selected
<1>10. WritesAll(c)'
  BY <1>1, <1>4, <1>9 DEF WritesAll, MemKeeps, Inventory!Selected
<1>m. ManifestThere(c)' /\ (Inventory!Synced => Inventory!Synced')
  BY <1>1, <1>3, <1>4, <1>7 DEF ManifestThere, Inventory!Synced
<1>11. ASSUME p \in alone, b.kind = "setup" PROVE RoleSet(c)' /\ MountsThere(c)'
  <2>1. RoleSet(b) /\ MountsThere(b)
    BY <1>3, <1>11 DEF SetupReached
  <2>3. RoleSet(c)'
    BY <1>2, <1>4, <1>7, <1>8, <2>1 DEF RoleSet
  <2>4. MountsThere(c)'
    BY <1>1, <1>4, <1>7, <1>8, <2>1 DEF MountsThere
  <2> QED
    BY <2>3, <2>4
<1>12. ASSUME p \in alone, b.kind = "setup" PROVE ReposThere(c)'
  <2>1. ReposThere(b)
    BY <1>3, <1>12 DEF SetupReached
  <2>2. ASSUME ~HasIn(t, "repos"), NEW r \in Inventory!doc.defaults
        PROVE  IF HasIn(t, "record-repos") THEN SeenTo(c, r)
               ELSE IF HasIn(t, "save") THEN r \in x.selected ELSE r \in saved.selected
    <3>1. do = "record-repos"
      BY <1>3, <1>5, <1>6, <1>12, <2>2 DEF Early, MayBe
    <3>2. SeenTo(b, r)
      BY <1>5, <1>7, <2>1, <2>2, <3>1 DEF ReposThere
    <3>3. SeenTo(c, r)
      BY <1>4, <1>8, <3>2 DEF SeenTo
    <3>4. HasIn(t, "save")
      <4>1. t # <<>> /\ t[1].do = "save" /\ t \in Seq(AllJobs)
        BY <1>5, <1>8 DEF FirstIs, MayDo
      <4>2. 1 \in DOMAIN t
        BY <4>1
      <4> QED
        BY <4>1, <4>2 DEF HasIn
    <3>5. \A d : HasIn(t, d) => d # "sync"
      BY <1>5, <3>1 DEF MayPrecede
    <3>6. \A pl : ~PendingIn(b.jobs, pl)
      <4>1. \A pl : Inventory!Job("sync", pl).do = "sync"
        BY DEF Inventory!Job
      <4>2. \A pl : PendingIn(t, pl) => HasIn(t, "sync")
        BY <4>1 DEF PendingIn, HasIn
      <4> QED
        BY <1>8, <3>5, <4>2
    <3>7. \E k \in {"repos", "products"} : Inventory!Dir(k, r) \in b.tried
      BY <3>2, <3>6 DEF SeenTo
    <3>8. b.tried \subseteq Inventory!Places
      BY <1>3 DEF Commands
    <3>9. r \in Inventory!Tried(p, {"repos", "products"})
      BY <3>7, <3>8, TriedAre
    <3> QED
      BY <1>2, <3>1, <3>3, <3>4, <3>9
  <2> QED
    BY <1>1, <1>4, <2>2 DEF ReposThere, Inventory!doc, SeenTo
<1>13. p \in alone => SetupReached(c)'
  BY <1>4, <1>11, <1>12 DEF SetupReached
<1>14. WorldTypes' /\ saved' \in States /\ Inventory!Continue(p, c) /\ MayDo(c.jobs, c.kind, c.id)
  BY <1>1, <1>2, <1>3, <1>4, <1>5 DEF WorldTypes
<1> QED
  BY <1>1, <1>3, <1>4, <1>10, <1>m, <1>13, <1>14, CommandGoesOn

\* What was read is written.
LEMMA SaveStateKeeps ==
  ASSUME InventoryInv, NEW p \in Procs, Inventory!SaveState(p)
  PROVE  InventoryInv'
<1> PICK b : b = running[p]
  OBVIOUS
<1> PICK a : a = Inventory!After(p)
  OBVIOUS
<1> PICK x : x = IF Inventory!Do("role") \in Inventory!ToSet(b.jobs) THEN b.mem ELSE Inventory!NoState
  OBVIOUS
<1> PICK c : c = [a EXCEPT !.mem = x]
  OBVIOUS
<1> PICK t : t = Tail(b.jobs)
  OBVIOUS
<1>1. b.jobs # <<>> /\ UNCHANGED <<registry, manifest, newest, disk, trouble>> /\ saved' = b.mem /\ Inventory!Doing(p, "save")
  BY DEF Inventory!SaveState, Inventory!Doing
<1>2. /\ b \in Commands /\ MayDo(b.jobs, b.kind, b.id) /\ (b.kind = "repo-add" => b.id \in Repos) /\ b.jobs \in Seq(AllJobs)
      /\ WorldTypes /\ b.jobs[1].do = "save"
      /\ p \in alone => WritesAll(b) /\ SetupReached(b)
      /\ ManifestThere(b)
  <2>1. /\ b \in Commands /\ MayDo(b.jobs, b.kind, b.id) /\ (b.kind = "repo-add" => b.id \in Repos) /\ b.jobs \in Seq(AllJobs)
        /\ WorldTypes /\ \A do : Inventory!Doing(p, do) <=> b.jobs[1].do = do
        /\ p \in alone => WritesAll(b) /\ SetupReached(b)
        /\ ManifestThere(b)
    BY <1>1, AboutCommand
  <2> QED
    BY <1>1, <2>1
<1>3. /\ a \in Commands /\ a.kind = b.kind /\ a.id = b.id /\ a.ask = b.ask /\ a.mem = b.mem /\ a.jobs = t
      /\ a.tried = b.tried /\ a.failed = b.failed
  BY <1>1, AfterIs
<1>4. b.mem \in States /\ x \in States
  BY <1>2 DEF Commands, States, Inventory!NoState, Roles
<1>5. /\ c \in Commands /\ c.kind = b.kind /\ c.id = b.id /\ c.ask = b.ask /\ c.mem = x /\ c.jobs = t
      /\ c.tried = b.tried /\ c.failed = b.failed
  BY ONLY <1>3, <1>4, c = [a EXCEPT !.mem = x] DEF Commands
<1>6. Inventory!Continue(p, c)
  <2>1. [a EXCEPT !.mem = IF Inventory!Do("role") \in Inventory!ToSet(b.jobs) THEN @ ELSE Inventory!NoState] = c
    BY <1>3
  <2> QED
    BY <2>1 DEF Inventory!SaveState
<1>7. /\ MayDo(t, b.kind, b.id) /\ ~FirstIs(t, "save")
      /\ \A d : HasIn(b.jobs, d) <=> "save" = d \/ HasIn(t, d)
      /\ \A pl : PendingIn(b.jobs, pl) <=> PendingIn(t, pl)
  <2>1. /\ MayDo(t, b.kind, b.id) /\ (FirstIs(t, "save") <=> b.jobs[1].do \in Reads)
        /\ \A d : HasIn(b.jobs, d) <=> b.jobs[1].do = d \/ HasIn(t, d)
        /\ \A pl : PendingIn(b.jobs, pl) <=> b.jobs[1] = Inventory!Job("sync", pl) \/ PendingIn(t, pl)
    BY <1>1, <1>2, Popped
  <2>2. b.jobs[1].do \notin Reads /\ \A pl : b.jobs[1] # Inventory!Job("sync", pl)
    BY <1>2 DEF Reads, Inventory!Job
  <2> QED
    BY <1>2, <2>1, <2>2
<1>8. \A d \in {"role", "mounts", "repos", "record-repos", "manifest"} : HasIn(t, d) <=> HasIn(b.jobs, d)
  BY <1>7
<1>9. FirstIs(b.jobs, "save") /\ HasIn(b.jobs, "save")
  BY <1>1, <1>2, <1>7 DEF FirstIs
<1>10. HasIn(b.jobs, "role") => x = b.mem
  <2>1. ASSUME NEW i \in DOMAIN b.jobs, b.jobs[i].do = "role" PROVE Inventory!Do("role") \in Inventory!ToSet(b.jobs)
    <3>1. b.jobs[i] = Inventory!Do("role")
      BY <1>2, <2>1 DEF MayDo, MayBe
    <3> QED
      BY <3>1 DEF Inventory!ToSet
  <2> QED
    BY <2>1 DEF HasIn
<1>11. WritesAll(c)'
  BY <1>1, <1>5, <1>7, <1>8, <1>10 DEF WritesAll, MemKeeps, Inventory!Selected
<1>m. ManifestThere(c)' /\ (Inventory!Synced => Inventory!Synced')
  BY <1>1, <1>2, <1>5, <1>8 DEF ManifestThere, Inventory!Synced
<1>12. ASSUME p \in alone, b.kind = "setup" PROVE RoleSet(c)' /\ MountsThere(c)'
  <2>1. RoleSet(b) /\ MountsThere(b)
    BY <1>2, <1>12 DEF SetupReached
  <2>3. RoleSet(c)'
    BY <1>1, <1>5, <1>7, <1>8, <1>9, <2>1 DEF RoleSet
  <2>4. MountsThere(c)'
    BY <1>1, <1>5, <1>7, <1>8, <2>1 DEF MountsThere
  <2> QED
    BY <2>3, <2>4
<1>13. ASSUME p \in alone, b.kind = "setup" PROVE ReposThere(c)'
  <2>1. ReposThere(b)
    BY <1>2, <1>13 DEF SetupReached
  <2>2. ASSUME ~HasIn(t, "repos"), HasIn(t, "save") PROVE HasIn(t, "record-repos")
    <3>1. PICK i \in DOMAIN t : t[i].do = "save"
      BY <2>2 DEF HasIn
    <3>2. t \in Seq(AllJobs) /\ DOMAIN t = 1..Len(t) /\ Len(t) \in Nat /\ (1 \in DOMAIN t => t # <<>>)
      BY <1>7 DEF MayDo
    <3>3. i # 1
      BY <1>7, <3>1, <3>2 DEF FirstIs
    <3>4. i - 1 \in DOMAIN t
      BY <3>1, <3>2, <3>3
    <3>5. t[i - 1].do \in Reads
      BY <1>7, <3>1, <3>4 DEF MayDo, InSequence
    <3>6. t[i - 1].do \notin Early
      <4>1. t[i - 1].do \in Early => \E k \in DOMAIN t : i - 1 < k /\ t[k].do = "repos"
        BY <1>7, <1>13, <3>4 DEF MayDo, InSequence
      <4>2. \A k \in DOMAIN t : t[k].do # "repos"
        BY <2>2 DEF HasIn
      <4> QED
        BY <4>1, <4>2
    <3>7. MayBe(t[i - 1], b.kind, b.id)
      BY <1>7, <3>4 DEF MayDo
    <3>8. t[i - 1].do = "record-repos"
      BY <1>13, <3>5, <3>6, <3>7 DEF Reads, Early, MayBe
    <3> QED
      BY <3>4, <3>8 DEF HasIn
  <2>3. ASSUME ~HasIn(t, "repos"), NEW r \in Inventory!doc.defaults
        PROVE  IF HasIn(t, "record-repos") THEN SeenTo(c, r)
               ELSE IF HasIn(t, "save") THEN r \in x.selected ELSE r \in b.mem.selected
    <3>1. IF HasIn(b.jobs, "record-repos") THEN SeenTo(b, r) ELSE r \in b.mem.selected
      BY <1>8, <1>9, <2>1, <2>3 DEF ReposThere
    <3>2. SeenTo(b, r) => SeenTo(c, r)
      BY <1>5, <1>7 DEF SeenTo
    <3> QED
      BY <1>8, <2>2, <2>3, <3>1, <3>2
  <2> QED
    BY <1>1, <1>5, <2>3 DEF ReposThere, Inventory!doc, SeenTo
<1>14. p \in alone => SetupReached(c)'
  BY <1>5, <1>12, <1>13 DEF SetupReached
<1>15. WorldTypes' /\ saved' \in States /\ MayDo(c.jobs, c.kind, c.id)
  BY <1>1, <1>2, <1>4, <1>5, <1>7 DEF WorldTypes
<1> QED
  BY <1>1, <1>2, <1>5, <1>6, <1>11, <1>m, <1>14, <1>15, CommandGoesOn

\* A setup serves the role that it was asked for, and is about to save it.
LEMMA SetRoleKeeps ==
  ASSUME InventoryInv, NEW p \in Procs, Inventory!SetRole(p)
  PROVE  InventoryInv'
<1> PICK b : b = running[p]
  OBVIOUS
<1> PICK a : a = Inventory!After(p)
  OBVIOUS
<1> PICK t : t = Tail(b.jobs)
  OBVIOUS
<1> PICK ask : ask = b.ask
  OBVIOUS
<1> PICK role : role = IF ask.role # "none" \/ ask.asks THEN ask.role ELSE b.mem.role
  OBVIOUS
<1> PICK x : x = IF ask.set THEN [b.mem EXCEPT !.role = ask.role] ELSE b.mem
  OBVIOUS
<1> PICK u : u = <<Inventory!Do("save")>> \o t
  OBVIOUS
<1> PICK L : L = IF ask.set THEN u ELSE t
  OBVIOUS
<1> PICK c : c = [a EXCEPT !.role = role, !.mem = x, !.jobs = L]
  OBVIOUS
<1>1. b.jobs # <<>> /\ UNCHANGED <<registry, manifest, newest, disk, saved, trouble>> /\ Inventory!Doing(p, "role")
  BY DEF Inventory!SetRole, Inventory!Doing
<1>2. /\ b \in Commands /\ MayDo(b.jobs, b.kind, b.id) /\ (b.kind = "repo-add" => b.id \in Repos) /\ b.jobs \in Seq(AllJobs)
      /\ WorldTypes /\ saved \in States /\ b.jobs[1].do = "role" /\ b.kind = "setup"
      /\ p \in alone => WritesAll(b) /\ SetupReached(b)
      /\ ManifestThere(b)
  <2>1. /\ b \in Commands /\ MayDo(b.jobs, b.kind, b.id) /\ (b.kind = "repo-add" => b.id \in Repos) /\ b.jobs \in Seq(AllJobs)
        /\ WorldTypes /\ saved \in States /\ MayBe(b.jobs[1], b.kind, b.id)
        /\ \A do : Inventory!Doing(p, do) <=> b.jobs[1].do = do
        /\ p \in alone => WritesAll(b) /\ SetupReached(b)
        /\ ManifestThere(b)
    BY <1>1, AboutCommand
  <2> QED
    BY <1>1, <2>1 DEF MayBe
<1>3. /\ a \in Commands /\ a.kind = b.kind /\ a.id = b.id /\ a.ask = b.ask /\ a.mem = b.mem /\ a.jobs = t
      /\ a.tried = b.tried /\ a.failed = b.failed
  BY <1>1, AfterIs
<1>4. /\ MayDo(t, b.kind, b.id) /\ ~FirstIs(t, "save")
      /\ \A d : HasIn(b.jobs, d) <=> "role" = d \/ HasIn(t, d)
      /\ \A pl : PendingIn(b.jobs, pl) <=> PendingIn(t, pl)
      /\ HasIn(t, "repos") /\ ~HasIn(t, "ensure")
  <2>1. /\ MayDo(t, b.kind, b.id) /\ (FirstIs(t, "save") <=> b.jobs[1].do \in Reads)
        /\ \A d : HasIn(b.jobs, d) <=> b.jobs[1].do = d \/ HasIn(t, d)
        /\ \A pl : PendingIn(b.jobs, pl) <=> b.jobs[1] = Inventory!Job("sync", pl) \/ PendingIn(t, pl)
        /\ b.kind = "setup" /\ b.jobs[1].do \in Early => HasIn(t, "repos")
        /\ \A d : HasIn(t, d) => MayPrecede(b.jobs[1].do, d)
    BY <1>1, <1>2, Popped
  <2>2. b.jobs[1].do \notin Reads /\ \A pl : b.jobs[1] # Inventory!Job("sync", pl)
    BY <1>2 DEF Reads, Inventory!Job
  <2> QED
    BY <1>2, <2>1, <2>2 DEF Early, MayPrecede
<1>5. /\ MayDo(u, b.kind, b.id) /\ FirstIs(u, "save")
      /\ \A d : HasIn(u, d) <=> "save" = d \/ HasIn(t, d)
      /\ \A pl : PendingIn(t, pl) => PendingIn(u, pl)
  <2>1. Inventory!Do("save") \in AllJobs /\ Inventory!Do("save").do = "save"
    BY DoIs DEF ToDo
  <2>2. MayBe(Inventory!Do("save"), b.kind, b.id)
    BY <2>1 DEF MayBe
  <2>3. FirstIs(t, "save") <=> Inventory!Do("save").do \in Reads
    BY <1>4, <2>1 DEF Reads
  <2>4. \A d : HasIn(t, d) => MayPrecede(Inventory!Do("save").do, d)
    BY <2>1 DEF MayPrecede
  <2>5. b.kind = "setup" /\ Inventory!Do("save").do \in Early => HasIn(t, "repos")
    BY <1>4
  <2>6. /\ MayDo(<<Inventory!Do("save")>> \o t, b.kind, b.id) /\ (FirstIs(<<Inventory!Do("save")>> \o t, "save") <=> Inventory!Do("save").do = "save")
        /\ \A d : HasIn(<<Inventory!Do("save")>> \o t, d) <=> Inventory!Do("save").do = d \/ HasIn(t, d)
        /\ \A pl : PendingIn(t, pl) => PendingIn(<<Inventory!Do("save")>> \o t, pl)
    BY ONLY <1>4, <2>1, <2>2, <2>3, <2>4, <2>5, OneFirst
  <2> QED
    BY <2>1, <2>6
<1>6. /\ MayDo(L, b.kind, b.id) /\ (FirstIs(L, "save") => ask.set) /\ (ask.set => FirstIs(L, "save"))
      /\ \A d \in {"role", "mounts", "manifest", "ensure", "repos"} : HasIn(L, d) <=> HasIn(t, d)
      /\ \A pl : PendingIn(t, pl) => PendingIn(L, pl)
  BY <1>4, <1>5
<1>7. /\ x \in States /\ role \in Roles /\ L \in Seq(AllJobs) /\ Inventory!Selected(x) = Inventory!Selected(b.mem) /\ x.listed = b.mem.listed
      /\ ask.set => x.role = ask.role
  <2>1. b.mem \in States /\ ask.role \in Roles
    BY <1>2 DEF Commands, Roles, Inventory!NoRole
  <2>2. role \in Roles
    BY <2>1 DEF States
  <2>3. x \in States /\ Inventory!Selected(x) = Inventory!Selected(b.mem) /\ x.listed = b.mem.listed /\ (ask.set => x.role = ask.role)
    BY <2>1 DEF States, Inventory!Selected
  <2> QED
    BY <1>6, <2>2, <2>3 DEF MayDo
<1>8. /\ c \in Commands /\ c.kind = b.kind /\ c.id = b.id /\ c.ask = b.ask /\ c.mem = x /\ c.jobs = L
      /\ c.tried = b.tried /\ c.failed = b.failed
  <2>1. role \in Roles /\ x \in States /\ L \in Seq(AllJobs)
    BY <1>7
  <2> QED
    BY ONLY <1>3, <2>1, c = [a EXCEPT !.role = role, !.mem = x, !.jobs = L] DEF Commands
<1>9. Inventory!Ends(p) \/ Inventory!Continue(p, c)
  <2>1. [a EXCEPT !.role = role, !.mem = x, !.jobs = IF ask.set THEN <<Inventory!Do("save")>> \o @ ELSE @] = c
    BY <1>3
  <2> QED
    BY <2>1 DEF Inventory!SetRole
<1>10. WorldTypes' /\ saved' \in States
  BY <1>1, <1>2 DEF WorldTypes
<1>s. Inventory!Synced => Inventory!Synced'
  BY <1>1 DEF Inventory!Synced
<1>11. CASE Inventory!Ends(p)
  BY <1>1, <1>s, <1>10, <1>11, EndKeeps
<1>12. CASE Inventory!Continue(p, c)
  <2>1. p \in alone => MemKeeps(b)
    <3>1. HasIn(b.jobs, "role") /\ ~HasIn(b.jobs, "ensure")
      BY <1>4
    <3> QED
      BY <1>2, <3>1 DEF WritesAll
  <2>2. p \in alone => WritesAll(c)'
    BY <1>1, <1>7, <1>8, <2>1 DEF WritesAll, MemKeeps, Inventory!Selected
  <2>3. p \in alone => SetupReached(c)'
    <3>1. ASSUME p \in alone PROVE MountsThere(b)
      BY <1>2, <3>1 DEF SetupReached
    <3>3. RoleSet(c)'
      <4>1. ask.set => FirstIs(c.jobs, "save") /\ c.mem.role = ask.role
        BY <1>6, <1>7, <1>8
      <4>2. c.ask = ask
        BY <1>8
      <4> QED
        BY <4>1, <4>2 DEF RoleSet
    <3>4. p \in alone => MountsThere(c)'
      BY <1>1, <1>4, <1>6, <1>8, <3>1 DEF MountsThere
    <3>5. ReposThere(c)'
      BY <1>4, <1>6, <1>8 DEF ReposThere
    <3> QED
      BY <3>3, <3>4, <3>5 DEF SetupReached
  <2>m. ManifestThere(c)'
    BY <1>1, <1>2, <1>4, <1>6, <1>8 DEF ManifestThere, Inventory!Synced
  <2>4. MayDo(c.jobs, c.kind, c.id) /\ (c.kind = "repo-add" => c.id \in Repos)
    BY <1>2, <1>6, <1>8
  <2> QED
    BY <1>1, <1>8, <1>10, <1>12, <1>s, <2>2, <2>3, <2>m, <2>4, CommandGoesOn
<1> QED
  BY <1>9, <1>11, <1>12

\* The sets of places that are synchronized are finite.
LEMMA PlacesFinite ==
  /\ \A M \in SUBSET Inventory!Mounts : Inventory!MountPaths(M) \in SUBSET Inventory!Places /\ IsFiniteSet(Inventory!MountPaths(M))
  /\ \A R \in SUBSET Repos : Inventory!RepoPaths(R) \in SUBSET Inventory!Places /\ IsFiniteSet(Inventory!RepoPaths(R))
<1>1. IsFiniteSet(Inventory!Mounts) /\ IsFiniteSet(Repos)
  BY InventoryAssumption, FS_Union DEF Inventory!Mounts
<1>2. ASSUME NEW M \in SUBSET Inventory!Mounts PROVE Inventory!MountPaths(M) \in SUBSET Inventory!Places /\ IsFiniteSet(Inventory!MountPaths(M))
  <2>1. IsFiniteSet(M)
    BY <1>1, FS_Subset
  <2> DEFINE f == [m \in M |-> Inventory!Dir("mount", m)]
  <2>2. f \in Surjection(M, Inventory!MountPaths(M))
    BY DEF Surjection, Inventory!MountPaths
  <2>3. IsFiniteSet(Inventory!MountPaths(M))
    BY <2>1, <2>2, FS_Surjection
  <2> QED
    BY <2>3, PlacesAre DEF Inventory!MountPaths
<1>3. ASSUME NEW R \in SUBSET Repos PROVE Inventory!RepoPaths(R) \in SUBSET Inventory!Places /\ IsFiniteSet(Inventory!RepoPaths(R))
  <2>1. IsFiniteSet(R)
    BY <1>1, FS_Subset
  <2> DEFINE f == [r \in R |-> Inventory!RepoPath(r)]
  <2>2. f \in Surjection(R, Inventory!RepoPaths(R))
    BY DEF Surjection, Inventory!RepoPaths
  <2>3. IsFiniteSet(Inventory!RepoPaths(R))
    BY <2>1, <2>2, FS_Surjection
  <2> QED
    BY <2>3, PlacesAre DEF Inventory!RepoPaths
<1> QED
  BY <1>2, <1>3

\* A command that finds what to do: more jobs before those it had.
LEMMA FoundKeeps ==
  ASSUME InventoryInv, NEW p \in Procs, running[p].jobs # <<>>, NEW b, b = running[p], NEW t, t = Tail(b.jobs), NEW more,
         Inventory!Then(p, more), UNCHANGED <<registry, manifest, newest, disk, saved, trouble>>,
         MayDo(more \o t, b.kind, b.id), ~FirstIs(more \o t, "save"),
         b.jobs[1].do \notin Reads \cup {"save", "role", "manifest"},
         \A do \in {"role", "ensure", "manifest"} : HasIn(more \o t, do) <=> HasIn(t, do),
         b.kind = "setup" /\ p \in alone =>
           \A c \in Commands : c = [b EXCEPT !.jobs = more \o t] => MountsThere(c) /\ ReposThere(c)
  PROVE  InventoryInv'
<1> PICK u : u = more \o t
  OBVIOUS
<1> PICK c : c = [b EXCEPT !.jobs = u]
  OBVIOUS
<1>1. /\ b \in Commands /\ MayDo(b.jobs, b.kind, b.id) /\ (b.kind = "repo-add" => b.id \in Repos) /\ b.jobs \in Seq(AllJobs)
      /\ b.jobs # <<>> /\ WorldTypes /\ saved \in States
      /\ p \in alone => WritesAll(b) /\ SetupReached(b)
      /\ ManifestThere(b)
  BY AboutCommand
<1>2. u \in Seq(AllJobs)
  BY DEF MayDo
<1>3. /\ c \in Commands /\ c.kind = b.kind /\ c.id = b.id /\ c.ask = b.ask /\ c.mem = b.mem /\ c.jobs = u
      /\ c.tried = b.tried /\ c.failed = b.failed
  BY ONLY <1>1, <1>2, c = [b EXCEPT !.jobs = u] DEF Commands
<1>4. \A d : HasIn(b.jobs, d) <=> b.jobs[1].do = d \/ HasIn(t, d)
  BY <1>1, Popped
<1>5. ~FirstIs(b.jobs, "save") /\ b.jobs[1].do \notin {"role", "ensure", "manifest"}
  BY <1>1 DEF FirstIs, Reads
<1>6. \A d \in {"role", "ensure", "manifest"} : HasIn(u, d) <=> HasIn(b.jobs, d)
  BY <1>4, <1>5
<1>7. p \in alone => WritesAll(c)'
  BY <1>1, <1>3, <1>5, <1>6 DEF WritesAll, MemKeeps, Inventory!Selected
<1>8. ASSUME p \in alone, b.kind = "setup" PROVE SetupReached(c)'
  <2>1. RoleSet(b)
    BY <1>1, <1>8 DEF SetupReached
  <2>3. RoleSet(c)'
    BY <1>3, <1>5, <1>6, <2>1 DEF RoleSet
  <2>4. MountsThere(c) /\ ReposThere(c)
    BY <1>3, <1>8
  <2>5. MountsThere(c)' /\ ReposThere(c)'
    BY <2>4 DEF MountsThere, ReposThere, Inventory!doc, SeenTo
  <2> QED
    BY <2>3, <2>5 DEF SetupReached
<1>m. ManifestThere(c)' /\ (Inventory!Synced => Inventory!Synced')
  BY <1>1, <1>3, <1>6 DEF ManifestThere, Inventory!Synced
<1>9. p \in alone => SetupReached(c)'
  BY <1>3, <1>8 DEF SetupReached
<1>10. Inventory!Continue(p, c)
  BY DEF Inventory!Then
<1>11. WorldTypes' /\ saved' \in States /\ MayDo(c.jobs, c.kind, c.id) /\ (c.kind = "repo-add" => c.id \in Repos)
  BY <1>1, <1>3 DEF WorldTypes
<1> QED
  BY <1>3, <1>7, <1>m, <1>9, <1>10, <1>11, CommandGoesOn

\* The mounts in scope of a role.
LEMMA MountsFound ==
  ASSUME InventoryInv, NEW p \in Procs, Inventory!Doing(p, "mounts"), Inventory!Then(p, Inventory!SyncJobs(Inventory!MountPaths(Inventory!Scoped(running[p].role)))),
         UNCHANGED <<registry, manifest, newest, disk, saved, trouble>>
  PROVE  InventoryInv'
<1> PICK b : b = running[p]
  OBVIOUS
<1> PICK t : t = Tail(b.jobs)
  OBVIOUS
<1> PICK P : P = Inventory!MountPaths(Inventory!Scoped(b.role))
  OBVIOUS
<1> PICK s : s = Inventory!SyncJobs(P)
  OBVIOUS
<1>1. b.jobs # <<>>
  BY DEF Inventory!Doing
<1>2. /\ b \in Commands /\ MayDo(b.jobs, b.kind, b.id) /\ b.jobs \in Seq(AllJobs) /\ b.jobs[1].do = "mounts" /\ b.kind = "setup"
      /\ p \in alone => WritesAll(b) /\ SetupReached(b)
  <2>1. /\ b \in Commands /\ MayDo(b.jobs, b.kind, b.id) /\ b.jobs \in Seq(AllJobs) /\ MayBe(b.jobs[1], b.kind, b.id)
        /\ \A do : Inventory!Doing(p, do) <=> b.jobs[1].do = do
        /\ p \in alone => WritesAll(b) /\ SetupReached(b)
    BY <1>1, AboutCommand
  <2> QED
    BY <2>1 DEF MayBe
<1>3. /\ MayDo(t, b.kind, b.id) /\ ~FirstIs(t, "save")
      /\ \A d : HasIn(b.jobs, d) <=> "mounts" = d \/ HasIn(t, d)
      /\ HasIn(t, "repos")
  <2>1. /\ MayDo(t, b.kind, b.id) /\ (FirstIs(t, "save") <=> b.jobs[1].do \in Reads)
        /\ \A d : HasIn(b.jobs, d) <=> b.jobs[1].do = d \/ HasIn(t, d)
        /\ b.kind = "setup" /\ b.jobs[1].do \in Early => HasIn(t, "repos")
    BY <1>1, <1>2, Popped
  <2> QED
    BY <1>2, <2>1 DEF Early, Reads
<1>4. P \in SUBSET Inventory!Places /\ IsFiniteSet(P) /\ \A m \in Needed : Inventory!Dir("mount", m) \in P
  <2>1. Inventory!Scoped(b.role) \in SUBSET Inventory!Mounts /\ Needed \subseteq Inventory!Scoped(b.role)
    BY DEF Inventory!Scoped, Inventory!Mounts
  <2>2. Inventory!MountPaths(Inventory!Scoped(b.role)) \in SUBSET Inventory!Places /\ IsFiniteSet(Inventory!MountPaths(Inventory!Scoped(b.role)))
    BY <2>1, PlacesFinite
  <2> QED
    BY <2>1, <2>2 DEF Inventory!MountPaths
<1>5. Syncs(s, P)
  BY <1>4, SyncJobsAre
<1>6. /\ MayDo(s \o t, b.kind, b.id) /\ ~FirstIs(s \o t, "save")
      /\ \A do : do # "sync" => (HasIn(s \o t, do) <=> HasIn(t, do))
      /\ \A pl \in P : PendingIn(s \o t, pl)
  BY <1>3, <1>4, <1>5, SyncsFirst
<1> PICK u : u = s \o t
  OBVIOUS
<1>7. ASSUME NEW c \in Commands, c = [b EXCEPT !.jobs = u] PROVE MountsThere(c) /\ ReposThere(c)
  <2>1. c.jobs = u
    BY <1>2, <1>7 DEF Commands
  <2>2. HasIn(u, "repos") /\ \A m \in Needed : PendingIn(u, Inventory!Dir("mount", m))
    BY <1>3, <1>4, <1>6
  <2> QED
    BY <2>1, <2>2 DEF MountsThere, ReposThere
<1>8. b.jobs[1].do \notin Reads \cup {"save", "role", "manifest"}
  BY <1>2 DEF Reads
<1>9. \A do \in {"role", "ensure", "manifest"} : HasIn(s \o t, do) <=> HasIn(t, do)
  BY <1>6
<1>10. Inventory!Then(p, s)
  OBVIOUS
<1> QED
  BY <1>1, <1>6, <1>7, <1>8, <1>9, <1>10, FoundKeeps

\* The repos selected, and those the manifest selects.
LEMMA ReposFound ==
  ASSUME InventoryInv, NEW p \in Procs, Inventory!Doing(p, "repos"), NEW ids, ids = Inventory!Selected(saved) \cup Inventory!doc.defaults,
         Inventory!MountPaths(Needed) \cap running[p].failed = {}, ids \subseteq Inventory!doc.catalog, Inventory!doc.catalog \subseteq Repos,
         Inventory!Then(p, IF ids = {} THEN <<>> ELSE Inventory!SyncJobs(Inventory!RepoPaths(ids)) \o Inventory!Record("record-repos")),
         UNCHANGED <<registry, manifest, newest, disk, saved, trouble>>
  PROVE  InventoryInv'
<1> PICK b : b = running[p]
  OBVIOUS
<1> PICK t : t = Tail(b.jobs)
  OBVIOUS
<1> PICK P : P = Inventory!RepoPaths(ids)
  OBVIOUS
<1> PICK s : s = Inventory!SyncJobs(P)
  OBVIOUS
<1> PICK r2 : r2 = Inventory!Record("record-repos")
  OBVIOUS
<1> PICK more : more = IF ids = {} THEN <<>> ELSE s \o r2
  OBVIOUS
<1>1. b.jobs # <<>>
  BY DEF Inventory!Doing
<1>2. /\ b \in Commands /\ MayDo(b.jobs, b.kind, b.id) /\ b.jobs \in Seq(AllJobs) /\ b.jobs[1].do = "repos" /\ b.kind = "setup"
      /\ p \in alone => WritesAll(b) /\ SetupReached(b)
  <2>1. /\ b \in Commands /\ MayDo(b.jobs, b.kind, b.id) /\ b.jobs \in Seq(AllJobs) /\ MayBe(b.jobs[1], b.kind, b.id)
        /\ \A do : Inventory!Doing(p, do) <=> b.jobs[1].do = do
        /\ p \in alone => WritesAll(b) /\ SetupReached(b)
    BY <1>1, AboutCommand
  <2> QED
    BY <2>1 DEF MayBe
<1>3. /\ MayDo(t, b.kind, b.id) /\ ~FirstIs(t, "save")
      /\ \A d : HasIn(b.jobs, d) <=> "repos" = d \/ HasIn(t, d)
      /\ \A pl : PendingIn(b.jobs, pl) <=> PendingIn(t, pl)
      /\ \A d : HasIn(t, d) => d = "end"
  <2>1. /\ MayDo(t, b.kind, b.id) /\ (FirstIs(t, "save") <=> b.jobs[1].do \in Reads)
        /\ \A d : HasIn(b.jobs, d) <=> b.jobs[1].do = d \/ HasIn(t, d)
        /\ \A pl : PendingIn(b.jobs, pl) <=> b.jobs[1] = Inventory!Job("sync", pl) \/ PendingIn(t, pl)
        /\ \A d : HasIn(t, d) => MayPrecede(b.jobs[1].do, d)
    BY <1>1, <1>2, Popped
  <2>2. b.jobs[1].do \notin Reads /\ \A pl : b.jobs[1] # Inventory!Job("sync", pl)
    BY <1>2 DEF Reads, Inventory!Job
  <2> QED
    BY <1>2, <2>1, <2>2 DEF MayPrecede
<1>4. ids \in SUBSET Repos /\ P \in SUBSET Inventory!Places /\ IsFiniteSet(P)
  BY PlacesFinite
<1>5. Syncs(s, P)
  BY <1>4, SyncJobsAre
<1> PICK v : v = r2 \o t
  OBVIOUS
<1>6. /\ MayDo(v, b.kind, b.id) /\ ~FirstIs(v, "save")
      /\ \A d : HasIn(v, d) <=> d \in {"record-repos", "save"} \/ HasIn(t, d)
  <2>1. \A d : HasIn(t, d) => MayPrecede("record-repos", d)
    BY <1>3 DEF MayPrecede
  <2>2. b.kind = "setup" => "record-repos" = "record-repos"
    OBVIOUS
  <2>3. "record-repos" \in {"record-mounts", "record-repos"}
    OBVIOUS
  <2>4. /\ MayDo(Inventory!Record("record-repos") \o t, b.kind, b.id) /\ ~FirstIs(Inventory!Record("record-repos") \o t, "save")
        /\ \A d : HasIn(Inventory!Record("record-repos") \o t, d) <=> d \in {"record-repos", "save"} \/ HasIn(t, d)
    BY ONLY <1>3, <2>1, <2>2, <2>3, RecordFirst
  <2> QED
    BY <2>4
<1> PICK w : w = s \o v
  OBVIOUS
<1>7. /\ MayDo(w, b.kind, b.id) /\ ~FirstIs(w, "save")
      /\ \A do : do # "sync" => (HasIn(w, do) <=> HasIn(v, do))
      /\ \A pl \in P : PendingIn(w, pl)
  <2>1. /\ MayDo(s \o v, b.kind, b.id) /\ ~FirstIs(s \o v, "save")
        /\ \A do : do # "sync" => (HasIn(s \o v, do) <=> HasIn(v, do))
        /\ \A pl \in P : PendingIn(s \o v, pl)
    BY ONLY <1>4, <1>5, <1>6, SyncsFirst
  <2> QED
    BY <2>1
<1>8. more \o t = IF ids = {} THEN t ELSE w
  <2>1. t \in Seq(AllJobs) /\ s \in Seq(AllJobs) /\ r2 \in Seq(AllJobs)
    <3>1. Inventory!Do("record-repos") \in AllJobs /\ Inventory!Do("save") \in AllJobs
      BY DoIs DEF ToDo
    <3> QED
      BY <1>3, <1>5, <3>1 DEF MayDo, Syncs, Inventory!Record
  <2>2. (s \o r2) \o t = s \o (r2 \o t)
    BY ONLY <2>1, ConcatAssociative
  <2>3. <<>> \o t = t
    BY <2>1
  <2> QED
    BY <2>2, <2>3
<1> PICK u : u = more \o t
  OBVIOUS
<1>9. /\ MayDo(u, b.kind, b.id) /\ ~FirstIs(u, "save")
      /\ \A do \in {"role", "ensure", "manifest"} : HasIn(u, do) <=> HasIn(t, do)
  BY <1>3, <1>6, <1>7, <1>8
<1>10. ASSUME p \in alone, NEW c \in Commands, c = [b EXCEPT !.jobs = u] PROVE MountsThere(c) /\ ReposThere(c)
  <2>1. c.jobs = u /\ c.tried = b.tried /\ c.failed = b.failed
    BY <1>2, <1>10 DEF Commands
  <2>2. \A m \in Needed : disk[Inventory!Dir("mount", m)] \in Inventory!Git
    <3>1. MountsThere(b)
      BY <1>2, <1>10 DEF SetupReached
    <3>2. ~HasIn(b.jobs, "mounts") /\ \A pl : ~PendingIn(b.jobs, pl)
      <4>1. \A pl : PendingIn(t, pl) => HasIn(t, "sync")
        BY DEF PendingIn, HasIn, Inventory!Job
      <4> QED
        BY <1>3, <4>1
    <3>3. \A m \in Needed : Inventory!Dir("mount", m) \notin b.failed
      BY DEF Inventory!MountPaths
    <3> QED
      BY <3>1, <3>2, <3>3 DEF MountsThere
  <2>3. MountsThere(c)
    BY <2>2 DEF MountsThere
  <2>4. ASSUME NEW r \in Inventory!doc.defaults PROVE HasIn(u, "record-repos") /\ SeenTo(c, r)
    <3>1. r \in ids /\ u = w
      BY <1>8
    <3>2. Inventory!RepoPath(r) \in P /\ \E k \in {"repos", "products"} : Inventory!RepoPath(r) = Inventory!Dir(k, r)
      BY <3>1 DEF Inventory!RepoPaths, Inventory!RepoPath
    <3>3. HasIn(u, "record-repos")
      BY <1>6, <1>7, <3>1
    <3> QED
      BY <1>7, <2>1, <3>1, <3>2, <3>3 DEF SeenTo
  <2>5. ReposThere(c)
    BY <2>1, <2>4 DEF ReposThere
  <2> QED
    BY <2>3, <2>5
<1>11. b.jobs[1].do \notin Reads \cup {"save", "role", "manifest"}
  BY <1>2 DEF Reads
<1>12. Inventory!Then(p, more)
  OBVIOUS
<1> QED
  BY <1>1, <1>9, <1>10, <1>11, <1>12, FoundKeeps

\* The repo that is added.
LEMMA RepoFound ==
  ASSUME InventoryInv, NEW p \in Procs, Inventory!Doing(p, "repo"), Inventory!Then(p, Inventory!SyncJobs({Inventory!RepoPath(running[p].id)})),
         UNCHANGED <<registry, manifest, newest, disk, saved, trouble>>
  PROVE  InventoryInv'
<1> PICK b : b = running[p]
  OBVIOUS
<1> PICK t : t = Tail(b.jobs)
  OBVIOUS
<1> PICK P : P = {Inventory!RepoPath(b.id)}
  OBVIOUS
<1> PICK s : s = Inventory!SyncJobs(P)
  OBVIOUS
<1>1. b.jobs # <<>>
  BY DEF Inventory!Doing
<1>2. MayDo(b.jobs, b.kind, b.id) /\ b.jobs \in Seq(AllJobs) /\ b.jobs[1].do = "repo" /\ b.kind = "repo-add" /\ b.id \in Repos
  <2>1. /\ MayDo(b.jobs, b.kind, b.id) /\ b.jobs \in Seq(AllJobs) /\ MayBe(b.jobs[1], b.kind, b.id)
        /\ b.kind = "repo-add" => b.id \in Repos
        /\ \A do : Inventory!Doing(p, do) <=> b.jobs[1].do = do
    BY <1>1, AboutCommand
  <2> QED
    BY <2>1 DEF MayBe
<1>3. MayDo(t, b.kind, b.id) /\ ~FirstIs(t, "save")
  <2>1. MayDo(t, b.kind, b.id) /\ (FirstIs(t, "save") <=> b.jobs[1].do \in Reads)
    BY <1>1, <1>2, Popped
  <2> QED
    BY <1>2, <2>1 DEF Reads
<1>4. P \in SUBSET Inventory!Places /\ IsFiniteSet(P)
  BY <1>2, PlacesAre, FS_Singleton
<1>5. Syncs(s, P)
  BY <1>4, SyncJobsAre
<1>6. /\ MayDo(s \o t, b.kind, b.id) /\ ~FirstIs(s \o t, "save")
      /\ \A do : do # "sync" => (HasIn(s \o t, do) <=> HasIn(t, do))
  BY <1>3, <1>4, <1>5, SyncsFirst
<1>7. b.jobs[1].do \notin Reads \cup {"save", "role", "manifest"} /\ b.kind # "setup"
  BY <1>2 DEF Reads
<1>8. \A do \in {"role", "ensure", "manifest"} : HasIn(s \o t, do) <=> HasIn(t, do)
  BY <1>6
<1>9. Inventory!Then(p, s)
  OBVIOUS
<1> QED
  BY <1>1, <1>6, <1>7, <1>8, <1>9, FoundKeeps

\* The end of a setup.
LEMMA EndReached ==
  ASSUME InventoryInv, NEW p \in Procs, Inventory!Doing(p, "end"), Inventory!Done(p),
         UNCHANGED <<registry, manifest, newest, disk, saved, trouble>>
  PROVE  InventoryInv'
<1> PICK b : b = running[p]
  OBVIOUS
<1> PICK c : c = Inventory!After(p)
  OBVIOUS
<1>1. b.jobs # <<>> /\ Inventory!Continue(p, c)
  BY DEF Inventory!Doing, Inventory!Done
<1>2. WorldTypes /\ b.jobs[1].do = "end"
  <2>1. WorldTypes /\ \A do : Inventory!Doing(p, do) <=> b.jobs[1].do = do
    BY <1>1, AboutCommand
  <2> QED
    BY <2>1
<1>3. /\ c \in Commands /\ c.kind = b.kind /\ c.id = b.id /\ c.ask = b.ask /\ c.mem = b.mem /\ c.jobs = Tail(b.jobs)
      /\ c.tried = b.tried /\ c.failed = b.failed
  BY <1>1, AfterIs
<1>4. WorldTypes' /\ Inventory!Synced' = Inventory!Synced /\ Inventory!doc' = Inventory!doc
  BY <1>2 DEF WorldTypes, Inventory!Synced, Inventory!doc
<1>5. b.jobs[1].do \notin Reads \cup {"save", "role", "mounts", "repos"} /\ \A pl : b.jobs[1] # Inventory!Job("sync", pl)
  BY <1>2 DEF Reads, Inventory!Job
<1>6. /\ b.tried \subseteq c.tried /\ (c.kind = "setup" => b.failed \subseteq c.failed)
      /\ \A pl : b.jobs[1] = Inventory!Job("sync", pl) => pl \in c.tried /\ (disk'[pl] \in Inventory!Git \/ pl \in c.failed)
      /\ c.kind = "setup" => \A m \in Needed : disk[Inventory!Dir("mount", m)] \in Inventory!Git => disk'[Inventory!Dir("mount", m)] \in Inventory!Git
      /\ Inventory!Synced \/ b.jobs[1].do = "manifest" => Inventory!Synced'
      /\ b.jobs[1].do \notin {"manifest", "refresh", "pull"} => Inventory!doc' = Inventory!doc
  BY <1>2, <1>3, <1>4, <1>5
<1> QED
  BY <1>1, <1>3, <1>4, <1>5, <1>6, JobKeeps

\* A catalog lists repos.
LEMMA CatalogIs ==
  ASSUME WorldTypes, Inventory!Synced
  PROVE  Inventory!doc.catalog \subseteq Repos
<1>1. manifest[registry.path] \in Inventory!Revisions
  BY DEF WorldTypes, Inventory!Synced
<1> QED
  BY <1>1, InventoryAssumption DEF Inventory!doc, Inventory!Revisions

\* The jobs that a command finds are those that its manifest asks for.
LEMMA FindKeeps ==
  ASSUME InventoryInv, NEW p \in Procs, Inventory!Find(p)
  PROVE  InventoryInv'
<1> PICK b : b = running[p]
  OBVIOUS
<1>1. b.jobs # <<>> /\ UNCHANGED <<registry, manifest, newest, disk, saved, trouble>>
  BY DEF Inventory!Find, Inventory!Doing
<1>2. /\ WorldTypes /\ saved \in States /\ MayDo(b.jobs, b.kind, b.id) /\ b.jobs \in Seq(AllJobs) /\ MayBe(b.jobs[1], b.kind, b.id)
      /\ \A do : Inventory!Doing(p, do) <=> b.jobs[1].do = do
      /\ ManifestThere(b)
  BY <1>1, AboutCommand
<1>3. CASE Inventory!Doing(p, "mounts") /\ Inventory!Then(p, Inventory!SyncJobs(Inventory!MountPaths(Inventory!Scoped(running[p].role))))
  BY <1>1, <1>3, MountsFound
<1>4. ASSUME Inventory!Doing(p, "repos"), NEW ids, ids = Inventory!Selected(saved) \cup Inventory!doc.defaults,
             IF Inventory!MountPaths(Needed) \cap running[p].failed # {} \/ ~(ids \subseteq Inventory!doc.catalog) THEN Inventory!Ends(p)
             ELSE Inventory!Then(p, IF ids = {} THEN <<>> ELSE Inventory!SyncJobs(Inventory!RepoPaths(ids)) \o Inventory!Record("record-repos"))
      PROVE  InventoryInv'
  <2>1. CASE Inventory!Ends(p)
    <3>1. WorldTypes' /\ saved' \in States /\ (Inventory!Synced => Inventory!Synced')
      BY <1>1, <1>2 DEF WorldTypes, Inventory!Synced
    <3> QED
      BY <1>1, <2>1, <3>1, EndKeeps
  <2>2. CASE ~Inventory!Ends(p)
    <3>1. Inventory!MountPaths(Needed) \cap running[p].failed = {} /\ ids \subseteq Inventory!doc.catalog
      BY <1>4, <2>2
    <3>2. Inventory!Then(p, IF ids = {} THEN <<>> ELSE Inventory!SyncJobs(Inventory!RepoPaths(ids)) \o Inventory!Record("record-repos"))
      BY <1>4, <2>2
    <3>3. Inventory!Synced
      <4>1. b.jobs[1].do = "repos" /\ b.kind = "setup"
        BY <1>2, <1>4 DEF MayBe
      <4>2. \A d : HasIn(b.jobs, d) => d \in {"repos", "end"}
        <5>1. /\ \A d : HasIn(b.jobs, d) <=> b.jobs[1].do = d \/ HasIn(Tail(b.jobs), d)
              /\ \A d : HasIn(Tail(b.jobs), d) => MayPrecede(b.jobs[1].do, d)
          BY <1>1, <1>2, Popped
        <5> QED
          BY <4>1, <5>1 DEF MayPrecede
      <4> QED
        BY <1>2, <4>1, <4>2 DEF ManifestThere
    <3>4. Inventory!doc.catalog \subseteq Repos
      BY <1>2, <3>3, CatalogIs
    <3> QED
      BY <1>1, <1>4, <3>1, <3>2, <3>4, ReposFound
  <2> QED
    BY <2>1, <2>2
<1>5. CASE Inventory!Doing(p, "repo") /\ Inventory!Then(p, Inventory!SyncJobs({Inventory!RepoPath(running[p].id)}))
  BY <1>1, <1>5, RepoFound
<1>6. CASE Inventory!Doing(p, "end") /\ Inventory!Done(p)
  BY <1>1, <1>6, EndReached
<1> QED
  BY <1>3, <1>4, <1>5, <1>6 DEF Inventory!Find

\* Any step of a command keeps the invariant.
LEMMA CommandStepKeeps ==
  ASSUME InventoryInv, NEW p \in Procs, Inventory!Step(p)
  PROVE  InventoryInv'
BY PullManifestKeeps, MovingKeeps, ReadStateKeeps, SaveStateKeeps, SetRoleKeeps, FindKeeps, SyncKeeps, RemoveTreeKeeps DEF Inventory!Step

\* A command that stopped has nothing to do.
LEMMA CrashKeeps ==
  ASSUME InventoryInv, NEW p \in Procs, Inventory!Crash(p)
  PROVE  InventoryInv'
<1>1. running[p].jobs # <<>>
  BY DEF Inventory!Crash, InventoryInv, CommandOK
<1>2. WorldTypes /\ saved \in States
  BY <1>1, AboutCommand
<1>3. WorldTypes' /\ saved' \in States /\ (Inventory!Synced => Inventory!Synced')
  BY <1>2 DEF Inventory!Crash, Inventory!MayFail, WorldTypes, Inventory!Synced
<1> QED
  BY <1>1, <1>3, EndKeeps DEF Inventory!Crash

-----------------------------------------------------------------------------
(* Beginnings, and what others do *)

\* A command begins.
LEMMA CommandBegins ==
  ASSUME InventoryInv, NEW p \in Procs, NEW kind \in CommandKinds \ {"none"}, NEW id \in InventoryIds, NEW ask \in Asked \cup {Inventory!NoRole}, NEW s,
         Inventory!Begin(p, kind, id, ask, s), MayDo(s, kind, id), s # <<>>, kind = "repo-add" => id \in Repos,
         kind # "remove" => ~FirstIs(s, "save") /\ (HasIn(s, "role") => HasIn(s, "ensure")),
         kind = "setup" => HasIn(s, "manifest") /\ HasIn(s, "role") /\ HasIn(s, "mounts") /\ HasIn(s, "repos")
  PROVE  InventoryInv'
<1> PICK c : c = [Inventory!Idle EXCEPT !.kind = kind, !.id = id, !.ask = ask, !.jobs = s]
  OBVIOUS
<1>1. /\ running \in [Procs -> Commands] /\ saved \in States /\ WorldTypes
      /\ running[p] = Inventory!Idle /\ running' = [running EXCEPT ![p] = c] /\ alone' = IF Inventory!Quiet THEN {p} ELSE {}
      /\ UNCHANGED <<registry, manifest, newest, disk, saved, trouble>>
  BY DEF Inventory!Begin, InventoryInv, InventoryTypes, Inventory!TypeOK, WorldTypes
<1>2. s \in Seq(AllJobs)
  BY DEF MayDo
<1>3. c \in Commands /\ c.kind = kind /\ c.id = id /\ c.jobs = s /\ c.ask = ask
  <2>1. Inventory!Idle \in Commands
    BY DEF Inventory!Idle, Commands, CommandKinds, InventoryIds, Roles, States, Inventory!NoState
  <2> QED
    BY ONLY <1>2, <2>1, kind \in CommandKinds, id \in InventoryIds, ask \in Asked \cup {Inventory!NoRole},
            c = [Inventory!Idle EXCEPT !.kind = kind, !.id = id, !.ask = ask, !.jobs = s] DEF Commands
<1>4. running' \in [Procs -> Commands] /\ running'[p] = c /\ \A q \in Procs : q # p => running'[q] = running[q]
  BY <1>1, <1>3
<1>5. WorldTypes' /\ saved' \in States /\ alone' \subseteq Procs
  BY <1>1 DEF WorldTypes
<1>6. InventoryTypes'
  BY <1>4, <1>5, TypesMade
<1>7. CommandOK(c)
  BY <1>3 DEF CommandOK
<1>8. \A q \in Procs : CommandOK(running[q])'
  BY <1>4, <1>7 DEF InventoryInv, CommandOK
<1>9. \A q \in Procs : ManifestThere(running[q])'
  <2>1. ManifestThere(c)'
    BY <1>3 DEF ManifestThere
  <2>2. \A q \in Procs : ManifestThere(running[q])
    BY DEF InventoryInv
  <2> QED
    BY <1>1, <1>4, <2>1, <2>2 DEF ManifestThere, Inventory!Synced
<1>10. WritesAll(c)'
  BY <1>3 DEF WritesAll
<1>11. SetupReached(c)'
  BY <1>3 DEF SetupReached, RoleSet, MountsThere, ReposThere
<1>12. Inventory!Quiet => OnlyOne(p)'
  BY <1>3, <1>4 DEF OnlyOne, Inventory!Quiet
<1>13. \A q \in alone' : OnlyOne(q)' /\ WritesAll(running[q])' /\ SetupReached(running[q])'
  <2>1. \A q \in alone' : q = p /\ Inventory!Quiet
    BY <1>1
  <2>2. WritesAll(running[p])' /\ SetupReached(running[p])'
    BY <1>4, <1>10, <1>11
  <2> QED
    BY <1>12, <2>1, <2>2
<1> QED
  BY <1>6, <1>8, <1>9, <1>13 DEF InventoryInv

\* A setup begins.
LEMMA BeginSetupKeeps ==
  ASSUME InventoryInv, NEW p \in Procs, NEW ask \in Asked, Inventory!BeginSetup(p, ask)
  PROVE  InventoryInv'
<1> PICK e1 : e1 = <<Inventory!Do("manifest")>>
  OBVIOUS
<1> PICK e2 : e2 = Inventory!Ensure
  OBVIOUS
<1> PICK e3 : e3 = <<Inventory!Do("refresh"), Inventory!Do("role"), Inventory!Do("mounts")>>
  OBVIOUS
<1> PICK e4 : e4 = Inventory!Record("record-mounts")
  OBVIOUS
<1> PICK e5 : e5 = <<Inventory!Do("repos"), Inventory!Do("end")>>
  OBVIOUS
<1> PICK u1 : u1 = e1 \o e2
  OBVIOUS
<1> PICK u2 : u2 = u1 \o e3
  OBVIOUS
<1> PICK u3 : u3 = u2 \o e4
  OBVIOUS
<1> PICK s : s = u3 \o e5
  OBVIOUS
<1>0. /\ Inventory!Do("manifest") \in AllJobs /\ Inventory!Do("migrate") \in AllJobs /\ Inventory!Do("ensure") \in AllJobs /\ Inventory!Do("save") \in AllJobs
      /\ Inventory!Do("refresh") \in AllJobs /\ Inventory!Do("role") \in AllJobs /\ Inventory!Do("mounts") \in AllJobs
      /\ Inventory!Do("record-mounts") \in AllJobs /\ Inventory!Do("repos") \in AllJobs /\ Inventory!Do("end") \in AllJobs
  BY DoIs DEF ToDo
<1>1. /\ e1 \in Seq(AllJobs) /\ Len(e1) = 1 /\ DOMAIN e1 = 1..1 /\ e1[1] = Inventory!Do("manifest")
      /\ e2 \in Seq(AllJobs) /\ Len(e2) = 3 /\ DOMAIN e2 = 1..3 /\ e2[1] = Inventory!Do("migrate") /\ e2[2] = Inventory!Do("ensure") /\ e2[3] = Inventory!Do("save")
      /\ e3 \in Seq(AllJobs) /\ Len(e3) = 3 /\ DOMAIN e3 = 1..3 /\ e3[1] = Inventory!Do("refresh") /\ e3[2] = Inventory!Do("role") /\ e3[3] = Inventory!Do("mounts")
      /\ e4 \in Seq(AllJobs) /\ Len(e4) = 2 /\ DOMAIN e4 = 1..2 /\ e4[1] = Inventory!Do("record-mounts") /\ e4[2] = Inventory!Do("save")
      /\ e5 \in Seq(AllJobs) /\ Len(e5) = 2 /\ DOMAIN e5 = 1..2 /\ e5[1] = Inventory!Do("repos") /\ e5[2] = Inventory!Do("end")
  BY <1>0 DEF Inventory!Ensure, Inventory!Record
<1>u0. /\ u1 \in Seq(AllJobs) /\ Len(u1) = 4 /\ DOMAIN u1 = 1..4 /\ u1[1] = Inventory!Do("manifest") /\ u1[2] = Inventory!Do("migrate") /\ u1[3] = Inventory!Do("ensure") /\ u1[4] = Inventory!Do("save")
  <2>1. e1 \in Seq(AllJobs) /\ e2 \in Seq(AllJobs) /\ u1 = e1 \o e2
    BY <1>1
  <2>2. /\ u1 \in Seq(AllJobs) /\ Len(u1) = Len(e1) + Len(e2) /\ DOMAIN u1 = 1..(Len(e1) + Len(e2))
        /\ \A i \in DOMAIN e1 : i \in DOMAIN u1 /\ u1[i] = e1[i]
        /\ \A i \in DOMAIN e2 : i + Len(e1) \in DOMAIN u1 /\ u1[i + Len(e1)] = e2[i]
    BY ONLY <2>1, Appended
  <2> QED
    BY ONLY <1>1, <2>2
<1>u1. /\ u2 \in Seq(AllJobs) /\ Len(u2) = 7 /\ DOMAIN u2 = 1..7 /\ u2[1] = Inventory!Do("manifest") /\ u2[2] = Inventory!Do("migrate") /\ u2[3] = Inventory!Do("ensure") /\ u2[4] = Inventory!Do("save")
      /\ u2[5] = Inventory!Do("refresh") /\ u2[6] = Inventory!Do("role") /\ u2[7] = Inventory!Do("mounts")
  <2>1. u1 \in Seq(AllJobs) /\ e3 \in Seq(AllJobs) /\ u2 = u1 \o e3
    BY <1>1, <1>u0
  <2>2. /\ u2 \in Seq(AllJobs) /\ Len(u2) = Len(u1) + Len(e3) /\ DOMAIN u2 = 1..(Len(u1) + Len(e3))
        /\ \A i \in DOMAIN u1 : i \in DOMAIN u2 /\ u2[i] = u1[i]
        /\ \A i \in DOMAIN e3 : i + Len(u1) \in DOMAIN u2 /\ u2[i + Len(u1)] = e3[i]
    BY ONLY <2>1, Appended
  <2> QED
    BY ONLY <1>1, <1>u0, <2>2
<1>u2. /\ u3 \in Seq(AllJobs) /\ Len(u3) = 9 /\ DOMAIN u3 = 1..9 /\ u3[1] = Inventory!Do("manifest") /\ u3[2] = Inventory!Do("migrate") /\ u3[3] = Inventory!Do("ensure") /\ u3[4] = Inventory!Do("save")
      /\ u3[5] = Inventory!Do("refresh") /\ u3[6] = Inventory!Do("role") /\ u3[7] = Inventory!Do("mounts") /\ u3[8] = Inventory!Do("record-mounts")
      /\ u3[9] = Inventory!Do("save")
  <2>1. u2 \in Seq(AllJobs) /\ e4 \in Seq(AllJobs) /\ u3 = u2 \o e4
    BY <1>1, <1>u1
  <2>2. /\ u3 \in Seq(AllJobs) /\ Len(u3) = Len(u2) + Len(e4) /\ DOMAIN u3 = 1..(Len(u2) + Len(e4))
        /\ \A i \in DOMAIN u2 : i \in DOMAIN u3 /\ u3[i] = u2[i]
        /\ \A i \in DOMAIN e4 : i + Len(u2) \in DOMAIN u3 /\ u3[i + Len(u2)] = e4[i]
    BY ONLY <2>1, Appended
  <2> QED
    BY ONLY <1>1, <1>u1, <2>2
<1>u3. /\ s \in Seq(AllJobs) /\ Len(s) = 11 /\ DOMAIN s = 1..11 /\ s[1] = Inventory!Do("manifest") /\ s[2] = Inventory!Do("migrate") /\ s[3] = Inventory!Do("ensure") /\ s[4] = Inventory!Do("save")
      /\ s[5] = Inventory!Do("refresh") /\ s[6] = Inventory!Do("role") /\ s[7] = Inventory!Do("mounts") /\ s[8] = Inventory!Do("record-mounts")
      /\ s[9] = Inventory!Do("save") /\ s[10] = Inventory!Do("repos") /\ s[11] = Inventory!Do("end")
  <2>1. u3 \in Seq(AllJobs) /\ e5 \in Seq(AllJobs) /\ s = u3 \o e5
    BY <1>1, <1>u2
  <2>2. /\ s \in Seq(AllJobs) /\ Len(s) = Len(u3) + Len(e5) /\ DOMAIN s = 1..(Len(u3) + Len(e5))
        /\ \A i \in DOMAIN u3 : i \in DOMAIN s /\ s[i] = u3[i]
        /\ \A i \in DOMAIN e5 : i + Len(u3) \in DOMAIN s /\ s[i + Len(u3)] = e5[i]
    BY ONLY <2>1, Appended
  <2> QED
    BY ONLY <1>1, <1>u2, <2>2
<1>3. /\ MayDo(s, "setup", "none") /\ ~FirstIs(s, "save") /\ s # <<>> /\ HasIn(s, "ensure")
      /\ HasIn(s, "manifest") /\ HasIn(s, "role") /\ HasIn(s, "mounts") /\ HasIn(s, "repos")
  BY ONLY <1>u3, SetupJobs
<1>4. Inventory!Begin(p, "setup", "none", ask, s)
  BY DEF Inventory!BeginSetup
<1>5. "setup" \in CommandKinds \ {"none"} /\ "none" \in InventoryIds /\ ask \in Asked \cup {Inventory!NoRole}
  BY DEF CommandKinds, InventoryIds
<1> QED
  BY <1>3, <1>4, <1>5, CommandBegins

\* A record at the end of a list.
LEMMA RecordLast ==
  ASSUME NEW do \in {"record-mounts", "record-repos"}, NEW kind, NEW id, kind # "setup"
  PROVE  /\ MayDo(Inventory!Record(do), kind, id) /\ ~FirstIs(Inventory!Record(do), "save") /\ Inventory!Record(do) # <<>>
         /\ \A d : HasIn(Inventory!Record(do), d) <=> d \in {do, "save"}
<1>1. MayDo(<<>>, kind, id) /\ ~FirstIs(<<>>, "save") /\ \A d : ~HasIn(<<>>, d)
  BY NothingToDo
<1> PICK e : e = <<>>
  OBVIOUS
<1>2. MayDo(e, kind, id) /\ ~FirstIs(e, "save") /\ \A d : ~HasIn(e, d)
  BY <1>1
<1>3. /\ MayDo(Inventory!Record(do) \o e, kind, id) /\ ~FirstIs(Inventory!Record(do) \o e, "save") /\ Inventory!Record(do) \o e # <<>>
      /\ \A d : HasIn(Inventory!Record(do) \o e, d) <=> d \in {do, "save"} \/ HasIn(e, d)
  BY <1>2, RecordFirst
<1>4. Inventory!Record(do) \o e = Inventory!Record(do)
  <2>1. Inventory!Record(do) \in Seq(AllJobs)
    BY DoIs DEF Inventory!Record, ToDo
  <2> QED
    BY <2>1
<1> QED
  BY <1>2, <1>3, <1>4

\* Synchronizations, and a record of them.
LEMMA SyncsRecorded ==
  ASSUME NEW P, P \in SUBSET Inventory!Places, IsFiniteSet(P), NEW do, do \in {"record-mounts", "record-repos"},
         NEW kind, NEW id, kind # "setup", NEW u, u = Inventory!SyncJobs(P) \o Inventory!Record(do)
  PROVE  MayDo(u, kind, id) /\ ~FirstIs(u, "save") /\ u # <<>> /\ ~HasIn(u, "role")
<1>1. Syncs(Inventory!SyncJobs(P), P)
  BY SyncJobsAre
<1>2. /\ MayDo(Inventory!Record(do), kind, id) /\ ~FirstIs(Inventory!Record(do), "save")
      /\ \A d : HasIn(Inventory!Record(do), d) <=> d \in {do, "save"}
  BY RecordLast
<1>3. /\ MayDo(Inventory!SyncJobs(P) \o Inventory!Record(do), kind, id) /\ ~FirstIs(Inventory!SyncJobs(P) \o Inventory!Record(do), "save")
      /\ \A d : d # "sync" => (HasIn(Inventory!SyncJobs(P) \o Inventory!Record(do), d) <=> HasIn(Inventory!Record(do), d))
  BY <1>1, <1>2, SyncsFirst
<1>4. HasIn(u, "save") /\ ~HasIn(u, "role")
  BY <1>2, <1>3
<1>5. u # <<>>
  BY <1>4 DEF HasIn
<1> QED
  BY <1>3, <1>4, <1>5

\* A sync of a mount begins.
LEMMA BeginMountSyncKeeps ==
  ASSUME InventoryInv, NEW p \in Procs, NEW m \in Inventory!Mounts, Inventory!BeginMountSync(p, {m})
  PROVE  InventoryInv'
<1> PICK P : P = Inventory!MountPaths({m})
  OBVIOUS
<1>1. P \in SUBSET Inventory!Places /\ IsFiniteSet(P)
  BY PlacesFinite
<1> PICK none : none = "none"
  OBVIOUS
<1> PICK s : s = Inventory!SyncJobs(P) \o Inventory!Record("record-mounts")
  OBVIOUS
<1>2. MayDo(s, "mount-sync", none) /\ ~FirstIs(s, "save") /\ s # <<>> /\ ~HasIn(s, "role")
  <2> PICK do : do = "record-mounts"
    OBVIOUS
  <2> PICK kind : kind = "mount-sync"
    OBVIOUS
  <2>1. do \in {"record-mounts", "record-repos"} /\ kind # "setup" /\ s = Inventory!SyncJobs(P) \o Inventory!Record(do)
    OBVIOUS
  <2>2. MayDo(s, kind, none) /\ ~FirstIs(s, "save") /\ s # <<>> /\ ~HasIn(s, "role")
    BY ONLY <1>1, <2>1, SyncsRecorded
  <2> QED
    BY <2>2
<1>3. Inventory!Begin(p, "mount-sync", none, Inventory!NoRole, s)
  BY DEF Inventory!BeginMountSync
<1>4. "mount-sync" \in CommandKinds \ {"none"} /\ none \in InventoryIds
  BY DEF CommandKinds, InventoryIds
<1> QED
  BY <1>2, <1>3, <1>4, CommandBegins

\* A sync of a repo begins.
LEMMA BeginRepoSyncKeeps ==
  ASSUME InventoryInv, NEW p \in Procs, NEW r \in Repos, Inventory!BeginRepoSync(p, r)
  PROVE  InventoryInv'
<1> PICK P : P = {Inventory!RepoPath(r)}
  OBVIOUS
<1>1. P \in SUBSET Inventory!Places /\ IsFiniteSet(P)
  BY PlacesAre, FS_Singleton
<1> PICK s : s = Inventory!SyncJobs(P) \o Inventory!Record("record-repos")
  OBVIOUS
<1>2. MayDo(s, "repo-sync", r) /\ ~FirstIs(s, "save") /\ s # <<>> /\ ~HasIn(s, "role")
  <2> PICK do : do = "record-repos"
    OBVIOUS
  <2> PICK kind : kind = "repo-sync"
    OBVIOUS
  <2>1. do \in {"record-mounts", "record-repos"} /\ kind # "setup" /\ s = Inventory!SyncJobs(P) \o Inventory!Record(do)
    OBVIOUS
  <2>2. MayDo(s, kind, r) /\ ~FirstIs(s, "save") /\ s # <<>> /\ ~HasIn(s, "role")
    BY ONLY <1>1, <2>1, SyncsRecorded
  <2> QED
    BY <2>2
<1>3. Inventory!Begin(p, "repo-sync", r, Inventory!NoRole, s)
  BY DEF Inventory!BeginRepoSync
<1>4. "repo-sync" \in CommandKinds \ {"none"} /\ r \in InventoryIds
  BY DEF CommandKinds, InventoryIds
<1> QED
  BY <1>2, <1>3, <1>4, CommandBegins

\* A record before another.
LEMMA RecordsInARow ==
  ASSUME NEW id
  PROVE  /\ MayDo(Inventory!Record("record-repos") \o Inventory!Record("record-mounts"), "sync-all", id)
         /\ ~FirstIs(Inventory!Record("record-repos") \o Inventory!Record("record-mounts"), "save")
         /\ \A d : HasIn(Inventory!Record("record-repos") \o Inventory!Record("record-mounts"), d) => d \in {"record-repos", "record-mounts", "save"}
<1> PICK t : t = Inventory!Record("record-mounts")
  OBVIOUS
<1>1. MayDo(t, "sync-all", id) /\ ~FirstIs(t, "save") /\ \A d : HasIn(t, d) <=> d \in {"record-mounts", "save"}
  BY RecordLast
<1>2. \A d : HasIn(t, d) => MayPrecede("record-repos", d)
  BY <1>1 DEF MayPrecede
<1>3. /\ MayDo(Inventory!Record("record-repos") \o t, "sync-all", id) /\ ~FirstIs(Inventory!Record("record-repos") \o t, "save")
      /\ \A d : HasIn(Inventory!Record("record-repos") \o t, d) <=> d \in {"record-repos", "save"} \/ HasIn(t, d)
  BY <1>1, <1>2, RecordFirst
<1> QED
  BY <1>1, <1>3

\* A sync of all begins.
LEMMA BeginSyncAllKeeps ==
  ASSUME InventoryInv, NEW p \in Procs, Inventory!BeginSyncAll(p)
  PROVE  InventoryInv'
<1> PICK P : P = Inventory!MountPaths(Inventory!Scoped(saved.role))
  OBVIOUS
<1> PICK Q : Q = Inventory!RepoPaths(Inventory!Selected(saved))
  OBVIOUS
<1> PICK s1 : s1 = Inventory!SyncJobs(P)
  OBVIOUS
<1> PICK s2 : s2 = Inventory!SyncJobs(Q)
  OBVIOUS
<1> PICK R : R = Inventory!Record("record-mounts")
  OBVIOUS
<1> PICK X : X = IF Inventory!Selected(saved) = {} THEN <<>> ELSE Inventory!Record("record-repos")
  OBVIOUS
<1>1. P \in SUBSET Inventory!Places /\ IsFiniteSet(P) /\ Q \in SUBSET Inventory!Places /\ IsFiniteSet(Q)
  <2>1. Inventory!Scoped(saved.role) \in SUBSET Inventory!Mounts
    BY DEF Inventory!Scoped, Inventory!Mounts
  <2>2. saved \in States
    BY DEF InventoryInv, InventoryTypes
  <2>3. Inventory!Selected(saved) \in SUBSET Repos
    BY <2>2 DEF Inventory!Selected, States
  <2> QED
    BY <2>1, <2>3, PlacesFinite
<1>2. Syncs(s1, P) /\ Syncs(s2, Q)
  BY <1>1, SyncJobsAre
<1> PICK v : v = X \o R
  OBVIOUS
<1>3. s1 \in Seq(AllJobs) /\ s2 \in Seq(AllJobs) /\ X \in Seq(AllJobs) /\ R \in Seq(AllJobs)
  <2>1. Inventory!Do("record-repos") \in AllJobs /\ Inventory!Do("record-mounts") \in AllJobs /\ Inventory!Do("save") \in AllJobs
    BY DoIs DEF ToDo
  <2> QED
    BY <1>2, <2>1 DEF Syncs, Inventory!Record
<1>4. /\ MayDo(v, "sync-all", "none") /\ ~FirstIs(v, "save")
      /\ \A d : HasIn(v, d) => d \in {"record-repos", "record-mounts", "save"}
  <2>1. CASE Inventory!Selected(saved) = {}
    <3>1. v = R
      BY <1>3, <2>1
    <3>2. MayDo(R, "sync-all", "none") /\ ~FirstIs(R, "save") /\ \A d : HasIn(R, d) <=> d \in {"record-mounts", "save"}
      BY RecordLast
    <3> QED
      BY <3>1, <3>2
  <2>2. CASE Inventory!Selected(saved) # {}
    <3>1. v = Inventory!Record("record-repos") \o Inventory!Record("record-mounts")
      BY <2>2
    <3> QED
      BY <3>1, RecordsInARow
  <2> QED
    BY <2>1, <2>2
<1>r. v # <<>>
  BY <1>3, RecordLast DEF Inventory!Record
<1> PICK w : w = s2 \o v
  OBVIOUS
<1>5. /\ MayDo(w, "sync-all", "none") /\ ~FirstIs(w, "save")
      /\ \A do : do # "sync" => (HasIn(w, do) <=> HasIn(v, do))
  <2>1. /\ MayDo(s2 \o v, "sync-all", "none") /\ ~FirstIs(s2 \o v, "save")
        /\ \A do : do # "sync" => (HasIn(s2 \o v, do) <=> HasIn(v, do))
    BY ONLY <1>1, <1>2, <1>4, SyncsFirst
  <2> QED
    BY <2>1
<1> PICK u : u = s1 \o w
  OBVIOUS
<1>6. /\ MayDo(u, "sync-all", "none") /\ ~FirstIs(u, "save")
      /\ \A do : do # "sync" => (HasIn(u, do) <=> HasIn(w, do))
  <2>1. /\ MayDo(s1 \o w, "sync-all", "none") /\ ~FirstIs(s1 \o w, "save")
        /\ \A do : do # "sync" => (HasIn(s1 \o w, do) <=> HasIn(w, do))
    BY ONLY <1>1, <1>2, <1>5, SyncsFirst
  <2> QED
    BY <2>1
<1>7. ~HasIn(u, "role") /\ u # <<>>
  <2>1. ~HasIn(u, "role")
    <3>1. ~HasIn(v, "role") /\ "role" # "sync"
      BY ONLY <1>4
    <3> QED
      BY ONLY <1>5, <1>6, <3>1
  <2>2. Len(v) > 0 /\ v \in Seq(AllJobs)
    BY <1>3, <1>r
  <2>3. u # <<>>
    BY ONLY <1>3, <2>2, u = s1 \o w, w = s2 \o v
  <2> QED
    BY <2>1, <2>3
<1>8. s1 \o s2 \o X \o R = u
  <2>1. (s2 \o X) \o R = s2 \o (X \o R)
    BY ONLY <1>3, ConcatAssociative
  <2>2. (s1 \o s2) \o X = s1 \o (s2 \o X)
    BY ONLY <1>3, ConcatAssociative
  <2>3. s2 \o X \in Seq(AllJobs)
    BY ONLY <1>3
  <2>4. (s1 \o (s2 \o X)) \o R = s1 \o ((s2 \o X) \o R)
    BY ONLY <1>3, <2>3, ConcatAssociative
  <2> QED
    BY <2>1, <2>2, <2>4
<1>9. Inventory!Begin(p, "sync-all", "none", Inventory!NoRole, u)
  BY <1>8 DEF Inventory!BeginSyncAll
<1>10. "sync-all" \in CommandKinds \ {"none"} /\ "none" \in InventoryIds
  BY DEF CommandKinds, InventoryIds
<1> QED
  BY <1>6, <1>7, <1>9, <1>10, CommandBegins

\* A repo is about to be added.
LEMMA BeginRepoAddKeeps ==
  ASSUME InventoryInv, NEW p \in Procs, NEW r \in Repos, Inventory!BeginRepoAdd(p, r)
  PROVE  InventoryInv'
<1> PICK s : s = Inventory!Ensure \o <<Inventory!Do("repo")>> \o Inventory!Record("record-repos")
  OBVIOUS
<1>1. MayDo(s, "repo-add", r) /\ ~FirstIs(s, "save") /\ s # <<>> /\ ~HasIn(s, "role")
  BY RepoAddJobs
<1>2. Inventory!Begin(p, "repo-add", r, Inventory!NoRole, s)
  BY DEF Inventory!BeginRepoAdd
<1>3. "repo-add" \in CommandKinds \ {"none"} /\ r \in InventoryIds
  BY DEF CommandKinds, InventoryIds
<1> QED
  BY <1>1, <1>2, <1>3, CommandBegins

\* A removal begins.
LEMMA BeginRemoveKeeps ==
  ASSUME InventoryInv, NEW p \in Procs, NEW kind, NEW id, (kind = "repo" /\ id \in Repos) \/ (kind = "mount" /\ id \in Inventory!Mounts),
         Inventory!BeginRemove(p, kind, id)
  PROVE  InventoryInv'
<1> PICK pl : pl = IF kind = "repo" THEN Inventory!RepoPath(id) ELSE Inventory!Dir("mount", id)
  OBVIOUS
<1>1. pl \in Inventory!Places /\ pl[2] = id
  BY PlacesAre DEF Inventory!RepoPath
<1> PICK s : s = <<Inventory!Job("remove", pl)>> \o Inventory!Record("forget")
  OBVIOUS
<1>2. MayDo(s, "remove", id) /\ s # <<>>
  BY <1>1, RemoveJobs
<1>3. Inventory!Begin(p, "remove", id, Inventory!NoRole, s)
  BY DEF Inventory!BeginRemove
<1>4. "remove" \in CommandKinds \ {"none"} /\ id \in InventoryIds
  BY DEF CommandKinds, InventoryIds
<1> QED
  BY <1>2, <1>3, <1>4, CommandBegins

\* A sync of the manifest begins.
LEMMA BeginManifestSyncKeeps ==
  ASSUME InventoryInv, NEW p \in Procs, Inventory!BeginManifestSync(p)
  PROVE  InventoryInv'
<1> PICK s : s = <<Inventory!Do("pull")>>
  OBVIOUS
<1>1. MayDo(s, "manifest-sync", "none") /\ ~HasIn(s, "role") /\ ~FirstIs(s, "save") /\ s # <<>>
  BY PullJob
<1>2. Inventory!Begin(p, "manifest-sync", "none", Inventory!NoRole, s)
  BY DEF Inventory!BeginManifestSync
<1>3. "manifest-sync" \in CommandKinds \ {"none"} /\ "none" \in InventoryIds
  BY DEF CommandKinds, InventoryIds
<1> QED
  BY <1>1, <1>2, <1>3, CommandBegins

\* Nothing that is done between commands disturbs them.
LEMMA QuietKeeps ==
  ASSUME InventoryInv, Inventory!Quiet, running' = running, alone' = alone, saved' = saved, WorldTypes'
  PROVE  InventoryInv'
<1>1. \A q \in Procs : running'[q] = Inventory!Idle
  BY DEF Inventory!Quiet
<1>2. alone = {} /\ running \in [Procs -> Commands] /\ saved \in States
  <2>1. \A q \in alone : q \in Procs /\ running[q].jobs # <<>>
    BY DEF InventoryInv, InventoryTypes, Inventory!TypeOK, OnlyOne
  <2>2. Inventory!Idle.jobs = <<>>
    BY DEF Inventory!Idle
  <2> QED
    BY <2>1, <2>2 DEF Inventory!Quiet, InventoryInv, InventoryTypes
<1>3. InventoryTypes'
  BY <1>2, TypesMade
<1>4. \A q \in Procs : CommandOK(running[q])'
  BY DEF InventoryInv, CommandOK
<1>5. \A q \in Procs : ManifestThere(running[q])'
  BY <1>1 DEF ManifestThere, Inventory!Idle
<1> QED
  BY <1>2, <1>3, <1>4, <1>5 DEF InventoryInv

\* There are revisions, in order.
LEMMA RevisionsAre == \E n \in Nat : n > 0 /\ Inventory!Revisions = 1..n
<1> PICK n : n = Len(Manifests)
  OBVIOUS
<1>1. n \in Nat /\ n > 0 /\ DOMAIN Manifests = 1..n
  BY InventoryAssumption
<1> QED
  BY <1>1 DEF Inventory!Revisions

\* A source has a newest revision.
LEMMA NewestIs ==
  ASSUME NEW s \in Inventory!Sources
  PROVE  Inventory!Newest(s) \in Inventory!Revisions /\ Inventory!Revisions \subseteq Nat /\ 1 \in Inventory!Revisions /\ \A i \in 1..Inventory!Newest(s) : i \in Inventory!Revisions
<1>1. PICK n \in Nat : n > 0 /\ Inventory!Revisions = 1..n
  BY RevisionsAre
<1> PICK T : T = {i \in Inventory!Revisions : Manifests[i].source = s}
  OBVIOUS
<1>2. T # {} /\ T \subseteq 1..n
  BY <1>1 DEF Inventory!Sources
<1> DEFINE U == {n - i : i \in T}
<1>3. U \subseteq Nat /\ U # {}
  BY <1>1, <1>2
<1> HIDE DEF U
<1>4. PICK m \in U : \A k \in U : m <= k
  BY <1>3, NatMin
<1>5. PICK i \in T : m = n - i
  BY <1>4 DEF U
<1>6. ASSUME NEW j \in T PROVE j <= i
  <2>1. n - i <= n - j
    BY <1>4, <1>5 DEF U
  <2> QED
    BY <1>1, <1>2, <1>5, <2>1
<1>7. \E k \in Inventory!Revisions : Manifests[k].source = s /\ \A j \in Inventory!Revisions : Manifests[j].source = s => j <= k
  BY <1>5, <1>6
<1>8. Inventory!Newest(s) \in Inventory!Revisions
  BY <1>7 DEF Inventory!Newest
<1> QED
  BY <1>1, <1>8

\* What the user and upstream do, and the registry's commands.
LEMMA OthersKeep ==
  ASSUME InventoryInv,
         \/ \E s \in Inventory!Sources : Inventory!AddManifest(s) \/ Inventory!Released(s)
         \/ Inventory!PointManifest
         \/ \E pl \in Inventory!Places : Inventory!UserRemoves(pl) \/ \E kind \in {"own", "empty", "other"} : Inventory!UserMakes(pl, kind)
  PROVE  InventoryInv'
<1>1. /\ registry \in [source : Inventory!Sources, path : {"cache", Inventory!OwnPath}]
      /\ manifest \in [{"cache", Inventory!OwnPath} -> Inventory!Revisions \cup {0}] /\ newest \in [Inventory!Sources -> Inventory!Revisions]
      /\ disk \in [Inventory!Places -> Inventory!Content \cup {"none", "empty"}] /\ trouble \in Nat
  BY DEF InventoryInv, InventoryTypes, Inventory!TypeOK
<1>2. /\ Inventory!Quiet /\ running' = running /\ alone' = alone /\ saved' = saved
  BY DEF Inventory!AddManifest, Inventory!Released, Inventory!PointManifest, Inventory!UserRemoves, Inventory!UserMakes, Inventory!ByHand
<1>3. WorldTypes'
  <2>1. ASSUME NEW s \in Inventory!Sources, Inventory!AddManifest(s) PROVE WorldTypes'
    BY <1>1, <2>1 DEF Inventory!AddManifest, Inventory!Registers, WorldTypes
  <2>2. ASSUME NEW s \in Inventory!Sources, Inventory!Released(s) PROVE WorldTypes'
    <3>1. newest[s] \in Inventory!Revisions /\ newest[s] < Inventory!Newest(s)
      BY <1>1, <2>2 DEF Inventory!Released
    <3>2. newest[s] + 1 \in Inventory!Revisions
      BY <3>1, NewestIs
    <3>3. newest' \in [Inventory!Sources -> Inventory!Revisions]
      BY <1>1, <2>2, <3>2 DEF Inventory!Released
    <3> QED
      BY <1>1, <2>2, <3>3 DEF Inventory!Released, Inventory!ByHand, WorldTypes
  <2>3. ASSUME Inventory!PointManifest PROVE WorldTypes'
    <3>1. newest[registry.source] \in Inventory!Revisions
      BY <1>1
    <3>2. manifest' \in [{"cache", Inventory!OwnPath} -> Inventory!Revisions \cup {0}]
      BY <1>1, <2>3, <3>1 DEF Inventory!PointManifest
    <3> QED
      BY <1>1, <2>3, <3>2 DEF Inventory!PointManifest, Inventory!Registers, WorldTypes
  <2>4. ASSUME NEW pl \in Inventory!Places, Inventory!UserRemoves(pl) PROVE WorldTypes'
    BY <1>1, <2>4 DEF Inventory!UserRemoves, Inventory!ByHand, WorldTypes
  <2>5. ASSUME NEW pl \in Inventory!Places, NEW kind \in {"own", "empty", "other"}, Inventory!UserMakes(pl, kind) PROVE WorldTypes'
    <3>1. kind \in Inventory!Content \cup {"none", "empty"}
      BY DEF Inventory!Content, Inventory!Git
    <3> QED
      BY <1>1, <2>5, <3>1 DEF Inventory!UserMakes, Inventory!ByHand, WorldTypes
  <2> QED
    BY <2>1, <2>2, <2>3, <2>4, <2>5
<1> QED
  BY <1>2, <1>3, QuietKeeps

\* The invariant holds at first.
LEMMA InventoryInit == Inventory!Init => InventoryInv
<1> SUFFICES ASSUME Inventory!Init PROVE InventoryInv
  OBVIOUS
<1>1. PICK n \in Nat : n > 0 /\ Inventory!Revisions = 1..n
  BY RevisionsAre
<1>2. 1 \in Inventory!Revisions /\ Manifests[1].source \in Inventory!Sources
  BY <1>1 DEF Inventory!Sources
<1>3. /\ registry \in [source : Inventory!Sources, path : {"cache", Inventory!OwnPath}]
      /\ manifest \in [{"cache", Inventory!OwnPath} -> Inventory!Revisions \cup {0}]
  BY <1>2 DEF Inventory!Init
<1>4. newest \in [Inventory!Sources -> Inventory!Revisions]
  <2>1. \A s \in Inventory!Sources : Inventory!Newest(s) \in Inventory!Revisions
    BY NewestIs
  <2> QED
    BY <1>2, <2>1 DEF Inventory!Init
<1>5. disk \in [Inventory!Places -> Inventory!Content \cup {"none", "empty"}]
  BY DEF Inventory!Init, Inventory!Content, Inventory!Git
<1>6. saved \in States
  <2>1. Inventory!NoState \in States
    BY DEF Inventory!NoState, States, Roles
  <2>2. CASE saved = Inventory!NoState
    BY <2>1, <2>2
  <2>3. CASE saved = [Inventory!NoState EXCEPT !.there = TRUE, !.legacy = Repos, !.listed = Repos]
    <3>1. saved = [there |-> TRUE, role |-> "none", selected |-> {}, legacy |-> Repos, listed |-> Repos]
      BY <2>3 DEF Inventory!NoState
    <3>2. Repos \in SUBSET (Repos \cup Inventory!Mounts) /\ {} \in SUBSET Repos /\ Repos \in SUBSET Repos /\ "none" \in Roles
      BY DEF Roles
    <3> QED
      BY <3>1, <3>2 DEF States
  <2> QED
    BY <2>2, <2>3 DEF Inventory!Init
<1>7. Inventory!Idle \in Commands /\ CommandOK(Inventory!Idle) /\ Inventory!Idle.kind # "setup"
  <2>1. MayDo(<<>>, "none", "none")
    BY NothingToDo
  <2>2. Inventory!Idle.jobs = <<>> /\ Inventory!Idle.kind = "none" /\ Inventory!Idle.id = "none"
    BY DEF Inventory!Idle
  <2>3. CommandOK(Inventory!Idle)
    BY <2>1, <2>2 DEF CommandOK
  <2> QED
    BY <2>2, <2>3 DEF Inventory!Idle, Commands, CommandKinds, InventoryIds, Roles, States, Inventory!NoState
<1>8. running = [p \in Procs |-> Inventory!Idle] /\ alone = {} /\ trouble = 0
  BY DEF Inventory!Init
<1>9. Inventory!TypeOK
  <2>1. \A s \in States : s.selected \cup s.legacy \subseteq Repos /\ s.listed \subseteq Repos \cup Inventory!Mounts
    BY DEF States
  <2>2. \A p \in Procs : running[p] = Inventory!Idle /\ running[p].mem \in States /\ running[p].failed \subseteq Inventory!Places /\ running[p].tried \subseteq Inventory!Places
    BY <1>7, <1>8 DEF Commands
  <2>3. \A s \in {saved} \cup {running[p].mem : p \in Procs} : s \in States
    BY <1>6, <2>2
  <2> QED
    BY <1>3, <1>4, <1>5, <1>8, <2>1, <2>2, <2>3 DEF Inventory!TypeOK
<1> QED
  BY <1>6, <1>7, <1>8, <1>9 DEF InventoryInv, InventoryTypes, ManifestThere

\* Every step keeps the invariant.
LEMMA InventoryNext ==
  ASSUME InventoryInv, [Inventory!Next]_(Inventory!vars)
  PROVE  InventoryInv'
<1>1. CASE UNCHANGED Inventory!vars
  BY <1>1 DEF Inventory!vars, InventoryInv, InventoryTypes, Inventory!TypeOK, CommandOK, ManifestThere, OnlyOne, WritesAll, MemKeeps, SetupReached,
              RoleSet, MountsThere, ReposThere, SeenTo, Inventory!Selected, Inventory!Synced, Inventory!doc
<1>2. ASSUME NEW p \in Procs,
             \/ \E ask \in Asked : Inventory!BeginSetup(p, ask)
             \/ \E m \in Inventory!Mounts : Inventory!BeginMountSync(p, {m}) \/ Inventory!BeginRemove(p, "mount", m)
             \/ Inventory!BeginSyncAll(p) \/ Inventory!BeginManifestSync(p)
             \/ \E r \in Repos : Inventory!BeginRepoSync(p, r) \/ Inventory!BeginRepoAdd(p, r) \/ Inventory!BeginRemove(p, "repo", r)
      PROVE  InventoryInv'
  <2>1. ASSUME NEW ask \in Asked, Inventory!BeginSetup(p, ask) PROVE InventoryInv'
    BY <2>1, BeginSetupKeeps
  <2>2. ASSUME NEW m \in Inventory!Mounts, Inventory!BeginMountSync(p, {m}) PROVE InventoryInv'
    BY <2>2, BeginMountSyncKeeps
  <2>3. ASSUME NEW kind, NEW id, (kind = "repo" /\ id \in Repos) \/ (kind = "mount" /\ id \in Inventory!Mounts), Inventory!BeginRemove(p, kind, id)
        PROVE  InventoryInv'
    BY <2>3, BeginRemoveKeeps
  <2>4. ASSUME NEW m \in Inventory!Mounts, Inventory!BeginRemove(p, "mount", m) PROVE InventoryInv'
    <3> PICK kind : kind = "mount"
      OBVIOUS
    <3>1. (kind = "repo" /\ m \in Repos) \/ (kind = "mount" /\ m \in Inventory!Mounts)
      OBVIOUS
    <3>2. Inventory!BeginRemove(p, kind, m)
      BY <2>4
    <3> QED
      BY <3>1, <3>2, <2>3
  <2>5. ASSUME NEW r \in Repos, Inventory!BeginRemove(p, "repo", r) PROVE InventoryInv'
    <3> PICK kind : kind = "repo"
      OBVIOUS
    <3>1. (kind = "repo" /\ r \in Repos) \/ (kind = "mount" /\ r \in Inventory!Mounts)
      OBVIOUS
    <3>2. Inventory!BeginRemove(p, kind, r)
      BY <2>5
    <3> QED
      BY <3>1, <3>2, <2>3
  <2>6. ASSUME NEW r \in Repos, Inventory!BeginRepoSync(p, r) \/ Inventory!BeginRepoAdd(p, r) PROVE InventoryInv'
    BY <2>6, BeginRepoSyncKeeps, BeginRepoAddKeeps
  <2>7. Inventory!BeginSyncAll(p) \/ Inventory!BeginManifestSync(p) => InventoryInv'
    BY BeginSyncAllKeeps, BeginManifestSyncKeeps
  <2> QED
    BY <1>2, <2>1, <2>2, <2>4, <2>5, <2>6, <2>7
<1>3. ASSUME NEW p \in Procs, Inventory!Step(p) \/ Inventory!Crash(p) PROVE InventoryInv'
  BY <1>3, CommandStepKeeps, CrashKeeps
<1> QED
  BY <1>1, <1>2, <1>3, OthersKeep DEF Inventory!Next

-----------------------------------------------------------------------------
(* What the steps keep *)

\* A process that changes its command has something to do.
LEMMA BusyOnly ==
  ASSUME InventoryInv, [Inventory!Next]_(Inventory!vars), NEW p \in alone, running'[p] # running[p]
  PROVE  Inventory!Step(p) \/ Inventory!Crash(p)
<1>1. p \in Procs /\ OnlyOne(p)
  BY DEF InventoryInv, InventoryTypes, Inventory!TypeOK
<1>2. ASSUME NEW q \in Procs, Inventory!Step(q) \/ Inventory!Crash(q) PROVE q = p
  <2>1. running[q] # Inventory!Idle
    <3>1. Inventory!Idle.jobs = <<>>
      BY DEF Inventory!Idle
    <3> QED
      BY <1>2, <3>1 DEF Inventory!Step, Inventory!Crash, Inventory!PullManifest, Inventory!Migrate, Inventory!ReadState, Inventory!Edit, Inventory!SaveState, Inventory!SetRole, Inventory!Find, Inventory!Sync, Inventory!RemoveTree, Inventory!Doing
  <2> QED
    BY <1>1, <2>1 DEF OnlyOne
<1>3. ASSUME NEW q \in Procs, NEW kind, NEW id, NEW ask, NEW s, Inventory!Begin(q, kind, id, ask, s) PROVE FALSE
  <2>1. running[q] = Inventory!Idle /\ Inventory!Idle.jobs = <<>> /\ running \in [Procs -> Commands]
    BY <1>3 DEF Inventory!Begin, Inventory!Idle, InventoryInv, InventoryTypes
  <2>2. q # p
    BY <1>1, <2>1 DEF OnlyOne
  <2>3. running'[p] = running[p]
    BY <1>1, <1>3, <2>1, <2>2 DEF Inventory!Begin
  <2> QED
    BY <2>3
<1>4. ASSUME NEW q \in Procs,
             \/ \E ask \in Asked : Inventory!BeginSetup(q, ask)
             \/ \E m \in Inventory!Mounts : Inventory!BeginMountSync(q, {m}) \/ Inventory!BeginRemove(q, "mount", m)
             \/ Inventory!BeginSyncAll(q) \/ Inventory!BeginManifestSync(q)
             \/ \E r \in Repos : Inventory!BeginRepoSync(q, r) \/ Inventory!BeginRepoAdd(q, r) \/ Inventory!BeginRemove(q, "repo", r)
      PROVE  FALSE
  <2>1. \E kind, id, ask, s : Inventory!Begin(q, kind, id, ask, s)
    BY <1>4 DEF Inventory!BeginSetup, Inventory!BeginMountSync, Inventory!BeginSyncAll, Inventory!BeginManifestSync, Inventory!BeginRepoSync, Inventory!BeginRepoAdd, Inventory!BeginRemove
  <2> QED
    BY <1>3, <2>1
<1>5. running' # running
  OBVIOUS
<1>6. PICK q \in Procs : Inventory!Step(q) \/ Inventory!Crash(q)
  BY <1>4, <1>5 DEF Inventory!Next, Inventory!vars, Inventory!AddManifest, Inventory!Released, Inventory!PointManifest, Inventory!UserRemoves, Inventory!UserMakes, Inventory!ByHand
<1> QED
  BY <1>2, <1>6

\* What is taken away, is taken by the removal that names it, or moved to a
\* place that was free.
LEMMA DiskKept ==
  ASSUME InventoryInv, [Inventory!Next]_(Inventory!vars), running' # running, NEW pl \in Inventory!Places, disk[pl] \in Inventory!Content, disk'[pl] # disk[pl]
  PROVE  \/ \E p \in Procs : running[p].kind = "remove" /\ running[p].id = pl[2] /\ running'[p] # running[p]
         \/ pl[1] = "products" /\ disk[Inventory!Dir("repos", pl[2])] = "none" /\ disk'[Inventory!Dir("repos", pl[2])] = disk[pl]
<1>1. PICK p \in Procs : Inventory!Migrate(p) \/ Inventory!Sync(p) \/ Inventory!RemoveTree(p)
  BY DEF Inventory!Next, Inventory!vars, Inventory!Step, Inventory!Crash, Inventory!PullManifest, Inventory!ReadState, Inventory!Edit, Inventory!SaveState, Inventory!SetRole, Inventory!Find, Inventory!AddManifest, Inventory!Released, Inventory!PointManifest,
         Inventory!UserRemoves, Inventory!UserMakes, Inventory!ByHand, Inventory!BeginSetup, Inventory!BeginMountSync, Inventory!BeginSyncAll, Inventory!BeginManifestSync, Inventory!BeginRepoSync, Inventory!BeginRepoAdd,
         Inventory!BeginRemove, Inventory!Begin
<1>2. disk[pl] # "none" /\ disk[pl] \notin {"none", "empty"}
  BY DEF Inventory!Content, Inventory!Git
<1>3. disk \in [Inventory!Places -> Inventory!Content \cup {"none", "empty"}]
  BY DEF InventoryInv, InventoryTypes, Inventory!TypeOK
<1>4. CASE Inventory!Migrate(p)
  <2> PICK moved : moved = {r \in Repos : disk[Inventory!Dir("products", r)] # "none" /\ disk[Inventory!Dir("repos", r)] = "none"}
    OBVIOUS
  <2>1. disk' = [q \in Inventory!Places |->
                   IF q[2] \notin moved \/ q[1] = "mount" THEN disk[q]
                   ELSE IF q[1] = "repos" THEN disk[Inventory!Dir("products", q[2])] ELSE "none"]
    BY <1>4 DEF Inventory!Migrate
  <2>2. pl[2] \in moved /\ pl[1] # "mount"
    BY <2>1
  <2>3. disk[Inventory!Dir("products", pl[2])] # "none" /\ disk[Inventory!Dir("repos", pl[2])] = "none" /\ pl[2] \in Repos
    BY <2>2
  <2>4. pl = Inventory!Dir(pl[1], pl[2]) /\ pl[1] \in {"repos", "products", "mount"}
    BY PlacesAre
  <2>5. pl[1] = "products"
    BY <1>2, <2>2, <2>3, <2>4
  <2>6. pl = Inventory!Dir("products", pl[2])
    BY <2>4, <2>5
  <2> PICK to : to = Inventory!Dir("repos", pl[2])
    OBVIOUS
  <2>7. to \in Inventory!Places /\ to[1] = "repos" /\ to[2] = pl[2]
    BY <2>3, PlacesAre
  <2>8. disk'[to] = disk[Inventory!Dir("products", pl[2])]
    BY <2>1, <2>2, <2>7
  <2> QED
    BY <2>3, <2>5, <2>6, <2>8
<1>5. CASE Inventory!Sync(p)
  <2> PICK place : place = Inventory!Now(p).at
    OBVIOUS
  <2>1. disk' # disk => disk[place] = "none" /\ disk' = [disk EXCEPT ![place] = "clone"]
    BY <1>3, <1>5 DEF Inventory!Sync
  <2> QED
    BY <1>2, <1>3, <2>1
<1>6. CASE Inventory!RemoveTree(p)
  <2> PICK b : b = running[p]
    OBVIOUS
  <2> PICK place : place = Inventory!Now(p).at
    OBVIOUS
  <2>1. b.jobs # <<>> /\ Inventory!Doing(p, "remove") /\ disk' \in {disk, [disk EXCEPT ![place] = "none"]}
    BY <1>6 DEF Inventory!RemoveTree, Inventory!Doing
  <2>2. place = pl
    BY <1>3, <2>1
  <2>3. /\ MayBe(b.jobs[1], b.kind, b.id) /\ b.jobs[1] = Inventory!Now(p) /\ b.jobs[1].do = "remove" /\ b.jobs \in Seq(AllJobs)
    BY <2>1, AboutCommand
  <2>4. b.kind = "remove" /\ b.id = pl[2]
    BY <2>2, <2>3 DEF MayBe
  <2>5. running'[p] # running[p]
    <3>1. \A q \in Procs : q # p => running'[q] = running[q]
      BY <1>6 DEF Inventory!RemoveTree, Inventory!Continue, Inventory!Done, InventoryInv, InventoryTypes
    <3>2. DOMAIN running' = Procs /\ DOMAIN running = Procs /\ running' = [q \in Procs |-> running'[q]] /\ running = [q \in Procs |-> running[q]]
      BY <1>6 DEF Inventory!RemoveTree, Inventory!Continue, Inventory!Done, InventoryInv, InventoryTypes
    <3> QED
      BY <3>1, <3>2
  <2> QED
    BY <2>4, <2>5
<1> QED
  BY <1>1, <1>4, <1>5, <1>6

\* A command that nothing disturbed, and removes nothing, keeps what is
\* selected and listed.
LEMMA SavedKept ==
  ASSUME InventoryInv, [Inventory!Next]_(Inventory!vars), NEW p \in alone, running'[p] # running[p], running[p].kind # "remove"
  PROVE  Inventory!Selected(saved) \subseteq Inventory!Selected(saved') /\ saved.listed \subseteq saved'.listed
<1>1. p \in Procs /\ WritesAll(running[p])
  BY DEF InventoryInv, InventoryTypes, Inventory!TypeOK
<1>2. Inventory!Step(p) \/ Inventory!Crash(p)
  BY BusyOnly
<1>3. saved' = saved \/ Inventory!SaveState(p)
  BY <1>2 DEF Inventory!Step, Inventory!Crash, Inventory!PullManifest, Inventory!Migrate, Inventory!ReadState, Inventory!Edit, Inventory!SetRole, Inventory!Find, Inventory!Sync, Inventory!RemoveTree
<1>4. CASE Inventory!SaveState(p)
  <2> PICK b : b = running[p]
    OBVIOUS
  <2>1. b.jobs # <<>> /\ Inventory!Doing(p, "save") /\ saved' = b.mem
    BY <1>4 DEF Inventory!SaveState, Inventory!Doing
  <2>2. b.jobs[1].do = "save"
    BY <1>1, <2>1, AboutCommand
  <2>3. MemKeeps(b)
    BY <1>1, <2>1, <2>2 DEF WritesAll, FirstIs
  <2> QED
    BY <2>1, <2>3 DEF MemKeeps
<1> QED
  BY <1>3, <1>4

\* A setup that nothing disturbed has, at its end, done what it was asked.
LEMMA SetupEnds ==
  ASSUME InventoryInv, NEW p \in alone, Inventory!Doing(p, "end")
  PROVE  /\ \A m \in Needed : disk[Inventory!Dir("mount", m)] \in Inventory!Git
         /\ Inventory!doc.defaults \subseteq saved.selected /\ Inventory!Synced
         /\ running[p].ask.set => saved.role = running[p].ask.role
<1> PICK b : b = running[p]
  OBVIOUS
<1>1. p \in Procs /\ b.jobs # <<>>
  BY DEF InventoryInv, InventoryTypes, Inventory!TypeOK, Inventory!Doing
<1>2. /\ b.jobs \in Seq(AllJobs) /\ MayDo(b.jobs, b.kind, b.id) /\ MayBe(b.jobs[1], b.kind, b.id) /\ b.jobs[1].do = "end"
      /\ SetupReached(b) /\ ManifestThere(b)
  <2>1. /\ b.jobs \in Seq(AllJobs) /\ MayDo(b.jobs, b.kind, b.id) /\ MayBe(b.jobs[1], b.kind, b.id)
        /\ \A do : Inventory!Doing(p, do) <=> b.jobs[1].do = do
        /\ p \in alone => WritesAll(b) /\ SetupReached(b)
        /\ ManifestThere(b)
    BY <1>1, AboutCommand
  <2> QED
    BY <2>1
<1>3. b.kind = "setup"
  BY <1>2 DEF MayBe
<1>4. \A d : HasIn(b.jobs, d) => d = "end"
  <2>1. /\ \A d : HasIn(b.jobs, d) <=> b.jobs[1].do = d \/ HasIn(Tail(b.jobs), d)
        /\ \A d : HasIn(Tail(b.jobs), d) => MayPrecede(b.jobs[1].do, d)
    BY <1>1, <1>2, Popped
  <2> QED
    BY <1>2, <2>1 DEF MayPrecede
<1>5. /\ ~HasIn(b.jobs, "role") /\ ~HasIn(b.jobs, "mounts") /\ ~HasIn(b.jobs, "repos") /\ ~HasIn(b.jobs, "record-repos")
      /\ ~HasIn(b.jobs, "save") /\ ~HasIn(b.jobs, "manifest") /\ ~FirstIs(b.jobs, "save")
  BY <1>2, <1>4 DEF FirstIs
<1>6. Inventory!Synced /\ RoleSet(b) /\ MountsThere(b) /\ ReposThere(b)
  BY <1>2, <1>3, <1>5 DEF SetupReached, ManifestThere
<1> QED
  BY <1>5, <1>6 DEF RoleSet, MountsThere, ReposThere

\* Every step of the inventory keeps it.
LEMMA KeepsInventoryHolds ==
  ASSUME InventoryInv, [Inventory!Next]_(Inventory!vars)
  PROVE  Inventory!KeepsInventory
<1>1. ASSUME running' # running
      PROVE  \A pl \in Inventory!Places : disk[pl] \in Inventory!Content /\ disk'[pl] # disk[pl] =>
               \/ \E p \in Procs : running[p].kind = "remove" /\ running[p].id = pl[2] /\ running'[p] # running[p]
               \/ pl[1] = "products" /\ disk[Inventory!Dir("repos", pl[2])] = "none" /\ disk'[Inventory!Dir("repos", pl[2])] = disk[pl]
  BY <1>1, DiskKept
<1>2. (\E p \in alone : running'[p] # running[p] /\ running[p].kind # "remove") =>
        Inventory!Selected(saved) \subseteq Inventory!Selected(saved') /\ saved.listed \subseteq saved'.listed
  BY SavedKept
<1>3. \A p \in alone : Inventory!Doing(p, "end") /\ running'[p] = Inventory!Idle /\ trouble' = trouble =>
        /\ \A m \in Needed : disk[Inventory!Dir("mount", m)] \in Inventory!Git
        /\ Inventory!doc.defaults \subseteq saved.selected /\ Inventory!Synced
        /\ running[p].ask.set => saved.role = running[p].ask.role
  BY SetupEnds
<1> QED
  BY <1>1, <1>2, <1>3 DEF Inventory!KeepsInventory

-----------------------------------------------------------------------------
(***************************************************************************)
(* The parts together.                                                     *)
(***************************************************************************)

\* A part's steps are those of its module, and no other part takes them.
LEMMA PartSteps ==
  ASSUME [PartsNext]_partsVars
  PROVE  /\ part' = part
         /\ part = "sync" => [Sync!Next]_(Sync!vars)
         /\ part = "admin" => [Admin!Next]_(Admin!vars)
         /\ part = "skills" => [Shared!Next]_(Shared!vars)
         /\ part = "policy" => [Policy!Next]_(Policy!vars)
         /\ part = "inventory" => [Inventory!Next]_(Inventory!vars)
<1>1. CASE UNCHANGED partsVars
  BY <1>1 DEF partsVars, syncVars, adminVars, skillVars, ledgerVars, inventoryVars, Sync!vars, Admin!vars,
             Shared!vars, Inventory!vars, Policy!vars, Policy!upstream, Policy!machine
<1>2. CASE PartsNext
  BY <1>2 DEF PartsNext, OnlyDelivery, OnlySync, OnlyAdmin, OnlyShared, OnlyPolicy, OnlyInventory
<1> QED
  BY <1>1, <1>2

\* The invariant of the syncs, where they run.
LEMMA SyncAmongParts == PartsSpec => [](part = "sync" => SyncInv)
<1>1. PartsInit => (part = "sync" => SyncInv)
  BY WorkspaceInitInv DEF PartsInit
<1>2. (part = "sync" => SyncInv) /\ [PartsNext]_partsVars => (part = "sync" => SyncInv)'
  BY PartSteps, SyncStep
<1> QED
  BY <1>1, <1>2, PTL DEF PartsSpec

\* Whatever users and other clones do meanwhile, and wherever a call fails: what
\* a sync holds back or does not cover, it does not publish, and automatically
\* only adopted content of a private repository (Run, runGnit).
THEOREM SyncHoldsBack == PartsSpec => HeldStaysLocal
<1>1. /\ part = "sync" => SyncInv
      /\ [PartsNext]_partsVars
      => [part = "sync" => Sync!PublishesNothingHeld]_partsVars
  <2> SUFFICES ASSUME part = "sync", SyncInv, [PartsNext]_partsVars
               PROVE  Sync!PublishesNothingHeld
    OBVIOUS
  <2> QED
    BY PartSteps, StepPublishes
<1> QED
  BY <1>1, SyncAmongParts, PTL DEF PartsSpec, HeldStaysLocal

\* The invariant of the skills, where commands share them.
LEMMA SkillsAmongParts == PartsSpec => [](part = "skills" => SkillsInv /\ Counted)
<1>1. PartsInit => (part = "skills" => SkillsInv /\ Counted)
  BY SkillsInit DEF PartsInit
<1>2. (part = "skills" => SkillsInv /\ Counted) /\ [PartsNext]_partsVars => (part = "skills" => SkillsInv /\ Counted)'
  BY PartSteps, SkillsStep
<1> QED
  BY <1>1, <1>2, PTL DEF PartsSpec

\* No clean-up takes the user's entries, a manual install or the self-skill,
\* whatever users, manifests and older releases do between commands and while a
\* launch waits for an answer, and wherever a command stops (skills.Install,
\* Uninstall, scanLegacyGlobalOrgSkills); the exceptions are an install whose
\* record a torn index lost, and an entry made in a launch root after the launch
\* had looked there.
THEOREM NothingIsTaken == PartsSpec => NothingTakenAway
<1>1. (part = "skills" => SkillsInv /\ Counted) /\ [PartsNext]_partsVars => [part = "skills" => Shared!TakesNothing]_partsVars
  <2> SUFFICES ASSUME part = "skills", SkillsInv, Counted, [PartsNext]_partsVars
               PROVE  Shared!TakesNothing
    OBVIOUS
  <2> QED
    BY PartSteps, SkillsStep
<1> QED
  BY <1>1, SkillsAmongParts, PTL DEF PartsSpec, NothingTakenAway

\* The invariant of the inventory, where commands work on it.
LEMMA InventoryAmongParts == PartsSpec => [](part = "inventory" => InventoryInv)
<1>1. PartsInit => (part = "inventory" => InventoryInv)
  BY InventoryInit DEF PartsInit
<1>2. (part = "inventory" => InventoryInv) /\ [PartsNext]_partsVars => (part = "inventory" => InventoryInv)'
  BY PartSteps, InventoryNext
<1> QED
  BY <1>1, <1>2, PTL DEF PartsSpec

\* Setup and sync keep what is there, what is selected and what is listed, and a
\* setup that nothing disturbed ends with what the manifest requires
\* (umbrella.Ensure, SaveState, runSetup).
THEOREM InventoryIsKept == PartsSpec => InventoryKept
<1>1. (part = "inventory" => InventoryInv) /\ [PartsNext]_partsVars => [part = "inventory" => Inventory!KeepsInventory]_partsVars
  <2> SUFFICES ASSUME part = "inventory", InventoryInv, [PartsNext]_partsVars
               PROVE  Inventory!KeepsInventory
    OBVIOUS
  <2> QED
    BY PartSteps, KeepsInventoryHolds
<1> QED
  BY <1>1, InventoryAmongParts, PTL DEF PartsSpec, InventoryKept
=============================================================================
