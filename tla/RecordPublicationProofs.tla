---------------------- MODULE RecordPublicationProofs ----------------------
(***************************************************************************)
(* Proofs about module RecordPublication, for any number of records,       *)
(* versions, pull requests and commands and any bounds: retries and        *)
(* overlapping commands open no second pull request for the same change,   *)
(* and no content is taken from a file that no remote branch has had.      *)
(***************************************************************************)
EXTENDS RecordPublication, TLAPS

\* A command that publishes knows which item it is about.
ItemsKnown == \A p \in Procs : op[p].pc \notin {"idle", "settle", "pick"} => op[p].item \in Items

RecordsInv == TypeOK /\ ItemsKnown /\ NoDuplicatePRs

-----------------------------------------------------------------------------
(* The list of pending items *)

\* A list without some of its items is a list of the others.
LEMMA ListWithout ==
  ASSUME NEW R, NEW S, IsList(R, S), NEW T
  PROVE  IsList({e \in R : e[1] \notin T /\ e[2] \notin T}, S \ T)
<1> DEFINE Q == {e \in R : e[1] \notin T /\ e[2] \notin T}
<1>1. \A i, j \in S \ T : <<i, j>> \in Q <=> <<i, j>> \in R
  OBVIOUS
<1>2. Q \subseteq (S \ T) \X (S \ T)
  <2> SUFFICES ASSUME NEW e \in Q PROVE e \in (S \ T) \X (S \ T)
    OBVIOUS
  <2>1. e \in S \X S /\ e[1] \notin T /\ e[2] \notin T
    BY DEF IsList
  <2> QED
    BY <2>1
<1> HIDE DEF Q
<1>3. \A i, j \in S \ T : i # j <=> <<i, j>> \in Q \/ <<j, i>> \in Q
  BY <1>1 DEF IsList
<1>4. \A i, j, k \in S \ T : <<i, j>> \in Q /\ <<j, k>> \in Q => <<i, k>> \in Q
  BY <1>1 DEF IsList
<1>5. IsList(Q, S \ T)
  BY <1>2, <1>3, <1>4 DEF IsList
<1> QED
  BY <1>5 DEF Q

\* One list after another, of other items, is a list.
LEMMA ListAfter ==
  ASSUME NEW R, NEW S, IsList(R, S), NEW Q, NEW T, IsList(Q, T), S \cap T = {}
  PROVE  IsList(R \cup (S \X T) \cup Q, S \cup T)
<1> DEFINE U == R \cup (S \X T) \cup Q
<1>1. /\ R \subseteq S \X S /\ Q \subseteq T \X T
      /\ \A i \in S : i \notin T
  BY DEF IsList
<1>2. U \subseteq (S \cup T) \X (S \cup T)
  BY <1>1
<1>3. \A i, j \in S : <<i, j>> \in U <=> <<i, j>> \in R
  BY <1>1
<1>4. \A i, j \in T : <<i, j>> \in U <=> <<i, j>> \in Q
  BY <1>1
<1>5. \A i \in S, j \in T : <<i, j>> \in U /\ <<j, i>> \notin U /\ i # j
  BY <1>1
<1> HIDE DEF U
<1>6. \A i, j \in S \cup T : i # j <=> <<i, j>> \in U \/ <<j, i>> \in U
  <2> SUFFICES ASSUME NEW i \in S \cup T, NEW j \in S \cup T
               PROVE  i # j <=> <<i, j>> \in U \/ <<j, i>> \in U
    OBVIOUS
  <2>1. CASE i \in S /\ j \in S
    BY <2>1, <1>3 DEF IsList
  <2>2. CASE i \in T /\ j \in T
    BY <2>2, <1>4 DEF IsList
  <2>3. CASE i \in S /\ j \in T
    BY <2>3, <1>5
  <2>4. CASE i \in T /\ j \in S
    BY <2>4, <1>5
  <2> QED
    BY <2>1, <2>2, <2>3, <2>4
<1>7. \A i, j, k \in S \cup T : <<i, j>> \in U /\ <<j, k>> \in U => <<i, k>> \in U
  <2> SUFFICES ASSUME NEW i \in S \cup T, NEW j \in S \cup T, NEW k \in S \cup T,
                      <<i, j>> \in U, <<j, k>> \in U
               PROVE  <<i, k>> \in U
    OBVIOUS
  <2>1. CASE i \in S /\ k \in T
    BY <2>1, <1>5
  <2>2. CASE i \in S /\ k \in S
    <3>1. j \in S
      BY <2>2, <1>5
    <3> QED
      BY <3>1, <2>2, <1>3 DEF IsList
  <2>3. CASE i \in T
    <3>1. j \in T
      BY <2>3, <1>5
    <3>2. k \in T
      BY <3>1, <1>5
    <3> QED
      BY <3>1, <3>2, <2>3, <1>4 DEF IsList
  <2> QED
    BY <2>1, <2>2, <2>3
<1>8. IsList(U, S \cup T)
  BY <1>2, <1>6, <1>7 DEF IsList
<1> QED
  BY <1>8 DEF U

\* No pair lists one item, and none at all.
LEMMA ShortLists == (\A i : IsList({}, {i})) /\ IsList({}, {})
BY DEF IsList

-----------------------------------------------------------------------------
(* Types *)

PullRequests == [st : {"none", "open", "merged", "closed"}, base : Branches,
                 from : Trees, title : {"record", "policy"}, moved : BOOLEAN, merge : Trees]
Cmds == [pc : {"idle", "queue", "settle", "pick", "verify", "inspect", "pull", "open",
               "attach", "mark", "accept", "submit"},
         item : Items \cup {NoItem}, branch : Branches,
         head : Trees, dirty : SUBSET Records, commit : Trees, pr : 0..MaxPR]

\* TypeOK, by what the steps change together.
CheckoutOK == file \in Trees /\ head \in Trees /\ branch \in Branches /\ at \in Nat
RemoteOK == /\ tree \in [Branches -> Trees] /\ rev \in [Branches -> Nat]
            /\ prs \in [PRs -> PullRequests]
            /\ landed \subseteq Items /\ pushed \subseteq Items
ListOK == last \in [Items -> States] /\ IsList(order, Listed)
ProofOK == proof \in [Items -> 0..MaxPR]
OpOK == op \in [Procs -> Cmds]
EnvOK == edits \in 0..MaxEdits /\ crashes \in 0..MaxCrashes

\* Those parts are TypeOK.
LEMMA TypeParts ==
  TypeOK <=> CheckoutOK /\ RemoteOK /\ ListOK /\ ProofOK /\ OpOK /\ EnvOK
BY DEF TypeOK, CheckoutOK, RemoteOK, ListOK, ProofOK, OpOK, EnvOK, PullRequests, Cmds

\* And so after a step.
LEMMA TypePartsNext ==
  TypeOK' <=> CheckoutOK' /\ RemoteOK' /\ ListOK' /\ ProofOK' /\ OpOK' /\ EnvOK'
BY DEF TypeOK, CheckoutOK, RemoteOK, ListOK, ProofOK, OpOK, EnvOK, PullRequests, Cmds

\* The empty values have their types.
LEMMA EmptyTyped ==
  /\ EmptyTree \in Trees /\ NoPR \in PullRequests /\ Idle \in Cmds
  /\ 0 \in Branches /\ PRs \subseteq Branches /\ Branches = 0..MaxPR
  /\ 0 \in Versions /\ 1 \in Versions /\ 1 \in 1..MaxV
BY ConstantsAssumption DEF EmptyTree, Trees, Versions, NoPR, PullRequests, Idle, Cmds, Branches, PRs

\* An item that is appended to: the log's state and the list go together.
LEMMA EventTyped ==
  ASSUME ListOK, NEW i \in Items, NEW to \in States \ {"none"}, AppendEvent(i, to)
  PROVE  ListOK'
<1>1. CASE ~ValidTransition(last[i], to)
  BY <1>1 DEF AppendEvent, ListOK, Listed, Pending
<1>2. CASE ValidTransition(last[i], to)
  <2>1. last' = [last EXCEPT ![i] = to] /\ order' = Touched(i, to)
    BY <1>2 DEF AppendEvent
  <2>2. last' \in [Items -> States]
    BY <2>1 DEF ListOK
  <2>3. IsList(Without({i}), Listed \ {i})
    BY ListWithout DEF ListOK, Without
  <2>4. CASE to \in PendingStates
    <3>1. Listed' = (Listed \ {i}) \cup {i}
      BY <2>1, <2>4 DEF ListOK, Listed, Pending
    <3>2. IsList(Without({i}) \cup ((Listed \ {i}) \X {i}) \cup {}, (Listed \ {i}) \cup {i})
      BY <2>3, ShortLists, ListAfter
    <3>3. order' = Without({i}) \cup ((Listed \ {i}) \X {i}) \cup {}
      BY <2>1, <2>4 DEF Touched
    <3> QED
      BY <2>2, <3>1, <3>2, <3>3 DEF ListOK
  <2>5. CASE to \notin PendingStates
    <3>1. Listed' = Listed \ {i}
      BY <2>1, <2>5 DEF ListOK, Listed, Pending
    <3> QED
      BY <2>1, <2>2, <2>3, <2>5, <3>1 DEF ListOK, Touched
  <2> QED
    BY <2>4, <2>5
<1> QED
  BY <1>1, <1>2

\* What a step leaves alone keeps its type.
LEMMA FrameTyped ==
  /\ CheckoutOK /\ UNCHANGED checkout => CheckoutOK'
  /\ RemoteOK /\ UNCHANGED remote => RemoteOK'
  /\ ListOK /\ UNCHANGED <<last, order>> => ListOK'
  /\ ProofOK /\ UNCHANGED proof => ProofOK'
  /\ EnvOK /\ UNCHANGED env => EnvOK'
  /\ NoDuplicatePRs /\ UNCHANGED remote => NoDuplicatePRs'
BY DEF checkout, remote, env, CheckoutOK, RemoteOK, ListOK, Listed, Pending, ProofOK, EnvOK, NoDuplicatePRs

\* A command that goes to a step, or that is over.
LEMMA OpTyped ==
  ASSUME OpOK, ItemsKnown, NEW p \in Procs, NEW o \in Cmds,
         o.pc \notin {"idle", "settle", "pick"} => o.item \in Items,
         op' = [op EXCEPT ![p] = o]
  PROVE  OpOK' /\ ItemsKnown'
BY DEF OpOK, ItemsKnown

\* A command that is over.
LEMMA ReturnTyped ==
  ASSUME OpOK, ItemsKnown, NEW p \in Procs, Return(p)
  PROVE  OpOK' /\ ItemsKnown'
BY OpTyped, EmptyTyped DEF Return, Idle

\* A command that goes on with the item it has, or to a step that needs none.
LEMMA GotoTyped ==
  ASSUME OpOK, ItemsKnown, NEW p \in Procs,
         NEW pc \in {"settle", "pick", "verify", "inspect", "pull", "open", "attach", "mark"},
         pc \in {"settle", "pick"} \/ op[p].pc \notin {"idle", "settle", "pick"}, Goto(p, pc)
  PROVE  OpOK' /\ ItemsKnown'
<1>1. op[p] \in Cmds
  BY DEF OpOK
<1> DEFINE o == [op[p] EXCEPT !.pc = pc]
<1>2. o \in Cmds /\ o.pc = pc /\ o.item = op[p].item
  BY <1>1 DEF Cmds
<1>3. op' = [op EXCEPT ![p] = o]
  BY DEF Goto
<1> HIDE DEF o
<1> QED
  BY <1>2, <1>3, OpTyped DEF ItemsKnown

\* A command that fails with its item.
LEMMA FailTyped ==
  ASSUME OpOK, ItemsKnown, ListOK, ProofOK, EnvOK, NEW p \in Procs,
         op[p].pc \notin {"idle", "settle", "pick"}, Fail(p)
  PROVE  OpOK' /\ ItemsKnown' /\ ListOK' /\ ProofOK' /\ EnvOK'
<1>1. op[p].item \in Items
  BY DEF ItemsKnown
<1>2. ListOK'
  BY <1>1, EventTyped DEF Fail, States
<1> QED
  BY <1>2, ReturnTyped, FrameTyped DEF Fail

-----------------------------------------------------------------------------
(* Steps of a command *)

\* A new record is written.
LEMMA AddWriteKeeps ==
  ASSUME RecordsInv, NEW p \in Procs, NEW r \in Records, AddWrite(p, r)
  PROVE  RecordsInv'
<1>1. CheckoutOK /\ RemoteOK /\ ListOK /\ ProofOK /\ OpOK /\ EnvOK /\ ItemsKnown /\ NoDuplicatePRs
  BY TypeParts DEF RecordsInv
<1>2. CheckoutOK'
  BY <1>1, EmptyTyped DEF AddWrite, CheckoutOK, Trees
<1> DEFINE o == [op[p] EXCEPT !.pc = "queue", !.item = <<r, 1>>]
<1>3. o \in Cmds /\ o.item \in Items
  BY <1>1, EmptyTyped DEF OpOK, Cmds, Items
<1>4. op' = [op EXCEPT ![p] = o]
  BY DEF AddWrite
<1> HIDE DEF o
<1>5. OpOK' /\ ItemsKnown'
  BY <1>1, <1>3, <1>4, OpTyped
<1>6. RemoteOK' /\ ListOK' /\ ProofOK' /\ NoDuplicatePRs'
  BY <1>1, FrameTyped DEF AddWrite, outbox
<1>7. EnvOK'
  BY <1>1, ConstantsAssumption DEF AddWrite, EnvOK
<1> QED
  BY <1>2, <1>5, <1>6, <1>7, TypePartsNext DEF RecordsInv

\* It is queued.
LEMMA AddQueueKeeps ==
  ASSUME RecordsInv, NEW p \in Procs, AddQueue(p)
  PROVE  RecordsInv'
<1>1. CheckoutOK /\ RemoteOK /\ ListOK /\ ProofOK /\ OpOK /\ EnvOK /\ ItemsKnown /\ NoDuplicatePRs
  BY TypeParts DEF RecordsInv
<1>2. CheckoutOK' /\ RemoteOK' /\ ProofOK' /\ EnvOK' /\ NoDuplicatePRs'
  BY <1>1, FrameTyped DEF AddQueue
<1> DEFINE i == <<op[p].item[1], file[op[p].item[1]]>>
           o == [op[p] EXCEPT !.pc = Publisher(i), !.item = i]
<1>3. CASE i \in Items /\ ValidTransition(last[i], "queued")
  <2>1. AppendEvent(i, "queued") /\ op' = [op EXCEPT ![p] = o]
    BY <1>3 DEF AddQueue
  <2>2. o \in Cmds /\ o.item \in Items
    BY <1>1, <1>3 DEF OpOK, Cmds, Publisher
  <2>3. ListOK'
    <3>1. i \in Items /\ "queued" \in States \ {"none"}
      BY <1>3 DEF States
    <3> HIDE DEF i
    <3> QED
      BY <1>1, <2>1, <3>1, EventTyped
  <2> HIDE DEF o
  <2>4. OpOK' /\ ItemsKnown'
    BY <1>1, <2>1, <2>2, OpTyped
  <2> QED
    BY <1>2, <2>3, <2>4, TypePartsNext DEF RecordsInv
<1>4. CASE ~(i \in Items /\ ValidTransition(last[i], "queued"))
  <2>1. Return(p) /\ UNCHANGED <<last, order>>
    BY <1>4 DEF AddQueue
  <2> QED
    BY <1>1, <1>2, <2>1, ReturnTyped, FrameTyped, TypePartsNext DEF RecordsInv
<1> QED
  BY <1>3, <1>4

\* What Git has and the log lacks is queued.
LEMMA FlushReconcileKeeps ==
  ASSUME RecordsInv, NEW p \in Procs, FlushReconcile(p)
  PROVE  RecordsInv'
<1>1. CheckoutOK /\ RemoteOK /\ ListOK /\ ProofOK /\ OpOK /\ EnvOK /\ ItemsKnown /\ NoDuplicatePRs
  BY TypeParts DEF RecordsInv
<1>2. CheckoutOK' /\ RemoteOK' /\ ProofOK' /\ EnvOK' /\ NoDuplicatePRs'
  BY <1>1, FrameTyped DEF FlushReconcile
<1>3. OpOK' /\ ItemsKnown'
  BY <1>1, GotoTyped DEF FlushReconcile
<1>4. PICK list \in Lists(Unqueued) : order' = order \cup (Listed \X Unqueued) \cup list
  BY DEF FlushReconcile
<1>5. last' = [i \in Items |-> IF i \in Unqueued THEN "queued" ELSE last[i]]
  BY DEF FlushReconcile
<1>6. Unqueued \subseteq Items /\ \A i \in Unqueued : last[i] = "none"
  <2> SUFFICES ASSUME NEW i \in Unqueued PROVE i \in Items /\ last[i] = "none"
    OBVIOUS
  <2>1. PICK r \in Records : i = <<r, file[r]>> /\ file[r] # 0
    BY DEF Unqueued, Dirty
  <2>2. file[r] \in 1..MaxV
    BY <1>1, <2>1 DEF CheckoutOK, Trees, Versions
  <2>3. i \in Items
    BY <2>1, <2>2 DEF Items
  <2> QED
    BY <2>3 DEF Unqueued
<1>7. Listed \cap Unqueued = {} /\ Listed' = Listed \cup Unqueued
  BY <1>5, <1>6 DEF Listed, Pending, PendingStates
<1>8. last' \in [Items -> States]
  BY <1>1, <1>5 DEF ListOK, States
<1>9. IsList(list, Unqueued) /\ IsList(order, Listed)
  BY <1>1, <1>4 DEF Lists, ListOK
<1>10. IsList(order', Listed')
  BY <1>4, <1>7, <1>9, ListAfter
<1>11. ListOK'
  BY <1>8, <1>10 DEF ListOK
<1> QED
  BY <1>2, <1>3, <1>11, TypePartsNext DEF RecordsInv

\* Merged items are recorded as such: they were no longer in the list.
LEMMA FlushSettleKeeps ==
  ASSUME RecordsInv, NEW p \in Procs, FlushSettle(p)
  PROVE  RecordsInv'
<1>1. CheckoutOK /\ RemoteOK /\ ListOK /\ ProofOK /\ OpOK /\ EnvOK /\ ItemsKnown /\ NoDuplicatePRs
  BY TypeParts DEF RecordsInv
<1>2. CheckoutOK' /\ RemoteOK' /\ ProofOK' /\ EnvOK' /\ NoDuplicatePRs'
  BY <1>1, FrameTyped DEF FlushSettle
<1>3. OpOK' /\ ItemsKnown'
  BY <1>1, GotoTyped DEF FlushSettle
<1>4. PICK S \in SUBSET {i \in Items : Mergeable(i)} :
        last' = [i \in Items |-> IF i \in S THEN "merged" ELSE last[i]]
  BY DEF FlushSettle
<1>5. \A i \in S : last[i] = "submitted"
  BY DEF Mergeable
<1>6. Listed' = Listed /\ order' = order /\ last' \in [Items -> States]
  BY <1>1, <1>4, <1>5 DEF FlushSettle, Listed, Pending, PendingStates, ListOK, States
<1>7. ListOK'
  BY <1>1, <1>6 DEF ListOK
<1> QED
  BY <1>2, <1>3, <1>7, TypePartsNext DEF RecordsInv

\* The first item of the list is taken up.
LEMMA FlushPickKeeps ==
  ASSUME RecordsInv, NEW p \in Procs, FlushPick(p)
  PROVE  RecordsInv'
<1>1. CheckoutOK /\ RemoteOK /\ ListOK /\ ProofOK /\ OpOK /\ EnvOK /\ ItemsKnown /\ NoDuplicatePRs
  BY TypeParts DEF RecordsInv
<1>2. CheckoutOK' /\ RemoteOK' /\ ListOK' /\ ProofOK' /\ EnvOK' /\ NoDuplicatePRs'
  BY <1>1, FrameTyped DEF FlushPick, outbox
<1>3. CASE Return(p)
  BY <1>1, <1>2, <1>3, ReturnTyped, TypePartsNext DEF RecordsInv
<1>4. CASE ~Return(p)
  <2>1. PICK i \in Listed : op' = [op EXCEPT ![p].pc = Publisher(i), ![p].item = i]
    BY <1>4 DEF FlushPick
  <2> DEFINE o == [op[p] EXCEPT !.pc = Publisher(i), !.item = i]
  <2>2. o \in Cmds /\ o.item \in Items /\ op' = [op EXCEPT ![p] = o]
    BY <1>1, <2>1 DEF OpOK, Cmds, Listed, Publisher
  <2> HIDE DEF o
  <2>3. OpOK' /\ ItemsKnown'
    BY <1>1, <2>2, OpTyped
  <2> QED
    BY <1>2, <2>3, TypePartsNext DEF RecordsInv
<1> QED
  BY <1>3, <1>4

\* Steps that end with a failed attempt or go on, and leave the checkout and
\* the provider alone.
LEMMA GatesKeep ==
  ASSUME RecordsInv, NEW p \in Procs,
         \/ Verified(p) \/ InspectInbound(p)
         \/ Refused(p) \/ InspectHeld(p) \/ PullRefused(p) \/ OpenDenied(p) \/ AcceptRefused(p)
  PROVE  RecordsInv'
<1>1. CheckoutOK /\ RemoteOK /\ ListOK /\ ProofOK /\ OpOK /\ EnvOK /\ ItemsKnown /\ NoDuplicatePRs
  BY TypeParts DEF RecordsInv
<1>2. CASE Verified(p) \/ InspectInbound(p)
  <2>1. CheckoutOK' /\ RemoteOK' /\ ListOK' /\ ProofOK' /\ EnvOK' /\ NoDuplicatePRs'
    BY <1>1, <1>2, FrameTyped DEF Verified, InspectInbound, outbox
  <2>2. OpOK' /\ ItemsKnown'
    BY <1>1, <1>2, GotoTyped DEF Verified, InspectInbound
  <2> QED
    BY <2>1, <2>2, TypePartsNext DEF RecordsInv
<1>3. CASE Refused(p) \/ InspectHeld(p) \/ PullRefused(p) \/ OpenDenied(p) \/ AcceptRefused(p)
  <2>1. /\ Fail(p) /\ op[p].pc \notin {"idle", "settle", "pick"}
        /\ UNCHANGED <<checkout, remote>>
    BY <1>3 DEF Refused, InspectHeld, PullRefused, OpenDenied, AcceptRefused
  <2>2. CheckoutOK' /\ RemoteOK' /\ NoDuplicatePRs'
    BY <1>1, <2>1, FrameTyped
  <2> QED
    BY <1>1, <2>1, <2>2, FailTyped, TypePartsNext DEF RecordsInv
<1> QED
  BY <1>2, <1>3

\* What git leaves of the checkout when it goes to a branch.
LEMMA CheckoutTyped ==
  ASSUME CheckoutOK, RemoteOK, Checkout(0)
  PROVE  CheckoutOK'
<1>1. 0 \in Branches /\ tree[0] \in Trees /\ rev[0] \in Nat
  BY EmptyTyped DEF RemoteOK
<1> QED
  BY <1>1 DEF Checkout, CheckoutOK, Trees

\* A dirty checkout goes on to the publisher.
LEMMA OutboundKeeps ==
  ASSUME RecordsInv, NEW p \in Procs, InspectOutbound(p)
  PROVE  RecordsInv'
<1>1. CheckoutOK /\ RemoteOK /\ ListOK /\ ProofOK /\ OpOK /\ EnvOK /\ ItemsKnown /\ NoDuplicatePRs
  BY TypeParts DEF RecordsInv
<1>2. CheckoutOK' /\ RemoteOK' /\ ListOK' /\ ProofOK' /\ EnvOK' /\ NoDuplicatePRs'
  BY <1>1, FrameTyped DEF InspectOutbound, outbox
<1> DEFINE o == [op[p] EXCEPT !.pc = "open", !.branch = branch, !.head = head, !.dirty = Dirty]
<1>3. o \in Cmds /\ o.item = op[p].item /\ op' = [op EXCEPT ![p] = o]
  BY <1>1 DEF InspectOutbound, OpOK, Cmds, CheckoutOK, Dirty
<1>4. op[p].item \in Items
  BY <1>1 DEF InspectOutbound, ItemsKnown
<1> HIDE DEF o
<1>5. OpOK' /\ ItemsKnown'
  BY <1>1, <1>3, <1>4, OpTyped
<1> QED
  BY <1>2, <1>5, TypePartsNext DEF RecordsInv

\* One that was found clean is pulled.
LEMMA PullKeeps ==
  ASSUME RecordsInv, NEW p \in Procs, Pull(p)
  PROVE  RecordsInv'
<1>1. CheckoutOK /\ RemoteOK /\ ListOK /\ ProofOK /\ OpOK /\ EnvOK /\ ItemsKnown /\ NoDuplicatePRs
  BY TypeParts DEF RecordsInv
<1>2. CheckoutOK' /\ RemoteOK' /\ NoDuplicatePRs'
  BY <1>1, CheckoutTyped, FrameTyped DEF Pull
<1>3. Fail(p) /\ op[p].pc \notin {"idle", "settle", "pick"}
  BY DEF Pull
<1> QED
  BY <1>1, <1>2, <1>3, FailTyped, TypePartsNext DEF RecordsInv

Changes == [base : Branches, from : Trees, title : {"record", "policy"}, tree : Trees]

\* A change is proposed: under the pull request it has already or, when there
\* is none, a new one, so that no two are open for the same change.
LEMMA ProposeKeeps ==
  ASSUME RemoteOK, NoDuplicatePRs, NEW c \in Changes, NEW k \in PRs, Propose(k, c)
  PROVE  RemoteOK' /\ NoDuplicatePRs'
<1> DEFINE new == [NoPR EXCEPT !.st = "open", !.base = c.base, !.from = c.from, !.title = c.title]
<1>1. CASE SamePR(k, c) /\ UNCHANGED remote
  BY <1>1, FrameTyped
<1>2. CASE ~(SamePR(k, c) /\ UNCHANGED remote)
  <2>1. new \in PullRequests /\ new.st = "open" /\ new.base = c.base /\ new.from = c.from
        /\ new.title = c.title /\ c.tree \in Trees
    BY EmptyTyped DEF PullRequests, Changes, NoPR
  <2>2. /\ \A j \in PRs : ~SamePR(j, c)
        /\ prs' = [prs EXCEPT ![k] = new] /\ tree' = [tree EXCEPT ![k] = c.tree]
        /\ pushed' \subseteq pushed \cup Items
        /\ UNCHANGED <<rev, landed>>
    BY <1>2 DEF Propose
  <2> HIDE DEF new
  <2>3. RemoteOK'
    BY <2>1, <2>2, EmptyTyped DEF RemoteOK
  <2>4. \A j \in PRs : j # k => prs'[j] = prs[j] /\ tree'[j] = tree[j] /\ rev'[j] = rev[j]
    BY <2>2, EmptyTyped DEF RemoteOK
  <2>5. prs'[k] = new /\ tree'[k] = c.tree
    BY <2>2, EmptyTyped DEF RemoteOK
  <2>6. \A j \in PRs : j # k /\ prs'[j].st = "open" =>
          \/ prs'[j].base # new.base \/ prs'[j].from # new.from
          \/ prs'[j].title # new.title \/ tree'[j] # c.tree
    BY <2>1, <2>2, <2>4 DEF SamePR
  <2>7. NoDuplicatePRs'
    BY <2>4, <2>5, <2>6 DEF NoDuplicatePRs
  <2> QED
    BY <2>3, <2>7
<1> QED
  BY <1>1, <1>2

\* What a command proposes is a change.
LEMMA ChangeTyped ==
  ASSUME CheckoutOK, RemoteOK, OpOK, ItemsKnown, NEW p \in Procs
  PROVE  /\ Change(p) \in Changes
         /\ op[p].pc = "accept" =>
              [base |-> 0, from |-> tree[0], title |-> "policy",
               tree |-> [tree[0] EXCEPT ![op[p].item[1]] = op[p].item[2]]] \in Changes
<1>1. op[p] \in Cmds /\ tree[0] \in Trees
  BY EmptyTyped DEF OpOK, RemoteOK
<1>2. Put(op[p].head, op[p].dirty) \in Trees
  BY <1>1 DEF Put, Trees, Cmds, CheckoutOK
<1>3. ASSUME op[p].pc = "accept"
      PROVE  [tree[0] EXCEPT ![op[p].item[1]] = op[p].item[2]] \in Trees
  <2>1. op[p].item \in Items
    BY <1>3 DEF ItemsKnown
  <2>2. op[p].item[1] \in Records /\ op[p].item[2] \in Versions
    BY <2>1 DEF Items, Versions
  <2> QED
    BY <1>1, <2>2 DEF Trees
<1> QED
  BY <1>1, <1>2, <1>3, EmptyTyped DEF Change, Changes, Cmds

\* A pull request is opened for the changes of the checkout or for an
\* acceptance alone, or its answer is lost.
LEMMA OpenKeeps ==
  ASSUME RecordsInv, NEW p \in Procs, NEW c \in Changes, NEW k \in PRs, NEW o \in Cmds,
         op[p].pc \in {"open", "accept"}, Propose(k, c), UNCHANGED <<checkout, env>>,
         o.item = op[p].item,
         \/ op' = [op EXCEPT ![p] = o] /\ UNCHANGED outbox
         \/ AppendEvent(op[p].item, "attempt-failed") /\ Return(p) /\ UNCHANGED proof
  PROVE  RecordsInv'
<1>1. CheckoutOK /\ RemoteOK /\ ListOK /\ ProofOK /\ OpOK /\ EnvOK /\ ItemsKnown /\ NoDuplicatePRs
  BY TypeParts DEF RecordsInv
<1>2. CheckoutOK' /\ EnvOK' /\ RemoteOK' /\ NoDuplicatePRs'
  BY <1>1, FrameTyped, ProposeKeeps
<1>3. op[p].item \in Items
  BY <1>1 DEF ItemsKnown
<1>4. CASE op' = [op EXCEPT ![p] = o] /\ UNCHANGED outbox
  <2>1. ListOK' /\ ProofOK'
    BY <1>1, <1>4, FrameTyped DEF outbox
  <2>2. OpOK' /\ ItemsKnown'
    BY <1>1, <1>3, <1>4, OpTyped
  <2> QED
    BY <1>2, <2>1, <2>2, TypePartsNext DEF RecordsInv
<1>5. CASE AppendEvent(op[p].item, "attempt-failed") /\ Return(p) /\ UNCHANGED proof
  <2>1. ListOK' /\ ProofOK'
    BY <1>1, <1>3, <1>5, EventTyped, FrameTyped DEF States
  <2>2. OpOK' /\ ItemsKnown'
    BY <1>1, <1>5, ReturnTyped
  <2> QED
    BY <1>2, <2>1, <2>2, TypePartsNext DEF RecordsInv
<1> QED
  BY <1>4, <1>5

\* A record's pull request is opened.
LEMMA OpenPRKeeps ==
  ASSUME RecordsInv, NEW p \in Procs, OpenPR(p)
  PROVE  RecordsInv'
<1>1. CheckoutOK /\ RemoteOK /\ OpOK /\ ItemsKnown
  BY TypeParts DEF RecordsInv
<1>2. PICK c : c = Change(p)
  OBVIOUS
<1>3. c \in Changes
  BY <1>1, <1>2, ChangeTyped
<1>4. PICK k \in PRs :
        /\ Propose(k, c)
        /\ \/ op' = [op EXCEPT ![p].pc = "attach", ![p].commit = c.tree, ![p].pr = k]
              /\ UNCHANGED outbox
           \/ AppendEvent(op[p].item, "attempt-failed") /\ Return(p) /\ UNCHANGED proof
  BY <1>2 DEF OpenPR
<1> DEFINE o == [op[p] EXCEPT !.pc = "attach", !.commit = c.tree, !.pr = k]
<1>5. o \in Cmds /\ o.item = op[p].item
  BY <1>1, <1>3, EmptyTyped DEF OpOK, Cmds, Changes
<1>6. [op EXCEPT ![p].pc = "attach", ![p].commit = c.tree, ![p].pr = k] = [op EXCEPT ![p] = o]
  OBVIOUS
<1> HIDE DEF o
<1>7. UNCHANGED <<checkout, env>> /\ op[p].pc = "open"
  BY DEF OpenPR
<1> QED
  BY <1>3, <1>4, <1>5, <1>6, <1>7, OpenKeeps

\* An acceptance's pull request is opened.
LEMMA AcceptOpenKeeps ==
  ASSUME RecordsInv, NEW p \in Procs, AcceptOpen(p)
  PROVE  RecordsInv'
<1>1. CheckoutOK /\ RemoteOK /\ OpOK /\ ItemsKnown /\ op[p].pc = "accept"
  BY TypeParts DEF RecordsInv, AcceptOpen
<1>2. PICK c : c = [base |-> 0, from |-> tree[0], title |-> "policy",
                    tree |-> [tree[0] EXCEPT ![op[p].item[1]] = op[p].item[2]]]
  OBVIOUS
<1>3. c \in Changes
  BY <1>1, <1>2, ChangeTyped
<1>4. PICK k \in PRs :
        /\ Propose(k, c)
        /\ \/ op' = [op EXCEPT ![p].pc = "submit", ![p].pr = k] /\ UNCHANGED outbox
           \/ AppendEvent(op[p].item, "attempt-failed") /\ Return(p) /\ UNCHANGED proof
  BY <1>2 DEF AcceptOpen
<1> DEFINE o == [op[p] EXCEPT !.pc = "submit", !.pr = k]
<1>5. o \in Cmds /\ o.item = op[p].item
  BY <1>1, EmptyTyped DEF OpOK, Cmds
<1>6. [op EXCEPT ![p].pc = "submit", ![p].pr = k] = [op EXCEPT ![p] = o]
  OBVIOUS
<1> HIDE DEF o
<1>7. UNCHANGED <<checkout, env>>
  BY DEF AcceptOpen
<1> QED
  BY <1>1, <1>3, <1>4, <1>5, <1>6, <1>7, OpenKeeps

\* The outcome of an acceptance's publication is recorded.
LEMMA AcceptEndKeeps ==
  ASSUME RecordsInv, NEW p \in Procs, AcceptLanded(p) \/ AcceptSubmit(p)
  PROVE  RecordsInv'
<1>1. CheckoutOK /\ RemoteOK /\ ListOK /\ ProofOK /\ OpOK /\ EnvOK /\ ItemsKnown /\ NoDuplicatePRs
  BY TypeParts DEF RecordsInv
<1>2. CheckoutOK' /\ RemoteOK' /\ EnvOK' /\ NoDuplicatePRs'
  BY <1>1, FrameTyped DEF AcceptLanded, AcceptSubmit
<1>3. OpOK' /\ ItemsKnown'
  BY <1>1, ReturnTyped DEF AcceptLanded, AcceptSubmit
<1>4. op[p].item \in Items /\ op[p].pr \in 0..MaxPR
  BY <1>1 DEF AcceptLanded, AcceptSubmit, ItemsKnown, OpOK, Cmds
<1>5. ProofOK'
  BY <1>1, <1>4 DEF AcceptLanded, AcceptSubmit, ProofOK
<1>6. \E to \in {"submitted", "merged"} : AppendEvent(op[p].item, to)
  BY DEF AcceptLanded, AcceptSubmit
<1>7. ListOK'
  BY <1>1, <1>4, <1>6, EventTyped DEF States
<1> QED
  BY <1>2, <1>3, <1>5, <1>7, TypePartsNext DEF RecordsInv

\* The checkout moves to the topic branch.
LEMMA AttachKeeps ==
  ASSUME RecordsInv, NEW p \in Procs, Attach(p)
  PROVE  RecordsInv'
<1>1. CheckoutOK /\ RemoteOK /\ ListOK /\ ProofOK /\ OpOK /\ EnvOK /\ ItemsKnown /\ NoDuplicatePRs
  BY TypeParts DEF RecordsInv
<1>2. RemoteOK' /\ ListOK' /\ ProofOK' /\ EnvOK' /\ NoDuplicatePRs'
  BY <1>1, FrameTyped DEF Attach, outbox
<1>3. OpOK' /\ ItemsKnown'
  BY <1>1, GotoTyped DEF Attach
<1>4. op[p] \in Cmds
  BY <1>1 DEF OpOK
<1>5. op[p].commit \in Trees /\ op[p].pr \in Branches
  BY <1>4, EmptyTyped DEF Cmds
<1>6. CheckoutOK'
  BY <1>1, <1>5 DEF Attach, CheckoutOK
<1> QED
  BY <1>2, <1>3, <1>6, TypePartsNext DEF RecordsInv

\* The items that the pull request covers leave the list, or go to its end.
LEMMA MarkKeeps ==
  ASSUME RecordsInv, NEW p \in Procs, Mark(p)
  PROVE  RecordsInv'
<1>1. CheckoutOK /\ RemoteOK /\ ListOK /\ ProofOK /\ OpOK /\ EnvOK /\ ItemsKnown /\ NoDuplicatePRs
  BY TypeParts DEF RecordsInv
<1>2. CheckoutOK' /\ RemoteOK' /\ NoDuplicatePRs'
  BY <1>1, FrameTyped DEF Mark
<1>3. OpOK' /\ ItemsKnown'
  BY <1>1, ReturnTyped DEF Mark
<1> DEFINE covered == {i \in Listed : i[1] \in op[p].dirty \/ i = op[p].item}
<1>4. PICK marked \in SUBSET covered :
        LET exact == {i \in marked : Exact(i)}
            failed == marked \ exact
        IN /\ crashes' = IF marked = covered THEN crashes ELSE crashes + 1
           /\ crashes' <= MaxCrashes
           /\ last' = [i \in Items |-> IF i \in exact THEN "submitted"
                                       ELSE IF i \in failed THEN "attempt-failed"
                                       ELSE last[i]]
           /\ proof' = [i \in Items |-> IF i \in exact THEN op[p].pr ELSE proof[i]]
           /\ \E list \in Lists(failed) :
                order' = Without(marked) \cup ((Listed \ marked) \X failed) \cup list
  BY DEF Mark
<1> DEFINE exact == {i \in marked : Exact(i)}
           failed == marked \ exact
<1>5. marked \subseteq Listed
  OBVIOUS
<1>6. /\ crashes' = IF marked = covered THEN crashes ELSE crashes + 1
      /\ crashes' <= MaxCrashes
  BY <1>4
<1>7. last' = [i \in Items |-> IF i \in exact THEN "submitted"
                               ELSE IF i \in failed THEN "attempt-failed" ELSE last[i]]
  BY <1>4
<1>8. proof' = [i \in Items |-> IF i \in exact THEN op[p].pr ELSE proof[i]]
  BY <1>4
<1>9. PICK list \in Lists(failed) :
        order' = Without(marked) \cup ((Listed \ marked) \X failed) \cup list
  BY <1>4
<1>10. exact \cup failed = marked /\ exact \cap failed = {} /\ failed \subseteq marked
  OBVIOUS
<1>11. op[p].pr \in 0..MaxPR
  BY <1>1 DEF OpOK, Cmds
<1>12. EnvOK'
  <2>1. crashes \in Nat /\ crashes' \in 0..MaxCrashes
    BY <1>1, <1>6, ConstantsAssumption DEF EnvOK
  <2> QED
    BY <1>1, <2>1 DEF EnvOK, Mark
<1> HIDE DEF covered, exact, failed
<1>13. ProofOK'
  BY <1>1, <1>8, <1>11 DEF ProofOK
<1>14. last' \in [Items -> States]
  BY <1>1, <1>7 DEF ListOK, States
<1>15. Listed' = (Listed \ marked) \cup failed
  BY <1>5, <1>7, <1>10 DEF Listed, Pending, PendingStates
<1>16. IsList(Without(marked), Listed \ marked)
  BY <1>1, ListWithout DEF ListOK, Without
<1>17. IsList(list, failed)
  BY <1>9 DEF Lists
<1>18. (Listed \ marked) \cap failed = {}
  BY <1>10
<1>19. IsList(order', Listed')
  BY <1>9, <1>15, <1>16, <1>17, <1>18, ListAfter
<1>20. ListOK'
  BY <1>14, <1>19 DEF ListOK
<1> QED
  BY <1>2, <1>3, <1>12, <1>13, <1>20, TypePartsNext DEF RecordsInv

-----------------------------------------------------------------------------
(* Users, the provider, crashes *)

\* What users do to the checkout.
LEMMA UsersKeep ==
  ASSUME RecordsInv, ReturnToBase \/ \E r \in Records : Edit(r)
  PROVE  RecordsInv'
<1>1. CheckoutOK /\ RemoteOK /\ ListOK /\ ProofOK /\ OpOK /\ EnvOK /\ ItemsKnown /\ NoDuplicatePRs
  BY TypeParts DEF RecordsInv
<1>2. CASE ReturnToBase
  <2>1. CheckoutOK'
    BY <1>1, <1>2, CheckoutTyped DEF ReturnToBase
  <2>2. RemoteOK' /\ ListOK' /\ ProofOK' /\ EnvOK' /\ NoDuplicatePRs'
    BY <1>1, <1>2, FrameTyped DEF ReturnToBase, outbox
  <2>3. OpOK' /\ ItemsKnown'
    BY <1>1, <1>2 DEF ReturnToBase, OpOK, ItemsKnown
  <2> QED
    BY <2>1, <2>2, <2>3, TypePartsNext DEF RecordsInv
<1>3. ASSUME NEW r \in Records, Edit(r)
      PROVE  RecordsInv'
  <2>1. file[r] + 1 \in Versions
    BY <1>3, ConstantsAssumption DEF Edit, Versions
  <2>2. CheckoutOK'
    BY <1>1, <1>3, <2>1 DEF Edit, CheckoutOK, Trees
  <2>3. RemoteOK' /\ ListOK' /\ ProofOK' /\ NoDuplicatePRs'
    BY <1>1, <1>3, FrameTyped DEF Edit, outbox
  <2>4. OpOK' /\ ItemsKnown' /\ EnvOK'
    BY <1>1, <1>3, ConstantsAssumption DEF Edit, OpOK, ItemsKnown, EnvOK
  <2> QED
    BY <2>2, <2>3, <2>4, TypePartsNext DEF RecordsInv
<1> QED
  BY <1>2, <1>3

\* A pull request is merged or closed: one whose base is a topic branch moves
\* that branch, which then stands for no change that could be proposed again.
LEMMA ProviderKeeps ==
  ASSUME RecordsInv, NEW k \in PRs, MergePR(k) \/ ClosePR(k)
  PROVE  RecordsInv'
<1>1. CheckoutOK /\ RemoteOK /\ ListOK /\ ProofOK /\ OpOK /\ EnvOK /\ ItemsKnown /\ NoDuplicatePRs
  BY TypeParts DEF RecordsInv
<1>2. CheckoutOK' /\ ListOK' /\ ProofOK' /\ EnvOK'
  BY <1>1, FrameTyped DEF MergePR, ClosePR, outbox
<1>3. OpOK' /\ ItemsKnown'
  BY <1>1 DEF MergePR, ClosePR, OpOK, ItemsKnown
<1>4. prs[k] \in PullRequests /\ prs[k].base \in Branches
  BY <1>1 DEF RemoteOK, PullRequests
<1>5. CASE MergePR(k)
  <2> DEFINE b == prs[k].base
             merge == [r \in Records |-> IF tree[k][r] # prs[k].from[r] THEN tree[k][r] ELSE tree[b][r]]
             new == [prs[k] EXCEPT !.st = "merged", !.merge = merge, !.moved = rev[k] # 0]
  <2>1. tree[k] \in Trees /\ tree[b] \in Trees /\ rev[b] \in Nat
    BY <1>1, <1>4, EmptyTyped DEF RemoteOK
  <2>2. merge \in Trees
    BY <2>1 DEF Trees
  <2>3. new \in PullRequests /\ new.st = "merged"
    <3> HIDE DEF merge
    <3> QED
      BY <1>4, <2>2 DEF PullRequests
  <2>4. /\ prs' = [prs EXCEPT ![k] = new] /\ tree' = [tree EXCEPT ![b] = merge]
        /\ rev' = [rev EXCEPT ![b] = @ + 1]
    BY <1>5 DEF MergePR
  <2>5. landed' \subseteq Items /\ pushed' \subseteq Items
    BY <1>1, <1>5 DEF MergePR, RemoteOK
  <2> HIDE DEF merge, new, b
  <2>6. b \in Branches
    BY <1>4 DEF b
  <2>7. RemoteOK'
    BY <1>1, <2>1, <2>2, <2>3, <2>4, <2>5, <2>6 DEF RemoteOK
  <2>8. \A j \in PRs : prs'[j].st = "open" => prs'[j] = prs[j]
    BY <1>1, <2>3, <2>4 DEF RemoteOK
  <2>9. \A j \in PRs : rev'[j] = 0 => rev[j] = 0 /\ tree'[j] = tree[j]
    BY <1>1, <2>1, <2>4, <2>6, EmptyTyped DEF RemoteOK
  <2>10. NoDuplicatePRs'
    BY <1>1, <2>8, <2>9 DEF NoDuplicatePRs
  <2> QED
    BY <1>2, <1>3, <2>7, <2>10, TypePartsNext DEF RecordsInv
<1>6. CASE ClosePR(k)
  <2> DEFINE new == [prs[k] EXCEPT !.st = "closed"]
  <2>1. new \in PullRequests /\ new.st = "closed"
    BY <1>4 DEF PullRequests
  <2>2. prs' = [prs EXCEPT ![k] = new] /\ UNCHANGED <<tree, rev, landed, pushed>>
    BY <1>6 DEF ClosePR
  <2> HIDE DEF new
  <2>3. RemoteOK'
    BY <1>1, <2>1, <2>2 DEF RemoteOK
  <2>4. \A j \in PRs : prs'[j].st = "open" => prs'[j] = prs[j]
    BY <1>1, <2>1, <2>2 DEF RemoteOK
  <2>5. NoDuplicatePRs'
    BY <1>1, <2>2, <2>4 DEF NoDuplicatePRs
  <2> QED
    BY <1>2, <1>3, <2>3, <2>5, TypePartsNext DEF RecordsInv
<1> QED
  BY <1>5, <1>6

\* A command dies.
LEMMA CrashKeeps ==
  ASSUME RecordsInv, NEW p \in Procs, Crash(p)
  PROVE  RecordsInv'
<1>1. CheckoutOK /\ RemoteOK /\ ListOK /\ ProofOK /\ OpOK /\ EnvOK /\ ItemsKnown /\ NoDuplicatePRs
  BY TypeParts DEF RecordsInv
<1>2. CheckoutOK' /\ RemoteOK' /\ ListOK' /\ ProofOK' /\ NoDuplicatePRs'
  BY <1>1, FrameTyped DEF Crash, outbox
<1>3. OpOK' /\ ItemsKnown'
  BY <1>1, ReturnTyped DEF Crash
<1>4. EnvOK'
  BY <1>1, ConstantsAssumption DEF Crash, EnvOK
<1> QED
  BY <1>2, <1>3, <1>4, TypePartsNext DEF RecordsInv

-----------------------------------------------------------------------------
(* The theorems *)

\* In the beginning nothing is proposed and the list is empty.
LEMMA InitKeeps == Init => RecordsInv
<1> SUFFICES ASSUME Init PROVE RecordsInv
  OBVIOUS
<1>1. CheckoutOK /\ RemoteOK /\ ProofOK /\ EnvOK
  BY EmptyTyped, ConstantsAssumption DEF Init, CheckoutOK, RemoteOK, ProofOK, EnvOK
<1>2. OpOK /\ ItemsKnown
  BY EmptyTyped DEF Init, OpOK, ItemsKnown, Idle
<1>3. Listed = {} /\ last \in [Items -> States]
  BY DEF Init, Listed, Pending, PendingStates, States
<1>4. ListOK
  BY <1>3, ShortLists DEF Init, ListOK
<1>5. NoDuplicatePRs
  BY DEF Init, NoDuplicatePRs, NoPR
<1> QED
  BY <1>1, <1>2, <1>4, <1>5, TypeParts DEF RecordsInv

\* Every step keeps the invariant.
LEMMA NextKeeps == RecordsInv /\ [Next]_vars => RecordsInv'
<1> SUFFICES ASSUME RecordsInv, [Next]_vars PROVE RecordsInv'
  OBVIOUS
<1>1. CASE UNCHANGED vars
  <2>1. /\ UNCHANGED <<checkout, remote, proof, env, op>> /\ UNCHANGED <<last, order>>
    BY <1>1 DEF vars, outbox
  <2> QED
    BY <2>1, FrameTyped, TypeParts, TypePartsNext DEF RecordsInv, OpOK, ItemsKnown
<1>2. ASSUME NEW p \in Procs, Step(p) PROVE RecordsInv'
  BY <1>2, AddQueueKeeps, FlushReconcileKeeps, FlushSettleKeeps, FlushPickKeeps, GatesKeep,
     OutboundKeeps, PullKeeps, OpenPRKeeps, AttachKeeps, MarkKeeps, AcceptOpenKeeps,
     AcceptEndKeeps DEF Step
<1>3. ASSUME NEW p \in Procs, Crash(p) PROVE RecordsInv'
  BY <1>3, CrashKeeps
<1>4. ASSUME NEW p \in Adders, NEW r \in Records, AddWrite(p, r) PROVE RecordsInv'
  BY <1>4, AddWriteKeeps DEF Procs
<1>5. CASE ReturnToBase \/ \E r \in Records : Edit(r)
  BY <1>5, UsersKeep
<1>6. ASSUME NEW k \in PRs, MergePR(k) \/ ClosePR(k) PROVE RecordsInv'
  BY <1>6, ProviderKeeps
<1> QED
  BY <1>1, <1>2, <1>3, <1>4, <1>5, <1>6 DEF Next

\* The types of the checkout, the provider, the outbox and the commands, a
\* publishing command's item and the pull requests' being distinct.
THEOREM RecordsInvariant == Spec => []RecordsInv
BY InitKeeps, NextKeeps, PTL DEF Spec

\* Every variable keeps its type, and the list of pending items is a list: each
\* once, none missing.
THEOREM TypeCorrect == Spec => []TypeOK
<1>1. RecordsInv => TypeOK
  BY DEF RecordsInv
<1> QED
  BY <1>1, RecordsInvariant, PTL

\* Retries, lost answers and overlapping commands open no second pull request
\* for the same change (governance_pr.go:184).
THEOREM ChangesAreProposedOnce == Spec => []NoDuplicatePRs
<1>1. RecordsInv => NoDuplicatePRs
  BY DEF RecordsInv
<1> QED
  BY <1>1, RecordsInvariant, PTL

-----------------------------------------------------------------------------
(* Local work *)

\* Everything in a tree has been on a remote branch.
Published(t) == \A r \in Records : t[r] # 0 => <<r, t[r]>> \in pushed

\* So have HEAD, the remote branches and the commit that HEAD is about to move
\* to: git and the publisher commit nothing locally that is not proven remote.
CommitsPublished ==
  /\ Published(head)
  /\ \A b \in Branches : Published(tree[b])
  /\ \A p \in Procs : op[p].pc = "attach" => Published(op[p].commit)

WorkInv == RecordsInv /\ CommitsPublished

\* What has been pushed stays so.
LEMMA PublishedStays ==
  ASSUME NEW t, Published(t), pushed \subseteq pushed'
  PROVE  \A r \in Records : t[r] # 0 => <<r, t[r]>> \in pushed'
BY DEF Published

\* The steps that move HEAD, a remote branch or a command to the move of HEAD.
Moving(p) == OpenPR(p) \/ AcceptOpen(p) \/ Attach(p) \/ Pull(p)

\* A step of a command that does none of these.
LEMMA OtherSteps ==
  ASSUME RecordsInv, NEW p \in Procs, Step(p) \/ Crash(p), ~Moving(p)
  PROVE  /\ UNCHANGED <<checkout, remote>>
         /\ \A q \in Procs : op'[q].pc = "attach" => op'[q] = op[q]
<1>1. op \in [Procs -> Cmds]
  BY TypeParts DEF RecordsInv, OpOK
<1>2. ASSUME NEW o, op' = [op EXCEPT ![p] = o], o.pc # "attach"
      PROVE  \A q \in Procs : op'[q].pc = "attach" => op'[q] = op[q]
  BY <1>1, <1>2
<1>3. ASSUME Return(p) PROVE \A q \in Procs : op'[q].pc = "attach" => op'[q] = op[q]
  BY <1>2, <1>3 DEF Return, Idle
<1>4. ASSUME NEW pc \in {"settle", "pick", "inspect", "pull", "mark"}, Goto(p, pc)
      PROVE  \A q \in Procs : op'[q].pc = "attach" => op'[q] = op[q]
  BY <1>1, <1>4 DEF Goto, Cmds
<1>5. CASE AddQueue(p) \/ FlushPick(p)
  <2>1. UNCHANGED <<checkout, remote>>
    BY <1>5 DEF AddQueue, FlushPick
  <2>2. ASSUME NEW i, op' = [op EXCEPT ![p].pc = Publisher(i), ![p].item = i]
        PROVE  \A q \in Procs : op'[q].pc = "attach" => op'[q] = op[q]
    BY <1>1, <2>2 DEF Publisher, Cmds
  <2>3. (\E i : op' = [op EXCEPT ![p].pc = Publisher(i), ![p].item = i]) \/ Return(p)
    BY <1>5 DEF AddQueue, FlushPick
  <2> QED
    BY <1>3, <2>1, <2>2, <2>3
<1>6. CASE InspectOutbound(p)
  BY <1>1, <1>6 DEF InspectOutbound, Cmds
<1>7. CASE \/ FlushReconcile(p) \/ FlushSettle(p) \/ Verified(p) \/ InspectInbound(p)
  BY <1>4, <1>7 DEF FlushReconcile, FlushSettle, Verified, InspectInbound
<1>8. CASE \/ Refused(p) \/ InspectHeld(p) \/ PullRefused(p) \/ OpenDenied(p) \/ Mark(p)
           \/ AcceptRefused(p) \/ AcceptLanded(p) \/ AcceptSubmit(p) \/ Crash(p)
  BY <1>3, <1>8 DEF Refused, InspectHeld, PullRefused, OpenDenied, Mark, AcceptRefused,
     AcceptLanded, AcceptSubmit, Crash, Fail
<1> QED
  BY <1>5, <1>6, <1>7, <1>8 DEF Step, Moving

\* A proposal pushes what it proposes.
LEMMA ProposePublishes ==
  ASSUME RemoteOK, NEW c \in Changes, NEW k \in PRs, Propose(k, c),
         \A b \in Branches : Published(tree[b])
  PROVE  /\ pushed \subseteq pushed'
         /\ \A b \in Branches : Published(tree[b])'
         /\ \A r \in Records : c.tree[r] # 0 => <<r, c.tree[r]>> \in pushed'
<1>1. k \in Branches /\ tree \in [Branches -> Trees] /\ c.tree \in Trees
  BY EmptyTyped DEF RemoteOK, Changes
<1>2. CASE SamePR(k, c) /\ UNCHANGED remote
  BY <1>1, <1>2 DEF SamePR, Published, remote
<1>3. CASE ~(SamePR(k, c) /\ UNCHANGED remote)
  <2>1. /\ tree' = [tree EXCEPT ![k] = c.tree]
        /\ pushed' = pushed \cup ({<<r, c.tree[r]>> : r \in Records} \cap Items)
    BY <1>3 DEF Propose
  <2>2. \A r \in Records : c.tree[r] # 0 => <<r, c.tree[r]>> \in Items
    BY <1>1 DEF Trees, Versions, Items
  <2>3. \A r \in Records : c.tree[r] # 0 => <<r, c.tree[r]>> \in pushed'
    BY <2>1, <2>2
  <2>4. \A b \in Branches : tree'[b] = tree[b] \/ tree'[b] = c.tree
    BY <1>1, <2>1
  <2> QED
    BY <2>1, <2>3, <2>4 DEF Published
<1> QED
  BY <1>2, <1>3

\* Nothing is committed that has not been pushed.
LEMMA WorkStep == WorkInv /\ [Next]_vars => CommitsPublished'
<1> SUFFICES ASSUME WorkInv, [Next]_vars PROVE CommitsPublished'
  OBVIOUS
<1>1. RecordsInv /\ CheckoutOK /\ RemoteOK /\ OpOK /\ ItemsKnown /\ CommitsPublished
  BY TypeParts DEF WorkInv, RecordsInv
<1>2. ASSUME UNCHANGED <<head, tree, pushed>>,
             \A q \in Procs : op'[q].pc = "attach" => op'[q] = op[q]
      PROVE  CommitsPublished'
  BY <1>1, <1>2 DEF CommitsPublished, Published
<1>3. ASSUME UNCHANGED <<tree, pushed, op>>, head' = tree[0]
      PROVE  CommitsPublished'
  BY <1>1, <1>3, EmptyTyped DEF CommitsPublished, Published
<1>4. ASSUME NEW p \in Procs, NEW c \in Changes, NEW k \in PRs, NEW o \in Cmds,
             Propose(k, c), UNCHANGED checkout,
             o.pc = "attach" => o.commit = c.tree,
             op' = [op EXCEPT ![p] = o]
      PROVE  CommitsPublished'
  <2>1. /\ pushed \subseteq pushed'
        /\ \A b \in Branches : Published(tree[b])'
        /\ \A r \in Records : c.tree[r] # 0 => <<r, c.tree[r]>> \in pushed'
    BY <1>1, <1>4, ProposePublishes DEF CommitsPublished
  <2>2. Published(head)'
    BY <1>1, <1>4, <2>1 DEF CommitsPublished, Published, checkout
  <2>3. ASSUME NEW q \in Procs, op'[q].pc = "attach" PROVE Published(op[q].commit)'
    <3>1. CASE q = p
      <4>1. op'[q].commit = c.tree
        BY <1>1, <1>4, <2>3, <3>1 DEF OpOK
      <4> QED
        BY <2>1, <4>1 DEF Published
    <3>2. CASE q # p
      <4>1. op'[q] = op[q]
        BY <1>1, <1>4, <3>2 DEF OpOK
      <4> QED
        BY <1>1, <2>1, <2>3, <4>1 DEF CommitsPublished, Published
    <3> QED
      BY <3>1, <3>2
  <2> QED
    BY <2>1, <2>2, <2>3 DEF CommitsPublished
<1>5. ASSUME NEW p \in Procs, OpenPR(p) PROVE CommitsPublished'
  <2>1. PICK c : c = Change(p)
    OBVIOUS
  <2>2. c \in Changes
    BY <1>1, <2>1, ChangeTyped
  <2>3. PICK k \in PRs :
          /\ Propose(k, c)
          /\ \/ op' = [op EXCEPT ![p].pc = "attach", ![p].commit = c.tree, ![p].pr = k]
             \/ Return(p)
    BY <1>5, <2>1 DEF OpenPR
  <2>4. UNCHANGED checkout
    BY <1>5 DEF OpenPR
  <2>5. CASE Return(p)
    BY <1>4, <2>2, <2>3, <2>4, <2>5, EmptyTyped DEF Return, Idle
  <2>6. CASE op' = [op EXCEPT ![p].pc = "attach", ![p].commit = c.tree, ![p].pr = k]
    <3> DEFINE o == [op[p] EXCEPT !.pc = "attach", !.commit = c.tree, !.pr = k]
    <3>1. o \in Cmds /\ o.commit = c.tree /\ op' = [op EXCEPT ![p] = o]
      BY <1>1, <2>2, <2>6, EmptyTyped DEF OpOK, Cmds, Changes
    <3> HIDE DEF o
    <3> QED
      BY <1>4, <2>2, <2>3, <2>4, <3>1
  <2> QED
    BY <2>3, <2>5, <2>6
<1>6. ASSUME NEW p \in Procs, AcceptOpen(p) PROVE CommitsPublished'
  <2>1. PICK c : c = [base |-> 0, from |-> tree[0], title |-> "policy",
                      tree |-> [tree[0] EXCEPT ![op[p].item[1]] = op[p].item[2]]]
    OBVIOUS
  <2>2. c \in Changes
    BY <1>1, <1>6, <2>1, ChangeTyped DEF AcceptOpen
  <2>3. PICK k \in PRs :
          /\ Propose(k, c)
          /\ op' = [op EXCEPT ![p].pc = "submit", ![p].pr = k] \/ Return(p)
    BY <1>6, <2>1 DEF AcceptOpen
  <2>4. UNCHANGED checkout
    BY <1>6 DEF AcceptOpen
  <2>5. CASE Return(p)
    BY <1>4, <2>2, <2>3, <2>4, <2>5, EmptyTyped DEF Return, Idle
  <2>6. CASE op' = [op EXCEPT ![p].pc = "submit", ![p].pr = k]
    <3> DEFINE o == [op[p] EXCEPT !.pc = "submit", !.pr = k]
    <3>1. o \in Cmds /\ o.pc = "submit" /\ op' = [op EXCEPT ![p] = o]
      BY <1>1, <2>6, EmptyTyped DEF OpOK, Cmds
    <3> HIDE DEF o
    <3> QED
      BY <1>4, <2>2, <2>3, <2>4, <3>1
  <2> QED
    BY <2>3, <2>5, <2>6
<1>7. ASSUME NEW p \in Procs, Attach(p) PROVE CommitsPublished'
  <2>1. UNCHANGED <<tree, pushed>> /\ (head' = head \/ head' = op[p].commit) /\ op[p].pc = "attach"
    BY <1>7 DEF Attach, remote
  <2>2. \A q \in Procs : op'[q].pc = "attach" => op'[q] = op[q]
    BY <1>1, <1>7 DEF Attach, Goto, OpOK, Cmds
  <2> QED
    BY <1>1, <2>1, <2>2 DEF CommitsPublished, Published
<1>8. ASSUME NEW p \in Procs, Pull(p) PROVE CommitsPublished'
  <2>1. UNCHANGED <<tree, pushed>> /\ head' = tree[0] /\ Return(p)
    BY <1>8 DEF Pull, Checkout, Fail, remote
  <2>2. \A q \in Procs : op'[q].pc = "attach" => op'[q] = op[q]
    BY <1>1, <2>1 DEF Return, Idle, OpOK
  <2> QED
    BY <1>1, <2>1, <2>2, EmptyTyped DEF CommitsPublished, Published
<1>9. ASSUME NEW p \in Procs, Step(p) \/ Crash(p) PROVE CommitsPublished'
  BY <1>1, <1>2, <1>5, <1>6, <1>7, <1>8, <1>9, OtherSteps DEF Moving, checkout, remote
<1>10. ASSUME NEW p \in Adders, NEW r \in Records, AddWrite(p, r) PROVE CommitsPublished'
  <2>1. UNCHANGED <<head, tree, pushed>> /\ op' = [op EXCEPT ![p].pc = "queue", ![p].item = <<r, 1>>]
    BY <1>10 DEF AddWrite, remote
  <2>2. \A q \in Procs : op'[q].pc = "attach" => op'[q] = op[q]
    BY <1>1, <2>1 DEF OpOK, Cmds
  <2> QED
    BY <1>2, <2>1, <2>2
<1>11. CASE (\E r \in Records : Edit(r)) \/ UNCHANGED vars
  BY <1>2, <1>11 DEF Edit, vars, checkout, remote
<1>12. CASE ReturnToBase
  BY <1>3, <1>12 DEF ReturnToBase, Checkout, remote
<1>13. ASSUME NEW k \in PRs, ClosePR(k) PROVE CommitsPublished'
  BY <1>2, <1>13 DEF ClosePR, checkout
<1>14. ASSUME NEW k \in PRs, MergePR(k) PROVE CommitsPublished'
  <2> DEFINE b == prs[k].base
             merge == [r \in Records |-> IF tree[k][r] # prs[k].from[r] THEN tree[k][r] ELSE tree[b][r]]
  <2>1. b \in Branches /\ k \in Branches
    BY <1>1, EmptyTyped DEF RemoteOK, PullRequests
  <2>2. Published(tree[k]) /\ Published(tree[b])
    BY <1>1, <2>1 DEF CommitsPublished
  <2>3. Published(merge)
    BY <2>2 DEF Published
  <2>4. tree' = [tree EXCEPT ![b] = merge] /\ UNCHANGED <<head, pushed, op>>
    BY <1>14 DEF MergePR, checkout
  <2> HIDE DEF merge, b
  <2>5. \A a \in Branches : tree'[a] = tree[a] \/ tree'[a] = merge
    BY <1>1, <2>1, <2>4 DEF RemoteOK
  <2> QED
    BY <1>1, <2>3, <2>4, <2>5 DEF CommitsPublished, Published
<1> QED
  BY <1>9, <1>10, <1>11, <1>12, <1>13, <1>14 DEF Next

\* A step that takes content from a file takes what its user replaces, or what
\* HEAD has and so a remote branch has had.
LEMMA StepKeepsWork ==
  WorkInv /\ [Next]_vars =>
    [\A r \in Records : file'[r] # file[r] =>
       \/ file'[r] = file[r] + 1
       \/ r \notin Dirty /\ (file[r] = 0 \/ <<r, file[r]>> \in pushed)]_vars
<1> SUFFICES ASSUME WorkInv, [Next]_vars, NEW r \in Records, file'[r] # file[r]
             PROVE  \/ file'[r] = file[r] + 1
                    \/ r \notin Dirty /\ (file[r] = 0 \/ <<r, file[r]>> \in pushed)
  OBVIOUS
<1>1. RecordsInv /\ CheckoutOK /\ CommitsPublished
  BY TypeParts DEF WorkInv, RecordsInv
<1>2. file' # file
  OBVIOUS
<1>3. ASSUME Checkout(0)
      PROVE  r \notin Dirty /\ (file[r] = 0 \/ <<r, file[r]>> \in pushed)
  <2>1. r \notin Dirty
    BY <1>3 DEF Checkout
  <2>2. file[r] = head[r]
    BY <2>1 DEF Dirty
  <2> QED
    BY <1>1, <2>1, <2>2 DEF CommitsPublished, Published
<1>4. ASSUME NEW p \in Procs, Step(p) \/ Crash(p) PROVE Checkout(0)
  <2>1. CASE Moving(p)
    BY <1>2, <2>1 DEF Moving, OpenPR, AcceptOpen, Attach, Pull, checkout
  <2>2. CASE ~Moving(p)
    BY <1>1, <1>2, <1>4, <2>2, OtherSteps DEF checkout
  <2> QED
    BY <2>1, <2>2
<1>5. ASSUME NEW k \in PRs, MergePR(k) \/ ClosePR(k) PROVE FALSE
  BY <1>2, <1>5 DEF MergePR, ClosePR, checkout
<1>6. ~UNCHANGED vars
  BY <1>2 DEF vars, checkout
<1>7. ASSUME NEW p \in Adders, NEW q \in Records, AddWrite(p, q) PROVE file'[r] = file[r] + 1
  BY <1>1, <1>7 DEF AddWrite, CheckoutOK, Trees
<1>8. ASSUME NEW q \in Records, Edit(q) PROVE file'[r] = file[r] + 1
  BY <1>1, <1>8 DEF Edit, CheckoutOK, Trees
<1> QED
  BY <1>3, <1>4, <1>5, <1>6, <1>7, <1>8 DEF Next, ReturnToBase

\* No content of a file is lost that only the working tree had, whatever is
\* written between the inspection of the checkout, the reading of the files and
\* the pull or the move of HEAD (syncer.go:584 and 774, governance_pr.go:218).
THEOREM LocalWorkStays == Spec => LocalWorkKept
<1>1. Init => CommitsPublished
  BY EmptyTyped DEF Init, CommitsPublished, Published, EmptyTree, Idle
<1>2. WorkInv /\ [Next]_vars =>
        [\A r \in Records : file'[r] # file[r] =>
           \/ file'[r] = file[r] + 1
           \/ r \notin Dirty /\ (file[r] = 0 \/ <<r, file[r]>> \in pushed)]_vars
  BY StepKeepsWork
<1>3. RecordsInv /\ CommitsPublished => WorkInv
  BY DEF WorkInv
<1>4. WorkInv /\ [Next]_vars => CommitsPublished'
  BY WorkStep
<1> QED
  BY <1>1, <1>2, <1>3, <1>4, RecordsInvariant, PTL DEF Spec, LocalWorkKept

-----------------------------------------------------------------------------
(* What an acceptance rests on *)

\* The content of an item that is recorded as merged has been on the trusted
\* base, or its pull request was merged into a topic branch (README.md:507, and
\* its exception).
AcceptedTruly ==
  \A i \in Items : last[i] = "merged" =>
    \/ i \in landed
    \/ proof[i] \in PRs /\ prs[proof[i]].st = "merged" /\ prs[proof[i]].base # 0

\* A command that has opened a pull request knows it, and so does a submitted item.
Opened == {"attach", "mark", "submit"}
OpenedKnown == \A p \in Procs : op[p].pc \in Opened => op[p].pr \in PRs
ProofsKnown == \A i \in Items : last[i] = "submitted" => proof[i] \in PRs

\* What is on the trusted base, and what was merged into it, has been there.
BaseLanded == \A r \in Records : tree[0][r] # 0 => <<r, tree[0][r]>> \in landed
MergesLanded ==
  \A k \in PRs : prs[k].st = "merged" /\ prs[k].base = 0 =>
    \A r \in Records : prs[k].merge[r] # 0 => <<r, prs[k].merge[r]>> \in landed

AcceptedInv == OpenedKnown /\ ProofsKnown /\ BaseLanded /\ MergesLanded /\ AcceptedTruly

\* A step proposes a change, decides a pull request, or leaves the remote alone.
LEMMA RemoteStep ==
  ASSUME [Next]_vars
  PROVE  \/ \E k \in PRs : \E c : Propose(k, c)
         \/ \E k \in PRs : MergePR(k) \/ ClosePR(k)
         \/ UNCHANGED remote
<1>1. ASSUME NEW p \in Procs, OpenPR(p) \/ AcceptOpen(p) PROVE \E k \in PRs : \E c : Propose(k, c)
  BY <1>1 DEF OpenPR, AcceptOpen
<1>2. ASSUME NEW p \in Procs, Step(p) \/ Crash(p), ~(OpenPR(p) \/ AcceptOpen(p)) PROVE UNCHANGED remote
  BY <1>2 DEF Step, Crash, AddQueue, FlushReconcile, FlushSettle, FlushPick, Verified, Refused,
     InspectOutbound, InspectInbound, InspectHeld, Pull, PullRefused, OpenDenied, Attach, Mark,
     AcceptRefused, AcceptLanded, AcceptSubmit
<1>3. ASSUME NEW p \in Adders, NEW r \in Records, AddWrite(p, r) PROVE UNCHANGED remote
  BY <1>3 DEF AddWrite
<1>4. ASSUME NEW r \in Records, Edit(r) PROVE UNCHANGED remote
  BY <1>4 DEF Edit
<1>5. ReturnToBase \/ UNCHANGED vars => UNCHANGED remote
  BY DEF ReturnToBase, vars
<1> QED
  BY <1>1, <1>2, <1>3, <1>4, <1>5 DEF Next

\* A proposal touches a pull request that was not there, and its topic branch.
LEMMA ProposeFresh ==
  ASSUME RemoteOK, NEW k \in PRs, NEW c, Propose(k, c)
  PROVE  /\ landed' = landed /\ tree'[0] = tree[0]
         /\ \A j \in PRs : prs[j].st = "merged" \/ prs'[j].st = "merged" => prs'[j] = prs[j]
<1>0. k # 0 /\ 0 \in Branches
  BY ConstantsAssumption DEF PRs, Branches
<1>1. CASE UNCHANGED remote
  BY <1>1 DEF remote
<1>2. CASE ~UNCHANGED remote
  <2>1. /\ prs[k].st = "none" /\ landed' = landed
        /\ prs' = [prs EXCEPT ![k] = [NoPR EXCEPT !.st = "open", !.base = c.base,
                                                  !.from = c.from, !.title = c.title]]
        /\ tree' = [tree EXCEPT ![k] = c.tree]
    BY <1>2 DEF Propose
  <2>2. prs'[k].st = "open" /\ \A j \in PRs \ {k} : prs'[j] = prs[j]
    BY <2>1 DEF RemoteOK, NoPR
  <2>3. tree'[0] = tree[0]
    BY <1>0, <2>1 DEF RemoteOK
  <2> QED
    BY <2>1, <2>2, <2>3
<1> QED
  BY <1>1, <1>2

\* The provider's side only grows: what was merged stays merged as it was.
LEMMA MergesStay ==
  ASSUME RecordsInv, [Next]_vars
  PROVE  /\ landed \subseteq landed'
         /\ \A k \in PRs : prs[k].st = "merged" => prs'[k] = prs[k]
<1>1. RemoteOK /\ prs \in [PRs -> PullRequests]
  BY TypeParts DEF RecordsInv, RemoteOK
<1>2. CASE UNCHANGED remote
  BY <1>2 DEF remote
<1>3. ASSUME NEW k \in PRs, NEW c, Propose(k, c)
      PROVE  landed \subseteq landed' /\ \A j \in PRs : prs[j].st = "merged" => prs'[j] = prs[j]
  BY <1>1, <1>3, ProposeFresh
<1>4. ASSUME NEW k \in PRs, MergePR(k) \/ ClosePR(k)
      PROVE  landed \subseteq landed' /\ \A j \in PRs : prs[j].st = "merged" => prs'[j] = prs[j]
  BY <1>1, <1>4 DEF MergePR, ClosePR
<1> QED
  BY <1>2, <1>3, <1>4, RemoteStep

\* What is merged into the trusted base lands with it.
LEMMA MergesLand ==
  ASSUME RecordsInv, AcceptedInv, [Next]_vars
  PROVE  BaseLanded' /\ MergesLanded'
<1>1. RemoteOK
  BY TypeParts DEF RecordsInv
<1>2. ASSUME NEW k \in PRs, MergePR(k) PROVE BaseLanded' /\ MergesLanded'
  <2> DEFINE b == prs[k].base
             merge == [r \in Records |-> IF tree[k][r] # prs[k].from[r] THEN tree[k][r] ELSE tree[b][r]]
             new == [prs[k] EXCEPT !.st = "merged", !.merge = merge, !.moved = rev[k] # 0]
  <2>1. prs[k] \in PullRequests /\ b \in Branches /\ 0 \in Branches
    BY <1>1, ConstantsAssumption DEF RemoteOK, PullRequests, Branches
  <2>2. new.merge = merge /\ new.base = b
    BY <2>1 DEF PullRequests
  <2>3. /\ prs' = [prs EXCEPT ![k] = new]
        /\ tree' = [tree EXCEPT ![b] = merge]
        /\ b = 0 => landed' = landed \cup ({<<r, merge[r]>> : r \in Records} \cap Items)
        /\ landed \subseteq landed'
    BY <1>2 DEF MergePR
  <2>4. tree[k] \in Trees /\ tree[b] \in Trees
    BY <1>1, <2>1, EmptyTyped DEF RemoteOK
  <2>5. \A r \in Records : merge[r] \in Versions
    BY <2>4 DEF Trees
  <2> HIDE DEF merge, new, b
  <2>6. \A r \in Records : merge[r] # 0 => <<r, merge[r]>> \in Items
    BY <2>5 DEF Versions, Items
  <2>7. ASSUME NEW j \in PRs, prs'[j].st = "merged", prs'[j].base = 0, NEW r \in Records, prs'[j].merge[r] # 0
        PROVE  <<r, prs'[j].merge[r]>> \in landed'
    <3>1. CASE j = k
      <4>1. prs'[j] = new
        BY <1>1, <2>3, <3>1 DEF RemoteOK
      <4> QED
        BY <2>2, <2>3, <2>6, <2>7, <4>1
    <3>2. CASE j # k
      <4>1. prs'[j] = prs[j]
        BY <1>1, <2>3, <3>2 DEF RemoteOK
      <4> QED
        BY <2>3, <2>7, <4>1 DEF AcceptedInv, MergesLanded
    <3> QED
      BY <3>1, <3>2
  <2>8. ASSUME NEW r \in Records, tree'[0][r] # 0 PROVE <<r, tree'[0][r]>> \in landed'
    <3>1. CASE b = 0
      <4>1. tree'[0] = merge
        BY <1>1, <2>1, <2>3, <3>1 DEF RemoteOK
      <4> QED
        BY <2>3, <2>6, <2>8, <3>1, <4>1
    <3>2. CASE b # 0
      <4>1. tree'[0] = tree[0]
        BY <1>1, <2>1, <2>3, <3>2 DEF RemoteOK
      <4> QED
        BY <2>3, <2>8, <4>1 DEF AcceptedInv, BaseLanded
    <3> QED
      BY <3>1, <3>2
  <2> QED
    BY <2>7, <2>8 DEF MergesLanded, BaseLanded
<1>3. ASSUME \A k \in PRs : ~MergePR(k) PROVE BaseLanded' /\ MergesLanded'
  <2>1. tree'[0] = tree[0] /\ \A k \in PRs : prs'[k].st = "merged" => prs'[k] = prs[k]
    <3>1. CASE UNCHANGED remote
      BY <3>1 DEF remote
    <3>2. ASSUME NEW k \in PRs, NEW c, Propose(k, c)
          PROVE  tree'[0] = tree[0] /\ \A j \in PRs : prs'[j].st = "merged" => prs'[j] = prs[j]
      BY <1>1, <3>2, ProposeFresh
    <3>3. ASSUME NEW k \in PRs, ClosePR(k)
          PROVE  tree'[0] = tree[0] /\ \A j \in PRs : prs'[j].st = "merged" => prs'[j] = prs[j]
      BY <1>1, <3>3 DEF ClosePR, RemoteOK, PullRequests
    <3> QED
      BY <1>3, <3>1, <3>2, <3>3, RemoteStep
  <2>2. landed \subseteq landed'
    BY MergesStay
  <2> QED
    BY <2>1, <2>2 DEF AcceptedInv, MergesLanded, BaseLanded
<1> QED
  BY <1>2, <1>3

\* An event that does not say that an item is submitted or merged leaves no item
\* of which it was not said before.
LEMMA EventKeepsProofs ==
  ASSUME ListOK, NEW i \in Items, NEW to \in PendingStates, AppendEvent(i, to)
  PROVE  \A j \in Items : last'[j] \in {"submitted", "merged"} => last'[j] = last[j]
BY DEF AppendEvent, ListOK, PendingStates

\* What a step says of items: submitted with a pull request the command has
\* opened, merged with one that was merged with their content or because that is
\* on the trusted base, or nothing new.
LEMMA ItemsStep ==
  ASSUME RecordsInv, AcceptedInv, [Next]_vars, NEW i \in Items, last'[i] \in {"submitted", "merged"}
  PROVE  \/ last'[i] = last[i] /\ proof'[i] = proof[i]
         \/ last'[i] = "submitted" /\ proof'[i] \in PRs
         \/ last'[i] = "merged" /\ Mergeable(i) /\ proof'[i] = proof[i]
         \/ last'[i] = "merged" /\ tree[0][i[1]] = i[2] /\ proof'[i] = proof[i]
<1> DEFINE Goal == \/ last'[i] = last[i] /\ proof'[i] = proof[i]
                   \/ last'[i] = "submitted" /\ proof'[i] \in PRs
                   \/ last'[i] = "merged" /\ Mergeable(i) /\ proof'[i] = proof[i]
                   \/ last'[i] = "merged" /\ tree[0][i[1]] = i[2] /\ proof'[i] = proof[i]
<1>1. ListOK /\ ProofOK
  BY TypeParts DEF RecordsInv
<1>2. CASE UNCHANGED <<last, proof>>
  BY <1>2
<1>3. ASSUME NEW p \in Procs, op[p].pc \notin {"idle", "settle", "pick"},
             AppendEvent(op[p].item, "attempt-failed"), UNCHANGED proof
      PROVE  Goal
  BY <1>1, <1>3, EventKeepsProofs DEF RecordsInv, ItemsKnown, PendingStates
<1>4. ASSUME NEW p \in Procs, AddQueue(p) PROVE Goal
  BY <1>1, <1>4, EventKeepsProofs DEF AddQueue, PendingStates
<1>5. ASSUME NEW p \in Procs, FlushReconcile(p) PROVE Goal
  BY <1>1, <1>5 DEF FlushReconcile
<1>6. ASSUME NEW p \in Procs, FlushSettle(p) PROVE Goal
  BY <1>1, <1>6 DEF FlushSettle
<1>7. ASSUME NEW p \in Procs, Mark(p) PROVE Goal
  <2>1. op[p].pr \in PRs
    BY <1>7 DEF Mark, AcceptedInv, OpenedKnown, Opened
  <2>2. PICK marked \in SUBSET {j \in Listed : j[1] \in op[p].dirty \/ j = op[p].item} :
          LET exact == {j \in marked : Exact(j)}
          IN  /\ last' = [j \in Items |-> IF j \in exact THEN "submitted"
                                          ELSE IF j \in marked \ exact THEN "attempt-failed" ELSE last[j]]
              /\ proof' = [j \in Items |-> IF j \in exact THEN op[p].pr ELSE proof[j]]
    BY <1>7 DEF Mark
  <2> QED
    BY <1>7, <2>1, <2>2
<1>8. ASSUME NEW p \in Procs, \/ Refused(p) \/ InspectHeld(p) \/ Pull(p) \/ PullRefused(p)
                              \/ OpenDenied(p) \/ AcceptRefused(p)
      PROVE  Goal
  BY <1>3, <1>8 DEF Refused, InspectHeld, Pull, PullRefused, OpenDenied, AcceptRefused, Fail
<1>9. ASSUME NEW p \in Procs, OpenPR(p) \/ AcceptOpen(p) PROVE Goal
  BY <1>2, <1>3, <1>9 DEF OpenPR, AcceptOpen, outbox
<1>10. ASSUME NEW p \in Procs, \/ Crash(p) \/ FlushPick(p) \/ Verified(p) \/ InspectOutbound(p)
                               \/ InspectInbound(p) \/ Attach(p)
       PROVE  UNCHANGED <<last, proof>>
  BY <1>10 DEF Crash, FlushPick, Verified, InspectOutbound, InspectInbound, Attach, outbox
<1>16. ASSUME NEW p \in Procs, AcceptLanded(p) PROVE Goal
  BY <1>1, <1>16 DEF AcceptLanded, AppendEvent, ListOK
<1>17. ASSUME NEW p \in Procs, AcceptSubmit(p) PROVE Goal
  <2> DEFINE item == op[p].item
  <2>1. item \in Items /\ op[p].pr \in PRs
    BY <1>17 DEF AcceptSubmit, RecordsInv, ItemsKnown, AcceptedInv, OpenedKnown, Opened
  <2>2. /\ AppendEvent(item, "submitted")
        /\ proof' = IF Pending(item) THEN [proof EXCEPT ![item] = op[p].pr] ELSE proof
    BY <1>17 DEF AcceptSubmit
  <2>3. ValidTransition(last[item], "submitted") => Pending(item)
    BY DEF ValidTransition, Pending, PendingStates
  <2>4. Pending(item) => ValidTransition(last[item], "submitted")
    BY DEF ValidTransition, Pending, PendingStates
  <2> HIDE DEF item
  <2>5. CASE Pending(item)
    <3>1. last' = [last EXCEPT ![item] = "submitted"] /\ proof' = [proof EXCEPT ![item] = op[p].pr]
      BY <2>2, <2>4, <2>5 DEF AppendEvent
    <3> QED
      BY <1>1, <2>1, <3>1 DEF ListOK, ProofOK
  <2>6. CASE ~Pending(item)
    BY <1>2, <2>2, <2>3, <2>6 DEF AppendEvent
  <2> QED
    BY <2>5, <2>6
<1>11. ASSUME NEW p \in Adders, NEW r \in Records, AddWrite(p, r) PROVE UNCHANGED <<last, proof>>
  BY <1>11 DEF AddWrite, outbox
<1>12. ASSUME NEW r \in Records, Edit(r) PROVE UNCHANGED <<last, proof>>
  BY <1>12 DEF Edit, outbox
<1>13. ASSUME NEW k \in PRs, MergePR(k) \/ ClosePR(k) PROVE UNCHANGED <<last, proof>>
  BY <1>13 DEF MergePR, ClosePR, outbox
<1>14. ReturnToBase \/ UNCHANGED vars => UNCHANGED <<last, proof>>
  BY DEF ReturnToBase, vars, outbox
<1>15. ASSUME NEW p \in Procs, Step(p) PROVE Goal
  BY <1>2, <1>4, <1>5, <1>6, <1>7, <1>8, <1>9, <1>10, <1>15, <1>16, <1>17 DEF Step
<1> QED
  BY <1>2, <1>10, <1>11, <1>12, <1>13, <1>14, <1>15 DEF Next

\* A command that goes on to a step has opened a pull request if that needs one.
LEMMA OpenedStep ==
  ASSUME RecordsInv, OpenedKnown, [Next]_vars
  PROVE  OpenedKnown'
<1>1. op \in [Procs -> Cmds]
  BY TypeParts DEF RecordsInv, OpOK
<1>2. CASE UNCHANGED op
  BY <1>2 DEF OpenedKnown
<1>3. ASSUME NEW p \in Procs, NEW o, op' = [op EXCEPT ![p] = o],
             o.pc \in Opened => o.pr \in PRs
      PROVE  OpenedKnown'
  BY <1>1, <1>3 DEF OpenedKnown
<1>4. ASSUME NEW p \in Procs, Return(p) PROVE OpenedKnown'
  BY <1>3, <1>4 DEF Return, Idle, Opened
<1>5. ASSUME NEW p \in Procs, NEW pc, Goto(p, pc), pc \notin Opened PROVE OpenedKnown'
  <2> DEFINE o == [op[p] EXCEPT !.pc = pc]
  <2>1. op' = [op EXCEPT ![p] = o] /\ o.pc = pc
    BY <1>1, <1>5 DEF Goto, Cmds
  <2> HIDE DEF o
  <2> QED
    BY <1>3, <1>5, <2>1
<1>6. ASSUME NEW p \in Procs, Attach(p) PROVE OpenedKnown'
  <2> DEFINE o == [op[p] EXCEPT !.pc = "mark"]
  <2>1. op' = [op EXCEPT ![p] = o] /\ o.pr = op[p].pr /\ op[p].pc = "attach"
    BY <1>1, <1>6 DEF Attach, Goto, Cmds
  <2> HIDE DEF o
  <2> QED
    BY <1>3, <2>1 DEF OpenedKnown, Opened
<1>7. ASSUME NEW p \in Procs, OpenPR(p) PROVE OpenedKnown'
  <2>1. CASE Return(p)
    BY <1>4, <2>1
  <2>2. CASE ~Return(p)
    <3> DEFINE t == Change(p).tree
    <3>1. PICK k \in PRs : op' = [op EXCEPT ![p].pc = "attach", ![p].commit = t, ![p].pr = k]
      BY <1>7, <2>2 DEF OpenPR
    <3> HIDE DEF t
    <3> DEFINE o == [op[p] EXCEPT !.pc = "attach", !.commit = t, !.pr = k]
    <3>2. op' = [op EXCEPT ![p] = o] /\ o.pr = k
      BY <1>1, <3>1 DEF Cmds
    <3> HIDE DEF o
    <3> QED
      BY <1>3, <3>2
  <2> QED
    BY <2>1, <2>2
<1>18. ASSUME NEW p \in Procs, AcceptOpen(p) PROVE OpenedKnown'
  <2>1. CASE Return(p)
    BY <1>4, <2>1
  <2>2. CASE ~Return(p)
    <3>1. PICK k \in PRs : op' = [op EXCEPT ![p].pc = "submit", ![p].pr = k]
      BY <1>18, <2>2 DEF AcceptOpen
    <3> DEFINE o == [op[p] EXCEPT !.pc = "submit", !.pr = k]
    <3>2. op' = [op EXCEPT ![p] = o] /\ o.pr = k
      BY <1>1, <3>1 DEF Cmds
    <3> HIDE DEF o
    <3> QED
      BY <1>3, <3>2
  <2> QED
    BY <2>1, <2>2
<1>8. ASSUME NEW p \in Procs, InspectOutbound(p) PROVE OpenedKnown'
  <2> DEFINE o == [op[p] EXCEPT !.pc = "open", !.branch = branch, !.head = head, !.dirty = Dirty]
  <2>1. op' = [op EXCEPT ![p] = o] /\ o.pc = "open"
    BY <1>1, <1>8 DEF InspectOutbound, Cmds
  <2> HIDE DEF o
  <2> QED
    BY <1>3, <2>1 DEF Opened
<1>9. ASSUME NEW p \in Procs, NEW i, NEW pc, op' = [op EXCEPT ![p].pc = pc, ![p].item = i],
             pc \notin Opened
      PROVE  OpenedKnown'
  <2> DEFINE o == [op[p] EXCEPT !.pc = pc, !.item = i]
  <2>1. op' = [op EXCEPT ![p] = o] /\ o.pc = pc
    BY <1>1, <1>9 DEF Cmds
  <2> HIDE DEF o
  <2> QED
    BY <1>3, <1>9, <2>1
<1>10. ASSUME NEW p \in Procs, AddQueue(p) \/ FlushPick(p) PROVE OpenedKnown'
  <2>1. \A i : Publisher(i) \notin Opened
    BY DEF Publisher, Opened
  <2>2. Return(p) \/ \E i : op' = [op EXCEPT ![p].pc = Publisher(i), ![p].item = i]
    BY <1>10 DEF AddQueue, FlushPick
  <2> QED
    BY <1>4, <1>9, <2>1, <2>2
<1>11. ASSUME NEW p \in Procs, FlushReconcile(p) \/ FlushSettle(p) \/ Verified(p) \/ InspectInbound(p)
       PROVE  OpenedKnown'
  <2>1. \E pc \in {"settle", "pick", "inspect", "pull"} : Goto(p, pc)
    BY <1>11 DEF FlushReconcile, FlushSettle, Verified, InspectInbound
  <2> QED
    BY <1>5, <2>1 DEF Opened
<1>12. ASSUME NEW p \in Procs, \/ Refused(p) \/ InspectHeld(p) \/ Pull(p) \/ PullRefused(p)
                               \/ OpenDenied(p) \/ Mark(p) \/ Crash(p) \/ AcceptRefused(p)
                               \/ AcceptLanded(p) \/ AcceptSubmit(p)
       PROVE  OpenedKnown'
  BY <1>4, <1>12 DEF Refused, InspectHeld, Pull, PullRefused, OpenDenied, Fail, Mark, Crash,
     AcceptRefused, AcceptLanded, AcceptSubmit
<1>13. ASSUME NEW p \in Procs, Step(p) \/ Crash(p) PROVE OpenedKnown'
  BY <1>6, <1>7, <1>8, <1>10, <1>11, <1>12, <1>13, <1>18 DEF Step
<1>14. ASSUME NEW p \in Adders, NEW r \in Records, AddWrite(p, r) PROVE OpenedKnown'
  <2>1. p \in Procs /\ op' = [op EXCEPT ![p].pc = "queue", ![p].item = <<r, 1>>]
    BY <1>14 DEF AddWrite, Procs
  <2>2. "queue" \notin Opened
    BY DEF Opened
  <2> QED
    BY <1>9, <2>1, <2>2
<1>15. ASSUME NEW r \in Records, Edit(r) PROVE UNCHANGED op
  BY <1>15 DEF Edit
<1>16. ASSUME NEW k \in PRs, MergePR(k) \/ ClosePR(k) PROVE UNCHANGED op
  BY <1>16 DEF MergePR, ClosePR
<1>17. ReturnToBase \/ UNCHANGED vars => UNCHANGED op
  BY DEF ReturnToBase, vars
<1> QED
  BY <1>2, <1>13, <1>14, <1>15, <1>16, <1>17 DEF Next

\* The base of a pull request that was merged says where its content went: with
\* what is recorded of items, every step keeps the acceptances true.
LEMMA AcceptedStep == RecordsInv /\ AcceptedInv /\ [Next]_vars => AcceptedInv'
<1> SUFFICES ASSUME RecordsInv, AcceptedInv, [Next]_vars PROVE AcceptedInv'
  OBVIOUS
<1>1. OpenedKnown' /\ BaseLanded' /\ MergesLanded'
  BY OpenedStep, MergesLand DEF AcceptedInv
<1>2. ProofsKnown'
  BY ItemsStep DEF AcceptedInv, ProofsKnown
<1>3. AcceptedTruly'
  <2> SUFFICES ASSUME NEW i \in Items, last'[i] = "merged", i \notin landed'
               PROVE  /\ proof'[i] \in PRs
                      /\ prs'[proof'[i]].st = "merged" /\ prs'[proof'[i]].base # 0
    BY DEF AcceptedTruly
  <2>1. i = <<i[1], i[2]>> /\ i[1] \in Records /\ i[2] # 0
    BY DEF Items
  <2>2. i \notin landed
    BY MergesStay
  <2>3. tree[0][i[1]] # i[2]
    BY <2>1, <2>2 DEF AcceptedInv, BaseLanded
  <2>4. proof'[i] = proof[i] /\ (last[i] = "merged" \/ Mergeable(i))
    BY <2>3, ItemsStep
  <2>5. proof[i] \in PRs /\ prs[proof[i]].st = "merged" /\ prs[proof[i]].base # 0
    <3>1. CASE last[i] = "merged"
      BY <2>2, <3>1 DEF AcceptedInv, AcceptedTruly
    <3>2. CASE Mergeable(i)
      <4>1. prs[proof[i]].st = "merged" /\ prs[proof[i]].merge[i[1]] = i[2] /\ proof[i] \in PRs
        BY <3>2 DEF Mergeable, AcceptedInv, ProofsKnown
      <4> QED
        BY <2>1, <2>2, <4>1 DEF AcceptedInv, MergesLanded
    <3> QED
      BY <2>4, <3>1, <3>2
  <2> QED
    BY <2>4, <2>5, MergesStay
<1> QED
  BY <1>1, <1>2, <1>3 DEF AcceptedInv

\* The content of an item that the outbox calls merged has been on the trusted
\* base, unless its pull request was stacked on another's topic branch: the one
\* exception, that `my record flush` does not look at the base.
THEOREM AcceptanceIsTrue == Spec => []AcceptedTruly
<1>1. Init => AcceptedInv
  BY ConstantsAssumption DEF Init, AcceptedInv, OpenedKnown, Opened, ProofsKnown, BaseLanded, MergesLanded,
     AcceptedTruly, EmptyTree, Branches, NoPR, Idle
<1>2. AcceptedInv => AcceptedTruly
  BY DEF AcceptedInv
<1> QED
  BY <1>1, <1>2, AcceptedStep, RecordsInvariant, PTL DEF Spec
=============================================================================
