----------------------- MODULE CredentialBrokerProofs -----------------------
(***************************************************************************)
(* Proofs about module CredentialBroker, for any number of commands of two *)
(* releases, key versions, fetches, brokers, orders and deaths: the types, *)
(* and every safety property that is checked of it.                        *)
(***************************************************************************)
EXTENDS CredentialBroker, TLAPS

-----------------------------------------------------------------------------
(* Types *)

\* What the operations of the broker make of a memory is a memory.
LEMMA MemoryTypes ==
  ASSUME NEW m \in Memories
  PROVE  /\ Release(m) \in Memories /\ Revoke(m) \in Memories
         /\ KeyExpired(m) \in Memories /\ LeaseExpired(m) \in Memories
         /\ CooldownOver(m) \in Memories
         /\ \A g : Dropped(m, g) \in Memories
         /\ m.epoch < MaxOrders => Locked(m) \in Memories
<1>1. NoEntry \in [token : 0..MaxVersion, generation : 0..MaxLeases]
  BY ConstantsAssumption DEF NoEntry
<1>2. NoPending \in [lease : 0..MaxLeases, epoch : 0..MaxOrders]
  BY ConstantsAssumption DEF NoPending
<1>3. Release(m) \in Memories
  <2>1. m.closed \cup ({m.pending.lease} \ {0}) \in SUBSET (1..MaxLeases)
    BY ConstantsAssumption DEF Memories
  <2> QED
    BY <1>2, <2>1 DEF Release, Memories
<1>4. \A n \in Memories : n.revoked \cup ({n.pending.lease} \ {0}) \in SUBSET (1..MaxLeases)
  BY ConstantsAssumption DEF Memories
<1>5. Revoke(m) \in Memories
  <2>1. m.revoked \cup ({m.pending.lease} \ {0}) \in SUBSET (1..MaxLeases)
    BY <1>4
  <2>2. Release(m).revoked = m.revoked
    BY DEF Release, Memories
  <2> QED
    BY <1>3, <2>1, <2>2 DEF Revoke, Memories
<1>6. KeyExpired(m) \in Memories
  BY <1>1 DEF KeyExpired, Memories
<1>7. LeaseExpired(m) \in Memories
  BY <1>5 DEF LeaseExpired, Memories, Fetching
<1>8. CooldownOver(m) \in Memories
  BY DEF CooldownOver, Memories
<1>9. ASSUME NEW g PROVE Dropped(m, g) \in Memories
  <2>1. [m EXCEPT !.entry = NoEntry] \in Memories
    BY <1>1 DEF Memories
  <2>2. Revoke([m EXCEPT !.entry = NoEntry]) \in Memories
    <3> DEFINE n == [m EXCEPT !.entry = NoEntry]
    <3>1. n.revoked \cup ({n.pending.lease} \ {0}) \in SUBSET (1..MaxLeases)
      BY <1>4, <2>1
    <3>2. n.closed \cup ({n.pending.lease} \ {0}) \in SUBSET (1..MaxLeases)
      BY <2>1, ConstantsAssumption DEF Memories
    <3>3. Release(n) \in Memories /\ Release(n).revoked = n.revoked
      BY <1>2, <2>1, <3>2 DEF Release, Memories
    <3> HIDE DEF n
    <3>4. Revoke(n) \in Memories
      BY <3>1, <3>3 DEF Revoke, Memories
    <3> QED
      BY <3>4 DEF n
  <2> QED
    BY <1>5, <2>1, <2>2 DEF Dropped
<1>10. ASSUME m.epoch < MaxOrders PROVE Locked(m) \in Memories
  <2>1. Revoke(m).epoch = m.epoch
    BY DEF Revoke, Release, Memories
  <2>2. m.epoch + 1 \in 0..MaxOrders
    BY <1>10, ConstantsAssumption DEF Memories
  <2> QED
    BY <1>1, <1>5, <2>1, <2>2 DEF Locked, Memories
<1> QED
  BY <1>3, <1>5, <1>6, <1>7, <1>8, <1>9, <1>10

\* A command that is not running is a state of a command.
LEMMA IdleType == Idle \in Ops
  BY ConstantsAssumption DEF Idle, Ops, PCs

\* The replies a command is given are states of a command.
LEMMA ReplyTypes ==
  ASSUME TypeOK, NEW c \in Clients
  PROVE  /\ Idle \in Ops
         /\ \A t \in 0..MaxVersion, g \in 0..MaxLeases : Using(c, t, g) \in Ops
         /\ \A r \in Ops : Dialed(r) \in Ops
         /\ \A r \in Ops : [op EXCEPT ![c] = r] \in [Clients -> Ops]
<1>1. Idle \in Ops
  BY IdleType
<1>2. op[c] \in Ops
  BY DEF TypeOK
<1>3. ASSUME NEW t \in 0..MaxVersion, NEW g \in 0..MaxLeases
      PROVE  Using(c, t, g) \in Ops
  BY <1>1, <1>2 DEF Using, Ops, PCs
<1>4. ASSUME NEW r \in Ops PROVE Dialed(r) \in Ops
  BY DEF Dialed, Ops, PCs, TypeOK
<1>5. ASSUME NEW r \in Ops PROVE [op EXCEPT ![c] = r] \in [Clients -> Ops]
  BY DEF TypeOK
<1> QED
  BY <1>1, <1>3, <1>4, <1>5

\* A connection that is closed may leave its lease to be cleaned up.
LEMMA CloseTypes ==
  ASSUME TypeOK, NEW c \in Clients, NEW r \in Ops, Close(c, r)
  PROVE  op' \in [Clients -> Ops] /\ gone' \subseteq 1..MaxLeases
<1>1. op[c] \in Ops
  BY DEF TypeOK
<1>2. op' \in [Clients -> Ops]
  BY ReplyTypes DEF Close
<1>3. op[c].lease # 0 => op[c].lease \in 1..MaxLeases
  BY <1>1, ConstantsAssumption DEF Ops
<1>4. gone' \subseteq 1..MaxLeases
  BY <1>3 DEF Close, TypeOK
<1> QED
  BY <1>2, <1>4

\* An answer to a command that has died ends it, and may leave a lease.
LEMMA AnswerTypes ==
  ASSUME TypeOK, NEW c \in Clients, NEW r \in Ops, Answer(c, r),
         r.pc = "helper" => r.lease # 0
  PROVE  op' \in [Clients -> Ops] /\ gone' \subseteq 1..MaxLeases
<1>1. op' \in [Clients -> Ops]
  BY ReplyTypes DEF Answer
<1>2. r.lease # 0 => r.lease \in 1..MaxLeases
  BY ConstantsAssumption DEF Ops
<1>3. gone' \subseteq 1..MaxLeases
  BY <1>2 DEF Answer, TypeOK
<1> QED
  BY <1>1, <1>3

-----------------------------------------------------------------------------
(* The inductive invariant *)

Holds(c) == op[c].pc \in {"helper", "fetched", "publish"}

\* What the broker holds is as new as the last order asks for; only a listening
\* broker holds anything; each generation and epoch had its fetch and its
\* order; and a cache that is off holds nothing, or is on its way out.
MemoryGood ==
  /\ floor <= vault
  /\ Present(mem) => mem.entry.token >= floor
  /\ ~Listening => ~Present(mem) /\ mem.pending = NoPending
  /\ generation + (IF Fetching(mem) THEN 1 ELSE 0) <= leases
  /\ mem.entry.generation <= generation
  /\ mem.pending.lease <= leases /\ gone \subseteq 1..leases
  /\ mem.epoch <= orders
  /\ off => disabled
  /\ off /\ Present(mem) => told

\* The lease of a command was given out, by its broker; only those who fetch or
\* wait have one.  A command that waits waits for a fetch the broker has ended
\* or still has under way.
WaitGood(c) ==
  /\ op[c].lease <= leases /\ op[c].conn <= born
  /\ op[c].lease # 0 <=> Holds(c) \/ op[c].pc = "wait"
  /\ op[c].pc = "wait" /\ Live(c) =>
       op[c].lease \in mem.closed \/ op[c].lease = mem.pending.lease

\* A command that fetches holds the lease, or it was taken back; while the
\* broker has the lease, the key that was read is as new as the last order.
FetchGood(c) ==
  Holds(c) =>
    /\ op[c].lease \notin gone
    /\ Live(c) => op[c].lease = mem.pending.lease \/ op[c].lease \in mem.revoked
    /\ op[c].lease = mem.pending.lease /\ op[c].pc # "helper" => op[c].token >= floor
    /\ op[c].lease = mem.pending.lease /\ op[c].pc = "publish" /\ off => told

\* A key in use is as new as what had been ordered when it was asked for, and
\* is the one the broker holds if their generations are the same.
UseGood(c) ==
  /\ op[c].floor <= floor /\ op[c].generation <= generation
  /\ op[c].pc \in {"fetched", "publish", "using"} => op[c].token >= op[c].floor
  /\ op[c].pc = "using" /\ op[c].generation # 0
       /\ op[c].generation = mem.entry.generation => op[c].token = mem.entry.token

CommandGood(c) == WaitGood(c) /\ FetchGood(c) /\ UseGood(c)

\* No two commands hold the same lease.
Distinct ==
  \A c, d \in Clients : c # d /\ Holds(c) /\ Holds(d) => op[c].lease # op[d].lease

IInv == TypeOK /\ MemoryGood /\ Distinct /\ \A c \in Clients : CommandGood(c)

-----------------------------------------------------------------------------
(* Every step keeps the types *)

\* A step of a command alone keeps the types.
LEMMA AloneTypes ==
  ASSUME TypeOK, NEW c \in Clients, NEW r \in Ops, op' = [op EXCEPT ![c] = r],
         UNCHANGED <<vault, server, settings, deaths>>
  PROVE  TypeOK'
<1>1. op' \in [Clients -> Ops]
  BY ReplyTypes
<1> QED
  BY <1>1 DEF TypeOK, server, settings

\* Every step of a command keeps the types.
LEMMA CommandTypes ==
  ASSUME IInv, NEW c \in Clients, Command(c)
  PROVE  TypeOK'
<1> DEFINE o == op[c]
<1>1. TypeOK /\ o \in Ops
  BY DEF IInv, TypeOK
<1>2. Idle \in Ops /\ (\A r \in Ops : Dialed(r) \in Ops)
  BY <1>1, ReplyTypes
<1> DEFINE Small == /\ 0 \in 0..2 /\ 1 \in 0..2 /\ 2 \in 0..2
                    /\ 0 \in 0..MaxLeases /\ 0 \in 0..MaxOrders
                    /\ vault \in 0..MaxVersion /\ floor \in 0..MaxVersion
<1>0. Small
  BY <1>1, ConstantsAssumption DEF TypeOK
<1> HIDE DEF Small
<1>3. ASSUME Missed(c) PROVE \E r \in Ops : op' = [op EXCEPT ![c] = r]
  <2>1. [Idle EXCEPT !.pc = "dial", !.attempt = 2, !.refreshed = op[c].refreshed,
                     !.floor = op[c].floor] \in Ops
    BY <1>0, <1>1, <1>2 DEF Ops, PCs, Small
  <2>2. [Idle EXCEPT !.pc = "unavailable"] \in Ops
    BY <1>2 DEF Ops, PCs
  <2> QED
    BY <1>2, <1>3, <2>1, <2>2 DEF Missed
<1>4. CASE Start(c)
  <2>1. [Idle EXCEPT !.attempt = 1, !.floor = floor] \in Ops
    BY <1>0, <1>2 DEF Ops, Small
  <2> QED
    BY <1>1, <1>2, <1>4, <2>1, AloneTypes DEF Start
<1>5. CASE Redial(c)
  BY <1>1, <1>2, <1>5, AloneTypes DEF Redial
<1>6. CASE BrokerStarts(c)
  <2>1. [o EXCEPT !.pc = "poll"] \in Ops
    BY <1>1 DEF Ops, PCs
  <2>2. op' \in [Clients -> Ops]
    <3>1. op' = [op EXCEPT ![c].pc = "poll"]
      BY <1>6 DEF BrokerStarts, Goto
    <3> QED
      BY <1>1, <2>1, <3>1, ReplyTypes
  <2> QED
    BY <1>1, <1>6, <2>2, ConstantsAssumption
       DEF BrokerStarts, TypeOK, settings, ReleaseOf
<1>7. CASE Poll(c)
  BY <1>1, <1>2, <1>3, <1>7, AloneTypes DEF Poll
<1>8. CASE Ping(c)
  <2>1. [o EXCEPT !.pc = "loop", !.epoch = mem.epoch] \in Ops
    BY <1>1 DEF Ops, PCs, TypeOK, Memories
  <2>2. op' \in [Clients -> Ops]
    <3>1. CASE Missed(c)
      BY <1>1, <1>3, <3>1, ReplyTypes
    <3>2. CASE op' = [op EXCEPT ![c].pc = "loop", ![c].epoch = mem.epoch]
      <4>1. op' = [op EXCEPT ![c] = [o EXCEPT !.pc = "loop", !.epoch = mem.epoch]]
        BY <1>1, <3>2 DEF TypeOK
      <4> QED
        BY <1>1, <2>1, <4>1, ReplyTypes
    <3> QED
      BY <1>8, <3>1, <3>2 DEF Ping
  <2>3. told' \in BOOLEAN
    BY <1>1, <1>8 DEF Ping, TypeOK
  <2> QED
    BY <1>1, <1>8, <2>2, <2>3 DEF Ping, TypeOK, settings
<1>9. CASE Lost(c)
  BY <1>1, <1>3, <1>9, AloneTypes DEF Lost
<1>10. CASE GiveUp(c)
  BY <1>1, <1>2, <1>10, AloneTypes DEF GiveUp
<1>11. ASSUME NEW r \in Ops, Answer(c, r), r.pc # "helper",
              UNCHANGED <<vault, broker, born, release, told, mem, generation, leases,
                          settings, deaths>>
       PROVE  TypeOK'
  BY <1>1, <1>11, AnswerTypes DEF TypeOK, settings
<1>12. \A t \in 0..MaxVersion, g \in 0..MaxLeases :
         Using(c, t, g) \in Ops /\ Using(c, t, g).pc = "using"
  BY <1>1, ReplyTypes DEF Using, Idle
<1>13. Idle.pc # "helper"
  BY DEF Idle
<1>14. CASE LoopLocked(c)
  BY <1>2, <1>11, <1>13, <1>14 DEF LoopLocked
<1>15. CASE Hit(c)
  <2>1. mem.entry.token \in 0..MaxVersion /\ mem.entry.generation \in 0..MaxLeases
    BY <1>1 DEF TypeOK, Memories
  <2> QED
    BY <1>11, <1>12, <1>15, <2>1 DEF Hit
<1>16. CASE LoopCooldown(c)
  BY <1>2, <1>11, <1>13, <1>16 DEF LoopCooldown
<1>17. CASE Resolve(c)
  <2>1. leases + 1 \in 1..MaxLeases
    BY <1>1, <1>17, ConstantsAssumption DEF Resolve, TypeOK
  <2> DEFINE r == [o EXCEPT !.pc = "helper", !.attempt = 0, !.epoch = 0,
                            !.lease = leases + 1]
  <2>2. r \in Ops /\ r.lease # 0
    <3>1. leases + 1 \in 0..MaxLeases /\ leases + 1 # 0
      BY <2>1
    <3> QED
      BY <1>0, <1>1, <3>1 DEF Ops, PCs, Small
  <2>3. mem' \in Memories
    BY <1>1, <1>17, <2>1 DEF Resolve, TypeOK, Memories
  <2>4. op' \in [Clients -> Ops] /\ gone' \subseteq 1..MaxLeases
    BY <1>1, <1>17, <2>2, AnswerTypes DEF Resolve
  <2> QED
    BY <1>1, <1>17, <2>1, <2>3, <2>4 DEF Resolve, TypeOK, settings
<1>18. CASE Wait(c)
  <2>1. [o EXCEPT !.pc = "wait", !.lease = mem.pending.lease] \in Ops
    BY <1>1 DEF Ops, PCs, TypeOK, Memories
  <2> QED
    BY <1>1, <1>18, <2>1, AloneTypes DEF Wait
<1>19. CASE Wake(c)
  <2>1. [o EXCEPT !.pc = "loop", !.lease = 0] \in Ops
    BY <1>0, <1>1 DEF Ops, PCs, Small
  <2> QED
    BY <1>1, <1>19, <2>1, AloneTypes DEF Wake
<1>20. CASE WaitEnds(c)
  BY <1>2, <1>11, <1>13, <1>20 DEF WaitEnds
<1>21. CASE HelperReads(c)
  <2>1. [o EXCEPT !.pc = "fetched", !.token = vault] \in Ops
    BY <1>0, <1>1 DEF Ops, PCs, Small
  <2> QED
    BY <1>1, <1>21, <2>1, AloneTypes DEF HelperReads
<1>22. Release(mem) \in Memories
  BY <1>1, MemoryTypes DEF TypeOK
<1>23. CASE Abandon(c)
  <2>1. [Release(mem) EXCEPT !.cooldown = @ \/ mem.pending.epoch = mem.epoch] \in Memories
    BY <1>22 DEF Memories
  <2>2. mem' \in Memories
    BY <1>1, <1>23, <2>1 DEF Abandon, TypeOK
  <2>3. op' \in [Clients -> Ops] /\ gone' \subseteq 1..MaxLeases
    BY <1>1, <1>2, <1>23, CloseTypes DEF Abandon
  <2> QED
    BY <1>1, <1>23, <2>2, <2>3 DEF Abandon, TypeOK, settings
<1>24. o.token \in 0..MaxVersion /\ 0 \in 0..MaxLeases
  BY <1>1, ConstantsAssumption DEF Ops
<1>25. CASE CheckSettings(c)
  <2>1. [o EXCEPT !.pc = "publish"] \in Ops
    BY <1>1 DEF Ops, PCs
  <2>2. op' \in [Clients -> Ops] /\ gone' \subseteq 1..MaxLeases
    <3>1. CASE disabled
      BY <1>1, <1>12, <1>24, <1>25, <3>1, CloseTypes DEF CheckSettings
    <3>2. CASE ~disabled
      BY <1>1, <1>25, <2>1, <3>2, ReplyTypes DEF CheckSettings, Goto, TypeOK
    <3> QED
      BY <3>1, <3>2
  <2> QED
    BY <1>1, <1>25, <2>2 DEF CheckSettings, TypeOK, settings
<1>26. CASE Publish(c)
  <2>1. CASE generation' = generation
    <3>1. mem' \in Memories /\ Close(c, Using(c, o.token, 0))
      BY <1>1, <1>22, <1>26, <2>1 DEF Publish, TypeOK
    <3>2. op' \in [Clients -> Ops] /\ gone' \subseteq 1..MaxLeases
      BY <1>1, <1>12, <1>24, <3>1, CloseTypes
    <3> QED
      BY <1>1, <1>26, <2>1, <3>1, <3>2 DEF Publish, TypeOK, settings
  <2>2. CASE generation' # generation
    <3>1. HoldsLease(c) /\ Close(c, Using(c, o.token, generation + 1))
      BY <1>26, <2>2 DEF Publish
    <3>2. generation + 1 \in 0..MaxLeases
      <4>1. mem.pending.lease # 0
        BY <1>26, <3>1 DEF IInv, CommandGood, WaitGood, Holds, Publish, HoldsLease
      <4>2. generation + 1 <= leases
        BY <4>1 DEF IInv, MemoryGood, Fetching
      <4> QED
        BY <1>1, <4>2, ConstantsAssumption DEF TypeOK
    <3>3. mem' \in Memories
      BY <1>22, <1>24, <1>26, <2>2, <3>2 DEF Publish, Memories
    <3>4. op' \in [Clients -> Ops] /\ gone' \subseteq 1..MaxLeases
      BY <1>1, <1>12, <1>24, <3>1, <3>2, CloseTypes
    <3> QED
      BY <1>1, <1>26, <2>2, <3>2, <3>3, <3>4 DEF Publish, TypeOK, settings
  <2> QED
    BY <2>1, <2>2
<1>27. CASE Accepted(c)
  BY <1>1, <1>2, <1>27, AloneTypes DEF Accepted
<1>28. CASE Refused(c)
  <2>1. [Idle EXCEPT !.pc = "dial", !.attempt = 1, !.refreshed = TRUE, !.floor = floor] \in Ops
    BY <1>0, <1>2 DEF Ops, PCs, Small
  <2>2. op' \in [Clients -> Ops]
    BY <1>1, <1>2, <1>28, <2>1, ReplyTypes DEF Refused
  <2>3. mem' \in Memories
    <3>1. mem \in Memories /\ \A g : Dropped(mem, g) \in Memories
      BY <1>1, MemoryTypes DEF TypeOK
    <3>2. mem' = mem \/ mem' = Dropped(mem, op[c].generation)
      BY <1>28 DEF Refused, Send
    <3> QED
      BY <3>1, <3>2
  <2>4. told' \in BOOLEAN
    BY <1>1, <1>28 DEF Refused, Send, TypeOK
  <2> QED
    BY <1>1, <1>28, <2>2, <2>3, <2>4 DEF Refused, TypeOK, settings
<1> QED
  BY <1>4, <1>5, <1>6, <1>7, <1>8, <1>9, <1>10, <1>14, <1>15, <1>16, <1>17, <1>18, <1>19,
     <1>20, <1>21, <1>23, <1>25, <1>26, <1>27, <1>28 DEF Command

\* A step of a command that is killed, of the user, of time and of the broker
\* keeps the types.
LEMMA OtherTypes ==
  ASSUME IInv,
         \/ \E c \in Clients : ClientDies(c)
         \/ \E l \in gone : Cleanup(l)
         \/ User \/ Expire \/ IdleExit \/ StepAside \/ CloseListener \/ Exit \/ BrokerDies
  PROVE  TypeOK'
<1>1. TypeOK
  BY DEF IInv
<1>2. mem \in Memories /\ Idle \in Ops
  BY <1>1, IdleType DEF TypeOK
<1>3. ASSUME NEW c \in Clients, ClientDies(c) PROVE TypeOK'
  <2>1. deaths' \in 0..MaxDeaths
    BY <1>1, <1>3, ConstantsAssumption DEF ClientDies, TypeOK
  <2>2. op' \in [Clients -> Ops] /\ gone' \subseteq 1..MaxLeases
    <3>1. CASE op' = [op EXCEPT ![c].dead = TRUE] /\ UNCHANGED gone
      BY <1>1, <3>1 DEF TypeOK, Ops
    <3>2. CASE Close(c, Idle)
      BY <1>1, <1>2, <3>2, CloseTypes
    <3> QED
      BY <1>3, <3>1, <3>2 DEF ClientDies
  <2> QED
    BY <1>1, <1>3, <2>1, <2>2 DEF ClientDies, TypeOK, settings
<1>4. ASSUME NEW l \in gone, Cleanup(l) PROVE TypeOK'
  <2>1. mem' \in Memories
    BY <1>2, <1>4, MemoryTypes DEF Cleanup
  <2> QED
    BY <1>1, <1>4, <2>1 DEF Cleanup, TypeOK, settings
<1>5. ASSUME NEW r \in {1, 2}, NEW m \in Memories, Order(r, m),
             disabled' \in BOOLEAN, off' \in BOOLEAN
      PROVE  TypeOK'
  <2>1. mem' \in Memories
    BY <1>2, <1>5 DEF Order, Send
  <2>2. told' \in BOOLEAN
    BY <1>1, <1>5 DEF Order, Send, TypeOK
  <2>3. floor' \in 0..MaxVersion /\ orders' \in 0..MaxOrders
    BY <1>1, <1>5, ConstantsAssumption DEF Order, TypeOK
  <2> QED
    BY <1>1, <1>5, <2>1, <2>2, <2>3 DEF Order, TypeOK
<1>6. (\A g : Dropped(mem, g) \in Memories) /\ (orders < MaxOrders => Locked(mem) \in Memories)
  <2>1. mem.epoch <= orders /\ mem.epoch \in Nat /\ orders \in Nat
    BY <1>1 DEF IInv, MemoryGood, TypeOK, Memories
  <2> QED
    BY <1>2, <2>1, MemoryTypes, ConstantsAssumption
<1>7. disabled \in BOOLEAN /\ off \in BOOLEAN
  BY <1>1 DEF TypeOK
<1>8. CASE User
  <2>1. CASE Rotate
    BY <1>1, <2>1, ConstantsAssumption DEF Rotate, TypeOK, server, settings
  <2>2. CASE OffSave
    BY <1>1, <2>2 DEF OffSave, TypeOK, server
  <2>3. CASE On
    BY <1>1, <2>3 DEF On, TypeOK, server
  <2>4. ASSUME NEW r \in {1, 2}, Drop(r) PROVE TypeOK'
    BY <1>5, <1>6, <1>7, <2>4 DEF Drop
  <2>5. ASSUME NEW r \in {1, 2}, Lock(r) PROVE TypeOK'
    BY <1>5, <1>6, <1>7, <2>5 DEF Lock, Order
  <2>6. ASSUME NEW r \in {1, 2}, OffLock(r) PROVE TypeOK'
    BY <1>5, <1>6, <1>7, <2>6 DEF OffLock, Order
  <2> QED
    BY <1>8, <2>1, <2>2, <2>3, <2>4, <2>5, <2>6 DEF User
<1>9. CASE Expire
  <2>1. mem' \in Memories
    BY <1>2, <1>9, MemoryTypes DEF Expire
  <2> QED
    BY <1>1, <1>9, <2>1 DEF Expire, TypeOK, settings
<1>10. EmptyMemory(1..leases) \in Memories /\ {} \subseteq 1..MaxLeases
  <2>1. 1..leases \in SUBSET (1..MaxLeases)
    BY <1>1, ConstantsAssumption DEF TypeOK
  <2>2. 0 \in 0..MaxVersion /\ 0 \in 0..MaxLeases /\ 0 \in 0..MaxOrders
    BY ConstantsAssumption
  <2> QED
    BY <2>1, <2>2 DEF EmptyMemory, NoEntry, NoPending, Memories
<1>11. CASE IdleExit
  BY <1>1, <1>11 DEF IdleExit, TypeOK, settings
<1>12. CASE StepAside
  BY <1>1, <1>12 DEF StepAside, TypeOK, settings
<1>13. CASE CloseListener
  BY <1>1, <1>10, <1>13 DEF CloseListener, TypeOK, settings
<1>14. CASE Exit
  BY <1>1, <1>14 DEF Exit, TypeOK, settings
<1>15. CASE BrokerDies
  <2>1. deaths' \in 0..MaxDeaths
    BY <1>1, <1>15, ConstantsAssumption DEF BrokerDies, TypeOK
  <2> QED
    BY <1>1, <1>10, <1>15, <2>1 DEF BrokerDies, TypeOK, settings
<1> QED
  BY <1>3, <1>4, <1>8, <1>9, <1>11, <1>12, <1>13, <1>14, <1>15

-----------------------------------------------------------------------------
(* Steps that neither store a key nor give out a lease *)

\* What most steps make of the memory: they may drop the key, and may release
\* the fetch, whose channel is then closed.
Shrinks(m, n) ==
  /\ n.entry \in {m.entry, NoEntry}
  /\ n.pending \in {m.pending, NoPending}
  /\ m.closed \subseteq n.closed /\ m.revoked \subseteq n.revoked
  /\ n.pending.lease # m.pending.lease => m.pending.lease \in n.closed

\* The same where the fetch is taken back.
TakesBack(m, n) ==
  Shrinks(m, n) /\ (n.pending.lease # m.pending.lease => m.pending.lease \in n.revoked)

Emptied == ~Present(mem)' /\ mem'.pending = NoPending

Calm ==
  /\ vault <= vault' /\ born <= born' /\ leases' = leases /\ generation' = generation
  /\ floor' = floor \/ (floor <= floor' /\ floor' <= vault' /\ Emptied)
  /\ Listening' => Listening \/ born < born'
  /\ ~Listening' => Emptied
  /\ mem'.entry \in {mem.entry, NoEntry}
  /\ mem'.pending \in {mem.pending, NoPending}
  /\ Listening' => Shrinks(mem, mem')
  /\ mem'.epoch <= orders'
  /\ gone' \subseteq 1..leases
  /\ off' => disabled' /\ (off \/ told' \/ Emptied)
  /\ told => told' \/ Emptied

\* If this command holds the broker's lease and loses it, it was taken back.
KeepsLease(c) ==
  Listening' /\ mem'.pending.lease # mem.pending.lease =>
    mem.pending.lease \in mem'.revoked \/ op[c].lease # mem.pending.lease

\* A command that does not take part in such a step stays good.
LEMMA OthersGood ==
  ASSUME IInv, TypeOK', Calm, NEW d \in Clients, op'[d] = op[d],
         Holds(d) => op[d].lease \notin gone' /\ KeepsLease(d)
  PROVE  CommandGood(d)'
<1>1. /\ CommandGood(d) /\ TypeOK /\ op[d] \in Ops
      /\ mem \in Memories /\ mem' \in Memories
  BY DEF IInv, TypeOK
<1>2. /\ op[d].lease \in Nat /\ op[d].conn \in Nat /\ op[d].floor \in Nat
      /\ op[d].generation \in Nat /\ op[d].token \in Nat /\ born \in Nat /\ born' \in Nat
  BY <1>1, ConstantsAssumption DEF Ops, TypeOK
<1>3. Live(d)' => Live(d) /\ Shrinks(mem, mem')
  BY <1>1, <1>2 DEF Calm, Live, CommandGood, WaitGood
<1>4. Holds(d)' <=> Holds(d)
  BY DEF Holds
<1>5. WaitGood(d)'
  BY <1>1, <1>2, <1>3, <1>4 DEF Calm, WaitGood, CommandGood, Shrinks
<1>6. Holds(d) /\ op[d].lease = mem'.pending.lease => mem'.pending = mem.pending /\ ~Emptied
  BY <1>1 DEF CommandGood, WaitGood, Calm, Emptied, NoPending
<1>7. FetchGood(d)'
  <2>1. Holds(d) => op[d].lease \notin gone'
    OBVIOUS
  <2>2. Holds(d) /\ Live(d)' => op[d].lease = mem'.pending.lease \/ op[d].lease \in mem'.revoked
    BY <1>1, <1>3 DEF CommandGood, FetchGood, Shrinks, KeepsLease, Live
  <2>3. Holds(d) /\ op[d].lease = mem'.pending.lease /\ op[d].pc # "helper" =>
          op[d].token >= floor'
    BY <1>1, <1>6 DEF CommandGood, FetchGood, Calm
  <2>4. Holds(d) /\ op[d].lease = mem'.pending.lease /\ op[d].pc = "publish" /\ off' => told'
    BY <1>1, <1>6 DEF CommandGood, FetchGood, Calm
  <2> QED
    BY <1>4, <2>1, <2>2, <2>3, <2>4 DEF FetchGood
<1>8. UseGood(d)'
  <2>1. op[d].floor <= floor'
    BY <1>1, <1>2 DEF CommandGood, UseGood, Calm, IInv, TypeOK
  <2> QED
    BY <1>1, <1>2, <2>1 DEF Calm, UseGood, CommandGood, NoEntry
<1> QED
  BY <1>5, <1>7, <1>8 DEF CommandGood

\* The broker's memory stays good in such a step.
LEMMA CalmMemory == ASSUME IInv, TypeOK', Calm PROVE MemoryGood'
<1>1. TypeOK /\ MemoryGood /\ mem \in Memories /\ mem' \in Memories
  BY DEF IInv, TypeOK
<1>2. /\ floor \in Nat /\ vault \in Nat /\ vault' \in Nat /\ generation \in Nat /\ leases \in Nat
      /\ mem.entry.generation \in Nat /\ mem.entry.token \in Nat /\ mem.pending.lease \in Nat
      /\ mem'.pending.lease \in Nat
  BY <1>1, ConstantsAssumption DEF TypeOK, Memories
<1>3. floor' <= vault' /\ mem'.epoch <= orders' /\ gone' \subseteq 1..leases'
  BY <1>1, <1>2 DEF Calm, MemoryGood
<1>10. Present(mem)' => ~Emptied
  BY DEF Emptied
<1>4. /\ Present(mem)' => mem'.entry = mem.entry /\ Present(mem)
      /\ Fetching(mem)' => Fetching(mem)
  BY <1>2 DEF Calm, Present, Fetching, NoEntry, NoPending
<1>5. Present(mem)' => mem'.entry.token >= floor'
  BY <1>1, <1>4, <1>10 DEF Calm, MemoryGood
<1>6. generation' + (IF Fetching(mem)' THEN 1 ELSE 0) <= leases'
  BY <1>1, <1>2, <1>4 DEF Calm, MemoryGood
<1>7. mem'.entry.generation <= generation' /\ mem'.pending.lease <= leases'
  BY <1>1, <1>2 DEF Calm, MemoryGood, NoEntry, NoPending
<1>8. off' => disabled'
  BY DEF Calm
<1>9. off' /\ Present(mem)' => told'
  BY <1>1, <1>4, <1>10 DEF Calm, MemoryGood
<1> QED
  BY <1>3, <1>5, <1>6, <1>7, <1>8, <1>9 DEF Calm, MemoryGood, Emptied

\* Such a step keeps the invariant if the commands C that take part stay good
\* and none of them begins to hold a lease.
LEMMA CalmStep ==
  ASSUME IInv, TypeOK', Calm, NEW C \in SUBSET Clients,
         \A d \in Clients \ C : /\ op'[d] = op[d]
                                /\ Holds(d) => op[d].lease \notin gone' /\ KeepsLease(d),
         \A c \in C : /\ CommandGood(c)'
                      /\ Holds(c)' => Holds(c) /\ op'[c].lease = op[c].lease
  PROVE  IInv'
<1>1. MemoryGood'
  BY CalmMemory
<1>2. \A c \in Clients : CommandGood(c)'
  BY OthersGood
<1>3. \A c \in Clients : Holds(c)' => Holds(c) /\ op'[c].lease = op[c].lease
  BY DEF Holds
<1>4. Distinct'
  BY <1>3 DEF IInv, Distinct
<1> QED
  BY <1>1, <1>2, <1>4 DEF IInv

-----------------------------------------------------------------------------
(* Every step but three is such a step *)

\* What a memory holds after its fetch is released, or taken back.
LEMMA ReleaseFields ==
  ASSUME NEW m \in Memories
  PROVE  /\ Release(m).entry = m.entry /\ Release(m).pending = NoPending
         /\ Release(m).epoch = m.epoch /\ Release(m).revoked = m.revoked
         /\ Release(m).closed = m.closed \cup ({m.pending.lease} \ {0})
         /\ Revoke(m).entry = m.entry /\ Revoke(m).pending = NoPending
         /\ Revoke(m).epoch = m.epoch
         /\ Revoke(m).closed = m.closed \cup ({m.pending.lease} \ {0})
         /\ Revoke(m).revoked = m.revoked \cup ({m.pending.lease} \ {0})
<1>1. /\ Release(m).entry = m.entry /\ Release(m).pending = NoPending
      /\ Release(m).epoch = m.epoch /\ Release(m).revoked = m.revoked
      /\ Release(m).closed = m.closed \cup ({m.pending.lease} \ {0})
  BY DEF Release, Memories
<1>2. Release(m) \in Memories
  BY MemoryTypes
<1>3. /\ Revoke(m).entry = Release(m).entry /\ Revoke(m).pending = Release(m).pending
      /\ Revoke(m).epoch = Release(m).epoch /\ Revoke(m).closed = Release(m).closed
      /\ Revoke(m).revoked = Release(m).revoked \cup ({m.pending.lease} \ {0})
  BY <1>2 DEF Revoke, Memories
<1> QED
  BY <1>1, <1>3

\* The operations of the broker drop the key, or end the fetch, or both; an
\* order and a deadline take the fetch back.
LEMMA Operations ==
  ASSUME NEW m \in Memories
  PROVE  /\ TakesBack(m, m) /\ Shrinks(m, Release(m))
         /\ \A n \in {KeyExpired(m), LeaseExpired(m), CooldownOver(m)} :
              TakesBack(m, n) /\ n.epoch = m.epoch
         /\ \A g : TakesBack(m, Dropped(m, g)) /\ Dropped(m, g).epoch = m.epoch
         /\ \A n \in {Dropped(m, 0), Locked(m)} :
              TakesBack(m, n) /\ n.entry.token = 0 /\ n.pending = NoPending
         /\ Locked(m).epoch = m.epoch + 1
<1>1. TakesBack(m, m)
  BY DEF TakesBack, Shrinks
<1>2. ASSUME NEW n, n.entry \in {m.entry, NoEntry}, n.pending = NoPending,
             n.closed = m.closed \cup ({m.pending.lease} \ {0}),
             n.revoked = m.revoked \cup ({m.pending.lease} \ {0})
      PROVE  TakesBack(m, n)
  BY <1>2 DEF TakesBack, Shrinks, NoPending
<1>3. Shrinks(m, Release(m))
  BY ReleaseFields DEF Shrinks, NoPending
<1>4. TakesBack(m, Revoke(m))
  BY <1>2, ReleaseFields
<1>5. Revoke(m) \in Memories
  BY MemoryTypes
<1>6. \A n \in {KeyExpired(m), LeaseExpired(m), CooldownOver(m)} :
        TakesBack(m, n) /\ n.epoch = m.epoch
  <2>1. TakesBack(m, KeyExpired(m)) /\ KeyExpired(m).epoch = m.epoch
    BY DEF KeyExpired, Memories, TakesBack, Shrinks
  <2>2. TakesBack(m, CooldownOver(m)) /\ CooldownOver(m).epoch = m.epoch
    BY DEF CooldownOver, Memories, TakesBack, Shrinks
  <2>3. /\ LeaseExpired(m).entry = Revoke(m).entry /\ LeaseExpired(m).pending = Revoke(m).pending
        /\ LeaseExpired(m).closed = Revoke(m).closed
        /\ LeaseExpired(m).revoked = Revoke(m).revoked
        /\ LeaseExpired(m).epoch = Revoke(m).epoch
    BY <1>5 DEF LeaseExpired, Memories
  <2>4. TakesBack(m, LeaseExpired(m)) /\ LeaseExpired(m).epoch = m.epoch
    BY <1>2, <2>3, ReleaseFields
  <2> QED
    BY <2>1, <2>2, <2>4
<1> DEFINE m1 == [m EXCEPT !.entry = NoEntry]
<1>7. /\ m1 \in Memories /\ m1.entry = NoEntry /\ m1.pending = m.pending
      /\ m1.closed = m.closed /\ m1.revoked = m.revoked /\ m1.epoch = m.epoch
  <2>1. m1 \in Memories
    BY MemoryTypes DEF KeyExpired
  <2> QED
    BY <2>1 DEF Memories
<1> HIDE DEF m1
<1>8. TakesBack(m, m1) /\ TakesBack(m, Revoke(m1))
  <2>1. TakesBack(m, m1)
    BY <1>7 DEF TakesBack, Shrinks
  <2>2. TakesBack(m, Revoke(m1))
    BY <1>2, <1>7, ReleaseFields
  <2> QED
    BY <2>1, <2>2
<1>9. \A g : TakesBack(m, Dropped(m, g)) /\ Dropped(m, g).epoch = m.epoch
  <2>1. \A g : Dropped(m, g) \in {m, m1, Revoke(m), Revoke(m1)}
    BY DEF Dropped, m1
  <2>2. \A n \in {m, m1, Revoke(m), Revoke(m1)} : TakesBack(m, n) /\ n.epoch = m.epoch
    BY <1>1, <1>4, <1>7, <1>8, ReleaseFields
  <2> QED
    BY <2>1, <2>2
<1>10. Dropped(m, 0).entry.token = 0 /\ Dropped(m, 0).pending = NoPending
  <2>1. CASE Present(m)
    <3>1. Dropped(m, 0) = Revoke(m1)
      BY <2>1 DEF Dropped, m1
    <3> QED
      BY <1>7, <3>1, ReleaseFields DEF NoEntry
  <2>2. CASE ~Present(m)
    <3>1. Dropped(m, 0) = Revoke(m)
      BY <2>2 DEF Dropped
    <3> QED
      BY <2>2, <3>1, ReleaseFields DEF Present
  <2> QED
    BY <2>1, <2>2
<1>11. /\ TakesBack(m, Locked(m)) /\ Locked(m).entry.token = 0
       /\ Locked(m).pending = NoPending /\ Locked(m).epoch = m.epoch + 1
  <2>1. /\ Locked(m).entry = NoEntry /\ Locked(m).pending = Revoke(m).pending
        /\ Locked(m).closed = Revoke(m).closed /\ Locked(m).revoked = Revoke(m).revoked
        /\ Locked(m).epoch = Revoke(m).epoch + 1
    BY <1>5 DEF Locked, Memories
  <2>2. TakesBack(m, Locked(m))
    BY <1>2, <2>1, ReleaseFields
  <2> QED
    BY <2>1, <2>2, ReleaseFields DEF NoEntry
<1> QED
  BY <1>1, <1>3, <1>6, <1>9, <1>10, <1>11

\* A step that changes nothing of the broker but what it holds is a calm one.
LEMMA MemoryCalm ==
  ASSUME IInv, TypeOK', Shrinks(mem, mem'), mem'.epoch = mem.epoch, vault <= vault',
         UNCHANGED <<broker, born, generation, leases, settings>>, told => told',
         gone' \subseteq 1..leases
  PROVE  Calm
<1>1. MemoryGood /\ TypeOK
  BY DEF IInv
<1>2. ~Listening' => Emptied
  BY <1>1 DEF Listening, MemoryGood, Emptied, Present, Shrinks, NoEntry
<1>3. born <= born' /\ leases' = leases /\ generation' = generation /\ floor' = floor
      /\ off' = off /\ disabled' = disabled /\ orders' = orders
  BY <1>1 DEF settings, TypeOK
<1>4. mem'.epoch <= orders'
  BY <1>1, <1>3 DEF MemoryGood
<1>5. off' => disabled' /\ off
  BY <1>1, <1>3 DEF MemoryGood
<1>6. Listening' => Listening
  BY DEF Listening
<1>7. mem'.entry \in {mem.entry, NoEntry} /\ mem'.pending \in {mem.pending, NoPending}
  BY DEF Shrinks
<1> QED
  BY <1>2, <1>3, <1>4, <1>5, <1>6, <1>7 DEF Calm

\* A command that neither fetches, waits nor uses a key is good.
LEMMA PlainGood ==
  ASSUME NEW c \in Clients, op'[c].lease = 0, leases' \in Nat,
         op'[c].pc \notin {"wait", "helper", "fetched", "publish", "using"},
         op'[c].conn <= born', op'[c].floor <= floor', op'[c].generation <= generation'
  PROVE  CommandGood(c)' /\ ~Holds(c)'
<1>1. ~Holds(c)'
  BY DEF Holds
<1>2. WaitGood(c)' /\ FetchGood(c)' /\ UseGood(c)'
  BY <1>1 DEF WaitGood, FetchGood, UseGood
<1> QED
  BY <1>1, <1>2 DEF CommandGood

\* A command that has ended is good.
LEMMA IdleGood ==
  ASSUME NEW c \in Clients, TypeOK', op'[c] = Idle
  PROVE  CommandGood(c)' /\ ~Holds(c)'
<1>1. 0 <= born' /\ 0 <= floor' /\ 0 <= generation' /\ leases' \in Nat
  BY ConstantsAssumption DEF TypeOK
<1>2. Idle.lease = 0 /\ Idle.conn = 0 /\ Idle.floor = 0 /\ Idle.generation = 0 /\ Idle.pc = "idle"
  BY DEF Idle
<1> QED
  BY <1>1, <1>2, PlainGood

\* A command is good with a key that is new enough, and the broker's if it bears
\* the broker's generation.
LEMMA UsingGood ==
  ASSUME NEW c \in Clients, IInv, TypeOK', NEW t, NEW g, op'[c] = Using(c, t, g),
         floor <= floor', g <= generation', op[c].floor <= t,
         g # 0 /\ g = mem'.entry.generation => t = mem'.entry.token
  PROVE  CommandGood(c)' /\ ~Holds(c)'
<1>1. /\ op'[c].pc = "using" /\ op'[c].token = t /\ op'[c].generation = g
      /\ op'[c].floor = op[c].floor /\ op'[c].lease = 0 /\ op'[c].conn = 0
  BY DEF Using, Idle
<1>2. ~Holds(c)'
  BY <1>1 DEF Holds
<1>3. op[c].floor <= floor
  BY DEF IInv, CommandGood, UseGood
<1>4. op[c].floor <= floor' /\ 0 <= leases' /\ 0 <= born'
  BY <1>3, ConstantsAssumption DEF IInv, TypeOK, Ops
<1>5. WaitGood(c)' /\ FetchGood(c)'
  BY <1>1, <1>2, <1>4 DEF WaitGood, FetchGood
<1>6. UseGood(c)'
  BY <1>1, <1>4 DEF UseGood
<1> QED
  BY <1>2, <1>5, <1>6 DEF CommandGood

\* A calm step of a command keeps the invariant if the command stays good, and
\* takes part in no fetch but its own.
LEMMA CommandStep ==
  ASSUME IInv, TypeOK', Calm, NEW c \in Clients,
         \A d \in Clients \ {c} : op'[d] = op[d],
         gone' \subseteq gone \cup (IF Holds(c) THEN {op[c].lease} ELSE {}),
         TakesBack(mem, mem') \/ (Holds(c) /\ op[c].lease = mem.pending.lease),
         CommandGood(c)',
         Holds(c)' => Holds(c) /\ op'[c].lease = op[c].lease
  PROVE  IInv'
<1>1. ASSUME NEW d \in Clients \ {c}, Holds(d)
      PROVE  op[d].lease \notin gone' /\ KeepsLease(d)
  <2>1. op[d].lease \notin gone /\ (Holds(c) => op[c].lease # op[d].lease)
    BY <1>1 DEF IInv, Distinct, CommandGood, FetchGood
  <2>2. op[d].lease \notin gone'
    BY <2>1
  <2>3. KeepsLease(d)
    BY <2>1 DEF KeepsLease, TakesBack
  <2> QED
    BY <2>2, <2>3
<1>2. {c} \in SUBSET Clients
  OBVIOUS
<1> QED
  BY <1>1, <1>2, CalmStep

\* The same for a command alone.
LEMMA Alone ==
  ASSUME IInv, TypeOK', NEW c \in Clients, NEW r, op' = [op EXCEPT ![c] = r],
         UNCHANGED <<vault, server, settings, deaths>>, CommandGood(c)',
         Holds(c)' => Holds(c) /\ op'[c].lease = op[c].lease
  PROVE  IInv'
<1>1. TypeOK /\ MemoryGood
  BY DEF IInv
<1>2. Calm
  <2>1. Shrinks(mem, mem') /\ vault <= vault' /\ gone' \subseteq 1..leases
    BY <1>1 DEF server, Shrinks, TypeOK, MemoryGood
  <2> QED
    BY <2>1, MemoryCalm DEF server
<1>3. TakesBack(mem, mem')
  BY DEF server, TakesBack, Shrinks
<1>4. \A d \in Clients \ {c} : op'[d] = op[d]
  BY <1>1 DEF TypeOK
<1>5. gone' = gone
  BY DEF server
<1> QED
  BY <1>2, <1>3, <1>4, <1>5, CommandStep

\* A command whose attempt failed is good.
LEMMA MissedGood ==
  ASSUME IInv, TypeOK', NEW c \in Clients, Missed(c), floor' = floor
  PROVE  /\ CommandGood(c)' /\ ~Holds(c)'
         /\ \E r : op' = [op EXCEPT ![c] = r]
<1>1. op[c].floor <= floor' /\ TypeOK
  BY DEF IInv, CommandGood, UseGood
<1>2. 0 <= born' /\ 0 <= generation' /\ leases' \in Nat
  BY ConstantsAssumption DEF TypeOK
<1>3. op'[c] = Idle \/ (/\ op'[c].pc \in {"dial", "unavailable"} /\ op'[c].lease = 0
                        /\ op'[c].conn = 0 /\ op'[c].floor \in {0, op[c].floor}
                        /\ op'[c].generation = 0)
  BY <1>1 DEF Missed, Idle, TypeOK
<1>4. CommandGood(c)' /\ ~Holds(c)'
  <2>1. CASE op'[c] = Idle
    BY <2>1, IdleGood
  <2>2. CASE op'[c] # Idle
    <3>1. 0 <= floor'
      BY ConstantsAssumption DEF TypeOK
    <3> QED
      BY <1>1, <1>2, <1>3, <2>2, <3>1, PlainGood
  <2> QED
    BY <2>1, <2>2
<1>5. \E r : op' = [op EXCEPT ![c] = r]
  BY DEF Missed
<1> QED
  BY <1>4, <1>5

\* A command that dials is good.
LEMMA DialedGood ==
  ASSUME IInv, TypeOK', NEW c \in Clients, NEW r \in Ops, op' = [op EXCEPT ![c] = Dialed(r)],
         r.lease = 0, r.conn <= born, r.floor <= floor, r.generation <= generation,
         UNCHANGED <<vault, server, settings, deaths>>
  PROVE  IInv'
<1>1. /\ op'[c].pc \in {"ping", "spawned"} /\ op'[c].lease = 0 /\ op'[c].conn <= born
      /\ op'[c].floor = r.floor /\ op'[c].generation = r.generation
  <2>1. op'[c] = Dialed(r) /\ born \in Nat
    BY ConstantsAssumption DEF IInv, TypeOK
  <2>2. CASE Listening
    <3>1. op'[c] = [r EXCEPT !.pc = "ping", !.conn = born]
      BY <2>1, <2>2 DEF Dialed
    <3>2. /\ op'[c].pc = "ping" /\ op'[c].conn = born /\ op'[c].lease = r.lease
          /\ op'[c].floor = r.floor /\ op'[c].generation = r.generation
      BY <3>1 DEF Ops
    <3> QED
      BY <2>1, <3>2
  <2>3. CASE ~Listening
    <3>1. op'[c] = [r EXCEPT !.pc = "spawned"]
      BY <2>1, <2>3 DEF Dialed
    <3> QED
      BY <2>1, <3>1 DEF Ops
  <2> QED
    BY <2>2, <2>3
<1>2. leases' \in Nat
  BY ConstantsAssumption DEF TypeOK
<1>3. CommandGood(c)' /\ ~Holds(c)'
  BY <1>1, <1>2, PlainGood DEF server, settings
<1> QED
  BY <1>3, Alone

\* The steps by which a command finds or starts a broker.
LEMMA ConnectInv ==
  ASSUME IInv, TypeOK', NEW c \in Clients,
         \/ Start(c) \/ Redial(c) \/ BrokerStarts(c) \/ Poll(c) \/ Ping(c) \/ Lost(c)
         \/ GiveUp(c)
  PROVE  IInv'
<1> DEFINE o == op[c]
<1>1. TypeOK /\ MemoryGood /\ CommandGood(c) /\ o \in Ops
  BY DEF IInv, TypeOK
<1>2. /\ born \in Nat /\ generation \in Nat /\ floor \in Nat /\ leases \in Nat /\ leases' \in Nat
      /\ o.floor \in Nat /\ o.floor <= floor /\ o.generation <= generation /\ o.conn <= born
  BY <1>1, ConstantsAssumption DEF TypeOK, Ops, CommandGood, WaitGood, UseGood
<1>3. o.pc \notin {"wait", "helper", "fetched", "publish"} => o.lease = 0
  BY <1>1 DEF CommandGood, WaitGood, Holds
<1>4. CASE Start(c)
  <2> DEFINE r == [Idle EXCEPT !.attempt = 1, !.floor = floor]
  <2>1. r \in Ops
    <3>1. 1 \in 0..2 /\ floor \in 0..MaxVersion
      BY <1>1 DEF TypeOK
    <3> QED
      BY <3>1, IdleType DEF Ops
  <2>2. r.lease = 0 /\ r.conn = 0 /\ r.floor = floor /\ r.generation = 0
    BY DEF Idle
  <2>3. op' = [op EXCEPT ![c] = Dialed(r)]
    BY <1>4 DEF Start
  <2> HIDE DEF r
  <2>4. r.conn <= born /\ r.floor <= floor /\ r.generation <= generation
    BY <1>2, <2>2
  <2> QED
    BY <1>4, <2>1, <2>2, <2>3, <2>4, DialedGood DEF Start
<1>5. CASE Redial(c)
  BY <1>1, <1>2, <1>3, <1>5, DialedGood DEF Redial
<1>6. CASE BrokerStarts(c)
  <2>1. op' = [op EXCEPT ![c].pc = "poll"] /\ born' \in Nat /\ born <= born'
    BY <1>2, <1>6 DEF BrokerStarts, Goto
  <2>2. op'[c] = [o EXCEPT !.pc = "poll"] /\ (\A d \in Clients \ {c} : op'[d] = op[d])
    BY <1>1, <2>1 DEF TypeOK
  <2>3. /\ op'[c].pc = "poll" /\ op'[c].lease = 0 /\ op'[c].conn <= born'
        /\ op'[c].floor <= floor' /\ op'[c].generation <= generation'
    <3>1. o.lease = 0
      BY <1>3, <1>6 DEF BrokerStarts
    <3>2. o.conn \in Nat
      BY <1>1, ConstantsAssumption DEF Ops
    <3> QED
      BY <1>1, <1>2, <1>6, <2>1, <2>2, <3>1, <3>2 DEF BrokerStarts, Ops, settings
  <2>4. CommandGood(c)' /\ ~Holds(c)'
    BY <1>2, <2>3, PlainGood
  <2>5. Calm
    <3>1. Listening' => Listening \/ born < born'
      BY <1>2, <1>6 DEF BrokerStarts, Listening
    <3>2. ~Listening' => Emptied
      BY <1>1, <1>6 DEF BrokerStarts, Listening, MemoryGood, Emptied, Present
    <3>3. Shrinks(mem, mem')
      BY <1>6 DEF BrokerStarts, Shrinks
    <3> QED
      BY <1>1, <1>2, <1>6, <2>1, <3>1, <3>2, <3>3
         DEF BrokerStarts, Calm, settings, MemoryGood, TypeOK
  <2>6. TakesBack(mem, mem') /\ gone' = gone
    BY <1>6 DEF BrokerStarts, TakesBack, Shrinks
  <2> QED
    BY <2>2, <2>4, <2>5, <2>6, CommandStep
<1>7. CASE Poll(c)
  <2>1. CASE Listening
    BY <1>1, <1>2, <1>3, <1>7, <2>1, DialedGood DEF Poll
  <2>2. CASE ~Listening
    BY <1>7, <2>2, MissedGood, Alone DEF Poll, settings
  <2> QED
    BY <2>1, <2>2
<1>8. CASE Ping(c)
  <2>1. /\ CommandGood(c)' /\ ~Holds(c)' /\ \A d \in Clients \ {c} : op'[d] = op[d]
    <3>1. CASE Missed(c)
      <4>1. CommandGood(c)' /\ ~Holds(c)' /\ \E r : op' = [op EXCEPT ![c] = r]
        BY <1>8, <3>1, MissedGood DEF Ping, settings
      <4> QED
        BY <1>1, <4>1 DEF TypeOK
    <3>2. CASE op' = [op EXCEPT ![c].pc = "loop", ![c].epoch = mem.epoch]
      <4>1. op' = [op EXCEPT ![c] = [o EXCEPT !.pc = "loop", !.epoch = mem.epoch]]
        BY <1>1, <3>2 DEF TypeOK
      <4>2. op'[c] = [o EXCEPT !.pc = "loop", !.epoch = mem.epoch]
            /\ \A d \in Clients \ {c} : op'[d] = op[d]
        BY <1>1, <4>1 DEF TypeOK
      <4>3. o.lease = 0
        BY <1>3, <1>8 DEF Ping
      <4>4. /\ op'[c].pc = "loop" /\ op'[c].lease = 0 /\ op'[c].conn = o.conn
            /\ op'[c].floor = o.floor /\ op'[c].generation = o.generation
        BY <1>1, <4>2, <4>3 DEF Ops
      <4>5. born' = born /\ floor' = floor /\ generation' = generation
        BY <1>8 DEF Ping, settings
      <4> QED
        BY <1>2, <4>2, <4>4, <4>5, PlainGood
    <3> QED
      BY <1>8, <3>1, <3>2 DEF Ping
  <2>2. Calm
    <3>1. Shrinks(mem, mem') /\ vault <= vault' /\ gone' \subseteq 1..leases /\ (told => told')
      BY <1>1, <1>8 DEF Ping, Shrinks, TypeOK, MemoryGood
    <3> QED
      BY <1>8, <3>1, MemoryCalm DEF Ping
  <2>3. TakesBack(mem, mem') /\ gone' = gone
    BY <1>8 DEF Ping, TakesBack, Shrinks
  <2> QED
    BY <2>1, <2>2, <2>3, CommandStep
<1>9. CASE Lost(c)
  BY <1>9, MissedGood, Alone DEF Lost, settings
<1>10. CASE GiveUp(c)
  <2>1. op'[c] = Idle
    BY <1>1, <1>10 DEF GiveUp, TypeOK
  <2> QED
    BY <1>10, <2>1, IdleGood, Alone DEF GiveUp
<1> QED
  BY <1>4, <1>5, <1>6, <1>7, <1>8, <1>9, <1>10

\* A step in which a command is answered and does not fetch.
LEMMA AnswerInv ==
  ASSUME IInv, TypeOK', NEW c \in Clients, NEW r, Answer(c, r), r.pc # "helper",
         op'[c] = r => CommandGood(c)' /\ ~Holds(c)',
         UNCHANGED <<vault, broker, born, release, told, mem, generation, leases,
                     settings, deaths>>
  PROVE  IInv'
<1>1. TypeOK /\ MemoryGood
  BY DEF IInv
<1>2. Calm
  <2>1. Shrinks(mem, mem') /\ vault <= vault' /\ gone' \subseteq 1..leases /\ (told => told')
    BY <1>1 DEF Answer, Shrinks, TypeOK, MemoryGood
  <2> QED
    BY <2>1, MemoryCalm
<1>3. op'[c] \in {r, Idle} /\ (\A d \in Clients \ {c} : op'[d] = op[d])
  BY <1>1 DEF Answer, TypeOK
<1>4. CommandGood(c)' /\ ~Holds(c)'
  BY <1>3, IdleGood
<1>5. TakesBack(mem, mem') /\ gone' = gone
  BY DEF Answer, TakesBack, Shrinks
<1> QED
  BY <1>2, <1>3, <1>4, <1>5, CommandStep

\* The steps by which a command is answered without a fetch, and uses the key.
LEMMA AcquireInv ==
  ASSUME IInv, TypeOK', NEW c \in Clients,
         \/ LoopLocked(c) \/ Hit(c) \/ LoopCooldown(c) \/ Wait(c) \/ Wake(c) \/ WaitEnds(c)
         \/ Accepted(c)
  PROVE  IInv'
<1> DEFINE o == op[c]
<1>1. TypeOK /\ MemoryGood /\ CommandGood(c) /\ o \in Ops /\ mem \in Memories
  BY DEF IInv, TypeOK
<1>2. /\ born \in Nat /\ generation \in Nat /\ floor \in Nat /\ leases \in Nat /\ leases' \in Nat
      /\ o.floor \in Nat /\ o.floor <= floor /\ o.generation <= generation /\ o.conn <= born
      /\ o.lease <= leases
  BY <1>1, ConstantsAssumption DEF TypeOK, Ops, CommandGood, WaitGood, UseGood
<1>3. ASSUME Answer(c, Idle), UNCHANGED <<vault, broker, born, release, told, mem, generation,
                                          leases, settings, deaths>>
      PROVE  IInv'
  <2>1. Idle.pc # "helper"
    BY DEF Idle
  <2> QED
    BY <1>3, <2>1, IdleGood, AnswerInv
<1>4. CASE LoopLocked(c)
  BY <1>3, <1>4 DEF LoopLocked
<1>5. CASE LoopCooldown(c)
  BY <1>3, <1>5 DEF LoopCooldown
<1>6. CASE WaitEnds(c)
  BY <1>3, <1>6 DEF WaitEnds
<1>7. CASE Accepted(c)
  <2>1. op'[c] = Idle
    BY <1>1, <1>7 DEF Accepted, TypeOK
  <2> QED
    BY <1>7, <2>1, IdleGood, Alone DEF Accepted
<1>8. CASE Hit(c)
  <2> DEFINE t == mem.entry.token
             g == mem.entry.generation
  <2>1. t \in Nat /\ g \in Nat /\ floor <= t /\ g <= generation
    BY <1>1, <1>8, ConstantsAssumption DEF Hit, MemoryGood, Memories
  <2>2. Using(c, t, g).pc # "helper"
    BY DEF Using, Idle
  <2>3. floor' = floor /\ generation' = generation /\ mem' = mem
    BY <1>8 DEF Hit, settings
  <2>4. o.floor <= t
    BY <1>2, <2>1
  <2>5. op'[c] = Using(c, t, g) => CommandGood(c)' /\ ~Holds(c)'
    BY <1>2, <2>1, <2>3, <2>4, UsingGood
  <2> QED
    BY <1>8, <2>2, <2>5, AnswerInv DEF Hit
<1>9. CASE Wait(c)
  <2>1. op' = [op EXCEPT ![c] = [o EXCEPT !.pc = "wait", !.lease = mem.pending.lease]]
    BY <1>1, <1>9 DEF Wait, TypeOK
  <2>2. op'[c] = [o EXCEPT !.pc = "wait", !.lease = mem.pending.lease]
    BY <1>1, <2>1 DEF TypeOK
  <2>3. /\ op'[c].pc = "wait" /\ op'[c].lease = mem.pending.lease /\ op'[c].conn = o.conn
        /\ op'[c].floor = o.floor /\ op'[c].generation = o.generation
    BY <1>1, <2>2 DEF Ops
  <2>4. /\ born' = born /\ floor' = floor /\ generation' = generation /\ leases' = leases
        /\ mem' = mem
    BY <1>9 DEF Wait, server, settings
  <2>5. ~Holds(c)' /\ mem.pending.lease # 0 /\ mem.pending.lease <= leases
    BY <1>1, <1>9, <2>3 DEF Holds, Wait, Fetching, MemoryGood
  <2>6. WaitGood(c)' /\ FetchGood(c)' /\ UseGood(c)'
    BY <1>2, <2>3, <2>4, <2>5 DEF WaitGood, FetchGood, UseGood
  <2> QED
    BY <1>9, <2>1, <2>5, <2>6, Alone DEF Wait, CommandGood
<1>10. CASE Wake(c)
  <2>1. op' = [op EXCEPT ![c] = [o EXCEPT !.pc = "loop", !.lease = 0]]
    BY <1>1, <1>10 DEF Wake, TypeOK
  <2>2. op'[c] = [o EXCEPT !.pc = "loop", !.lease = 0]
    BY <1>1, <2>1 DEF TypeOK
  <2>3. /\ op'[c].pc = "loop" /\ op'[c].lease = 0 /\ op'[c].conn = o.conn
        /\ op'[c].floor = o.floor /\ op'[c].generation = o.generation
    BY <1>1, <2>2 DEF Ops
  <2>4. born' = born /\ floor' = floor /\ generation' = generation
    BY <1>10 DEF Wake, server, settings
  <2>5. CommandGood(c)' /\ ~Holds(c)'
    BY <1>2, <2>3, <2>4, PlainGood
  <2> QED
    BY <1>10, <2>1, <2>5, Alone DEF Wake
<1> QED
  BY <1>4, <1>5, <1>6, <1>7, <1>8, <1>9, <1>10

\* The steps by which a command that fetches goes on, and one that was refused.
LEMMA FetchInv ==
  ASSUME IInv, TypeOK', NEW c \in Clients,
         \/ HelperReads(c) \/ Abandon(c) \/ CheckSettings(c) \/ Refused(c)
         \/ Publish(c) /\ generation' = generation
  PROVE  IInv'
<1> DEFINE o == op[c]
<1>1. TypeOK /\ MemoryGood /\ CommandGood(c) /\ o \in Ops /\ mem \in Memories
  BY DEF IInv, TypeOK
<1>2. /\ born \in Nat /\ generation \in Nat /\ floor \in Nat /\ leases \in Nat /\ leases' \in Nat
      /\ vault \in Nat /\ floor <= vault
      /\ o.floor \in Nat /\ o.floor <= floor /\ o.generation <= generation /\ o.conn <= born
      /\ o.lease \in Nat /\ o.lease <= leases /\ o.token \in Nat
  BY <1>1, ConstantsAssumption DEF TypeOK, Ops, CommandGood, WaitGood, UseGood, MemoryGood
<1>3. ASSUME NEW r, Close(c, r), Holds(c)
      PROVE  /\ gone' \subseteq gone \cup {o.lease} /\ gone' \subseteq 1..leases
             /\ op'[c] = r /\ \A d \in Clients \ {c} : op'[d] = op[d]
  <2>1. o.lease # 0
    BY <1>1, <1>3 DEF CommandGood, WaitGood
  <2>2. o.lease \in 1..leases
    BY <1>2, <2>1
  <2> QED
    BY <1>1, <1>3, <2>2 DEF Close, TypeOK, MemoryGood
<1>4. ASSUME o.lease = mem.pending.lease, Holds(c), mem' = mem \/ Shrinks(mem, mem'),
             mem'.epoch = mem.epoch, NEW r, Close(c, r), CommandGood(c)', ~Holds(c)',
             UNCHANGED <<vault, broker, born, release, told, generation, leases, settings, deaths>>
      PROVE  IInv'
  <2>1. Shrinks(mem, mem') /\ vault <= vault'
    BY <1>2, <1>4 DEF Shrinks
  <2>2. Calm
    BY <1>3, <1>4, <2>1, MemoryCalm
  <2> QED
    BY <1>3, <1>4, <2>2, CommandStep
<1>5. ASSUME mem' = mem, Holds(c), NEW r, Close(c, r), CommandGood(c)', ~Holds(c)',
             UNCHANGED <<vault, broker, born, release, told, generation, leases, settings, deaths>>
      PROVE  IInv'
  <2>1. TakesBack(mem, mem') /\ Shrinks(mem, mem') /\ vault <= vault'
    BY <1>2, <1>5 DEF TakesBack, Shrinks
  <2>2. Calm
    BY <1>3, <1>5, <2>1, MemoryCalm
  <2> QED
    BY <1>3, <1>5, <2>1, <2>2, CommandStep
<1>6. Release(mem) \in Memories /\ Shrinks(mem, Release(mem)) /\ Release(mem).epoch = mem.epoch
  BY <1>1, MemoryTypes, Operations, ReleaseFields
<1>7. CASE HelperReads(c)
  <2>1. op' = [op EXCEPT ![c] = [o EXCEPT !.pc = "fetched", !.token = vault]]
    BY <1>1, <1>7 DEF HelperReads, TypeOK
  <2>2. op'[c] = [o EXCEPT !.pc = "fetched", !.token = vault]
    BY <1>1, <2>1 DEF TypeOK
  <2>3. /\ op'[c].pc = "fetched" /\ op'[c].token = vault /\ op'[c].lease = o.lease
        /\ op'[c].conn = o.conn /\ op'[c].floor = o.floor /\ op'[c].generation = o.generation
    BY <1>1, <2>2 DEF Ops
  <2>4. /\ born' = born /\ floor' = floor /\ generation' = generation /\ leases' = leases
        /\ mem' = mem /\ gone' = gone /\ broker' = broker
    BY <1>7 DEF HelperReads, server, settings
  <2>5. Holds(c) /\ Holds(c)' /\ (Live(c)' <=> Live(c))
    BY <1>7, <2>3, <2>4 DEF HelperReads, Holds, Live, Listening
  <2>6. WaitGood(c)'
    BY <1>1, <2>3, <2>4, <2>5 DEF CommandGood, WaitGood
  <2>7. FetchGood(c)'
    BY <1>1, <1>2, <2>3, <2>4, <2>5 DEF CommandGood, FetchGood
  <2>8. UseGood(c)'
    BY <1>2, <2>3, <2>4 DEF UseGood
  <2> QED
    BY <1>7, <2>1, <2>3, <2>5, <2>6, <2>7, <2>8, Alone DEF HelperReads, CommandGood
<1>8. CASE Abandon(c)
  <2>1. Close(c, Idle) /\ Holds(c)
    BY <1>8 DEF Abandon, Holds
  <2>2. CommandGood(c)' /\ ~Holds(c)'
    BY <1>3, <2>1, IdleGood
  <2>3. CASE Live(c) /\ mem.pending.lease = o.lease
    <3> DEFINE n == [Release(mem) EXCEPT !.cooldown = @ \/ mem.pending.epoch = mem.epoch]
    <3>1. mem' = n
      BY <1>8, <2>3 DEF Abandon
    <3>2. /\ n.entry = Release(mem).entry /\ n.pending = Release(mem).pending
          /\ n.closed = Release(mem).closed /\ n.revoked = Release(mem).revoked
          /\ n.epoch = Release(mem).epoch
      BY <1>6 DEF Memories
    <3> HIDE DEF n
    <3>3. Shrinks(mem, mem') /\ mem'.epoch = mem.epoch
      BY <1>6, <3>1, <3>2 DEF Shrinks
    <3> QED
      BY <1>4, <1>8, <2>1, <2>2, <2>3, <3>3 DEF Abandon
  <2>4. CASE ~(Live(c) /\ mem.pending.lease = o.lease)
    <3>1. mem' = mem
      BY <1>8, <2>4 DEF Abandon
    <3> QED
      BY <1>5, <1>8, <2>1, <2>2, <3>1 DEF Abandon
  <2> QED
    BY <2>3, <2>4
<1>9. ASSUME op'[c] = Using(c, o.token, 0), o.pc \in {"fetched", "publish"}, floor' = floor
      PROVE  CommandGood(c)' /\ ~Holds(c)'
  <2>1. o.floor <= o.token /\ 0 <= generation'
    BY <1>1, <1>9, ConstantsAssumption DEF CommandGood, UseGood, TypeOK
  <2> QED
    BY <1>2, <1>9, <2>1, UsingGood
<1>10. CASE CheckSettings(c)
  <2>1. Holds(c) /\ mem' = mem /\ floor' = floor /\ o.pc = "fetched"
    BY <1>10 DEF CheckSettings, Holds, settings
  <2>2. CASE disabled
    <3>1. Close(c, Using(c, o.token, 0))
      BY <1>10, <2>2 DEF CheckSettings
    <3>2. CommandGood(c)' /\ ~Holds(c)'
      BY <1>3, <1>9, <2>1, <3>1
    <3> QED
      BY <1>5, <1>10, <2>1, <3>1, <3>2 DEF CheckSettings
  <2>3. CASE ~disabled
    <3>1. op' = [op EXCEPT ![c] = [o EXCEPT !.pc = "publish"]]
          /\ UNCHANGED <<vault, server, settings, deaths>>
      BY <1>1, <1>10, <2>3 DEF CheckSettings, Goto, TypeOK, server
    <3>2. op'[c] = [o EXCEPT !.pc = "publish"]
      BY <1>1, <3>1 DEF TypeOK
    <3>3. /\ op'[c].pc = "publish" /\ op'[c].token = o.token /\ op'[c].lease = o.lease
          /\ op'[c].conn = o.conn /\ op'[c].floor = o.floor /\ op'[c].generation = o.generation
      BY <1>1, <3>2 DEF Ops
    <3>4. /\ born' = born /\ floor' = floor /\ generation' = generation /\ leases' = leases
          /\ mem' = mem /\ gone' = gone /\ broker' = broker /\ off' = off
      BY <3>1 DEF server, settings
    <3>5. Holds(c)' /\ (Live(c)' <=> Live(c)) /\ ~off
      BY <1>1, <2>3, <3>3, <3>4 DEF Holds, Live, Listening, MemoryGood
    <3>6. WaitGood(c)'
      BY <1>1, <2>1, <3>3, <3>4, <3>5 DEF CommandGood, WaitGood
    <3>7. FetchGood(c)'
      BY <1>1, <2>1, <3>3, <3>4, <3>5 DEF CommandGood, FetchGood
    <3>8. UseGood(c)'
      BY <1>1, <2>1, <3>3, <3>4 DEF CommandGood, UseGood
    <3> QED
      BY <2>1, <3>1, <3>3, <3>5, <3>6, <3>7, <3>8, Alone DEF CommandGood
  <2> QED
    BY <2>2, <2>3
<1>11. CASE Publish(c) /\ generation' = generation
  <2>1. /\ Close(c, Using(c, o.token, 0)) /\ Holds(c) /\ o.pc = "publish" /\ floor' = floor
        /\ mem' = (IF HoldsLease(c) THEN Release(mem) ELSE mem)
    BY <1>2, <1>11 DEF Publish, Holds, settings
  <2>2. CommandGood(c)' /\ ~Holds(c)'
    BY <1>3, <1>9, <2>1
  <2>3. CASE HoldsLease(c)
    BY <1>4, <1>6, <1>11, <2>1, <2>2, <2>3 DEF Publish, HoldsLease
  <2>4. CASE ~HoldsLease(c)
    BY <1>5, <1>11, <2>1, <2>2, <2>4 DEF Publish
  <2> QED
    BY <2>3, <2>4
<1>12. CASE Refused(c)
  <2>1. op'[c] = Idle \/ op'[c] = [Idle EXCEPT !.pc = "dial", !.attempt = 1, !.refreshed = TRUE,
                                               !.floor = floor]
    BY <1>1, <1>12 DEF Refused, TypeOK
  <2>2. CommandGood(c)' /\ ~Holds(c)'
    <3>1. CASE op'[c] = Idle
      BY <3>1, IdleGood
    <3>2. CASE op'[c] # Idle
      <4>1. /\ op'[c].pc = "dial" /\ op'[c].lease = 0 /\ op'[c].conn = 0
            /\ op'[c].floor = floor /\ op'[c].generation = 0
        BY <2>1, <3>2 DEF Idle
      <4>2. born' = born /\ floor' = floor /\ generation' = generation
        BY <1>12 DEF Refused, settings
      <4> QED
        BY <1>2, <4>1, <4>2, PlainGood
    <3> QED
      BY <3>1, <3>2
  <2>3. /\ mem' \in {mem, Dropped(mem, o.generation)} /\ (told => told')
    BY <1>12 DEF Refused, Send
  <2>4. TakesBack(mem, mem') /\ mem'.epoch = mem.epoch
    BY <1>1, <2>3, Operations
  <2>5. Calm
    <3>1. Shrinks(mem, mem') /\ vault <= vault' /\ gone' \subseteq 1..leases
      BY <1>1, <1>2, <1>12, <2>4 DEF Refused, TakesBack, MemoryGood
    <3> QED
      BY <1>12, <2>3, <2>4, <3>1, MemoryCalm DEF Refused
  <2>6. gone' = gone /\ \A d \in Clients \ {c} : op'[d] = op[d]
    BY <1>1, <1>12 DEF Refused, TypeOK
  <2> QED
    BY <2>2, <2>4, <2>5, <2>6, CommandStep
<1> QED
  BY <1>7, <1>8, <1>10, <1>11, <1>12

\* A calm step without a command keeps the invariant.
LEMMA QuietStep ==
  ASSUME IInv, TypeOK', Calm, op' = op, gone' \subseteq gone, Listening' => TakesBack(mem, mem')
  PROVE  IInv'
<1>1. ASSUME NEW d \in Clients, Holds(d) PROVE op[d].lease \notin gone' /\ KeepsLease(d)
  BY <1>1 DEF IInv, CommandGood, FetchGood, KeepsLease, TakesBack
<1>2. {} \in SUBSET Clients
  OBVIOUS
<1> QED
  BY <1>1, <1>2, CalmStep

\* An order keeps the invariant: no broker that listens holds a key after it,
\* unless it is of another release and about to stop.
LEMMA OrderInv ==
  ASSUME IInv, TypeOK', NEW r, NEW m \in {Dropped(mem, 0), Locked(mem)}, Order(r, m),
         off' => disabled'
  PROVE  IInv'
<1>1. TypeOK /\ MemoryGood /\ mem \in Memories
  BY DEF IInv, TypeOK
<1>2. /\ TakesBack(mem, mem) /\ TakesBack(mem, m) /\ ~(m.entry.token # 0)
      /\ m.pending = NoPending /\ m.epoch \in {mem.epoch, mem.epoch + 1}
  BY <1>1, Operations
<1>3. /\ vault' = vault /\ broker' = broker /\ born' = born /\ leases' = leases
      /\ generation' = generation /\ gone' = gone /\ op' = op /\ orders' = orders + 1
      /\ mem' = (IF Reaches(r) THEN m ELSE mem)
      /\ told' = (told \/ (Listening /\ release # r))
      /\ floor' = (IF Listening /\ release # r THEN floor ELSE vault)
      /\ (Listening' <=> Listening)
  BY DEF Order, Send, Listening
<1>4. TakesBack(mem, mem')
  BY <1>2, <1>3
<1>5. Emptied \/ (Listening /\ release # r)
  <2>1. CASE Reaches(r)
    BY <1>2, <1>3, <2>1 DEF Emptied, Present
  <2>2. CASE ~Listening
    BY <1>1, <1>3, <2>2 DEF Emptied, Present, MemoryGood, Reaches
  <2> QED
    BY <2>1, <2>2 DEF Reaches
<1>6. mem'.epoch <= orders'
  <2>1. mem.epoch \in Nat /\ orders \in Nat /\ mem.epoch <= orders
    BY <1>1, ConstantsAssumption DEF TypeOK, Memories, MemoryGood
  <2>2. mem'.epoch \in {mem.epoch, mem.epoch + 1}
    BY <1>2, <1>3
  <2> QED
    BY <1>3, <2>1, <2>2
<1>7. floor <= vault /\ vault <= vault' /\ born <= born' /\ gone' \subseteq 1..leases
  BY <1>1, <1>3, ConstantsAssumption DEF TypeOK, MemoryGood
<1>8. floor' = floor \/ (floor <= floor' /\ floor' <= vault' /\ Emptied)
  BY <1>3, <1>5, <1>7
<1>9. off' => disabled' /\ (off \/ told' \/ Emptied)
  BY <1>3, <1>5
<1>10. ~Listening' => Emptied
  BY <1>3, <1>5
<1>11. Calm
  BY <1>3, <1>4, <1>6, <1>7, <1>8, <1>9, <1>10 DEF Calm, TakesBack, Shrinks
<1> QED
  BY <1>3, <1>4, <1>11, QuietStep

\* The steps of the user keep the invariant.
LEMMA UserInv == ASSUME IInv, TypeOK', User PROVE IInv'
<1>1. TypeOK /\ MemoryGood
  BY DEF IInv
<1>2. /\ vault \in Nat /\ born \in Nat /\ TakesBack(mem, mem) /\ Shrinks(mem, mem)
  BY <1>1, ConstantsAssumption DEF TypeOK, TakesBack, Shrinks
<1>3. ASSUME UNCHANGED <<server, op, orders, floor>>, vault <= vault', off' => off /\ disabled'
      PROVE  IInv'
  <2>1. /\ broker' = broker /\ born' = born /\ told' = told /\ mem' = mem /\ leases' = leases
        /\ generation' = generation /\ gone' = gone /\ op' = op /\ orders' = orders
        /\ floor' = floor /\ (Listening' <=> Listening)
    BY <1>3 DEF server, Listening
  <2>2. ~Listening' => Emptied
    BY <1>1, <2>1 DEF MemoryGood, Emptied, Present
  <2>3. Calm
    BY <1>1, <1>2, <1>3, <2>1, <2>2 DEF Calm, MemoryGood
  <2> QED
    BY <1>2, <2>1, <2>3, QuietStep
<1>4. CASE Rotate
  BY <1>1, <1>2, <1>3, <1>4 DEF Rotate, settings, MemoryGood
<1>5. CASE OffSave
  BY <1>1, <1>2, <1>3, <1>5 DEF OffSave, MemoryGood
<1>6. CASE On
  BY <1>2, <1>3, <1>6 DEF On
<1>7. ASSUME NEW r \in {1, 2}, Drop(r) PROVE IInv'
  BY <1>1, <1>7, OrderInv DEF Drop, MemoryGood
<1>8. ASSUME NEW r \in {1, 2}, Lock(r) PROVE IInv'
  BY <1>1, <1>8, OrderInv DEF Lock, MemoryGood
<1>9. ASSUME NEW r \in {1, 2}, OffLock(r) PROVE IInv'
  BY <1>9, OrderInv DEF OffLock
<1> QED
  BY <1>4, <1>5, <1>6, <1>7, <1>8, <1>9 DEF User

\* The steps of time and of the broker's end keep the invariant.
LEMMA BrokerInv ==
  ASSUME IInv, TypeOK',
         Expire \/ IdleExit \/ StepAside \/ CloseListener \/ Exit \/ BrokerDies
  PROVE  IInv'
<1>1. TypeOK /\ MemoryGood /\ mem \in Memories
  BY DEF IInv, TypeOK
<1>2. /\ vault \in Nat /\ born \in Nat /\ leases \in Nat /\ orders \in Nat
      /\ TakesBack(mem, mem) /\ Shrinks(mem, mem) /\ mem.epoch <= orders
  BY <1>1, ConstantsAssumption DEF TypeOK, MemoryGood, TakesBack, Shrinks
<1>3. CASE Expire
  <2>1. TakesBack(mem, mem') /\ mem'.epoch = mem.epoch
    BY <1>1, <1>3, Operations DEF Expire
  <2>2. Calm
    <3>1. Shrinks(mem, mem') /\ vault <= vault' /\ gone' \subseteq 1..leases
      BY <1>1, <1>2, <1>3, <2>1 DEF Expire, TakesBack, MemoryGood
    <3> QED
      BY <1>3, <2>1, <3>1, MemoryCalm DEF Expire
  <2> QED
    BY <1>3, <2>1, <2>2, QuietStep DEF Expire
<1>4. ASSUME broker' \in {"down", "closing"} \/ (Listening /\ broker' = "stopping"),
             \/ UNCHANGED <<told, mem, gone>> /\ (broker' # "stopping" => ~Listening)
             \/ mem' = EmptyMemory(1..leases) /\ gone' = {} /\ broker' # "stopping",
             UNCHANGED <<vault, born, release, generation, leases, op, settings>>
      PROVE  IInv'
  <2>1. /\ vault' = vault /\ born' = born /\ generation' = generation /\ leases' = leases
        /\ floor' = floor /\ orders' = orders /\ off' = off /\ disabled' = disabled
    BY <1>4 DEF settings
  <2>2. \/ /\ mem' = mem /\ told' = told /\ gone' = gone
           /\ broker' # "stopping" => ~Listening
        \/ Emptied /\ gone' = {} /\ mem'.epoch = 0 /\ mem'.entry = NoEntry /\ ~Listening'
    BY <1>4 DEF EmptyMemory, Emptied, Present, NoEntry, Listening
  <2>3. ~Listening' => Emptied
    BY <1>1, <2>2 DEF Listening, MemoryGood, Emptied, Present
  <2>4. Listening' => Listening /\ mem' = mem
    BY <1>4, <2>2 DEF Listening
  <2>5. /\ mem'.entry \in {mem.entry, NoEntry} /\ mem'.pending \in {mem.pending, NoPending}
        /\ mem'.epoch <= orders' /\ gone' \subseteq gone /\ (told => told' \/ Emptied)
    BY <1>2, <2>1, <2>2 DEF Emptied
  <2>6. Calm
    BY <1>1, <1>2, <2>1, <2>3, <2>4, <2>5 DEF Calm, MemoryGood
  <2> QED
    BY <1>2, <1>4, <2>4, <2>5, <2>6, QuietStep
<1>5. CASE IdleExit
  BY <1>4, <1>5 DEF IdleExit, Listening
<1>6. CASE StepAside
  BY <1>4, <1>6 DEF StepAside, Listening
<1>7. CASE CloseListener
  BY <1>4, <1>7 DEF CloseListener
<1>8. CASE Exit
  BY <1>4, <1>8 DEF Exit, Listening
<1>9. CASE BrokerDies
  BY <1>4, <1>9 DEF BrokerDies, Listening
<1> QED
  BY <1>3, <1>5, <1>6, <1>7, <1>8, <1>9

\* A handler that cleans up keeps the invariant: no command has its lease.
LEMMA CleanupInv == ASSUME IInv, TypeOK', NEW l \in gone, Cleanup(l) PROVE IInv'
<1>1. TypeOK /\ MemoryGood /\ mem \in Memories
  BY DEF IInv, TypeOK
<1>2. Shrinks(mem, mem') /\ mem'.epoch = mem.epoch /\ (mem' # mem => mem.pending.lease = l)
  <2>1. Shrinks(mem, mem) /\ Shrinks(mem, Release(mem)) /\ Release(mem).epoch = mem.epoch
    BY <1>1, Operations, ReleaseFields DEF TakesBack
  <2> QED
    BY <2>1 DEF Cleanup
<1>3. Calm
  <2>1. vault <= vault' /\ gone' \subseteq 1..leases
    BY <1>1 DEF Cleanup, TypeOK, MemoryGood
  <2> QED
    BY <1>2, <2>1, MemoryCalm DEF Cleanup
<1>4. ASSUME NEW d \in Clients, Holds(d) PROVE op[d].lease \notin gone' /\ KeepsLease(d)
  BY <1>2, <1>4 DEF IInv, CommandGood, FetchGood, Cleanup, KeepsLease
<1>5. {} \in SUBSET Clients
  OBVIOUS
<1> QED
  BY <1>3, <1>4, <1>5, CalmStep DEF Cleanup

\* A command that is killed leaves its lease to be cleaned up.
LEMMA DeathInv == ASSUME IInv, TypeOK', NEW c \in Clients, ClientDies(c) PROVE IInv'
<1> DEFINE o == op[c]
<1>1. TypeOK /\ MemoryGood /\ CommandGood(c) /\ o \in Ops
  BY DEF IInv, TypeOK
<1>2. leases \in Nat /\ o.lease \in Nat /\ o.lease <= leases
  BY <1>1, ConstantsAssumption DEF TypeOK, Ops, CommandGood, WaitGood
<1>3. TakesBack(mem, mem') /\ Shrinks(mem, mem')
  BY DEF ClientDies, TakesBack, Shrinks
<1>4. ASSUME gone' \subseteq 1..leases PROVE Calm
  <2>1. vault <= vault'
    BY <1>1 DEF ClientDies, TypeOK
  <2> QED
    BY <1>3, <1>4, <2>1, MemoryCalm DEF ClientDies
<1>5. CASE o.pc \in {"loop", "wait"} /\ Live(c)
  <2>1. op' = [op EXCEPT ![c].dead = TRUE] /\ gone' = gone
    BY <1>5 DEF ClientDies
  <2>2. op'[c] = [o EXCEPT !.dead = TRUE] /\ (\A d \in Clients \ {c} : op'[d] = op[d])
    BY <1>1, <2>1 DEF TypeOK
  <2>3. /\ op'[c].pc = o.pc /\ op'[c].token = o.token /\ op'[c].lease = o.lease
        /\ op'[c].conn = o.conn /\ op'[c].floor = o.floor /\ op'[c].generation = o.generation
    BY <1>1, <2>2 DEF Ops
  <2>4. /\ born' = born /\ floor' = floor /\ generation' = generation /\ leases' = leases
        /\ mem' = mem /\ broker' = broker
    BY DEF ClientDies, settings
  <2>5. ~Holds(c)' /\ ~Holds(c) /\ (Live(c)' <=> Live(c))
    BY <1>5, <2>3, <2>4 DEF Holds, Live, Listening
  <2>6. WaitGood(c)'
    BY <1>1, <2>3, <2>4, <2>5 DEF CommandGood, WaitGood
  <2>7. FetchGood(c)'
    BY <2>5 DEF FetchGood
  <2>8. UseGood(c)'
    BY <1>1, <2>3, <2>4 DEF CommandGood, UseGood
  <2>9. Calm
    BY <1>1, <1>4, <2>1 DEF MemoryGood
  <2> QED
    BY <1>3, <2>1, <2>2, <2>5, <2>6, <2>7, <2>8, <2>9, CommandStep DEF CommandGood
<1>6. CASE ~(o.pc \in {"loop", "wait"} /\ Live(c))
  <2>1. Close(c, Idle)
    BY <1>6 DEF ClientDies
  <2>2. op'[c] = Idle /\ (\A d \in Clients \ {c} : op'[d] = op[d])
    BY <1>1, <2>1 DEF Close, TypeOK
  <2>3. /\ gone' \subseteq gone \cup (IF Holds(c) THEN {o.lease} ELSE {})
        /\ gone' \subseteq 1..leases
    <3>1. CASE Live(c) /\ o.lease # 0
      <4>1. Holds(c) /\ o.lease \in 1..leases
        BY <1>1, <1>2, <1>6, <3>1 DEF CommandGood, WaitGood
      <4> QED
        BY <1>1, <2>1, <3>1, <4>1 DEF Close, MemoryGood
    <3>2. CASE ~(Live(c) /\ o.lease # 0)
      BY <1>1, <2>1, <3>2 DEF Close, MemoryGood
    <3> QED
      BY <3>1, <3>2
  <2>4. CommandGood(c)' /\ ~Holds(c)'
    BY <2>2, IdleGood
  <2> QED
    BY <1>3, <1>4, <2>2, <2>3, <2>4, CommandStep
<1> QED
  BY <1>5, <1>6

-----------------------------------------------------------------------------
(* A lease is given out, and a key is stored *)

\* A lease that is given out is new, and the broker had none under way.
LEMMA ResolveInv == ASSUME IInv, TypeOK', NEW c \in Clients, Resolve(c) PROVE IInv'
<1> DEFINE o == op[c]
           r == [o EXCEPT !.pc = "helper", !.attempt = 0, !.epoch = 0, !.lease = leases + 1]
<1>1. /\ TypeOK /\ MemoryGood /\ mem \in Memories /\ o \in Ops
      /\ \A d \in Clients : CommandGood(d) /\ op[d] \in Ops
  BY DEF IInv, TypeOK
<1>2. /\ leases \in Nat /\ generation \in Nat /\ vault \in Nat /\ mem.entry.generation \in Nat
      /\ \A d \in Clients : op[d].lease \in Nat /\ op[d].lease <= leases
  BY <1>1, ConstantsAssumption DEF TypeOK, Ops, Memories, CommandGood, WaitGood
<1>3. /\ vault' = vault /\ broker' = broker /\ born' = born /\ told' = told
      /\ generation' = generation /\ leases' = leases + 1 /\ floor' = floor
      /\ orders' = orders /\ off' = off /\ disabled' = disabled
      /\ mem.pending.lease = 0 /\ Live(c) /\ Listening /\ o.pc = "loop"
      /\ (Listening' <=> Listening) /\ (\A d \in Clients : op'[d].conn = op[d].conn =>
                                                         (Live(d)' <=> Live(d)))
  BY DEF Resolve, settings, InEpoch, Looks, Fetching, Live, Listening
<1>4. /\ mem'.pending = [lease |-> leases + 1, epoch |-> mem.epoch]
      /\ mem'.entry = mem.entry /\ mem'.epoch = mem.epoch
      /\ mem'.closed = mem.closed /\ mem'.revoked = mem.revoked
  BY <1>1 DEF Resolve, Memories
<1>5. mem'.pending.lease = leases + 1
  BY <1>4
<1>6. /\ \/ op'[c] = r /\ gone' = gone
         \/ op'[c] = Idle /\ gone' = gone \cup {leases + 1}
      /\ \A d \in Clients \ {c} : op'[d] = op[d]
  <2>1. Answer(c, r)
    BY DEF Resolve
  <2>2. r.pc = "helper" /\ r.lease = leases + 1
    BY <1>1 DEF Ops
  <2> HIDE DEF r
  <2> QED
    BY <1>1, <2>1, <2>2 DEF Answer, TypeOK
<1>7. /\ r.pc = "helper" /\ r.lease = leases + 1 /\ r.conn = o.conn
      /\ r.floor = o.floor /\ r.generation = o.generation
  BY <1>1 DEF Ops
<1> HIDE DEF r
<1>8. MemoryGood'
  <2>1. generation' + (IF Fetching(mem)' THEN 1 ELSE 0) <= leases'
    BY <1>1, <1>2, <1>3, <1>4 DEF MemoryGood, Fetching
  <2>2. gone' \subseteq 1..leases'
    <3>1. \A x \in gone \cup {leases + 1} : x \in 1..(leases + 1)
      BY <1>1, <1>2 DEF MemoryGood
    <3> QED
      BY <1>3, <1>6, <3>1
  <2>3. (Present(mem)' <=> Present(mem)) /\ mem'.entry.token = mem.entry.token
    BY <1>4 DEF Present
  <2> QED
    BY <1>1, <1>2, <1>3, <1>4, <1>5, <2>1, <2>2, <2>3 DEF MemoryGood
<1>9. ASSUME NEW d \in Clients \ {c} PROVE CommandGood(d)'
  <2>1. op'[d] = op[d] /\ CommandGood(d) /\ (Live(d)' <=> Live(d))
    BY <1>1, <1>3, <1>6
  <2>2. WaitGood(d)'
    BY <1>2, <1>3, <1>4, <2>1 DEF CommandGood, WaitGood, Holds
  <2>3. FetchGood(d)'
    <3>1. Holds(d) => op[d].lease # 0 /\ op[d].lease \notin gone' /\ op[d].lease # leases + 1
      BY <1>2, <1>6, <2>1 DEF CommandGood, FetchGood, WaitGood
    <3> QED
      BY <1>3, <1>4, <1>5, <2>1, <3>1 DEF CommandGood, FetchGood, Holds
  <2>4. UseGood(d)'
    BY <1>3, <1>4, <2>1 DEF CommandGood, UseGood
  <2> QED
    BY <2>2, <2>3, <2>4 DEF CommandGood
<1>10. CommandGood(c)'
  <2>1. CASE op'[c] = Idle
    BY <2>1, IdleGood
  <2>2. CASE op'[c] = r /\ gone' = gone
    <3>1. leases + 1 \notin gone' /\ leases + 1 # 0 /\ leases + 1 <= leases'
      BY <1>1, <1>2, <1>3, <2>2 DEF MemoryGood
    <3>2. WaitGood(c)'
      BY <1>1, <1>3, <1>7, <2>2, <3>1 DEF CommandGood, WaitGood, Holds
    <3>3. FetchGood(c)'
      BY <1>5, <1>7, <2>2, <3>1 DEF FetchGood
    <3>4. UseGood(c)'
      BY <1>1, <1>3, <1>7, <2>2 DEF CommandGood, UseGood
    <3> QED
      BY <3>2, <3>3, <3>4 DEF CommandGood
  <2> QED
    BY <1>6, <2>1, <2>2
<1>11. Distinct'
  <2>1. \A d \in Clients \ {c} : op'[d].lease # leases + 1 /\ (Holds(d)' <=> Holds(d))
    BY <1>2, <1>6 DEF Holds
  <2>2. Holds(c)' => op'[c].lease = leases + 1
    BY <1>6, <1>7 DEF Holds, Idle
  <2> QED
    BY <1>6, <2>1, <2>2 DEF IInv, Distinct
<1> QED
  BY <1>8, <1>9, <1>10, <1>11 DEF IInv

\* A key that is stored is new enough, has a new generation, and comes from the
\* holder of the lease, whose fetch it ends.
LEMMA StoreInv ==
  ASSUME IInv, TypeOK', NEW c \in Clients, Publish(c), generation' # generation
  PROVE  IInv'
<1> DEFINE o == op[c]
<1>1. /\ TypeOK /\ MemoryGood /\ mem \in Memories /\ o \in Ops
      /\ \A d \in Clients : CommandGood(d) /\ op[d] \in Ops
  BY DEF IInv, TypeOK
<1>2. /\ leases \in Nat /\ generation \in Nat /\ floor \in Nat /\ o.token \in Nat
      /\ \A d \in Clients : op[d].lease \in Nat /\ op[d].generation \in Nat
  BY <1>1, ConstantsAssumption DEF TypeOK, Ops
<1>3. /\ vault' = vault /\ broker' = broker /\ born' = born /\ told' = told
      /\ generation' = generation + 1 /\ leases' = leases /\ floor' = floor
      /\ orders' = orders /\ off' = off /\ disabled' = disabled
      /\ HoldsLease(c) /\ Close(c, Using(c, o.token, generation + 1)) /\ o.pc = "publish"
      /\ mem' = [Release(mem) EXCEPT !.entry = [token |-> o.token,
                                                generation |-> generation + 1]]
  BY DEF Publish, settings
<1>4. /\ Live(c) /\ Listening /\ (Listening' <=> Listening) /\ mem.pending.lease = o.lease
      /\ Holds(c) /\ o.lease # 0 /\ o.lease \in 1..leases
  <2>1. Live(c) /\ mem.pending.lease = o.lease /\ Holds(c)
    BY <1>3 DEF HoldsLease, Holds
  <2>2. o.lease # 0 /\ o.lease <= leases
    BY <1>1, <2>1 DEF CommandGood, WaitGood
  <2> QED
    BY <1>2, <1>3, <2>1, <2>2 DEF Live, Listening
<1>5. /\ op'[c] = Using(c, o.token, generation + 1) /\ gone' = gone \cup {o.lease}
      /\ \A d \in Clients \ {c} : op'[d] = op[d]
  BY <1>1, <1>3, <1>4 DEF Close, TypeOK
<1>6. /\ mem'.entry = [token |-> o.token, generation |-> generation + 1]
      /\ mem'.pending = NoPending /\ mem'.epoch = mem.epoch
      /\ mem'.closed = mem.closed \cup {o.lease} /\ mem'.revoked = mem.revoked
  <2>1. Release(mem) \in Memories
    BY <1>1, MemoryTypes
  <2>2. /\ mem'.entry = [token |-> o.token, generation |-> generation + 1]
        /\ mem'.pending = Release(mem).pending /\ mem'.epoch = Release(mem).epoch
        /\ mem'.closed = Release(mem).closed /\ mem'.revoked = Release(mem).revoked
    BY <1>3, <2>1 DEF Memories
  <2> QED
    BY <1>1, <1>4, <2>2, ReleaseFields
<1>7. mem'.entry.token = o.token /\ mem'.entry.generation = generation + 1
      /\ mem'.pending.lease = 0
  BY <1>6 DEF NoPending
<1>8. o.token >= floor /\ (off => told) /\ generation + 1 <= leases
  BY <1>1, <1>2, <1>3, <1>4 DEF CommandGood, FetchGood, MemoryGood, Fetching
<1>9. MemoryGood'
  <2>1. gone' \subseteq 1..leases'
    BY <1>1, <1>3, <1>4, <1>5 DEF MemoryGood
  <2>2. generation' + (IF Fetching(mem)' THEN 1 ELSE 0) <= leases'
    BY <1>2, <1>3, <1>7, <1>8 DEF Fetching
  <2> QED
    BY <1>1, <1>2, <1>3, <1>4, <1>6, <1>7, <1>8, <2>1, <2>2 DEF MemoryGood
<1>10. ASSUME NEW d \in Clients \ {c} PROVE CommandGood(d)'
  <2>1. op'[d] = op[d] /\ CommandGood(d) /\ (Live(d)' <=> Live(d)) /\ (Holds(d)' <=> Holds(d))
    BY <1>1, <1>3, <1>4, <1>5 DEF Live, Holds
  <2>2. WaitGood(d)'
    BY <1>3, <1>4, <1>6, <2>1 DEF CommandGood, WaitGood
  <2>3. Holds(d) => op[d].lease # o.lease /\ op[d].lease # 0 /\ op[d].lease \notin gone'
    BY <1>4, <1>5, <2>1 DEF IInv, Distinct, CommandGood, FetchGood, WaitGood
  <2>4. FetchGood(d)'
    BY <1>4, <1>6, <1>7, <2>1, <2>3 DEF CommandGood, FetchGood
  <2>5. UseGood(d)'
    <3>1. op[d].generation < generation'
      BY <1>2, <1>3, <2>1 DEF CommandGood, UseGood
    <3> QED
      BY <1>2, <1>3, <1>7, <2>1, <3>1 DEF CommandGood, UseGood
  <2> QED
    BY <2>2, <2>4, <2>5 DEF CommandGood
<1>11. CommandGood(c)' /\ ~Holds(c)'
  <2>1. o.floor <= o.token
    BY <1>1, <1>3 DEF CommandGood, UseGood
  <2>2. floor <= floor' /\ generation + 1 <= generation'
    BY <1>2, <1>3
  <2> QED
    BY <1>5, <1>7, <2>1, <2>2, UsingGood
<1>12. Distinct'
  <2>1. \A d \in Clients : Holds(d)' => Holds(d) /\ op'[d].lease = op[d].lease
    BY <1>5, <1>11 DEF Holds
  <2> QED
    BY <2>1 DEF IInv, Distinct
<1> QED
  BY <1>9, <1>10, <1>11, <1>12 DEF IInv

-----------------------------------------------------------------------------
(* The theorems *)

\* The first state satisfies the invariant.
LEMMA InitInv == Init => IInv
<1> SUFFICES ASSUME Init PROVE IInv
  OBVIOUS
<1>1. /\ Idle.pc = "idle" /\ Idle.lease = 0 /\ Idle.conn = 0 /\ Idle.floor = 0
      /\ Idle.generation = 0 /\ Idle \in Ops
  BY IdleType DEF Idle
<1>2. mem \in Memories
  <2>1. 0 \in 0..MaxVersion /\ 0 \in 0..MaxLeases /\ 0 \in 0..MaxOrders
        /\ {} \in SUBSET (1..MaxLeases)
    BY ConstantsAssumption
  <2> QED
    BY <2>1 DEF Init, EmptyMemory, NoEntry, NoPending, Memories
<1>3. TypeOK
  <2>1. /\ 1 \in 1..MaxVersion /\ 0 \in 0..MaxBorn /\ 0 \in 0..MaxLeases
        /\ 0 \in 0..MaxVersion /\ 0 \in 0..MaxOrders /\ 0 \in 0..MaxDeaths
    BY ConstantsAssumption
  <2>2. op \in [Clients -> Ops] /\ gone \subseteq 1..MaxLeases
    BY <1>1 DEF Init
  <2> QED
    BY <1>2, <2>1, <2>2 DEF Init, TypeOK
<1>4. /\ mem.entry = NoEntry /\ mem.pending = NoPending /\ mem.epoch = 0
  BY DEF Init, EmptyMemory
<1>5. MemoryGood
  BY <1>4 DEF Init, MemoryGood, Present, Fetching, NoEntry, NoPending
<1>6. ASSUME NEW c \in Clients PROVE CommandGood(c) /\ ~Holds(c)
  <2>1. op[c] = Idle
    BY DEF Init
  <2> QED
    BY <1>1, <2>1 DEF Init, CommandGood, WaitGood, FetchGood, UseGood, Holds
<1> QED
  BY <1>3, <1>5, <1>6 DEF IInv, Distinct

\* Every step keeps the invariant.
LEMMA NextInv == IInv /\ [Next]_vars => IInv'
<1> SUFFICES ASSUME IInv, [Next]_vars PROVE IInv'
  OBVIOUS
<1>1. ASSUME NEW c \in Clients, Command(c) PROVE IInv'
  <2>1. TypeOK'
    BY <1>1, CommandTypes
  <2> QED
    BY <1>1, <2>1, ConnectInv, AcquireInv, FetchInv, ResolveInv, StoreInv DEF Command
<1>2. ASSUME NEW c \in Clients, ClientDies(c) PROVE IInv'
  BY <1>2, OtherTypes, DeathInv
<1>3. ASSUME NEW l \in gone, Cleanup(l) PROVE IInv'
  BY <1>3, OtherTypes, CleanupInv
<1>4. CASE User
  BY <1>4, OtherTypes, UserInv
<1>5. CASE Expire \/ IdleExit \/ StepAside \/ CloseListener \/ Exit \/ BrokerDies
  BY <1>5, OtherTypes, BrokerInv
<1>6. CASE UNCHANGED vars
  BY <1>6 DEF vars, server, settings, IInv, TypeOK, MemoryGood, Distinct, CommandGood,
     WaitGood, FetchGood, UseGood, Holds, Live, Listening, Present, Fetching
<1> QED
  BY <1>1, <1>2, <1>3, <1>4, <1>5, <1>6 DEF Next

\* Every state the broker and its commands reach satisfies the invariant.
THEOREM InvariantHolds == Spec => []IInv
  BY InitInv, NextInv, PTL DEF Spec

\* Every variable keeps its type.
THEOREM TypeCorrect == Spec => []TypeOK
<1>1. IInv => TypeOK
  BY DEF IInv
<1> QED
  BY <1>1, InvariantHolds, PTL

\* Server.lock, invalidate and publish: a command never uses a key older than
\* the last lock or drop that had finished when it asked.
THEOREM NothingStaleIsUsed == Spec => []FreshAfterDrop
<1>1. IInv => FreshAfterDrop
  BY ConstantsAssumption DEF IInv, CommandGood, UseGood, FreshAfterDrop, TypeOK, Ops
<1> QED
  BY <1>1, InvariantHolds, PTL

\* Client.fetch reads the settings again before it publishes: a cache that is
\* off holds no key, except in a broker that is about to stop.
THEOREM OffStaysEmpty == Spec => []OffHoldsNothing
<1>1. IInv => OffHoldsNothing
  BY DEF IInv, MemoryGood, OffHoldsNothing
<1> QED
  BY <1>1, InvariantHolds, PTL

\* Server.acquire gives out one lease at a time: two commands prompt at once
\* only if the broker has gone or has taken a lease back.
THEOREM OneFetchAtATime == Spec => []SingleFlight
<1>1. IInv => SingleFlight
  BY DEF IInv, Distinct, CommandGood, FetchGood, Holds, SingleFlight
<1> QED
  BY <1>1, InvariantHolds, PTL

\* Server.release closes the channel of every lease that ends: a command waits
\* only for a fetch that is under way, or has been ended.
THEOREM NobodyWaitsForNothing == Spec => []WaitersAreWatched
<1>1. IInv => WaitersAreWatched
  BY DEF IInv, CommandGood, WaitGood, WaitersAreWatched
<1> QED
  BY <1>1, InvariantHolds, PTL

\* Server.invalidate compares generations: a refusal evicts only the key the
\* command was refused with, or an older one, never a newer one.
THEOREM RefusalSparesNewer == Spec => RefusalKeepsNewer
<1>1. ASSUME IInv, NEW c \in Clients, Refused(c), Present(mem), ~Present(mem')
      PROVE  mem.entry.token <= op[c].token
  <2> DEFINE g == op[c].generation
  <2>1. g # 0 /\ mem' = Dropped(mem, g)
    BY <1>1 DEF Refused, Send
  <2>2. g = mem.entry.generation
    BY <1>1, <2>1 DEF Dropped
  <2>3. op[c].token = mem.entry.token /\ op[c].token \in Nat
    BY <1>1, <2>1, <2>2, ConstantsAssumption
       DEF IInv, CommandGood, UseGood, Refused, TypeOK, Ops
  <2> QED
    BY <2>3
<1>2. IInv /\ [Next]_vars =>
        [\A c \in Clients : Refused(c) /\ Present(mem) /\ ~Present(mem') =>
           mem.entry.token <= op[c].token]_vars
  BY <1>1
<1> QED
  BY <1>2, InvariantHolds, PTL DEF Spec, RefusalKeepsNewer

=============================================================================
