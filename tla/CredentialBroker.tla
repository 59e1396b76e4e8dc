-------------------------- MODULE CredentialBroker --------------------------
(***************************************************************************)
(* The service credential cache (internal/credcache): one broker process   *)
(* keeps a key in memory, commands take it from there or fetch it          *)
(* themselves under a lease and hand it over, and start the broker when    *)
(* there is none.  One key: the server's maps treat keys alike.  A command *)
(* and the handler of its connection are one process here; each step under *)
(* the server's mutex is one action.  A key's value is its version in the  *)
(* password manager; 0 stands for none, in every numeric field.  Lifetimes *)
(* and timers may end at any moment.                                       *)
(***************************************************************************)
EXTENDS Integers, FiniteSets

CONSTANTS
  Clients,       \* commands that may use the key at the same time
  Newer,         \* those of a later release, with another protocol version
  MaxVersion,    \* bound: versions of the key
  MaxLeases,     \* bound: fetches
  MaxBorn,       \* bound: broker processes that have served
  MaxOrders,     \* bound: locks, drops, cache off and on
  MaxDeaths      \* bound: commands and brokers killed

ASSUME ConstantsAssumption ==
  /\ Newer \subseteq Clients
  /\ MaxVersion \in Nat \ {0} /\ MaxLeases \in Nat
  /\ MaxBorn \in Nat /\ MaxOrders \in Nat /\ MaxDeaths \in Nat

NoEntry == [token |-> 0, generation |-> 0]
NoPending == [lease |-> 0, epoch |-> 0]
EmptyMemory(done) ==
  [entry |-> NoEntry, pending |-> NoPending, cooldown |-> FALSE, epoch |-> 0,
   closed |-> done, revoked |-> done]
Idle == [pc |-> "idle", attempt |-> 0, conn |-> 0, dead |-> FALSE, epoch |-> 0,
         lease |-> 0, token |-> 0, generation |-> 0, refreshed |-> FALSE, floor |-> 0]

VARIABLES
  vault,         \* version of the key in the password manager
  broker,        \* "down", "up", "stopping" (listener still open) or "closing"
  born,          \* broker processes that have served; connections name theirs
  release,       \* release of the serving broker
  told,          \* a handler is about to stop the broker
  mem,           \* the broker's memory (.closed: leases whose done channel is
                 \* closed; .revoked, history: those it took back)
  generation,    \* last generation any broker has given out
  leases,        \* leases any broker has given out
  gone,          \* leases whose connection is closed but not cleaned up yet
  op,            \* each command
  disabled,      \* saved settings: the cache is off
  off,           \* `cache off` has finished
  floor,         \* history: version when the last lock or drop finished
  orders, deaths

server == <<broker, born, release, told, mem, generation, leases, gone>>
settings == <<disabled, off, floor, orders>>
vars == <<vault, server, op, settings, deaths>>

Init ==
  /\ vault = 1
  /\ broker = "down" /\ born = 0 /\ release = 1 /\ told = FALSE
  /\ mem = EmptyMemory({}) /\ generation = 0 /\ leases = 0 /\ gone = {}
  /\ op = [c \in Clients |-> Idle]
  /\ disabled = FALSE /\ off = FALSE /\ floor = 0
  /\ orders = 0 /\ deaths = 0

\* Grant; without a generation the broker does not hold the key (not .Cached).
Using(c, token, g) ==
  [Idle EXCEPT !.pc = "using", !.token = token, !.generation = g,
               !.refreshed = op[c].refreshed, !.floor = op[c].floor]

ReleaseOf(c) == IF c \in Newer THEN 2 ELSE 1
Listening == broker \in {"up", "stopping"}
Live(c) == Listening /\ op[c].conn = born

-----------------------------------------------------------------------------
(* The broker's memory *)

\* delete(pendings), close(done)
Release(m) ==
  [m EXCEPT !.pending = NoPending, !.closed = @ \cup ({m.pending.lease} \ {0})]
Revoke(m) ==
  [Release(m) EXCEPT !.revoked = @ \cup ({m.pending.lease} \ {0})]

Present(m) == m.entry.token # 0
Fetching(m) == m.pending.lease # 0

\* Mutant: a fetch that takes too long is fenced by a new epoch.
LeaseExpiredEpoch(m) == [Revoke(m) EXCEPT !.epoch = @ + 1]

\* expireLocked, for what has reached its end: the key is dropped, the fetch
\* is taken back with a cooldown, or the cooldown is over.
KeyExpired(m) == [m EXCEPT !.entry = NoEntry]
LeaseExpired(m) == [Revoke(m) EXCEPT !.cooldown = Fetching(m)]
CooldownOver(m) == [m EXCEPT !.cooldown = FALSE]

\* Mutant: a lock forgets the fetch under way without waking those who wait.
LockedSilently(m) ==
  [m EXCEPT !.entry = NoEntry, !.pending = NoPending, !.cooldown = FALSE, !.epoch = @ + 1]

\* lock
Locked(m) == [Revoke(m) EXCEPT !.entry = NoEntry, !.cooldown = FALSE, !.epoch = @ + 1]

\* Mutant: an unconditional drop leaves a fetch under way alone.
DroppedUnfenced(m, g) ==
  IF Present(m) /\ g \in {0, m.entry.generation} THEN [m EXCEPT !.entry = NoEntry] ELSE m

\* invalidate; generation 0 drops whatever is there and fences a fetch.
Dropped(m, g) ==
  LET m1 == IF Present(m) /\ g \in {0, m.entry.generation}
            THEN [m EXCEPT !.entry = NoEntry] ELSE m
  IN IF g = 0 THEN Revoke(m1) ELSE m1

\* withRunning: a request of release r that changes the memory to m.  Without
\* a listener no broker holds keys; a broker of another release changes
\* nothing and steps aside, and the caller goes on.
Reaches(r) == Listening /\ release = r
Send(r, m) ==
  /\ mem' = IF Reaches(r) THEN m ELSE mem
  /\ told' = (told \/ (Listening /\ release # r))

-----------------------------------------------------------------------------
(* The client finds or starts a broker: Client.Get, connect, RunBroker *)

Goto(c, pc) == op' = [op EXCEPT ![c].pc = pc]

\* The command ends, or its connection is closed by it: the server notices
\* later (Cleanup).
Close(c, after) ==
  /\ op' = [op EXCEPT ![c] = after]
  /\ gone' = IF Live(c) /\ op[c].lease # 0 THEN gone \cup {op[c].lease} ELSE gone

\* dial: connected, or about to spawn a broker.
Dialed(r) == IF Listening THEN [r EXCEPT !.pc = "ping", !.conn = born]
                          ELSE [r EXCEPT !.pc = "spawned"]

\* cachePlan: the cache is not off; then connect.
Start(c) ==
  /\ op[c].pc = "idle"
  /\ ~disabled
  /\ op' = [op EXCEPT ![c] = Dialed([Idle EXCEPT !.attempt = 1, !.floor = floor])]
  /\ UNCHANGED <<vault, server, settings, deaths>>

\* An attempt that found no broker or lost it; the second one is the last.
Missed(c) ==
  op' = [op EXCEPT ![c] = IF op[c].dead THEN Idle
                          ELSE IF op[c].attempt = 1
                          THEN [Idle EXCEPT !.pc = "dial", !.attempt = 2,
                                            !.refreshed = op[c].refreshed,
                                            !.floor = op[c].floor]
                          ELSE [Idle EXCEPT !.pc = "unavailable"]]

Redial(c) ==
  /\ op[c].pc = "dial"
  /\ op' = [op EXCEPT ![c] = Dialed(@)]
  /\ UNCHANGED <<vault, server, settings, deaths>>

\* Mutant: each broker counts its generations from the same start.
BrokerStartsSame(c) ==
  /\ op[c].pc = "spawned"
  /\ IF broker = "down"
     THEN /\ born < MaxBorn
          /\ broker' = "up" /\ born' = born + 1 /\ release' = ReleaseOf(c)
          /\ generation' = 0
     ELSE UNCHANGED <<broker, born, release, generation>>
  /\ Goto(c, "poll")
  /\ UNCHANGED <<vault, told, mem, gone, leases, settings, deaths>>

\* RunBroker in the spawned process: it serves if it gets the broker lock,
\* and exits quietly otherwise.  (Generations begin at a random number: no
\* two brokers are assumed to give out the same one.)
BrokerStarts(c) ==
  /\ op[c].pc = "spawned"
  /\ IF broker = "down"
     THEN /\ born < MaxBorn
          /\ broker' = "up" /\ born' = born + 1 /\ release' = ReleaseOf(c)
     ELSE UNCHANGED <<broker, born, release>>
  /\ Goto(c, "poll")
  /\ UNCHANGED <<vault, told, mem, gone, generation, leases, settings, deaths>>

\* connect dials again until a deadline.
Poll(c) ==
  /\ op[c].pc = "poll"
  /\ IF Listening THEN op' = [op EXCEPT ![c] = Dialed(@)] ELSE Missed(c)
  /\ UNCHANGED <<vault, server, settings, deaths>>

\* A broker of another release answers so, and is stopped after the answer;
\* of one's own, acquire follows, which reads the epoch before its loop.
Ping(c) ==
  /\ op[c].pc = "ping" /\ Live(c)
  /\ IF release = ReleaseOf(c)
     THEN op' = [op EXCEPT ![c].pc = "loop", ![c].epoch = mem.epoch] /\ UNCHANGED told
     ELSE Missed(c) /\ told' = TRUE
  /\ UNCHANGED <<vault, broker, born, release, mem, generation, leases, gone,
                 settings, deaths>>

\* The connection breaks before an answer: the broker has gone.
Lost(c) ==
  /\ op[c].pc \in {"ping", "loop", "wait"}
  /\ ~Live(c)
  /\ Missed(c)
  /\ UNCHANGED <<vault, server, settings, deaths>>

\* UnavailableError
GiveUp(c) ==
  /\ op[c].pc = "unavailable"
  /\ op' = [op EXCEPT ![c] = Idle]
  /\ UNCHANGED <<vault, server, settings, deaths>>

-----------------------------------------------------------------------------
(* Server.acquire *)

\* The handler answers; if the command has died, the answer cannot be written
\* and the connection ends, with the lease it may just have been given.
Answer(c, reply) ==
  IF op[c].dead
  THEN /\ op' = [op EXCEPT ![c] = Idle]
       /\ gone' = IF reply.pc = "helper" THEN gone \cup {reply.lease} ELSE gone
  ELSE op' = [op EXCEPT ![c] = reply] /\ UNCHANGED gone

\* The loop looks at the epoch, the key, the cooldown and the fetch in turn.
Looks(c) == op[c].pc = "loop" /\ Live(c)
InEpoch(c) == Looks(c) /\ mem.epoch = op[c].epoch

LoopLocked(c) ==
  /\ Looks(c) /\ ~InEpoch(c)
  /\ Answer(c, Idle)
  /\ UNCHANGED <<vault, broker, born, release, told, mem, generation, leases,
                 settings, deaths>>

Hit(c) ==
  /\ InEpoch(c) /\ Present(mem)
  /\ Answer(c, Using(c, mem.entry.token, mem.entry.generation))
  /\ UNCHANGED <<vault, broker, born, release, told, mem, generation, leases,
                 settings, deaths>>

LoopCooldown(c) ==
  /\ InEpoch(c) /\ ~Present(mem) /\ mem.cooldown
  /\ Answer(c, Idle)
  /\ UNCHANGED <<vault, broker, born, release, told, mem, generation, leases,
                 settings, deaths>>

Resolve(c) ==
  /\ InEpoch(c) /\ ~Present(mem) /\ ~mem.cooldown /\ ~Fetching(mem)
  /\ leases < MaxLeases
  /\ leases' = leases + 1
  /\ mem' = [mem EXCEPT !.pending = [lease |-> leases + 1, epoch |-> mem.epoch]]
  /\ Answer(c, [op[c] EXCEPT !.pc = "helper", !.attempt = 0, !.epoch = 0,
                             !.lease = leases + 1])
  /\ UNCHANGED <<vault, broker, born, release, told, generation, settings, deaths>>

Wait(c) ==
  /\ InEpoch(c) /\ ~Present(mem) /\ ~mem.cooldown /\ Fetching(mem)
  /\ op' = [op EXCEPT ![c].pc = "wait", ![c].lease = mem.pending.lease]
  /\ UNCHANGED <<vault, server, settings, deaths>>

Wake(c) ==
  /\ op[c].pc = "wait" /\ Live(c)
  /\ op[c].lease \in mem.closed
  /\ op' = [op EXCEPT ![c].pc = "loop", ![c].lease = 0]
  /\ UNCHANGED <<vault, server, settings, deaths>>

\* Mutant: a command that has waited too long fetches the key itself.
WaitEndsFetching(c) ==
  /\ op[c].pc = "wait" /\ Live(c)
  /\ Answer(c, [op[c] EXCEPT !.pc = "helper"])
  /\ UNCHANGED <<vault, broker, born, release, told, mem, generation, leases,
                 settings, deaths>>

\* The wait timer runs out, or the broker is stopping; either may be seen
\* although the fetch has ended too.
WaitEnds(c) ==
  /\ op[c].pc = "wait" /\ Live(c)
  /\ Answer(c, Idle)
  /\ UNCHANGED <<vault, broker, born, release, told, mem, generation, leases,
                 settings, deaths>>

-----------------------------------------------------------------------------
(* Client.fetch, Server.publish, Server.abandon *)

\* The helper prompts and reads the key.
HelperReads(c) ==
  /\ op[c].pc = "helper"
  /\ op' = [op EXCEPT ![c].pc = "fetched", ![c].token = vault]
  /\ UNCHANGED <<vault, server, settings, deaths>>

\* The prompt is refused or fails; the broker remembers that for a while.
Abandon(c) ==
  /\ op[c].pc = "helper"
  /\ mem' = IF Live(c) /\ mem.pending.lease = op[c].lease
            THEN [Release(mem) EXCEPT !.cooldown = @ \/ mem.pending.epoch = mem.epoch]
            ELSE mem
  /\ Close(c, Idle)
  /\ UNCHANGED <<vault, broker, born, release, told, generation, leases,
                 settings, deaths>>

\* Mutant: the settings are not read again after the prompt.
CheckNothing(c) ==
  /\ op[c].pc = "fetched"
  /\ Goto(c, "publish")
  /\ UNCHANGED <<vault, server, settings, deaths>>

\* `cache off` may have landed during the prompt.
CheckSettings(c) ==
  /\ op[c].pc = "fetched"
  /\ IF disabled
     THEN Close(c, Using(c, op[c].token, 0))
     ELSE Goto(c, "publish") /\ UNCHANGED gone
  /\ UNCHANGED <<vault, broker, born, release, told, mem, generation, leases,
                 settings, deaths>>

HoldsLease(c) ==
  /\ Live(c)
  /\ mem.pending.lease = op[c].lease /\ mem.pending.epoch = mem.epoch

\* The lease is given back with the key; a key whose recorded expiry has
\* passed meanwhile is not stored.
Publish(c) ==
  /\ op[c].pc = "publish"
  /\ \/ /\ HoldsLease(c)
        /\ mem' = [Release(mem) EXCEPT !.entry = [token |-> op[c].token,
                                                  generation |-> generation + 1]]
        /\ generation' = generation + 1
        /\ Close(c, Using(c, op[c].token, generation + 1))
     \/ /\ mem' = IF HoldsLease(c) THEN Release(mem) ELSE mem
        /\ UNCHANGED generation
        /\ Close(c, Using(c, op[c].token, 0))
  /\ UNCHANGED <<vault, broker, born, release, told, leases, settings, deaths>>

\* The handler of a closed connection releases its lease, without a cooldown.
Cleanup(l) ==
  /\ l \in gone
  /\ gone' = gone \ {l}
  /\ mem' = IF mem.pending.lease = l THEN Release(mem) ELSE mem
  /\ UNCHANGED <<vault, broker, born, release, told, generation, leases, op,
                 settings, deaths>>

-----------------------------------------------------------------------------
(* The command uses the key *)

Accepted(c) ==
  /\ op[c].pc = "using"
  /\ op' = [op EXCEPT ![c] = Idle]
  /\ UNCHANGED <<vault, server, settings, deaths>>

\* A 401: cachedCredential.Drop with the generation this command saw.  A read
\* is tried once more with another key, without a look at the settings
\* (Refresh); after a write, or the second time, the command ends.
Refused(c) ==
  /\ op[c].pc = "using"
  /\ op[c].token < vault
  /\ IF op[c].generation # 0
     THEN Send(ReleaseOf(c), Dropped(mem, op[c].generation))
     ELSE UNCHANGED <<mem, told>>
  /\ \/ op' = [op EXCEPT ![c] = Idle]
     \/ /\ ~op[c].refreshed
        /\ op' = [op EXCEPT ![c] = [Idle EXCEPT !.pc = "dial", !.attempt = 1,
                                               !.refreshed = TRUE, !.floor = floor]]
  /\ UNCHANGED <<vault, broker, born, release, generation, leases, gone,
                 settings, deaths>>

-----------------------------------------------------------------------------
(* The user *)

Rotate ==
  /\ vault < MaxVersion
  /\ vault' = vault + 1
  /\ UNCHANGED <<server, op, settings, deaths>>

\* An order from a command of release r.
Order(r, m) ==
  /\ orders < MaxOrders
  /\ orders' = orders + 1
  /\ Send(r, m)
  /\ floor' = IF Listening /\ release # r THEN floor ELSE vault
  /\ UNCHANGED <<vault, broker, born, release, generation, leases, gone, op, deaths>>

\* `my services auth refresh` and a changed reference: dropCachedServiceKey,
\* which does nothing while the cache is off.
Drop(r) ==
  /\ ~disabled
  /\ Order(r, Dropped(mem, 0))
  /\ UNCHANGED <<disabled, off>>

\* `my services auth lock`
Lock(r) ==
  /\ Order(r, Locked(mem))
  /\ UNCHANGED <<disabled, off>>

\* `my services auth cache off` saves the setting, then locks.
OffSave ==
  /\ ~disabled
  /\ orders < MaxOrders
  /\ disabled' = TRUE
  /\ UNCHANGED <<vault, server, op, off, floor, orders, deaths>>

OffLock(r) ==
  /\ disabled /\ ~off
  /\ Order(r, Locked(mem))
  /\ off' = TRUE
  /\ UNCHANGED disabled

On ==
  /\ off
  /\ disabled' = FALSE /\ off' = FALSE
  /\ UNCHANGED <<vault, server, op, floor, orders, deaths>>

-----------------------------------------------------------------------------
(* Expiry and the end of processes *)

\* A lifetime or a deadline ends: seen by the sweep, or by the next request.
Expire ==
  /\ Listening
  /\ mem' \in {KeyExpired(mem), LeaseExpired(mem), CooldownOver(mem)}
  /\ UNCHANGED <<vault, broker, born, release, told, generation, leases, gone, op,
                 settings, deaths>>

\* sweep: the broker stops once it has held nothing and served no one for a
\* while.
IdleExit ==
  /\ broker = "up"
  /\ ~Present(mem) /\ ~Fetching(mem) /\ gone = {}
  /\ \A c \in Clients : op[c].pc \in {"idle", "using"} \/ ~Live(c)
  /\ broker' = "stopping"
  /\ UNCHANGED <<vault, born, release, told, mem, generation, leases, gone, op,
                 settings, deaths>>

\* The handler that met another release stops the broker.
StepAside ==
  /\ told /\ broker = "up"
  /\ broker' = "stopping"
  /\ UNCHANGED <<vault, born, release, told, mem, generation, leases, gone, op,
                 settings, deaths>>

\* The listener and the connections are closed; the lock is still held.
CloseListener ==
  /\ broker = "stopping"
  /\ broker' = "closing"
  /\ mem' = EmptyMemory(1..leases) /\ gone' = {} /\ told' = FALSE
  /\ UNCHANGED <<vault, born, release, generation, leases, op,
                 settings, deaths>>

Exit ==
  /\ broker = "closing"
  /\ broker' = "down"
  /\ UNCHANGED <<vault, born, release, told, mem, generation, leases, gone, op,
                 settings, deaths>>

\* SIGTERM, or the process is killed.
BrokerDies ==
  /\ broker = "up"
  /\ deaths < MaxDeaths
  /\ deaths' = deaths + 1
  /\ \/ broker' = "stopping" /\ UNCHANGED <<told, mem, gone>>
     \/ /\ broker' = "down"
        /\ mem' = EmptyMemory(1..leases) /\ gone' = {} /\ told' = FALSE
  /\ UNCHANGED <<vault, born, release, generation, leases, op, settings>>

\* A command is killed.  A handler that is busy with its request goes on.
ClientDies(c) ==
  /\ op[c].pc # "idle" /\ ~op[c].dead
  /\ deaths < MaxDeaths
  /\ deaths' = deaths + 1
  /\ IF op[c].pc \in {"loop", "wait"} /\ Live(c)
     THEN op' = [op EXCEPT ![c].dead = TRUE] /\ UNCHANGED gone
     ELSE Close(c, Idle)
  /\ UNCHANGED <<vault, broker, born, release, told, mem, generation, leases, settings>>

-----------------------------------------------------------------------------
Command(c) ==
  \/ Start(c) \/ Redial(c) \/ BrokerStarts(c) \/ Poll(c) \/ Ping(c) \/ Lost(c) \/ GiveUp(c)
  \/ LoopLocked(c) \/ Hit(c) \/ LoopCooldown(c) \/ Resolve(c)
  \/ Wait(c) \/ Wake(c) \/ WaitEnds(c)
  \/ HelperReads(c) \/ Abandon(c) \/ CheckSettings(c) \/ Publish(c)
  \/ Accepted(c) \/ Refused(c)

User ==
  \/ Rotate \/ OffSave \/ On
  \/ \E r \in {1, 2} : Drop(r) \/ Lock(r) \/ OffLock(r)

Next ==
  \/ \E c \in Clients : Command(c) \/ ClientDies(c)
  \/ \E l \in gone : Cleanup(l)
  \/ User
  \/ Expire \/ IdleExit \/ StepAside \/ CloseListener \/ Exit \/ BrokerDies

Spec == Init /\ [][Next]_vars

-----------------------------------------------------------------------------
(* Properties *)

PCs == {"idle", "dial", "spawned", "poll", "ping", "unavailable", "loop",
        "wait", "helper", "fetched", "publish", "using"}
Memories ==
  [entry : [token : 0..MaxVersion, generation : 0..MaxLeases],
   pending : [lease : 0..MaxLeases, epoch : 0..MaxOrders],
   cooldown : BOOLEAN, epoch : 0..MaxOrders,
   closed : SUBSET (1..MaxLeases), revoked : SUBSET (1..MaxLeases)]
Ops ==
  [pc : PCs, attempt : 0..2, conn : 0..MaxBorn, dead : BOOLEAN, epoch : 0..MaxOrders,
   lease : 0..MaxLeases, token : 0..MaxVersion, generation : 0..MaxLeases,
   refreshed : BOOLEAN, floor : 0..MaxVersion]
TypeOK ==
  /\ vault \in 1..MaxVersion
  /\ broker \in {"down", "up", "stopping", "closing"}
  /\ born \in 0..MaxBorn /\ release \in {1, 2} /\ told \in BOOLEAN
  /\ mem \in Memories
  /\ generation \in 0..MaxLeases /\ leases \in 0..MaxLeases
  /\ gone \subseteq 1..MaxLeases
  /\ op \in [Clients -> Ops]
  /\ disabled \in BOOLEAN /\ off \in BOOLEAN /\ floor \in 0..MaxVersion
  /\ orders \in 0..MaxOrders /\ deaths \in 0..MaxDeaths

\* A command that asks after a key was dropped or locked away (by an order the
\* broker understood) never gets an older version of it, whatever fetches,
\* waiters and brokers were under way: "Fetches under way cannot refill it"
\* (cli/service_credentials.go:356).
FreshAfterDrop ==
  \A c \in Clients : op[c].pc = "using" => op[c].token >= op[c].floor

\* Once `cache off` has finished the broker holds no key until `cache on`,
\* whatever fetch or refresh began before ("`cache off` may have landed during
\* the prompt", client.go:227); a broker of another release is on its way out.
OffHoldsNothing == off /\ Listening => ~Present(mem) \/ told

\* "A stale 401 must not evict a newer key another command just fetched"
\* (server.go:238), across restarts of the broker too.
RefusalKeepsNewer ==
  [][\A c \in Clients : Refused(c) /\ Present(mem) /\ ~Present(mem') =>
       mem.entry.token <= op[c].token]_vars

\* "Concurrent misses share one fetch", so that "prompts cannot fan out"
\* (docs/plans/2026-11-05-service-credential-cache.md:34): two helpers run at
\* once only if the broker is gone or has taken one of the leases back.
SingleFlight ==
  \A c, d \in Clients :
    c # d /\ op[c].pc = "helper" /\ op[d].pc = "helper" =>
      \E x \in {c, d} : ~Live(x) \/ op[x].lease \in mem.revoked

\* A command never waits for a fetch that nobody will end: the lease it waits
\* for is the current one, or its channel is closed.
WaitersAreWatched ==
  \A c \in Clients : op[c].pc = "wait" /\ Live(c) =>
    op[c].lease \in mem.closed \/ op[c].lease = mem.pending.lease

\* A broker of another release makes way, "so the caller's own broker can
\* start" (server.go:200): a command is not left without one.
StepsAside == \A c \in Clients : op[c].pc # "unavailable"
=============================================================================
