------------------------------ MODULE Custody ------------------------------
(***************************************************************************)
(* What the quarantine of a managed repository promises, without its       *)
(* journal, locks, inventory file and crashes: a checkout (the linked      *)
(* worktrees 1..N-1 and the main checkout N) is either at its own path or  *)
(* held, byte for byte, by exactly one transaction; the main checkout is   *)
(* taken last; a transaction is reported only once it holds the main       *)
(* checkout.  internal/access/quarantine.go implements this: module        *)
(* Quarantine.                                                             *)
(***************************************************************************)
EXTENDS Integers

CONSTANTS
  N,             \* number of checkouts of the repository; N is the main one
  MaxTx,         \* transactions that may be opened
  MaxVersion     \* byte contents that users write

Sources == 1..N
Txs == 1..MaxTx
Contents == 0..MaxVersion    \* 0: nothing at the path

VARIABLES
  active,        \* content at the original path of each checkout
  held,          \* content each transaction holds of each checkout
  reported       \* transactions whose removal has been reported

vars == <<active, held, reported>>

Init ==
  /\ active \in [Sources -> 1..MaxVersion]
  /\ held = [t \in Txs |-> [s \in Sources |-> 0]]
  /\ reported = {}

\* A user edits a checkout, or clones it again at an empty path.
Write(s) ==
  /\ active' \in {[active EXCEPT ![s] = v] : v \in 1..MaxVersion}
  /\ UNCHANGED <<held, reported>>

\* A checkout leaves its path for a transaction that does not hold it yet.
Take(t, s) ==
  /\ active[s] # 0
  /\ held[t][s] = 0
  /\ held[t][N] = 0
  /\ active' = [active EXCEPT ![s] = 0]
  /\ held' = [held EXCEPT ![t][s] = active[s]]
  /\ UNCHANGED reported

Report(t) ==
  /\ held[t][N] # 0
  /\ reported' = reported \cup {t}
  /\ UNCHANGED <<active, held>>

Next ==
  \/ \E s \in Sources : Write(s)
  \/ \E t \in Txs, s \in Sources : Take(t, s)
  \/ \E t \in Txs : Report(t)

Spec == Init /\ [][Next]_vars
=============================================================================
