----------------------------- MODULE MCSessions ------------------------------
(***************************************************************************)
(* Three components that must get somewhere, checked in one run: session   *)
(* commands, the contract's roots, and quarantines that are resumed.  They *)
(* share no state: part says which of them acts, the others stay in their  *)
(* initial states, so that the states add up and do not multiply.          *)
(***************************************************************************)
EXTENDS WorkSession

CONSTANTS
    Commands,                              \* those that reconcile the contract's roots
    MaxRev, MaxRootEdits, MaxRootCrashes   \* bounds of module ContractRoots

\* The manifest has a first revision.
ASSUME RootsAssumption == MaxRev \in Nat \ {0}

VARIABLES
    part,
    man, live, file, active, root, lock, cmd, old, crossed, undone, edits, crashes,
    orig, dest, capsule, journal, inventory, events, flock, mover, other, written, aborts, saves

rootsVars == <<man, live, file, active, root, lock, cmd, old, crossed, undone, edits, crashes>>
recoveryVars == <<orig, dest, capsule, journal, inventory, events, flock, mover, other, written, aborts, saves>>
partsVars == <<part, vars, rootsVars, recoveryVars>>

Roots == INSTANCE ContractRoots WITH
    Procs <- Commands, MaxEdits <- MaxRootEdits, MaxCrashes <- MaxRootCrashes
Recovery == INSTANCE Quarantine WITH
    N <- 2, MaxTx <- 2, MaxVersion <- 2, MaxAborts <- 2, MaxOther <- 0,
    Procs <- {"monitor"}, NoProc <- "free", lock <- flock, op <- mover

Parts == {"work", "roots", "recovery"}
PartsInit ==
    /\ part \in Parts /\ Init /\ Roots!Init /\ Recovery!Init
    /\ part # "work" => \A s \in Sessions : rec[s].status = "none"

\* Only one part acts.
OnlyWork(A) == part = "work" /\ A /\ UNCHANGED <<part, rootsVars, recoveryVars>>
OnlyRoots(A) == part = "roots" /\ A /\ UNCHANGED <<part, vars, recoveryVars>>
OnlyRecovery(A) == part = "recovery" /\ A /\ UNCHANGED <<part, vars, rootsVars>>
PartsNext ==
    \/ OnlyWork(Next)
    \/ OnlyRoots(Roots!Next)
    \/ OnlyRecovery(Recovery!Next)

PartsFairness ==
    /\ WF_partsVars(\/ OnlyWork(\E p \in Procs : Step(p))
                     \/ OnlyRoots(Roots!OldWriterWrites)
                     \/ OnlyRecovery(Recovery!Continue("monitor")))
    /\ WF_partsVars(OnlyWork(\E p \in Procs, s \in Sessions : Begin(p, "status", s)))
    /\ \A p \in Commands : SF_partsVars(OnlyRoots(Roots!Step(p)))
    /\ \A t \in Recovery!Txs :
         SF_partsVars(OnlyRecovery(journal[t].phase # "complete" /\ Recovery!ResumeLoad("monitor", t)))
PartsSpec == PartsInit /\ [][PartsNext]_partsVars /\ PartsFairness
-----------------------------------------------------------------------------
\* The umbrella and the live sessions come to hold the manifest's contract
\* (reconcileContractRoots).
Converges == part = "roots" => Roots!Converges
\* Resumed again and again, a quarantine comes to its end (quarantine.go:161).
ResumeConverges == Recovery!ResumeConverges
=============================================================================
