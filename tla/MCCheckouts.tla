----------------------------- MODULE MCCheckouts -----------------------------
(***************************************************************************)
(* Three components that work on checkouts on disk, each run by two        *)
(* processes, checked in one run: session commands, the contract's roots,  *)
(* and quarantine.  They share no state: part says which of them acts, the *)
(* others stay in their initial states, so that the states add up and do   *)
(* not multiply.                                                           *)
(***************************************************************************)
EXTENDS WorkSession, TLC

CONSTANTS
    Commands,                                  \* those that reconcile the contract's roots
    MaxRev, MaxRootEdits, MaxRootCrashes,      \* bounds of module ContractRoots
    N, Monitors, NoProc,                       \* module Quarantine and its processes
    MaxTx, MaxVersion, MaxAborts, MaxOther     \* bounds of module Quarantine

\* The manifest has a first revision.
ASSUME RootsAssumption == MaxRev \in Nat \ {0}
\* There is a main checkout with content, and nobody is called NoProc.
ASSUME QuarantineAssumption ==
    /\ N \in Nat \ {0} /\ MaxTx \in Nat /\ MaxVersion \in Nat \ {0}
    /\ MaxAborts \in Nat /\ MaxOther \in Nat
    /\ NoProc \notin Monitors

VARIABLES
    part,
    man, live, file, active, root, lock, cmd, old, crossed, undone, edits, crashes,
    orig, dest, capsule, journal, inventory, events, flock, mover, other, written, aborts, saves

rootsVars == <<man, live, file, active, root, lock, cmd, old, crossed, undone, edits, crashes>>
removalVars == <<orig, dest, capsule, journal, inventory, events, flock, mover, other, written, aborts, saves>>
partsVars == <<part, vars, rootsVars, removalVars>>

Roots == INSTANCE ContractRoots WITH
    Procs <- Commands, MaxEdits <- MaxRootEdits, MaxCrashes <- MaxRootCrashes
Q == INSTANCE Quarantine WITH Procs <- Monitors, lock <- flock, op <- mover

PartsInit ==
    /\ part \in {"sessions", "roots", "quarantine"} /\ Init /\ Roots!Init /\ Q!Init
    /\ part # "sessions" => \A s \in Sessions : rec[s].status = "none"

\* Only one part acts.
OnlySessions(A) == part = "sessions" /\ A /\ UNCHANGED <<part, rootsVars, removalVars>>
OnlyRoots(A) == part = "roots" /\ A /\ UNCHANGED <<part, vars, removalVars>>
OnlyQuarantine(A) == part = "quarantine" /\ A /\ UNCHANGED <<part, vars, rootsVars>>
PartsNext ==
    \/ OnlySessions(Next)
    \/ OnlyRoots(Roots!Next)
    \/ OnlyQuarantine(Q!Next)
PartsSpec == PartsInit /\ [][PartsNext]_partsVars

\* Nothing tells one process of a component from the other; the runs have the
\* same ones in each.
ProcessSymmetry == Permutations(Procs)
-----------------------------------------------------------------------------
\* The variables of the three parts have their types.
TypesOK == TypeOK /\ Roots!TypeOK /\ Q!TypeOK
\* A root shown as current holds the active contract (MarkInstalledOutput).
CurrentMeansInstalled == Roots!CurrentMeansInstalled
\* A removal is accounted for once the transaction holds the bytes that its
\* capsules recorded (finalizeQuarantineInventory).
AccountedMeansHeld == Q!AccountedMeansHeld
\* No checkout leaves its path before its recovery capsule is written
\* (advanceQuarantineMoves).
CapsuleBeforeMove == Q!CapsuleBeforeMove
\* The quarantine keeps the promise of module Custody: a move is lossless and
\* never overwrites, the main checkout goes last, a report follows its move.
C == INSTANCE Custody WITH active <- orig, held <- dest, reported <- events
IsCustody == C!Spec
=============================================================================
