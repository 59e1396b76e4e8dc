------------------------------ MODULE Workspace ------------------------------
(***************************************************************************)
(* The components of a member's workspace that share no state, put         *)
(* together: part says which of them acts, the others stay in their        *)
(* initial states, so that the states add up and do not multiply.  The     *)
(* delivery of the contract is extended, every other part an instance.     *)
(***************************************************************************)
EXTENDS FiniteSets, Sequences, ContractDelivery

CONSTANTS
    Checkouts, Settings, Options,             \* RepoSync
    Rules, Selections,                        \* ManifestAdmin
    Harnesses, Native, Root, Groups, Ways,    \* Skills
    Machines, Elsewhere, Owner(_), Admins, ChangeRecords, PRs, Commits, MaxVersion,  \* PolicyLedger
    Procs, Repos, Needed, RoleOnly, Manifests, Asked,                                \* Umbrella
    MaxSyncs, MaxEvents, MaxCommands, MaxByHand, MaxStops, MaxTrouble                \* bounds of the parts

VARIABLES
    part,
    about, space, head, seen, changed, upstream, opt, at, todo, res, late, syncs, events,
    files, committed, rev, writes, undo, asked, admins, byHand, stops,
    entry, index, declared, skillCmd, jobs, skillAt, mine, had, skillUsed, skillByHand, skillStops,
    trusted, ledger, tip, cited, pr, have, ledgerHead, local, queued, handled, consent, ledgerByHand,
    registry, manifest, newest, disk, saved, running, alone, begun, trouble

syncVars == <<about, space, head, seen, changed, upstream, opt, at, todo, res, late, syncs, events>>
adminVars == <<files, committed, rev, writes, undo, asked, admins, byHand, stops>>
skillVars == <<entry, index, declared, skillCmd, jobs, skillAt, mine, had, skillUsed, skillByHand, skillStops>>
ledgerVars == <<trusted, ledger, tip, cited, pr, have, ledgerHead, local, queued, handled, consent, ledgerByHand>>
inventoryVars == <<registry, manifest, newest, disk, saved, running, alone, begun, trouble>>
partsVars == <<part, vars, syncVars, adminVars, skillVars, ledgerVars, inventoryVars>>

Sync == INSTANCE RepoSync WITH root <- space, up <- seen, dirty <- changed, remote <- upstream
Admin == INSTANCE ManifestAdmin WITH base <- committed, todo <- writes, used <- admins
Shared == INSTANCE Skills WITH
    cmd <- skillCmd, at <- skillAt, used <- skillUsed, byHand <- skillByHand, stops <- skillStops
Policy == INSTANCE PolicyLedger WITH Records <- ChangeRecords, head <- ledgerHead, byHand <- ledgerByHand
Inventory == INSTANCE Umbrella WITH cmd <- running, used <- begun

\* Checkouts are numbered in the order of a sync, and a setting is a workspace
\* with its checkouts, and nothing else.
ASSUME CheckoutsAssumption == Checkouts \subseteq Nat \ {0}
ASSUME SettingsAssumption == \A s \in Settings : s = [root |-> s.root, about |-> s.about]

\* There are finitely many harnesses, some with launch roots, commands are
\* given some of them, and install by links or copies.
ASSUME HarnessesAssumption ==
    IsFiniteSet(Harnesses) /\ Native \subseteq Harnesses /\ Root \notin Harnesses
ASSUME WaysAssumption ==
    Groups \subseteq SUBSET Harnesses /\ Ways \subseteq [force : BOOLEAN, as : {"link", "copy"}]

\* A contract has a rule; members are people and their files are not nothing,
\* an administrator has a machine here, the policy a first version, and a
\* commit by hand is one a member makes to a file of the ledger.
ASSUME RulesAssumption == Rules # {}
ASSUME MembersAssumption ==
    /\ Policy!Absent \notin Policy!Files /\ Policy!Absent \notin Policy!Members
    /\ \A s \in Admins : \E m \in Machines : Owner(m) = s
ASSUME VersionsAssumption == MaxVersion \in Nat \ {0}
ASSUME CommitsAssumption ==
    Commits \subseteq [by : Policy!Members, path : Policy!Paths, file : Policy!Files \cup {Policy!Absent},
                       refs : SUBSET ChangeRecords]

\* A manifest has revisions, whose catalogs list repos; there are finitely many
\* repos and mounts.
ASSUME InventoryAssumption ==
    /\ IsFiniteSet(Repos) /\ IsFiniteSet(Needed) /\ IsFiniteSet(RoleOnly)
    /\ Len(Manifests) \in Nat \ {0} /\ DOMAIN Manifests = 1..Len(Manifests)
    /\ \A i \in DOMAIN Manifests : Manifests[i].catalog \subseteq Repos

Parts == {"delivery", "sync", "admin", "skills", "policy", "inventory"}

\* A part that does not act has no state, except the extended one.
Off == "off"
PartsInit ==
    /\ part \in Parts /\ Init
    /\ IF part = "sync" THEN Sync!Init
       ELSE /\ about = Off /\ space = Off /\ head = Off /\ seen = Off /\ changed = Off
            /\ upstream = Off /\ opt = Off /\ at = Off /\ todo = Off /\ res = Off
            /\ late = Off /\ syncs = Off /\ events = Off
    /\ IF part = "admin" THEN Admin!Init
       ELSE /\ files = Off /\ committed = Off /\ rev = Off /\ writes = Off /\ undo = Off
            /\ asked = Off /\ admins = Off /\ byHand = Off /\ stops = Off
    /\ IF part = "skills" THEN Shared!Init
       ELSE /\ entry = Off /\ index = Off /\ declared = Off /\ skillCmd = Off /\ jobs = Off
            /\ skillAt = Off /\ mine = Off /\ had = Off /\ skillUsed = Off
            /\ skillByHand = Off /\ skillStops = Off
    /\ IF part = "policy" THEN Policy!Init
       ELSE /\ trusted = Off /\ ledger = Off /\ tip = Off /\ cited = Off /\ pr = Off
            /\ have = Off /\ ledgerHead = Off /\ local = Off /\ queued = Off /\ handled = Off
            /\ consent = Off /\ ledgerByHand = Off
    /\ IF part = "inventory" THEN Inventory!Init
       ELSE /\ registry = Off /\ manifest = Off /\ newest = Off /\ disk = Off /\ saved = Off
            /\ running = Off /\ alone = Off /\ begun = Off /\ trouble = Off

\* Only one part acts.
OnlyDelivery(A) == part = "delivery" /\ A /\ UNCHANGED <<part, syncVars, adminVars, skillVars, ledgerVars, inventoryVars>>
OnlySync(A) == part = "sync" /\ A /\ UNCHANGED <<part, vars, adminVars, skillVars, ledgerVars, inventoryVars>>
OnlyAdmin(A) == part = "admin" /\ A /\ UNCHANGED <<part, vars, syncVars, skillVars, ledgerVars, inventoryVars>>
OnlyShared(A) == part = "skills" /\ A /\ UNCHANGED <<part, vars, syncVars, adminVars, ledgerVars, inventoryVars>>
OnlyPolicy(A) == part = "policy" /\ A /\ UNCHANGED <<part, vars, syncVars, adminVars, skillVars, inventoryVars>>
OnlyInventory(A) == part = "inventory" /\ A /\ UNCHANGED <<part, vars, syncVars, adminVars, skillVars, ledgerVars>>
PartsNext ==
    \/ OnlyDelivery(Next)
    \/ OnlySync(Sync!Next)
    \/ OnlyAdmin(Admin!Next)
    \/ OnlyShared(Shared!Next)
    \/ OnlyPolicy(Policy!Next)
    \/ OnlyInventory(Inventory!Next)
PartsSpec == PartsInit /\ [][PartsNext]_partsVars
-----------------------------------------------------------------------------
\* Each part's type invariant.
TypesOK ==
    /\ TypeOK
    /\ part = "sync" => Sync!TypeOK
    /\ part = "admin" => Admin!TypeOK
    /\ part = "skills" => Shared!TypeOK
    /\ part = "policy" => Policy!TypeOK
    /\ part = "inventory" => Inventory!TypeOK
\* What a sync holds back or does not cover, it does not publish (Run, runGnit).
HeldStaysLocal == [][part = "sync" => Sync!PublishesNothingHeld]_partsVars
\* Wherever an admin command was stopped, the checkout is still accepted
\* (adminSkillsRemove, writeContractEdit).
Consistent == part = "admin" => Admin!Consistent
\* The contract changes in one step, and by what the edit asks for
\* (writeContractEdit).
RulesAsAsked == [][part = "admin" => Admin!ChangesAsAsked]_partsVars
\* No clean-up takes the user's entries, a manual install or the self-skill,
\* unless a torn index lost the record of the install, or the entry was made in
\* a launch root after the launch had looked there (skills.Install, Uninstall,
\* scanLegacyGlobalOrgSkills, materializeLaunchSkills).
NothingTakenAway == [][part = "skills" => Shared!TakesNothing]_partsVars
\* The ledger is append-only and holds what its subjects gave, and nothing
\* else is merged or launched without it (governance.Check, runPolicyAccept).
LedgerIsConsent == [][part = "policy" => Policy!KeepsConsent]_partsVars
\* Setup and sync keep what is there, what is selected and what is listed
\* (umbrella.Ensure, SaveState, runSetup).
InventoryKept == [][part = "inventory" => Inventory!KeepsInventory]_partsVars
=============================================================================
