---------------------------- MODULE ContractRoots ----------------------------
(***************************************************************************)
(* Installation of the organization contract in the roots agents work in   *)
(* (cli/contract_state.go, contractstate/state.go, guidance/guidance.go):  *)
(* the umbrella and its active sessions.  A command observes the manifest  *)
(* checkout, then writes the AGENTS.md of every pending root and its       *)
(* installed marker, one root at a time under the state lock.  Pulls,      *)
(* edits, sessions, and the older writers of setup and launch, take no     *)
(* lock.  A checkout is [rev, edited]; what a file holds is the checkout   *)
(* it was rendered from, or Other, which the umbrella's writers respect.   *)
(***************************************************************************)
EXTENDS Naturals

CONSTANTS
    Sessions,     \* work sessions
    Procs,        \* commands that reconcile
    MaxRev,       \* bound: revisions of the manifest
    MaxEdits,     \* bound: local edits, sessions, changes by the user, older writers
    MaxCrashes    \* bound: commands that die

Umbrella == "umbrella"
Roots == {Umbrella} \cup Sessions
NoFile == [rev |-> 0, edited |-> FALSE]
Other == [rev |-> 0, edited |-> TRUE]

VARIABLES
    man,      \* the manifest checkout
    live,     \* the active sessions
    file,     \* file[r]: what AGENTS.md of r was rendered from
    active,   \* state file: the active revision, 0 before the first
    root,     \* state file: root[r], the installed marker
    lock,     \* the command that holds the state lock, or "none"
    cmd,      \* cmd[p]: where a reconciling command is
    old,      \* an older writer's rendering that it has not written yet, or NoFile
    crossed,  \* history: commands during whose installation an edit was undone
    undone,   \* history: roots whose marker was saved by such a command
    edits, crashes

vars == <<man, live, file, active, root, lock, cmd, old, crossed, undone, edits, crashes>>
tree == <<man, live, file>>
store == <<active, root>>
history == <<crossed, undone>>
bounds == <<edits, crashes>>

NoRoot == [known |-> FALSE, installed |-> 0, hash |-> NoFile, failed |-> FALSE]
IdleCmd == [at |-> "idle", expected |-> 0, todo |-> {}, r |-> Umbrella, output |-> NoFile]

Init ==
    /\ man = [rev |-> 1, edited |-> FALSE] /\ live = {}
    /\ file = [r \in Roots |-> NoFile]
    /\ active = 0 /\ root = [r \in Roots |-> NoRoot]
    /\ lock = "none" /\ cmd = [p \in Procs |-> IdleCmd] /\ old = NoFile
    /\ crossed = {} /\ undone = {}
    /\ edits = 0 /\ crashes = 0

Published(r) == [rev |-> r, edited |-> FALSE]
Bounded == edits < MaxEdits /\ edits' = edits + 1

(***************************************************************************)
(* The surroundings: none of this waits for the lock.                      *)
(***************************************************************************)
\* A pull, or the publication of the local edit.
NewRevision ==
    /\ man.rev < MaxRev
    /\ man' = Published(man.rev + 1)
    /\ UNCHANGED <<live, file, store, lock, cmd, old, history, bounds>>
EditManifest ==
    /\ ~man.edited /\ Bounded
    /\ man' = [man EXCEPT !.edited = TRUE]
    /\ UNCHANGED <<live, file, store, lock, cmd, old, history, crashes>>
\* Even while a command installs what it rendered from the edit.
UndoEdit ==
    /\ man.edited
    /\ man' = [man EXCEPT !.edited = FALSE]
    /\ crossed' = crossed \cup {p \in Procs : cmd[p].at \in {"compose", "wrote"}}
    /\ UNCHANGED <<live, file, store, lock, cmd, old, undone, bounds>>
\* A session's directory is new.
StartSession(s) ==
    /\ file[s] = NoFile /\ Bounded
    /\ live' = live \cup {s} /\ file' = [file EXCEPT ![s] = man]
    /\ UNCHANGED <<man, store, lock, cmd, old, history, crashes>>
CloseSession(s) ==
    /\ s \in live
    /\ live' = live \ {s} /\ file' = [file EXCEPT ![s] = Other]
    /\ UNCHANGED <<man, store, lock, cmd, old, history, bounds>>
\* The user replaces AGENTS.md or removes it.
UserWrites ==
    /\ Bounded
    /\ \E content \in {Other, NoFile} : file' = [file EXCEPT ![Umbrella] = content]
    /\ UNCHANGED <<man, live, store, lock, cmd, old, history, crashes>>
\* guidance.Ensure of setup and launch: rendered, checked, and then written.
OldWriterRenders ==
    /\ old = NoFile /\ Bounded /\ file[Umbrella] # Other
    /\ old' = man
    /\ UNCHANGED <<tree, store, lock, cmd, history, crashes>>
OldWriterWrites ==
    /\ old # NoFile
    /\ file' = [file EXCEPT ![Umbrella] = old] /\ old' = NoFile
    /\ UNCHANGED <<man, live, store, lock, cmd, history, bounds>>

(***************************************************************************)
(* One reconciling command.  Observe: the active revision advances before  *)
(* any derived write; an unpublished checkout is not observed.  The live   *)
(* roots replace the known ones unless one could not be listed.            *)
(***************************************************************************)
PendingByRevision(r) == root[r].installed # active \/ root[r].failed
Pending(r) ==
    \/ root[r].hash # NoFile /\ file[r] # root[r].hash
    \/ root[r].installed # active \/ root[r].failed
Known == {r \in Roots : root[r].known}

Observe(p) ==
    /\ cmd[p].at = "idle" /\ lock = "none" /\ ~man.edited
    /\ active' = man.rev
    /\ \E listed \in BOOLEAN :
         root' = [r \in Roots |-> IF r \in {Umbrella} \cup live THEN [root[r] EXCEPT !.known = TRUE]
                                  ELSE IF listed THEN NoRoot ELSE root[r]]
    /\ cmd' = [cmd EXCEPT ![p] = [IdleCmd EXCEPT !.at = "observed", !.expected = man.rev]]
    /\ UNCHANGED <<tree, lock, old, history, bounds>>

\* The document is loaded and must be what was observed; an umbrella that an
\* older writer replaced is rewritten too.
Stale(r) == r = Umbrella /\ file[r] \notin {NoFile, Other, man}
Plan(p) ==
    /\ cmd[p].at = "observed"
    /\ cmd' = [cmd EXCEPT ![p] = IF man # Published(@.expected) THEN IdleCmd
                                 ELSE [@ EXCEPT !.at = "root", !.todo = {r \in Known : Pending(r) \/ Stale(r)}]]
    /\ UNCHANGED <<tree, store, lock, old, history, bounds>>

\* Under the lock: checks, and the expected output is rendered.
Blocked(r) == IF r = Umbrella THEN file[r] = Other ELSE r \notin live
Begin(p, r) ==
    /\ cmd[p].at = "root" /\ r \in cmd[p].todo /\ lock = "none"
    /\ IF active # cmd[p].expected \/ man # Published(cmd[p].expected)
       THEN /\ cmd' = [cmd EXCEPT ![p].todo = @ \ {r}]
            /\ UNCHANGED <<root, lock>>
       ELSE IF Blocked(r)
       THEN /\ root' = [root EXCEPT ![r].known = TRUE, ![r].failed = TRUE]
            /\ cmd' = [cmd EXCEPT ![p].todo = @ \ {r}]
            /\ UNCHANGED lock
       ELSE /\ lock' = p
            /\ cmd' = [cmd EXCEPT ![p].at = "compose", ![p].r = r, ![p].todo = @ \ {r}]
            /\ UNCHANGED root
    /\ UNCHANGED <<tree, active, old, history, bounds>>
Compose(p) ==
    /\ cmd[p].at = "compose" /\ cmd[p].output = NoFile
    /\ cmd' = [cmd EXCEPT ![p].output = man]
    /\ UNCHANGED <<tree, store, lock, old, history, bounds>>
\* Ensure renders again, and EnsureGuidance what was loaded before.
Write(p) ==
    /\ cmd[p].at = "compose" /\ cmd[p].output # NoFile
    /\ file' = [file EXCEPT ![cmd[p].r] = IF cmd[p].r = Umbrella THEN man ELSE cmd[p].output]
    /\ cmd' = [cmd EXCEPT ![p].at = "wrote"]
    /\ UNCHANGED <<man, live, store, lock, old, history, bounds>>

\* The marker that is saved, or the one that stays.
Marked(p, r, ok) ==
    IF ~ok THEN undone ELSE IF p \in crossed THEN undone \cup {r} ELSE undone \ {r}
\* The checkout and the output are checked again and the marker is saved.
MarkWithoutOutputCheck(p) ==
    /\ cmd[p].at = "wrote"
    /\ LET r == cmd[p].r
           ok == man = Published(cmd[p].expected)
       IN  /\ root' = [root EXCEPT ![r] = [known |-> TRUE, failed |-> ~ok,
                                           installed |-> IF ok THEN cmd[p].expected ELSE @.installed,
                                           hash |-> IF ok THEN file[r] ELSE @.hash]]
           /\ undone' = Marked(p, r, ok)
    /\ cmd' = [cmd EXCEPT ![p].at = "root", ![p].output = NoFile] /\ lock' = "none"
    /\ crossed' = crossed \ {p}
    /\ UNCHANGED <<tree, active, old, bounds>>
Mark(p) ==
    /\ cmd[p].at = "wrote"
    /\ LET r == cmd[p].r
           ok == man = Published(cmd[p].expected) /\ file[r] = cmd[p].output
       IN  /\ root' = [root EXCEPT ![r] = [known |-> TRUE, failed |-> ~ok,
                                           installed |-> IF ok THEN cmd[p].expected ELSE @.installed,
                                           hash |-> IF ok THEN file[r] ELSE @.hash]]
           /\ undone' = Marked(p, r, ok)
    /\ cmd' = [cmd EXCEPT ![p].at = "root", ![p].output = NoFile] /\ lock' = "none"
    /\ crossed' = crossed \ {p}
    /\ UNCHANGED <<tree, active, old, bounds>>
Done(p) ==
    /\ cmd[p].at = "root" /\ cmd[p].todo = {}
    /\ cmd' = [cmd EXCEPT ![p] = IdleCmd]
    /\ UNCHANGED <<tree, store, lock, old, history, bounds>>

\* A command dies; in the middle of a write it leaves an empty file, which the
\* umbrella's writers take for the user's.
Crash(p) ==
    /\ cmd[p].at # "idle" /\ crashes < MaxCrashes
    /\ crashes' = crashes + 1
    /\ lock' = IF lock = p THEN "none" ELSE lock
    /\ cmd' = [cmd EXCEPT ![p] = IdleCmd]
    /\ file' \in {file} \cup IF cmd[p].output # NoFile /\ cmd[p].at = "compose"
                             THEN {[file EXCEPT ![cmd[p].r] = Other]} ELSE {}
    /\ crossed' = crossed \ {p}
    /\ UNCHANGED <<man, live, store, old, undone, edits>>

Step(p) ==
    \/ Observe(p) \/ Plan(p) \/ Compose(p) \/ Write(p) \/ Mark(p) \/ Done(p)
    \/ \E r \in Roots : Begin(p, r)
Next ==
    \/ NewRevision \/ EditManifest \/ UndoEdit \/ UserWrites \/ OldWriterRenders \/ OldWriterWrites
    \/ \E s \in Sessions : StartSession(s) \/ CloseSession(s)
    \/ \E p \in Procs : Step(p) \/ Crash(p)

\* Commands run to their end, and one that reconciles is run again and again
\* (every sync, setup and launch does); sessions and edits are the user's.
Fairness == WF_vars(OldWriterWrites) /\ \A p \in Procs : SF_vars(Step(p))
Spec == Init /\ [][Next]_vars /\ Fairness
-----------------------------------------------------------------------------
Files == [rev : 0..MaxRev, edited : BOOLEAN]
TypeOK ==
    /\ man \in Files /\ live \subseteq Sessions /\ file \in [Roots -> Files]
    /\ active \in 0..MaxRev /\ lock \in Procs \cup {"none"} /\ old \in Files
    /\ root \in [Roots -> [known : BOOLEAN, installed : 0..MaxRev, hash : Files, failed : BOOLEAN]]
    /\ cmd \in [Procs -> [at : {"idle", "observed", "root", "compose", "wrote"}, expected : 0..MaxRev,
                          todo : SUBSET Roots, r : Roots, output : Files]]
    /\ crossed \subseteq Procs /\ undone \subseteq Roots

\* A root that contract status shows as current holds the active contract, not
\* that of another checkout which was rendered or written meanwhile; unless an
\* edit was undone between its rendering and the check (contract_state.go:305
\* to 361): then it may hold that edit.
Edited(r) == [rev |-> r, edited |-> TRUE]
CurrentMeansInstalled ==
    \A r \in Known : ~Pending(r) /\ active # 0 =>
        file[r] = Published(active) \/ (r \in undone /\ file[r] = Edited(active))

\* When the manifest stays published and the umbrella's file is not the user's,
\* the umbrella, and the live sessions that no undone edit was installed in,
\* come to hold the contract of the manifest.
Converges ==
    <>[](\/ man.edited \/ file[Umbrella] = Other
         \/ \A r \in {Umbrella} \cup (live \ undone) : file[r] = man)
=============================================================================
