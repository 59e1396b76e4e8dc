------------------------------- MODULE Umbrella -------------------------------
(***************************************************************************)
(* The umbrella's inventory (internal/umbrella, workspace; cli/setup.go,   *)
(* mounts.go, manifests.go, the registry of manifest.go): which checkouts  *)
(* the manifest asks for, which are there, and what .my-cli/state.json     *)
(* says of them.  Commands read that file, work, read it again and write   *)
(* it whole, with no lock.  The directories are the user's as well.        *)
(***************************************************************************)
EXTENDS Naturals, Sequences, FiniteSets, SequencesExt

CONSTANTS
    Procs,         \* 1..n: processes that run commands
    Repos,
    Needed,        \* mounts the manifest requires
    RoleOnly,      \* mounts the role "clerk" names
    Manifests,     \* the revisions of two sources, in order: [source, catalog, defaults, roles]
    Asked,         \* the roles setup is asked for: [set, role, asks]
    MaxCommands,   \* bound: commands
    MaxTrouble     \* bound: crashes, failed calls of git, things done by the user or upstream

Mounts == Needed \cup RoleOnly
Dir(kind, id) == <<kind, id>>
Places == {Dir(k, r) : k \in {"repos", "products"}, r \in Repos} \cup {Dir("mount", m) : m \in Mounts}
\* "own" is the user's file or directory, "clone" a checkout of the declared
\* remote or of none, "other" one of another remote.
Git == {"clone", "other"}
Content == Git \cup {"own"}
Revisions == DOMAIN Manifests
Newest(s) == CHOOSE i \in Revisions : Manifests[i].source = s /\ \A j \in Revisions : Manifests[j].source = s => j <= i
NoState == [there |-> FALSE, role |-> "none", selected |-> {}, legacy |-> {}, listed |-> {}]
NoRole == [set |-> FALSE, role |-> "none", asks |-> FALSE]
Job(do, at) == [do |-> do, at |-> at]
Do(do) == Job(do, Dir("none", "none"))
Idle == [kind |-> "none", id |-> "none", ask |-> NoRole, role |-> "none", jobs |-> <<>>, mem |-> NoState,
         tried |-> {}, failed |-> {}]

VARIABLES
    registry,  \* [source, path] of the registered manifest
    manifest,  \* manifest[path]: the revision checked out there, 0 for none
    newest,    \* newest[source]: upstream's
    disk,      \* disk[place]
    saved,     \* state.json
    cmd,       \* cmd[p]: what p runs, and has still to do
    alone,     \* history: those that ran undisturbed so far
    used, trouble

vars == <<registry, manifest, newest, disk, saved, cmd, alone, used, trouble>>
Sources == {Manifests[i].source : i \in Revisions}
OwnPath == "umbrella"  \* beside the registry's cache

Selected(s) == s.selected \cup s.legacy
\* An umbrella of today or one of a release that selected products.
Init ==
    /\ registry = [source |-> Manifests[1].source, path |-> "cache"]
    /\ manifest \in [{"cache", OwnPath} -> {0, 1}] /\ manifest[OwnPath] = 0
    /\ newest = [s \in Sources |-> IF s = Manifests[1].source THEN 1 ELSE Newest(s)]
    /\ saved \in {NoState, [NoState EXCEPT !.there = TRUE, !.legacy = Repos, !.listed = Repos]}
    /\ disk = [pl \in Places |-> IF pl[1] = "products" /\ saved.there THEN "clone" ELSE "none"]
    /\ cmd = [p \in Procs |-> Idle] /\ alone = {} /\ used = 0 /\ trouble = 0

(***************************************************************************)
(* Commands.                                                               *)
(***************************************************************************)
Quiet == \A p \in Procs : cmd[p] = Idle
doc == Manifests[manifest[registry.path]]
Synced == manifest[registry.path] # 0
Scoped(role) == Needed \cup IF role \in doc.roles THEN RoleOnly ELSE {}
RepoPath(r) ==
    IF disk[Dir("repos", r)] # "none" \/ disk[Dir("products", r)] = "none" THEN Dir("repos", r) ELSE Dir("products", r)
SyncJobs(places) == SetToSeq({Job("sync", pl) : pl \in places})
RepoPaths(ids) == {RepoPath(r) : r \in ids}
MountPaths(ids) == {Dir("mount", m) : m \in ids}
Ensure == <<Do("migrate"), Do("ensure"), Do("save")>>
Record(do) == <<Do(do), Do("save")>>
Free(r) == disk[RepoPath(r)] \in {"none", "empty", "clone"}
\* A recorded repo has its source in the record.
InCatalog(r) == r \in doc.catalog
Known(r) == r \in saved.listed \/ InCatalog(r)
\* A mount that only another role has is refused by name.
Selectable(m) == m \in Scoped(saved.role)

Begin(p, kind, id, ask, jobs) ==
    /\ cmd[p] = Idle /\ (\A q \in Procs : q < p => cmd[q] # Idle) /\ used < MaxCommands /\ used' = used + 1
    /\ cmd' = [cmd EXCEPT ![p] = [Idle EXCEPT !.kind = kind, !.id = id, !.ask = ask, !.jobs = jobs]]
    /\ alone' = IF Quiet THEN {p} ELSE {}
    /\ UNCHANGED <<registry, manifest, newest, disk, saved, trouble>>
BeginSetup(p, ask) ==
    Begin(p, "setup", "none", ask,
        <<Do("manifest")>> \o Ensure \o <<Do("refresh"), Do("role"), Do("mounts")>> \o Record("record-mounts")
        \o <<Do("repos"), Do("end")>>)
BeginMountSync(p, ids) ==
    /\ Synced /\ \A m \in ids : Selectable(m)
    /\ Begin(p, "mount-sync", "none", NoRole, SyncJobs(MountPaths(ids)) \o Record("record-mounts"))
\* --all: mounts in scope, then the selected repos.
BeginSyncAll(p) ==
    /\ Synced /\ saved.there /\ \A r \in Selected(saved) : Known(r)
    /\ Begin(p, "sync-all", "none", NoRole,
           SyncJobs(MountPaths(Scoped(saved.role))) \o SyncJobs(RepoPaths(Selected(saved)))
           \o (IF Selected(saved) = {} THEN <<>> ELSE Record("record-repos")) \o Record("record-mounts"))
BeginRepoSync(p, r) ==
    /\ Synced /\ saved.there /\ Known(r)
    /\ Begin(p, "repo-sync", r, NoRole, SyncJobs({RepoPath(r)}) \o Record("record-repos"))
BeginRepoAdd(p, r) ==
    /\ Synced /\ InCatalog(r) /\ Free(r)
    /\ Begin(p, "repo-add", r, NoRole, Ensure \o <<Do("repo")>> \o Record("record-repos"))
BeginRemove(p, kind, id) ==
    /\ saved.there
    /\ Begin(p, "remove", id, NoRole, <<Job("remove", IF kind = "repo" THEN RepoPath(id) ELSE Dir("mount", id))>>
                                      \o Record("forget"))
BeginManifestSync(p) == Begin(p, "manifest-sync", "none", NoRole, <<Do("pull")>>)

(***************************************************************************)
(* Jobs.                                                                   *)
(***************************************************************************)
Now(p) == Head(cmd[p].jobs)
Doing(p, do) == cmd[p].jobs # <<>> /\ Now(p).do = do
Continue(p, c) ==
    /\ cmd' = [cmd EXCEPT ![p] = IF c.jobs = <<>> THEN Idle ELSE c]
    /\ alone' = IF c.jobs = <<>> THEN {} ELSE alone
    /\ UNCHANGED used
After(p) == [cmd[p] EXCEPT !.jobs = Tail(@)]
Done(p) == Continue(p, After(p))
Then(p, jobs) == Continue(p, [cmd[p] EXCEPT !.jobs = jobs \o Tail(@)])
Ends(p) == Continue(p, Idle)
MayFail == trouble < MaxTrouble /\ trouble' = trouble + 1

\* The manifest's checkout: cloned when there is none, else fast-forwarded;
\* from the source it was cloned from.
Pulled == IF Synced THEN newest[doc.source] ELSE newest[registry.source]
PullManifest(p) ==
    /\ UNCHANGED <<registry, newest, disk, saved>>
    /\ \/ /\ Doing(p, "manifest") /\ Synced /\ Done(p) /\ UNCHANGED <<manifest, trouble>>
       \/ /\ Doing(p, "manifest") \/ Doing(p, "pull") \/ Doing(p, "refresh")
          /\ Doing(p, "manifest") => ~Synced
          /\ \/ manifest' = [manifest EXCEPT ![registry.path] = Pulled] /\ Done(p) /\ UNCHANGED trouble
             \/ MayFail /\ UNCHANGED manifest /\ IF Doing(p, "refresh") THEN Done(p) ELSE Ends(p)
       \* Within the TTL, or off.
       \/ Doing(p, "refresh") /\ Done(p) /\ UNCHANGED <<manifest, trouble>>

\* Checkouts of products/ move to repos/ where nothing is there.
Migrate(p) ==
    /\ Doing(p, "migrate") /\ Done(p)
    /\ LET moved == {r \in Repos : disk[Dir("products", r)] # "none" /\ disk[Dir("repos", r)] = "none"}
       IN  disk' = [pl \in Places |->
              IF pl[2] \notin moved \/ pl[1] = "mount" THEN disk[pl]
              ELSE IF pl[1] = "repos" THEN disk[Dir("products", pl[2])] ELSE "none"]
    /\ UNCHANGED <<registry, manifest, newest, saved, trouble>>

\* Mutant: what an older release had selected is dropped.
LoadWithoutLegacy(s) == [s EXCEPT !.there = TRUE, !.legacy = {}]
Load(s) == [s EXCEPT !.there = TRUE, !.selected = @ \cup s.legacy, !.legacy = {}]
Edit(p, s) == Continue(p, [After(p) EXCEPT !.mem = s]) /\ UNCHANGED <<registry, manifest, newest, disk, saved, trouble>>
Tried(p, kinds) == {pl[2] : pl \in {q \in cmd[p].tried : q[1] \in kinds}}
ReadState(p) ==
    LET s == Load(saved)
        repos == Tried(p, {"repos", "products"})
    IN  \/ Doing(p, "ensure") /\ Edit(p, s)
        \/ Doing(p, "record-mounts") /\ Edit(p, [s EXCEPT !.listed = @ \cup Tried(p, {"mount", "repos", "products"})])
        \/ Doing(p, "record-repos") /\ Edit(p, [s EXCEPT !.selected = @ \cup repos, !.listed = @ \cup repos])
        \/ /\ Doing(p, "forget")
           /\ LET gone == IF cmd[p].failed = {} THEN {cmd[p].id} ELSE {}
              IN  Edit(p, [s EXCEPT !.selected = @ \ (gone \cap Repos), !.listed = @ \ gone])
SaveState(p) ==
    /\ Doing(p, "save") /\ saved' = cmd[p].mem
    /\ Continue(p, [After(p) EXCEPT !.mem = IF Do("role") \in ToSet(cmd[p].jobs) THEN @ ELSE NoState])
    /\ UNCHANGED <<registry, manifest, newest, disk, trouble>>

\* The role asked for, or the one read before; --role "" is saved and the
\* old role still served.
SetRole(p) ==
    /\ Doing(p, "role") /\ UNCHANGED <<registry, manifest, newest, disk, saved, trouble>>
    /\ LET ask == cmd[p].ask
           role == IF ask.role # "none" \/ ask.asks THEN ask.role ELSE cmd[p].mem.role
           mem == IF ask.set THEN [cmd[p].mem EXCEPT !.role = ask.role] ELSE cmd[p].mem
       IN  IF role # "none" /\ role \notin doc.roles THEN Ends(p)
           ELSE Continue(p, [After(p) EXCEPT !.role = role, !.mem = mem,
                                             !.jobs = IF ask.set THEN <<Do("save")>> \o @ ELSE @])

\* What the next jobs are, by what is declared, recorded and there by now.
Find(p) ==
    /\ UNCHANGED <<registry, manifest, newest, disk, saved, trouble>>
    /\ \/ Doing(p, "mounts") /\ Then(p, SyncJobs(MountPaths(Scoped(cmd[p].role))))
       \/ /\ Doing(p, "repos")
          /\ LET ids == Selected(saved) \cup doc.defaults
             IN  IF MountPaths(Needed) \cap cmd[p].failed # {} \/ ~(ids \subseteq doc.catalog) THEN Ends(p)
                 ELSE Then(p, IF ids = {} THEN <<>> ELSE SyncJobs(RepoPaths(ids)) \o Record("record-repos"))
       \/ Doing(p, "repo") /\ Then(p, SyncJobs({RepoPath(cmd[p].id)}))
       \/ Doing(p, "end") /\ Done(p)

\* A clone, a pull, or neither where something else is there.
Sync(p) ==
    LET pl == Now(p).at
        Result(ok) == Continue(p, [After(p) EXCEPT !.tried = @ \cup {pl}, !.failed = IF ok THEN @ ELSE @ \cup {pl}])
    IN  /\ Doing(p, "sync") /\ UNCHANGED <<registry, manifest, newest, saved>>
        /\ \/ disk[pl] \in Git /\ Result(TRUE) /\ UNCHANGED <<disk, trouble>>
           \/ disk[pl] = "none" /\ disk' = [disk EXCEPT ![pl] = "clone"] /\ Result(TRUE) /\ UNCHANGED trouble
           \/ disk[pl] \in {"own", "empty"} /\ Result(FALSE) /\ UNCHANGED <<disk, trouble>>
           \* Git failed, after the clone or before.
           \/ /\ disk[pl] \in Git \cup {"none"} /\ Result(FALSE) /\ MayFail
              /\ disk' \in {disk, [disk EXCEPT ![pl] = IF @ = "none" THEN "clone" ELSE @]}
RemoveTree(p) ==
    LET pl == Now(p).at IN
    /\ Doing(p, "remove") /\ UNCHANGED <<registry, manifest, newest, saved>>
    /\ \/ disk' = [disk EXCEPT ![pl] = "none"] /\ Done(p) /\ UNCHANGED trouble
       \/ MayFail /\ UNCHANGED disk /\ Continue(p, [After(p) EXCEPT !.failed = {pl}])

Step(p) ==
    \/ PullManifest(p) \/ Migrate(p) \/ ReadState(p) \/ SaveState(p) \/ SetRole(p)
    \/ Find(p) \/ Sync(p) \/ RemoveTree(p)
Crash(p) == cmd[p] # Idle /\ MayFail /\ Ends(p) /\ UNCHANGED <<registry, manifest, newest, disk, saved>>

(***************************************************************************)
(* Between commands: the registry, and what others do.                     *)
(***************************************************************************)
Registers(source, path) == registry' = [source |-> source, path |-> path]
\* The same source keeps the checkout it was pointed at.
AddManifest(s) ==
    /\ Quiet /\ used < MaxCommands /\ used' = used + 1
    /\ Registers(s, IF s = registry.source THEN registry.path ELSE "cache")
    /\ registry' # registry
    /\ UNCHANGED <<manifest, newest, disk, saved, cmd, alone, trouble>>
\* A manifest that lives in its umbrella.
PointManifest ==
    /\ Quiet /\ used < MaxCommands /\ used' = used + 1
    /\ registry.path # OwnPath /\ Registers(registry.source, OwnPath)
    /\ manifest' = [manifest EXCEPT ![OwnPath] = newest[registry.source]]
    /\ UNCHANGED <<newest, disk, saved, cmd, alone, trouble>>
ByHand ==
    /\ Quiet /\ trouble < MaxTrouble /\ trouble' = trouble + 1
    /\ UNCHANGED <<registry, manifest, saved, cmd, alone, used>>
UserMakes(pl, kind) == ByHand /\ pl[1] # "products" /\ disk[pl] = "none" /\ disk' = [disk EXCEPT ![pl] = kind] /\ UNCHANGED newest
UserRemoves(pl) == ByHand /\ disk[pl] # "none" /\ disk' = [disk EXCEPT ![pl] = "none"] /\ UNCHANGED newest
Released(s) == ByHand /\ newest[s] < Newest(s) /\ newest' = [newest EXCEPT ![s] = @ + 1] /\ UNCHANGED disk

Next ==
    \/ \E p \in Procs :
          \/ \E ask \in Asked : BeginSetup(p, ask)
          \/ \E m \in Mounts : BeginMountSync(p, {m}) \/ BeginRemove(p, "mount", m)
          \/ BeginSyncAll(p) \/ BeginManifestSync(p)
          \/ \E r \in Repos : BeginRepoSync(p, r) \/ BeginRepoAdd(p, r) \/ BeginRemove(p, "repo", r)
          \/ Step(p) \/ Crash(p)
    \/ \E s \in Sources : AddManifest(s) \/ Released(s)
    \/ PointManifest
    \/ \E pl \in Places : UserRemoves(pl) \/ \E kind \in {"own", "empty", "other"} : UserMakes(pl, kind)

Spec == Init /\ [][Next]_vars
-----------------------------------------------------------------------------
TypeOK ==
    /\ registry \in [source : Sources, path : {"cache", OwnPath}]
    /\ manifest \in [{"cache", OwnPath} -> Revisions \cup {0}] /\ newest \in [Sources -> Revisions]
    /\ disk \in [Places -> Content \cup {"none", "empty"}]
    /\ \A s \in {saved} \cup {cmd[p].mem : p \in Procs} :
          s.selected \cup s.legacy \subseteq Repos /\ s.listed \subseteq Repos \cup Mounts
    /\ \A p \in Procs : cmd[p].failed \subseteq Places /\ cmd[p].tried \subseteq Places
    /\ alone \subseteq Procs

\* What is there is taken away only by the removal that names it, moved only
\* to a place that was free; no two commands and no crash make one of them
\* replace it.  A repo stays selected, and a checkout listed, unless removed,
\* through every step of commands that nothing disturbed; and a setup that
\* nothing disturbed ends well only with the mounts the manifest requires
\* checked out, its default repos selected and the role as asked.
KeepsInventory ==
    cmd' # cmd =>
       /\ \A pl \in Places : disk[pl] \in Content /\ disk'[pl] # disk[pl] =>
             \/ \E p \in Procs : cmd[p].kind = "remove" /\ cmd[p].id = pl[2] /\ cmd'[p] # cmd[p]
             \/ pl[1] = "products" /\ disk[Dir("repos", pl[2])] = "none" /\ disk'[Dir("repos", pl[2])] = disk[pl]
       /\ (\E p \in alone : cmd'[p] # cmd[p] /\ cmd[p].kind # "remove") =>
             Selected(saved) \subseteq Selected(saved') /\ saved.listed \subseteq saved'.listed
       /\ \A p \in alone : Doing(p, "end") /\ cmd'[p] = Idle /\ trouble' = trouble =>
             /\ \A m \in Needed : disk[Dir("mount", m)] \in Git
             /\ doc.defaults \subseteq saved.selected /\ Synced
             /\ cmd[p].ask.set => saved.role = cmd[p].ask.role
InventoryKept == [][KeepsInventory]_vars
=============================================================================
