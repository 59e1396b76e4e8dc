# A TLA+ verification project for my-cli

`my` is a command line program that composes a governed organization's
repositories on one machine: it clones and synchronizes them, writes records
into them and publishes those through pull requests, gates the launch of
coding agents on access, and removes checkouts whose access was revoked. It has
no central server. What makes it hard to test is that several short-lived
commands (a user's command, the periodic access monitor, a launch) share files,
git checkouts and a small local agent, and any of them may stop at any point.

This directory holds TLA+ modules for the parts where that matters, the TLC
configurations that check them, and proofs checked by TLAPS.

* `PROJECT.json`: components, runs, hazards, findings, theorems, and for every
  definition the source lines it stands for ("map").
* `X.tla`: a component. `MCX.tla` and `*.cfg`: its small instances for TLC.
* `XProofs.tla`: theorems about X for every value of its constants; `SessionsProofs.tla`
  and `QuarantineProofs.tla` are about `MCCheckouts`, `WorkspaceProofs.tla` and `GovernanceProofs.tla` about `Workspace`.

Line numbers refer to the files under `src/`.

## 1. Inventory

| Component | State | Operations | Who touches it |
|---|---|---|---|
| Quarantine (`internal/access/quarantine.go`, `recovery.go`) | per transaction a directory with a journal and recovery capsules, the moved checkouts, `events.jsonl`, a lock file per umbrella | QuarantineConfirmed, ResumeQuarantine | `my access enforce` (monitor), the launch gate; users write the same checkouts |
| Access evidence (`access/inventory.go`, `observation.go`) | `inventory.json`, one per user: positive baseline and revocation progress per checkout and actor, retained quarantine records | RecordObservation, RecordPositiveBatch, AppendRecord | monitor, launch gate, `my access activate`, quarantine; no lock |
| Access monitor (`cli/access_monitor.go`) | the OS timer, a heartbeat | enforce, then flush | timer |
| Outbox (`internal/outbox`) | one directory of event files per item | Append, Current, List | `record add`, `record flush`, `policy accept`, monitor; no lock |
| Governed records (`cli/record_domains.go`, `domainrecord`) | record files in a checkout | add, flush, reconcile, publishDomainRepo | user, monitor |
| Governed pull requests (`cli/governance_pr.go`) | topic branches, pull requests | publishPullRequest, attachPublishedTopic | record flush, sync, admin, policy |
| Synchronization (`internal/syncer`) | checkouts, remote-tracking branches | inspect, fast-forward, hold, publish | `my sync`, record flush |
| Service credentials agent (`internal/credcache`) | memory of one agent process: entries, in-flight fetches, cooldowns, epoch | acquire, publish, abandon, invalidate, lock, status, sweep | every command that needs a service key |
| Contract state and delivery (`internal/contractstate`, `cli/contract_state.go`, `contract_launch.go`, `internal/guidance`) | one state file per manifest under a lock: active revision, installed roots, launch instances with receipts; the AGENTS.md of each root | Observe, reconcile, Register, Deliver, close, prune | setup, sync and launch; the hooks of running harnesses |
| Work sessions (`internal/worksession`, `cli/work.go`) | per session a worktree and a branch in each mount, and a registry file | start, finish (land, publish, discard), migrate, close-worktree | users and agents; `my sync` reads the holds |
| Manifest and its administration (`internal/manifest`, `cli/admin*.go`, `cli/contract.go`) | `manifest.json`, catalogs, `guidance/contract.md`, skill sources of a maintainer's checkout | add, edit, remove of every declaration, contract edit and migration, min-version | a maintainer, older releases |
| Skills (`internal/skills`, `selfskill`, `cli/skills.go`, `derived_skills.go`, `launch_profile.go`) | entries, markers and an index in each harness's skills directory, and in launch roots | install, uninstall, sync, prune, purge, doctor, launch, start-up maintenance | user, setup, launch, older releases |
| Policy acceptance, governance check (`cli/policy*.go`, `internal/governance`) | the attestation ledger and its checkouts, pull requests and their verdicts | accept, supersede, queue, publish, the launch gate; check | members, administrators, CI |
| Umbrella and its inventory (`internal/umbrella`, `workspace`, `cli/setup.go`, `mounts.go`, `manifests.go`) | `.my-cli/state.json`, the directories of mounts and repos, the manifest registry | setup, mounts add, sync and remove, manifest sync | user; no lock |
| Contract review, fleet, record index, self update, site | files, mostly one per call | see PROJECT.json | user |

How they meet: the monitor runs `access enforce` (evidence, then quarantine) and
then `record flush` (outbox, then synchronization and pull request). The launch
gate runs the same observation and quarantine before it starts a harness. The
quarantine moves the checkouts that the record publication works in. Nothing
but the quarantine, the contract state and the agent takes a lock. A sync asks
the session registry which paths it must hold; setup, sync and launch each
reconcile contract, skills and inventory again.

What is hard: unlocked read-modify-write of files shared by processes (evidence,
outbox); crashes between a rename, a journal and a report (quarantine) or
between a remote effect and its local note (pull request, outbox); HEAD, remote
branches and the outbox changing while a publication is under way; clocks (file
names, confirmation intervals, leases, idle and hard expiry); a server with
waiting clients whose owner may die.

What makes each component correct is stated in section 4 for what is modelled
and in section 8 for what is not.

## 2. Modules

| Module | Models | Used by |
|---|---|---|
| `Custody` | what a quarantine promises: lossless moves, main checkout last, report after move | refined by `Quarantine` |
| `Quarantine` | quarantine.go and recovery.go, one action per write to disk | `MCQuarantine`, `MCCheckouts`, `MCSessions`, `QuarantineProofs` |
| `RevocationEvidence` | observation.go, inventory.go, the gate, activation and enforcement of cli/access.go | `MCRevocationEvidence`, `RevocationEvidenceProofs` |
| `OutboxItem` | the life of one publication item as its readers see it | refined by `OutboxLog` |
| `OutboxLog` | outbox.Append and readItemEvents of one item | `MCOutboxLog`, `OutboxLogProofs` |
| `CredentialBroker` | credcache server and client, the commands that lock, drop or switch the cache off, refused keys | `MCCredentialBroker`, `CredentialBrokerProofs` |
| `RecordPublication` | record add and flush, reconciliation, the pull-request path of the syncer, publishPullRequest, attachPublishedTopic; the turns and the pull requests of policy acceptances | `MCRecordPublication`, `RecordPublicationProofs` |
| `WorkSession` | worksession.go, the session commands of cli/work.go, close-worktree, and what a sync does to their mounts | `MCCheckouts` and `MCSessions` (both extend it), `SessionsProofs` |
| `ContractDelivery` | contractstate/delivery.go and the launch that registers with it | extended by `Workspace`, `GovernanceProofs` |
| `ContractRoots` | the installation of the contract in umbrella and session roots | `MCCheckouts`, `MCSessions`, `SessionsProofs` |
| `RepoSync` | several checkouts in one sync, the builtin and the coordinated backend | `Workspace`, `WorkspaceProofs` |
| `ManifestAdmin` | manifest validation and the editing commands of a maintainer | `Workspace`, `GovernanceProofs` |
| `Skills` | skills.go, selfskill.go and every command that installs or removes entries | `Workspace`, `WorkspaceProofs` |
| `PolicyLedger` | policy acceptance on the machines, governance.Check, the merges | `Workspace`, `GovernanceProofs` |
| `Umbrella` | setup, mounts and repos, state.json, the manifest registry | `Workspace`, `WorkspaceProofs` |
| `Workspace` | the six parts above that share no state, put together | `MCWorkspace` (values only), `WorkspaceProofs`, `GovernanceProofs` |

The seams: `RevocationEvidence` has the whole quarantine as one step, which
`Quarantine` opens; `RecordPublication` appends an event as one step, which
`OutboxLog` opens. `PolicyLedger` has what an acceptance means and its queue and
publication as steps of their own; its retries, its turns in a flush and its pull request are in
`RecordPublication`. `RepoSync` leaves the holds of sessions to `WorkSession` and pull
requests to `RecordPublication`.

Three modules compose components that share no variable, so that their states add up
and do not multiply: `part` says which of them acts. `Workspace` has six, of which
safety is checked: it extends `ContractDelivery`, whose names keep their meaning, and
has the others as instances, their variables renamed where two modules use one name
(`dirty <- changed`); a part that does not act is switched off (`Off`). Its constants
carry the assumptions the proofs rest on, and `MCWorkspace` only gives them values.
`MCCheckouts` has the three that work on checkouts, each with two processes, of which safety is
checked: it extends `WorkSession` and has `ContractRoots` (`Roots`) and `Quarantine` (`Q`, with
`op <- mover`, `lock <- flock`) as instances; the processes of a component are interchangeable,
hence its symmetry. It carries the assumptions on the constants of these two (`RootsAssumption`,
`QuarantineAssumption`), so that TLC evaluates what the proofs rest on. `MCSessions` has the same
three where they must get somewhere. In both, the bounds of
`ContractRoots` are constants of their own (`MaxRev`, `MaxRootEdits`, `MaxRootCrashes`), and a part
that does not act keeps an initial state, because the liveness properties of `MCSessions` read its
variables in the enabledness of actions.

### Quarantine

State: `orig[s]` is the content (a version number, 0 for "nothing there") at the
path of checkout s, `dest[t][s]` the content that transaction t holds of it,
`capsule[t][s]` what its recovery capsule recorded; `journal[t]` is the journal
file with its phase and one state per source; `inventory` is the part of
`inventory.json` that concerns this repository, `events` the security log,
`lock` the flock. `op[p]` is a process: where it is, and the journal and
inventory copy it holds in memory.

One action per write: Check, Begin (lock, discover, save "preparing"),
BuildCapsule per source, Intent, StartMoves, Rename, MarkMoved, Verify per
source, EndMoves, Reload, Finalize, AppendEvent, Complete; ResumeLoad and
ResumeLocked for ResumeQuarantine. Around them: Abort (a crash or an I/O error
at any point, which also releases the flock), UserWrites, and OtherLoads /
OtherSaves, the writers of the same inventory file that take no lock.

Observations made while modelling, all visible in the module:

* ResumeQuarantine has no caller in `internal/cli`. `Production` is therefore
  the next-state relation of the shipped program and `Next` that of the package.
* ResumeQuarantine reads the journal before it takes the lock (quarantine.go:165)
  and does not read it again, so a stale copy may overwrite a newer journal. The
  properties hold nevertheless: what a stale journal makes the code do again is
  recognised by where the directories are.
* Resuming a journal left in phase "preparing" moves the sources that have their
  capsule before it fails at the first that has not. `CapsuleBeforeMove` is
  stated per source for that reason.
* The inventory is saved without its other writers' knowledge: a retained record
  or an entry may be lost or come back. What is checked is that no retained
  record and no event is ever wrong.
* After an interrupted transaction a new attempt opens a new transaction
  directory; worktrees the first one moved stay in the first one's directory.

### RevocationEvidence

State: `inv` is the entry of one checkout in `inventory.json` (baseline time,
state, count, last qualifying denial, confirmed); `op[p]` is a command with its
time stamp, the provider's answer and its copy of the entry; `granted` is the
truth at the provider; `allowedAt`, `deniedAt`, `streak` and `revokedAt` are
history. Load and save of the file are separate actions. A tick stands for some
minutes: with the defaults (check interval 5, confirmation interval and positive
TTL 15 minutes) a command, which takes seconds, does not span a tick. `PromptSpec` says so;
within a tick all commands interleave at every step. `SerialSpec` runs commands
one after another.

At smaller bounds (MaxTime = 5, 7.5 million states) `ConfirmedMeansSpaced` and
`LaunchMeansAllowed` were also found to hold for `Spec`, where a command may take
any time. `RemovedInTime` does not hold there: a gate that loads the evidence
before, and saves it after, the monitor's confirming save undoes it, and the
removal waits for another interval.

Where the code is stricter than the plan's words, the model follows the code: an
"unknown" answer newer than the baseline blocks a launch at once, although the
baseline is still within its TTL.

### CredentialBroker

State: `mem` is the memory of the one broker process (the key, the fetch under
way, the cooldown, the epoch), `broker` whether it serves, is stopping with its
listener still open, is closing, or is gone; `op[c]` is a command together with the
handler of its connection. A key's value is its version in the password
manager, so "an old key" is a number below `vault`.

Actions: Start, Redial, BrokerStarts, Poll, Ping, Lost, GiveUp for
Client.Get and connect; LoopLocked, Hit, LoopCooldown, Resolve, Wait, Wake,
WaitEnds for the loop of acquire, one action per hold of the server's mutex;
HelperReads, Abandon, CheckSettings, Publish for fetch; Refused for a 401 with Drop
or Refresh; Rotate, Drop, Lock, OffSave, OffLock, On for the user; Expire,
IdleExit, StepAside, CloseListener, Exit, BrokerDies, ClientDies, Cleanup for
the rest. The epoch and the key are read in two holds of the mutex
(Ping, then the loop), as in acquire.

There is no clock: a key, a lease, a cooldown or a wait may end at any moment,
which includes every schedule the limits allow. Generations start at a random
number in each broker, and leases are random; both are taken to be unique. A
broker that is stopping still answers until its connections are closed. An order
that meets a broker of another release changes nothing but makes it step
aside.

### OutboxLog

The log is a function from positions in name order to "free", a state, or
"torn" (a partly written file). Begin takes the time that will be in the file's
name, Read checks the transition on what the log holds now, Write creates the file; in
between other commands do the same. The clock may be set back, a command may
die at any point, and a crash inside the write leaves a torn file.
The abstract module is the item: "none", its state, or "blocked" for good.

A file that is there but not complete yet makes a concurrent reader return an
error; that is the action Fail of the reader. An error of the final directory
sync removes the file again (outbox.go:130-137) after others may have read it;
this is not modelled.

### RecordPublication

State: `file` and `head` (trees of content versions), `branch` and `at` (the
branch HEAD is on and the remote revision it has seen), the remote branches
`tree` and `rev`, the pull requests `prs`, and per outbox item its last event,
its proof and its place in the list; `landed` and `pushed` (what the trusted base and any remote
branch have had) are history. Some of the files are policy acceptances (`Acceptances`). Commands:
AddWrite, AddQueue; FlushReconcile, FlushSettle, FlushPick; then for a record Verified / Refused,
InspectOutbound / InspectInbound / InspectHeld, Pull / PullRefused, OpenPR / OpenDenied, Attach, Mark,
and for an acceptance AcceptRefused, AcceptLanded, AcceptOpen, AcceptSubmit. Around them: Edit,
ReturnToBase, MergePR, ClosePR, Crash.

A flush makes one attempt for a repository (`seenRepo`), policy acceptances before records and
then the item that was touched longest ago. So an acceptance that can never be published,
for instance one of another account, whose subject the publisher refuses every time, takes
the repository's turn in every flush, and its records have none: `AcceptanceWaits` names
that state, `PendingIsSubmitted` leaves it out, and no fairness is assumed that would end it.

The checkout is inspected in one step (syncer.go:584) and pulled in a later one (774); users write
and move HEAD in between, and a pull that would overwrite what they wrote is refused by git
(`Checkout`). An acceptance is proposed alone on top of the upstream, and HEAD does not move.

The list of pending items is a relation: `<<i, j>>` says that i was last touched
before j, as the time stamps of the events do. OpenPR covers the prospective commit (deterministic, so the same change on the
same parent is the same topic branch), the push, and find-or-create of the pull
request; its second outcome is the answer that is lost after the provider has
acted. Pull requests are told apart by base, parent, tree and title, as their branch's
name is by the commit and its message. Mark appends one event per covered item; a crash may fall after any subset.

Known simplifications: the appends of one reconciliation are one step; the list
is sorted by time stamps as strings in the code (RFC3339Nano drops trailing
zeros), so the order of two events of the same second may differ there; with one
repository the loop over repositories of a flush is one pass; a flush that cannot load the
policy context ends without an event, which is Crash here.

Left out of the runs, and reachable in the model: between the pull request and
Mark another process may edit the record and queue the new version, and Mark
then marks an item as submitted whose content is not in that pull request
(record_domains.go:484). The window is short and the later proof of the merge
(`Mergeable`) catches it, so no run is spent on it. Also: when a command dies
between opening the pull request and Mark, the item stays "attempt-failed" until
another record of the repository is published; an item whose pull request is
closed stays "submitted".

### WorkSession

State: `rec[s]` is the registry record, `tree` and `branch` where worktree and
branch of each mount are (the present layout, the legacy one, or nowhere), `dirty`
and `commits` what the session has changed, `base`, `baseDirty` and `merging` the
base checkout, `remote` the remote. Content is who wrote which path. `op[p]` is a command
with the record, the plan and the inspection it holds in memory.

One action per git call or save: PlanMigration, RenameBranch, MoveWorktree, SaveMigrated;
AddWorktree, CleanUp, SaveStarted; Plan, CommitDirty, Merge, RemoveWorktree,
DeleteBranch, SaveLanded; Load, ForceRemove, ForceBranch, SaveDiscarded; InspectLeftover,
CloseWorktree; Collect, Inspect, Hold, Push, MarkPublished, Report. A crash may fall
between any two.

Two commands may work on one session at the same time: nothing keeps them apart, and what
a command reads of the registry, of git and of the holds may be stale when it acts. `shared` has
the sessions for which that happened, `late` the conflicts that arose in a mount after a sync
had collected what it holds back. Some properties leave these out:

* Two overlapping `start`s of one session make a worktree in a session that the other has
  recorded, and a `finish` of it leaves that behind; two overlapping migrations or landings may
  save a stale "active" record over a finished one. `FinishedMeansLanded`,
  `PublishedMeansPushed` and `ConflictsAreHeld` are about the sessions that are not `shared`
  (all commands on the same session count, not only the pairs that do harm). `WorkKept` has no
  such exception.
* A sync collects the holds once (work.go:1070). A landing that stops in conflict after
  that is not among them, and the sync may commit and push the markers: `ConflictsAreHeld`
  leaves out just those (`late`).

Otherwise commands on different sessions, and a sync beside any command, may overlap at every
step. Every command migrates all legacy sessions first; in the model those it does not name are migrated by a
`status` command of their own. Left out: untracked or
locked worktrees, a base checkout on another branch, sidecar mounts; mounts stay
in the manifest. Observations:

* After a landing that stopped in conflict, `finish --discard` and then
  `my sync --push` commits and pushes the conflict markers. `ConflictsAreHeld` is
  therefore stated while the session is active.
* A landing that stopped after its first mount can be neither finished (the worktree
  it would plan is gone) nor discarded (there is no worktree to remove), although doctor
  advises to discard it (work.go:1223-1230).
* `publish` records "published" although a mount that is no longer listed was not
  synchronized. Mounts stay listed in the runs.

### ContractDelivery

State: `active` revision, `inst[i]` the instance record of a launch or of a
conversation it moved on to, `up` the launches that run, `op` the hook that has
printed and holds the lock. `last[n]` (what conversation n was given last), `due`
(it was started, ended or reopened since) and `lost` (its receipt or record was lost)
are history; so is `heard`, what the conversation in a launch's arguments was
given when it was launched. Actions: Activate, Launch (with pruning and the link to a resumed
conversation), Call (a hook, up to its output), SaveReceipt, Killed, Exit.

Observations: a resume inside a running launch makes the launch's own record an alias, so
its first receipt is hidden and later retractions start from another
conversation's; two live launches in the same conversation may repeat a
revision; the record of a running launch that is pruned is begun again.
`lost` and `Astray` in the properties name exactly these. A fork made while the launch's
record is hidden starts from a record that nobody keeps up, so it may retract too
little (`Save` counts it as lost); it takes three launches that resume each other's
conversations. pruneInstances removes the
aliases of what is gone while it walks a map, so an alias of an alias that goes may
stay or go (`Pruned`), and a launch whose alias is gone is without a record
although its own is there (`Own`). A new conversation that is a fork begins with
the context of the one that the launch's record names, or of the one in the
launch's arguments, as that was when the launch started. Each of these came up as a
counterexample to an invariant that was to be inductive. A hook that finds nothing new saves
nothing (delivery.go:224), so that decision is one step and leaves no receipt.

### ContractRoots

State: `man` the manifest checkout, `file[r]` what the AGENTS.md of a root was
rendered from, `active` and `root[r]` the state file, `lock` its lock, `cmd[p]` a
reconciling command, `old` a writer of setup or launch that takes no lock;
`crossed` and `undone` are history. Actions:
Observe, Plan, Begin, Compose, Write, Mark, Done, Crash; the surroundings NewRevision, EditManifest, UndoEdit,
StartSession, CloseSession, UserWrites, OldWriterRenders, OldWriterWrites.

A local edit of the manifest may be undone at any time. Between the rendering of a root and the last
check that defeats the check, which compares the checkout with the observed commit and the file with
the rendering (contract_state.go:302-370): both agree, and a root that was rendered from
the edit is marked as current, and stays so until the next revision. `crossed` has the commands
this happens to, `undone` the roots whose marker such a command saved.
`CurrentMeansInstalled` allows these to hold the edit of the active revision, and nothing
else, and `Converges` leaves the sessions among them out (the umbrella is rewritten by the
next command in any case). A crash inside
`os.WriteFile` leaves an empty AGENTS.md, which later writers take for the user's,
so it stays pending until `setup --force`. A reconciler may write active guidance over a
session that is just being closed.

### RepoSync

State: per checkout `head`, `up` (its remote-tracking branch), `dirty` and the
inspection `res`; `remote` branches; `about` (role, remote, privacy, place in the
coordinated workspace, draft) and `root` (the workspace's roster). Begin collects the
entries and blocks drafts; Inspect, Inbound; Reconcile and Push for the builtin backend;
Plan, GnitCommit and GnitPush for the coordinated one. Users edit and commit, and
other clones push, at any time.

Observations: what appears between inspection and push is published with it
(`git add -A` of a prefix, `git push` of HEAD); `HeldStaysLocal` exempts it (`late`).
The coordinated path calls neither holdActiveSession nor holdUnadoptedManifestSkillSource,
although docs (PLAN.md, ARCHITECTURE.md) describe session holds for every
publish. `unsafeDuplicateRemoteReasons` and `duplicateRemoteKeys` have no caller.
maybeAutoRefresh (refresh.go:84-144) stores the time of the last refresh after a failed
fetch too, and requireGovernedManifestFreshness (171-248) trusts that time: within the
TTL a governed launch passes without a successful fetch.

### ManifestAdmin

State: `files` (the document with its declarations and references, product and repo
catalogs, the contract file, the skill source, which of them are torn), `base` the
committed ones, `todo` the writes a command still has to make. One action per command
plans its writes; WriteNext makes one; Stop ends the command before, within or after
one, with the restore that contract edits do. Any command may be of an older
release, which knows neither the contract's source nor its file.

Restrictions: one command at a time (two overlapping ones lose an update and may
leave a product that refers to a removed skill); hand edits fall between commands
or before a contract edit checks again, keep the checkout valid, and declare the
minimum version with a file-only contract. `os.WriteFile` saves can be torn by a crash, and
`skills add --force` stopped between removing and copying leaves a declared skill
without its source; `Consistent` speaks of checkouts that can be read.

### Skills

State: `entry[place][name]` (none, the user's own, a link, a copy with or without
its marker), `index[h]` the scope recorded beside the links, `jobs` and `at` the command's
steps, `declared` the manifest. `mine` (finished manual installs whose record has not been lost) and
`had` (self-skills at the start of a command) are history. A command is a list of jobs; Install,
Place, Mark, Index, Reindex, Uninstall, Unindex, List, Migrate, Refresh, SelfFix, Unselect,
Materialize and Replace carry them out write by write; Stop falls between and within them.

The index of a harness's links is written in place (skills.go:350, 737-743), again for every
skill that is synchronized (`OtherSkills`): a stop there leaves it empty, every
link beside it is without its scope, and `my doctor --fix` takes a finished manual install
for one of an older release. `NothingTakenAway` leaves out what lost its record that way, and
nothing more: a link whose record is still there is kept. A launch looks for collisions
in its root, asks, and removes what is there by then without a further look
(launch_profile.go:183); the user acts in between (`UserMeanwhile`). What the user makes in
a launch root after the launch has looked is removed, and exempt (`made since`); what was there
is removed only with the user's consent.

Restrictions: one command at a time (two index writes lose scopes); one manifest (another
organization's copy is pruned on a launch of a harness without launch roots). Observations: a
crash between the copy and its marker leaves a copy that is taken for the user's from then on; a
crash between the link and the index makes a manual link look like a leftover, which `doctor
--fix` removes (`mine` begins when the install is finished); the launch's self-skill check
(launch.go:489) fails once when the install also migrated the old name; a bare copy of the
self-skill is never repaired.

### PolicyLedger

State: `trusted` (version declared and version of the text), `ledger` and `tip` upstream, `pr[k]` a
pull request with the parent edges it introduces and its verdict, `cited` the change
records; per machine `have`, `head`, `local`, `queued`, `handled`. `consent` is
history: who accepted which version with its text verified. Members accept, prompt, supersede, requeue,
publish and pull; Check is governance.Check, Merge a merge of a head that passed, with
whatever reached the base meanwhile. Pull requests, pushes and updates by hand are `Commits`.

Content is known by the machine that wrote it. Observations: `my policy show` and then
`accept --yes` (and the prompt at launch) passes no digest from one to the other, so a refresh in between makes a member
accept a text it was not shown; an accepting machine's ledger checkout stays dirty
and is not fast-forwarded, so a supersession is not seen there until it is tidied;
two machines that accept the same version before pulling publish twice, and the
second never merges; a pull request updated by merging the base after other
acceptances were merged fails the check, since their files are not its author's, and
needs a rebase instead.

### Umbrella

State: `registry` and `manifest` (checkouts of it), `newest` upstream, `disk[place]` (nothing, an
empty directory, the user's own, a clone, another remote's clone), `saved` state.json, `cmd[p]` a
command with its jobs and its copy of the state; `alone` (undisturbed so far) is
history. Two commands overlap at every step; crashes, failed git calls and the user
come between.

Restrictions: registry commands and changes by hand fall between commands; one
reference per removal; setup asks for no role or for "clerk". Observations: two overlapping
commands lose each other's updates of state.json (`InventoryKept` exempts them by
`alone`; what is on disk it never does); state.json is written in place (umbrella.go:355), and a
crash in the middle, which is not modelled, leaves a file that no command can read; `my setup --role ""` saves no role but goes on to
serve the old one (setup.go:256-283); setup pulls a checkout of another remote while it
records the catalog's source; an empty directory passes checkRepoCloneTarget and then
fails in sync; a removed repo that still has products/<id> is selected again by the next
migration; adding a manifest name again with a new URL goes on following the clone of
the old one; `mounts remove` has no check for uncommitted work.

## 3. Abstractions common to all modules

Content is a version number; a digest, a capsule's patch or a git blob is that
number. Paths, ids and messages are left out. A write through a temporary
file, fsync and rename is one step; a write that is not is opened (outbox). A
crash is: the process's memory is gone, its flock is released, the disk stays.
Formatting, prompts and status output are left out.

## 4. Runs

Every passing property has a mutant in `PROJECT.json`: an operator of the same
module that changes one mapped definition the way a bug would, under which TLC
finds that property violated with the run's own configuration.

| Run | Instance | What it shows |
|---|---|---|
| `checkouts` | three parts that work on checkouts, two processes each, one part acting at a time, see below | the safety of quarantine, sessions and roots below |
| `quarantine_unreported` (violation) | the commands the program ships | finding 1 |
| `records` | one adder, one flusher, one record in two versions and one policy acceptance, one edit by hand or acceptance, one crash, two pull requests | `NoDuplicatePRs`, `LocalWorkKept`, `UnpublishedIsQueued` and `PendingIsSubmitted`: one open pull request per change and title, no local version replaced that a remote branch has not had, though the checkout changes between inspection and pull; every unpublished record is in the end queued, and submitted unless an acceptance keeps failing. |
| `records_stacked` (violation) | two records one after another | finding 2 |
| `outbox` | three commands, five file names, one clock set-back, one torn file | `IsItem`: what readers see of the item moves by valid transitions or blocks for good. `SerialAppendsStayReadable`: only overlap, the clock or a torn file can block it. |
| `outbox_race` (violation) | two commands | finding 3 |
| `evidence` | one monitor, one gate, one activation; eight ticks, two changes of access, one unknown answer, one failed quarantine | `ConfirmedMeansSpaced`, `LaunchMeansAllowed`, `RemovedInTime`, with saves overwriting each other. |
| `evidence_reset` (violation) | monitor and activation, one after another | finding 4 |
| `broker` | two commands of one release, orders of two; two key versions, two fetches, two brokers, one order, one process killed | `FreshAfterDrop`, `OffHoldsNothing`, `SingleFlight`, `WaitersAreWatched`, `RefusalKeepsNewer` |
| `broker_stepaside` (violation) | two commands of different releases | finding 5 |
| `sessions` | the same three parts where they must get somewhere, one acting at a time, see below | the liveness of work, roots and recovery below |
| `workspace` | six parts, one acting at a time, see below | the properties of the others below |

The parts of `checkouts`, `sessions` and `workspace`, their instances, and what is shown of each:

| Part | Instance | Properties |
|---|---|---|
| quarantine (`checkouts`) | two processes, two checkouts, two transactions, two content versions, one crash or I/O error, one save by an unlocked writer | `AccountedMeansHeld`: a record or event exists only for content the transaction holds. `CapsuleBeforeMove`: no checkout leaves its path before its own capsule is ready. `IsCustody`: the steps are those of `Custody`, in which no byte is overwritten or lost, the main checkout moves last and the report follows the moves. |
| sessions (`checkouts`) | one session, two processes, two mounts, one path, two commands (and any number of status commands), one change in the session, one outside, one crash or failed call | `WorkKept`: no change made in a session is lost unless it is discarded. `FinishedMeansLanded`: a finished session has landed in every mount and left nothing. `PublishedMeansPushed`: a published one is on all remotes. `ConflictsAreHeld`: no sync commits a conflict it knew of while its session is active. |
| roots (`checkouts`) | two commands, umbrella and one session, two revisions, two edits, sessions or changes by hand, one crash | `CurrentMeansInstalled`: a root shown as current holds the active contract, or an edit of it that was undone while it was installed. |
| work (`sessions`) | one session (new or of the old layout), one process, two mounts, one path, three commands, one change in the session, one outside, one crash or failed call | `MigrationEnds`: a legacy session that is asked for again is migrated, wherever it was interrupted. |
| roots (`sessions`) | as in `checkouts`, with one edit | `Converges`: all roots come to hold the manifest's contract. |
| recovery (`sessions`) | one process that quarantines and resumes, two checkouts, two transactions, two content versions, two crashes anywhere | `ResumeConverges`: resumed again and again, every transaction completes. |
| delivery (`workspace`) | two launches, one record of a conversation moved to, two conversations, two revisions with different rules, three hook calls, one failed output or killed hook | `ReceiptMeansTold`: a receipt stands for a conversation that was given that revision. `NoRepeat`: none is given twice without a cause. `RetractsWhatItTold`: what was withdrawn is retracted wherever it was given. |
| sync (`workspace`) | two checkouts in five settings (distinct or same remote, private or not, a coordinated workspace with an origin, a local one and an invalid one, a draft manifest), four ways to call, two syncs, two events | `HeldStaysLocal`: nothing held back or not covered is published; in auto mode only adopted content of private repositories. |
| admin (`workspace`) | every kind of declaration once, two rules, two commands of this or an older release, one edit by hand, one stop | `Consistent`: the checkout is accepted wherever a command stopped. `RulesAsAsked`: the contract changes in one step, by what was asked. |
| skills (`workspace`) | two harnesses, one with launch roots; two commands, one change by hand between them or during a launch, one stop | `NothingTakenAway`: the user's entries, manual installs and self-skills stay. |
| policy (`workspace`) | a member and an administrator with one machine each and a second machine of the member by hand, two versions, two pull requests, one record, one commit by hand | `LedgerIsConsent`: append-only, every acceptance its subject's own, nothing merged or launched without. |
| inventory (`workspace`) | two processes, one repo, a required and a role-only mount, three revisions of two manifests, two commands, one trouble | `InventoryKept`: nothing on disk is replaced, nothing selected or listed is lost, and a setup that ends well has what it should. |

Each has the two actors, commands or objects that its hazards are about, and one crash at
any place; a second mount, checkout or harness is what lets one of two fail. Three commands in
`work` let one be interrupted, another act on what it left, and a third finish; two processes in
`sessions` let a command act between any two steps of another or of a sync. `checkouts` has 3.0
million states up to the symmetry of its processes. The
type invariants of the parts of `workspace` and of `checkouts` are the conjuncts of their `TypesOK`.

Why the bounds are enough to be interesting. Two processes are what it takes for
one to act on what the other has changed; a third command matters in the outbox
(a stale writer, the writer it missed, and one that reads the result). Two
checkouts distinguish "the main one last" and a move that fails half way. Two
transactions let an interrupted one be followed by another. Two content
versions distinguish "the same" from "changed meanwhile". In the evidence, eight
ticks hold a baseline, its expiry (TTL 2), two denials an interval of 2 apart and a
second change of access. In the broker, two fetches and two brokers let a late
answer meet its successor and a generation meet one of another process; with
`Newer = {c2}` the same properties also hold (7.1 million states, not a run).
`RemovedInTime` must hold until the last tick: `Bound` is 6 for this instance,
less than MaxTime.

Deadlock is not checked: every command ends, the counters are bounded, and a
machine on which nothing more happens is a legitimate end. What must not get
stuck is stated as liveness (`ResumeConverges`, `UnpublishedIsQueued`,
`PendingIsSubmitted`), as a deadline (`RemovedInTime`), or as an invariant on
those who wait (`WaitersAreWatched`).

## 5. Fairness

* `records` (`FairSpec`): weak fairness of each started command's steps, since a
  process runs on until it ends or crashes, and of the flusher, since the monitor's
  timer starts it again and again. Strong fairness of the three steps of a record the outside
  world may refuse (the gates `Verified`, the inspection, the provider's success):
  it says the user does not leave the checkout unpublishable for ever and the
  provider does not refuse for ever. Without it the retries cannot succeed and
  the code promises nothing. Of a policy acceptance no success is assumed: one of another account
  is refused for ever.
* `quarantine_unreported` (`ProductionSpec`): the monitor runs again and again
  and its steps are carried out.
* `sessions`: weak fairness of a started command: a session command's steps, an older writer that
  has rendered, and a quarantine, each of which runs on (one conjunct, as only one part acts); weak
  fairness of somebody asking for the status of sessions (every session command migrates
  first); strong fairness of each reconciling command's steps, since setup, sync and launch
  start it again and again, and its lock and its observation may be unavailable now and then;
  and of somebody resuming an open journal again and again. Nothing in the program does the
  latter (finding 1): that part says what the package would give a caller. Session commands other
  than status, edits, undone edits, crashes and other clones have none.
* `workspace` and `checkouts`: none; their properties are of steps and states.
* `evidence`: no temporal fairness. `Tick` is guarded so that time does not pass
  a due run of the monitor, and `Prompt` that no command spans a tick; both are
  the meaning of the timer and of commands that take seconds. A deadline is then
  an invariant.

## 6. Where the code and its documents disagree

1. A crash after a move leaves a removal that is never reported
   (`quarantine_unreported`). The journal knows, but `ResumeQuarantine` has no caller.
2. A record published while HEAD is on the topic branch of an earlier one is
   stacked on it, and its merge into that branch is taken for repository
   acceptance (`records_stacked`).
3. Two overlapping appends to an outbox item leave a log no reader accepts
   (`outbox_race`): the transition is checked and the file created without a lock.
4. Denials on both sides of an activation count as consecutive
   (`evidence_reset`).
5. A broker of another release answers before it closes its listener, and a
   command retries once, at once: it may meet the same broker again and report
   the cache as unavailable (`broker_stepaside`). For the same reason
   `my services auth lock` of one release reports success while a broker of another
   one still holds its keys for a moment; `FreshAfterDrop` and `OffHoldsNothing`
   leave that moment out explicitly (`Order`, `told`).

Each is quoted with file and line in `PROJECT.json`.

## 7. Proofs

`OutboxLogProofs` proves, for any number of commands, files, set-backs and torn
files, from `ConstantsAssumption` only:

* `TypeCorrect`: `Spec => []TypeOK`.
* `InvariantHolds` and from it `SerialAppendsAreSafe`: if no two appends have
  overlapped, the clock was not set back and no file is torn, the log is readable.
* `LogImplementsItem`: `Spec => IsItem`, the refinement of `OutboxItem`.

`SerialAppendsStayReadable` is not inductive: that a write keeps the log readable
depends on what the writer knows. `IInv` adds that open appends have distinct
positions that are still free (`Reserved`); that a log with any event has a
"queued" one, and a command about to write another state has seen it
(`QueuedIsThere`, `ReadQueued`); and that, unless appends overlapped, the clock
was set back or a file is torn, the log is readable, no file lies after the
clock, and what each command has read still holds (`InOrder`). The lemma
behind the write step, `AppendKeepsReadable`, says that an event after the last
one keeps the log readable if it is a valid transition from it; the lemma behind
the refinement, `UnreadableStays`, that no added file repairs a log. That a
log has a last file, and a file a predecessor, comes from the well-foundedness
of `<` on the naturals (`NatMin`, `HighestBelow`, `Predecessor`).

`CredentialBrokerProofs` proves, again from `ConstantsAssumption` only (so for any
number of commands of both releases, key versions, fetches, brokers, orders and
deaths), every safety property the run `broker` checks: `TypeCorrect`,
`NothingStaleIsUsed` (`FreshAfterDrop`), `OffStaysEmpty` (`OffHoldsNothing`),
`OneFetchAtATime` (`SingleFlight`), `NobodyWaitsForNothing` (`WaitersAreWatched`) and
`RefusalSparesNewer` (`RefusalKeepsNewer`). None is inductive. A key in use is fresh
because the one that was stored was, and that depends on the command that stored
it. The invariant `IInv` therefore says, for each command that fetches, that its
lease is nobody else's (`Distinct`), is the broker's or was taken back, is not about
to be cleaned up, and that while the broker still has it, the key already read is
as new as the last order, and the cache not off when it is published (`FetchGood`);
for each that waits, that its lease is under way or ended (`WaitGood`); for each
that uses a key, that the broker's key of the same generation is the same one
(`UseGood`); and of the memory, that what it holds is as new as the last order
(`MemoryGood`). Only three steps change what these compare: a lease is given out
(`ResolveInv`), a key is stored (`StoreInv`), and an order ends, after which no
broker that understood it holds anything (`OrderInv`). All other steps are
`Calm`: they only drop keys and end fetches, so a command that does not take part stays
good (`OthersGood`, `CalmStep`), and each needs an argument for its own command only.
TLC checks `IInv` on the constants of `broker` too.

`RevocationEvidenceProofs` proves every property of the run `evidence`, from
`ConstantsAssumption`, for any numbers of monitors, gates and activations, any
thresholds, any number of ticks, changes of access and failures.
`DenialsAreSpaced` (`ConfirmedMeansSpaced`) and `LaunchesAreAllowed`
(`LaunchMeansAllowed`) are about `Spec`, in which a command may take any time and
overwrite whatever was saved meanwhile. What survives lost updates is a statement
about a single copy of the entry: `FoundedOn` says that its baseline is not later
than the last positive answer and that its count stands for a chain of that many
denials, an interval apart; `EvidenceInv` says so of the file, of every command's
copy (`Good`) and of the answer it is about to add, so that it does not matter
which copy is saved last. `Chain` is a sequence of times, and the step that counts a
denial makes it one longer. `RevocationsAreRemoved` (`RemovedInTime`) is about
`PromptSpec`, the specification the run checks, and needs that there is a monitor.
Its invariant `TimelyInv` speaks of the time after a revocation: each count is
reached by `Due(count)`, at most a period later than the interval allows
(`Schedule`), and as no command outlasts a tick, the same denials are counted
whichever copy is saved in it (`CopiesAgree`). The bound of the property, for all
values of the constants, is what comes out.

`QuarantineProofs` proves what `checkouts` checks of quarantines, for any number of processes,
checkouts and transactions, crashes and unlocked saves, from `QuarantineAssumption` only. It is
about the instance `Q` of `MCCheckouts`: a definition of `Quarantine` appears as `Q!...`, the
invariant is proved of `Q!Spec`, and `QuarantineAmongParts` (`PartsSpec => Q!Spec`) carries it to
the specification of the run. `TypeCorrect`,
`AccountedTransactionsHold` (`AccountedMeansHeld`), `CapsulesComeFirst`
(`CapsuleBeforeMove`) and `QuarantineKeepsCustody` (`IsCustody`, the refinement).
That an accounted transaction holds its bytes depends on a journal in the memory of a
process, which may be older than the one on disk. The invariant does not ask
that they agree: it asks that each of them is backed by the files (`Backed`: "prepared"
has a capsule, "verified" the capsule's bytes, "moved" has nothing left to move), that they
name the same checkouts, and that only the holder of the lock is past the
loading of a journal (`HolderWorks`, `ProcsWork`). Whatever any copy of the
inventory names is held (`AccountedHeld`), since an unlocked save may bring an old
copy back. `MainLast` is what the refinement needs beyond that: a rename of the
main checkout is a step of `Custody` only when all the others are there.

`SessionsProofs` proves what `checkouts` checks of sessions, for any number of sessions, mounts,
paths and overlapping commands, with crashes, failed calls and outside changes between any two
steps. `WorkIsKept` (`WorkKept`): a change is in the worktree, on the branch, in the base
or on the remote, unless somebody asked to discard its session. Its invariant
`TypeInv` has what each operation remembers of its session. `FinishedSessionsLanded`
(`FinishedMeansLanded`), `PublishedSessionsPushed` (`PublishedMeansPushed`) and
`NoConflictIsCommitted` (`ConflictsAreHeld`) rest on `SessionsInv`, of which most is
about a session that is not `shared`: its command is the only one at work on it (`Apart`), and
others may do anything to other sessions, to the bases and the remotes, which it shares with
them. `Orderly` says of such a command that what it
read is what is recorded (`ReadsCurrent`), that a landing has nothing left in the
mounts it has passed (`LandsAll`), and that a publication whose mounts so far were
pushed has their changes on the remotes (`Publishes`). Of a sync, whatever runs beside it, it says that
the paths held back contain the conflicts of active sessions that were there when it
collected them (`HoldsActive`); of the repositories,
that a merge in conflict has its paths on the branch and not in the base
(`MergesOpen`) and that a remote has sessions' changes only through the base
(`RemotesFollow`). All are
stated of `Spec` of `WorkSession`, which `MCCheckouts` extends; `WorkAmongParts` carries them to
the specification of the run (`WorkIsKeptAmongParts`, `SessionsKeepTheirWord`).

`RecordPublicationProofs` proves the safety properties of the run `records`, for any
number of records, versions, pull requests and commands: `TypeCorrect`,
`ChangesAreProposedOnce` (`NoDuplicatePRs`) and `LocalWorkStays` (`LocalWorkKept`). The
types include that the outbox list has each pending item once, which rests on two lemmas
about lists as relations (`ListWithout`, `ListAfter`). `LocalWorkStays` needs that nothing is
committed locally that no remote has: HEAD, the remote branches and the commit that a command is
about to attach have been pushed (`CommitsPublished`), whatever was edited, pulled or
switched since the command looked. `AcceptanceIsTrue` says
what finding 2 leaves of the documents' promise: an item that is called merged, a record or a
policy acceptance, has been on the trusted base, unless its pull request was
opened against a topic branch. It needs that submitted items name their pull request, that what is
on the trusted base, and what was merged into it, has landed (`AcceptedInv`), for an acceptance is
also called merged without a pull request, when the upstream has it already.

Of the contract's roots, `SessionsProofs` proves `CurrentRootsAreInstalled`
(`CurrentMeansInstalled`): a root that is shown as current holds the active contract, or the edit of
it that was undone while it was installed. It is
stated of `PartsSpec` of `MCCheckouts` and assumes that the manifest
has a revision (`RootsAssumption`). The invariant says what a command has rendered when
it comes to write (`Rendered`: if the checkout is still at the revision it expects, the
rendering is of that revision, and of an edit only while that is there or once it was undone) and
that a marker records the file of the revision it names, or of an edit of it that was undone
(`MarkersTrue`).

`GovernanceProofs` and `WorkspaceProofs` prove every property of the run `workspace`, for all
values of the constants. The first has the parts that carry a contract (delivery, admin,
policy), the second those that carry files (sync, skills, inventory). Each part has an
invariant of its own; `PartSteps` says that no other part touches its variables, and lemmas
such as `SyncAmongParts` carry it to `PartsSpec`. `TypesAreKept` (`TypesOK`) puts all six
together.

*Delivery*, from `ConstantsAssumption`,
for any number of launches, conversations, revisions and hook calls:
`ReceiptsAreTrue` (`ReceiptMeansTold`), `NothingIsRepeated` (`NoRepeat`) and
`WithdrawnRulesAreRetracted` (`RetractsWhatItTold`), stated of the part's own `Spec`, which
`PartsSpec` implies (`DeliveryAmongParts`), so that they hold of the run's specification too
(`DeliveryKeepsItsWord`). What a hook prints depends on the record it
finds, so the invariant ties records to conversations (`AllHeld`): one whose receipt or
record was not lost has exactly one record, which says what it was given last, and, while nothing
restarted it, has its receipt. A hook that has printed and holds the lock is about to
save just that record (`Replaces`), and a record no hook has bound yet starts from what
the conversation in its launch's arguments was given (`Unbound`), which is what a fork
needs. `HookFacts` derives from it what a hook has in hand, the two action
properties follow from that, and `SaveInv` is the argument for every step that saves.

*Admin*, assuming that a contract has a rule (`RulesAssumption`): `AdminConsistent`
(`Consistent`) and `ContractAsAsked` (`RulesAsAsked`). A stop may leave any prefix of a
command's writes, so `AdminInv` has, besides what is in the files and what is committed
(`Sound`, of half written files as they were), the writes still to come (`PlanOK`): each
prefix of them leaves files that fit, the contract changes with the last of them only, and it
becomes what the edit asked for. A manifest whose contract is the file is not for older
releases (`NotForOld`); without that, a command of an older release would break it.

*Policy*, assuming that members' files are not nothing, that an administrator has a machine,
and that commits by hand are by members (`MembersAssumption`, `VersionsAssumption`,
`CommitsAssumption`): `LedgerKeepsConsent` (`LedgerIsConsent`). `LedgerInv` says that an
acceptance that bears its subject's name was given by that subject, on the trusted ledger and
in every machine's checkout (`Consented`), and of a pull request that it brings no
acceptance its author did not give, forks off the trusted ledger, and once passed is what
the check saw, every parent edge of it (`RequestOK`). That a merge then appends only, though
other requests were merged since the check, is what has to be shown.

*Sync*, assuming that checkouts are numbered and a setting is a workspace with its checkouts
(`CheckoutsAssumption`, `SettingsAssumption`): `SyncHoldsBack` (`HeldStaysLocal`).
`SyncInv` says that a checkout has, besides its own changes, only those of its remote
(`OwnOrTrunk`), that a phase's checkouts are covered (`InHand`), that what a checkout may
publish is already upstream, seen by its inspection, or came after it (`PendingAccounted`), and that a push was approved (`PushApproved`). The proof found
that the property had been stated too strongly for several syncs: a new file that appears
after the inspection and is committed by a sync whose push fails is, to the next sync, in a
commit like any other, and so adopted. The property says so now, and the run has two syncs.

*Skills*, assuming finitely many harnesses and known ways to install (`HarnessesAssumption`,
`WaysAssumption`): `NothingIsTaken` (`NothingTakenAway`). The hazard is in what a command
still has to do, so `SkillsInv` says which jobs a command of each kind may have
(`Fits`) and in which order (`InOrder`), that what is uninstalled unasked is neither
a finished manual install nor the self-skill (`UninstallsOK`), what a half-done job has done so
far (`StepOK`), what `mine` stands for (`MineOK`), and that a harness which had the
self-skill has it or a job that will bring it (`SelfKept`). `MineOK` survives a stop in the middle of
an index, since the links that lose their scope are no longer `mine` then.

*Inventory*, assuming that the manifest has revisions whose catalogs list repos, of
finitely many repos and mounts (`InventoryAssumption`): `InventoryIsKept` (`InventoryKept`).
`InventoryInv` says which jobs a command may have (`MayBe`) and in which order
(`InSequence`: a write of state.json follows its own read, a setup goes on to its
repos); of a command that nothing disturbed, that it is the only one (`OnlyOne`), that what
it is about to write keeps what is selected and listed (`WritesAll`), and, if it is a
setup, what it has reached by now: the role is saved or about to be (`RoleSet`), each required
mount is pending, there, or counted as failed (`MountsThere`), each default repo is pending, tried,
recorded or selected (`ReposThere`). That setup has a manifest from its first job on
(`ManifestThere`) is needed of every process, disturbed or not: otherwise the catalog that a
disturbed one reads could be none.

TLC checked each inductive invariant before it was proved: `IInv` and
`QuarantineInv` on the constants of their runs, `EvidenceInv` and `TimelyInv` on those of
`evidence`, `SessionsInv` with two overlapping commands, `RootsInv` with two commands
and three revisions (5.9 million states), `AcceptedInv` with two records, `DeliveryInv`
with three conversations and three revisions (5.4 million states), `AdminInv` on the
constants of `workspace` (5.3 million states), `LedgerInv` with three machines, two pull requests
and two commits by hand (1.5 million), `SyncInv` with two syncs and three events
(1.3 million), `SkillsInv` with two commands, two changes by hand and one stop (0.8 million),
and `InventoryInv` with two processes, two commands and two troubles (1.7 million).

Only model-checked: liveness (`UnpublishedIsQueued` and `PendingIsSubmitted` of
`records`; `MigrationEnds`, `Converges` and `ResumeConverges` of `sessions`), since liveness under
fairness, ENABLED, and induction over data are outside the reach of the provers used here. All
other properties of the passing runs are proved. `FinishedMeansLanded`,
`PublishedMeansPushed` and `ConflictsAreHeld` are proved, and checked, for sessions that no two
commands worked on at the same time; of a session that two did, only `WorkKept` is claimed.
The five runs that expect a violation state what the code does not keep.

## 8. What is left, in order

Not modelled, with reasons, in `PROJECT.json` ("components"): contract review, fleet, the
record index and remote record service, self update, domain records (sequential
file scaffolding and parsing), packaging. Left out of parts that are modelled:

1. Manifest changes as pull requests (the registered path of `my admin`), and
   overlapping admin commands.
2. The pull-request path in `RepoSync` together with several checkouts; the freshness
   gate of governed manifests.
3. Record index (generation under its lock), remote record writes (retries that are
   idempotent), self update (verification before replacement, rollback).
4. Lifetimes of the credential broker with a clock (`clampLimits`, NotAfter), several
   keys, refresh of references.

Proofs left: the liveness properties; and, for a session that two commands work on at the same
time, which pairs of commands do harm.

Not modelled on purpose: cryptographic digests as such, key and lease randomness
(assumed to be unique), the file system's own failures other than a write that
does not happen or happens partly, the content of prompts and status output.
