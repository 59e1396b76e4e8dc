------------------------- MODULE RecordPublication -------------------------
(***************************************************************************)
(* From a record in the working tree to an item proven merged: `my record  *)
(* add`, `my record flush` (also run by the access monitor) and            *)
(* publishDomainRepo (internal/cli/record_domains.go), the pull-request    *)
(* path of internal/syncer and publishPullRequest                          *)
(* (internal/cli/governance_pr.go), over one checkout of one repository,   *)
(* which may hold policy acceptances too (publishPolicyAcceptance,         *)
(* internal/cli/policy.go): the two share the outbox and the turns of a    *)
(* flush.  An outbox item is a path at a content version; its log is       *)
(* reduced to its last event, appended atomically (module OutboxLog opens  *)
(* that step).  Git is reduced to trees of content versions.               *)
(***************************************************************************)
EXTENDS Integers, FiniteSets

CONSTANTS
  Records,       \* paths of the repository that are published
  Acceptances,   \* those of them that are policy acceptances
  MaxV,          \* bound: content versions of a record
  MaxPR,         \* bound: pull requests (and topic branches)
  MaxEdits,      \* bound: edits of records, and acceptances, by users
  MaxCrashes,    \* bound: crashes of a command between two steps
  Adders,        \* `my record add` commands that may run at the same time
  Flushers,      \* `my record flush` commands and the monitor
  NoItem         \* no item is being published

ASSUME ConstantsAssumption ==
  /\ Acceptances \subseteq Records
  /\ MaxV \in Nat \ {0} /\ MaxPR \in Nat /\ MaxEdits \in Nat /\ MaxCrashes \in Nat
  /\ NoItem \notin Records \X (1..MaxV)

Procs == Adders \cup Flushers
Versions == 0..MaxV              \* 0: no file
Items == Records \X (1..MaxV)
PRs == 1..MaxPR
Branches == 0..MaxPR             \* 0: the trusted base; k: topic of PR k
Trees == [Records -> Versions]

VARIABLES
  file,          \* working tree
  head,          \* tree of HEAD
  branch,        \* branch HEAD is attached to
  at,            \* revision of the remote branch that HEAD was last equal to
  tree, rev,     \* each remote branch: its tree, how often it has moved
  prs,           \* pull requests at the provider
  landed,        \* history: items that have ever been on the trusted base
  pushed,        \* history: items that have ever been on a remote branch
  last,          \* state of the last event of each outbox item
  proof,         \* PR recorded by the submitted event of an item, or 0
  order,         \* <<i, j>>: pending item i was last touched before j
  op,            \* each command: program counter and what it has in memory
  edits, crashes

checkout == <<file, head, branch, at>>
remote == <<tree, rev, prs, landed, pushed>>
outbox == <<last, proof, order>>
env == <<edits, crashes>>
vars == <<checkout, remote, outbox, op, env>>

EmptyTree == [r \in Records |-> 0]
NoPR == [st |-> "none", base |-> 0, from |-> EmptyTree, title |-> "record",
         moved |-> FALSE, merge |-> EmptyTree]
Idle == [pc |-> "idle", item |-> NoItem, branch |-> 0, head |-> EmptyTree,
         dirty |-> {}, commit |-> EmptyTree, pr |-> 0]

Init ==
  /\ file = EmptyTree /\ head = EmptyTree
  /\ branch = 0 /\ at = 0
  /\ tree = [b \in Branches |-> EmptyTree]
  /\ rev = [b \in Branches |-> 0]
  /\ prs = [k \in PRs |-> NoPR]
  /\ landed = {} /\ pushed = {}
  /\ last = [i \in Items |-> "none"]
  /\ proof = [i \in Items |-> 0]
  /\ order = {}
  /\ op = [p \in Procs |-> Idle]
  /\ edits = 0 /\ crashes = 0

-----------------------------------------------------------------------------
(* The outbox *)

PendingStates == {"queued", "attempt-failed"}
Pending(i) == last[i] \in PendingStates

ValidTransition(from, to) ==
  CASE from = "none" -> to = "queued"
    [] from \in PendingStates -> to \in {"attempt-failed", "submitted", "merged"}
    [] from = "submitted" -> to = "merged"
    [] OTHER -> FALSE

Listed == {i \in Items : Pending(i)}
\* The list without the items of S, and the lists that the items of S can make.
Without(S) == {e \in order : e[1] \notin S /\ e[2] \notin S}
IsList(R, S) ==
  /\ R \subseteq S \X S
  /\ \A i, j \in S : i # j <=> <<i, j>> \in R \/ <<j, i>> \in R
  /\ \A i, j, k \in S : <<i, j>> \in R /\ <<j, k>> \in R => <<i, k>> \in R
Lists(S) == {R \in SUBSET (S \X S) : IsList(R, S)}

\* Mutant: the item is listed once more, its earlier place is kept.
TouchedTwice(i, to) == IF to \in PendingStates THEN order \cup (Listed \X {i}) ELSE Without({i})

\* Mutant: a failed attempt keeps the time of the queue event.
TouchedInPlace(i, to) ==
  IF to \notin PendingStates THEN Without({i})
  ELSE IF Pending(i) THEN order ELSE order \cup (Listed \X {i})

\* Every event has a new time: a pending item goes to the end of the list.
Touched(i, to) ==
  IF to \in PendingStates THEN Without({i}) \cup ((Listed \ {i}) \X {i}) ELSE Without({i})

\* outbox.Append: refused when the transition is not valid.
AppendEvent(i, to) ==
  IF ValidTransition(last[i], to)
  THEN last' = [last EXCEPT ![i] = to] /\ order' = Touched(i, to)
  ELSE UNCHANGED <<last, order>>

-----------------------------------------------------------------------------
(* Git *)

Dirty == {r \in Records : file[r] # head[r]}
Exact(i) == file[i[1]] = i[2]                      \* verifyOutboxContent
Behind == rev[branch] # at
Put(t, R) == [r \in Records |-> IF r \in R THEN file[r] ELSE t[r]]

\* git makes the checkout that of a branch: it keeps what is changed locally
\* and refuses when the branch changes it too.
Checkout(b) ==
  /\ \A r \in Dirty : tree[b][r] = head[r]
  /\ file' = [r \in Records |-> IF r \in Dirty THEN file[r] ELSE tree[b][r]]
  /\ head' = tree[b] /\ branch' = b /\ at' = rev[b]

Goto(p, pc) == op' = [op EXCEPT ![p].pc = pc]
Return(p) == op' = [op EXCEPT ![p] = Idle]

\* appendOutboxFailure, and the command ends.
Fail(p) ==
  /\ AppendEvent(op[p].item, "attempt-failed")
  /\ Return(p)
  /\ UNCHANGED <<proof, env>>

-----------------------------------------------------------------------------
(* my record add *)

\* domainrecord.Add, or the file of `my policy accept`, and `git add
\* --intent-to-add`.
AddWrite(p, r) ==
  /\ op[p].pc = "idle"
  /\ file[r] = 0
  /\ file' = [file EXCEPT ![r] = 1]
  /\ op' = [op EXCEPT ![p].pc = "queue", ![p].item = <<r, 1>>]
  /\ edits' = IF r \in Acceptances THEN edits + 1 ELSE edits
  /\ edits' <= MaxEdits
  /\ UNCHANGED <<head, branch, at, remote, outbox, crashes>>

\* How an item is published.
Publisher(i) == IF i[1] \in Acceptances THEN "accept" ELSE "verify"

\* queueDomainRecord reads the file again for its digest.
AddQueue(p) ==
  LET i == <<op[p].item[1], file[op[p].item[1]]>> IN
  /\ op[p].pc = "queue"
  /\ IF i \in Items /\ ValidTransition(last[i], "queued")
     THEN /\ AppendEvent(i, "queued")
          /\ op' = [op EXCEPT ![p].pc = Publisher(i), ![p].item = i]
     ELSE Return(p) /\ UNCHANGED <<last, order>>
  /\ UNCHANGED <<checkout, remote, proof, env>>

-----------------------------------------------------------------------------
(* my record flush *)

\* Mutant: an item is known by its path, whatever its digest.
UnqueuedByPath ==
  {<<r, file[r]>> : r \in {s \in Dirty : file[s] # 0 /\ \A v \in 1..MaxV :
                                                 last[<<s, v>>] = "none"}}

\* recordNeedsPublication: HEAD never holds commits its upstream lacks here,
\* so a record is unpublished exactly when its file differs from HEAD.
Unqueued == {<<r, file[r]>> : r \in {s \in Dirty : file[s] # 0}}
            \ {i \in Items : last[i] # "none"}

\* reconcileDomainOutbox rebuilds missing queue items from Git state.
FlushReconcile(p) ==
  /\ op[p].pc = "idle"
  /\ last' = [i \in Items |-> IF i \in Unqueued THEN "queued" ELSE last[i]]
  /\ \E list \in Lists(Unqueued) : order' = order \cup (Listed \X Unqueued) \cup list
  /\ Goto(p, "settle")
  /\ UNCHANGED <<checkout, remote, proof, env>>

\* reconcileSubmittedOutbox: the PR is merged, from the head that was proven,
\* and the merge commit has the queued content.
Mergeable(i) ==
  LET k == proof[i] IN
  /\ last[i] = "submitted"
  /\ prs[k].st = "merged"
  /\ ~prs[k].moved
  /\ prs[k].merge[i[1]] = i[2]

\* A provider or fetch failure skips an item.
FlushSettle(p) ==
  /\ op[p].pc = "settle"
  /\ \E S \in SUBSET {i \in Items : Mergeable(i)} :
       last' = [i \in Items |-> IF i \in S THEN "merged" ELSE last[i]]
  /\ Goto(p, "pick")
  /\ UNCHANGED <<checkout, remote, proof, order, env>>

\* One attempt per repository and flush (seenRepo): policy acceptances come
\* first, then the item touched longest ago.
FlushPick(p) ==
  LET waiting == {i \in Listed : i[1] \in Acceptances}
      first == IF waiting # {} THEN waiting ELSE Listed
  IN /\ op[p].pc = "pick"
     /\ IF Listed = {}
        THEN Return(p)
        ELSE \E i \in first :
               /\ \A j \in first \ {i} : <<i, j>> \in order
               /\ op' = [op EXCEPT ![p].pc = Publisher(i), ![p].item = i]
     /\ UNCHANGED <<checkout, remote, outbox, env>>

-----------------------------------------------------------------------------
(* publishDomainRepo, syncer.Run, publishPullRequest *)

\* Content, access, freshness and policy gates hold.
Verified(p) ==
  /\ op[p].pc = "verify"
  /\ Exact(op[p].item)
  /\ Goto(p, "inspect")
  /\ UNCHANGED <<checkout, remote, outbox, env>>

\* The content has changed since it was queued, or a gate does not pass.
Refused(p) ==
  /\ op[p].pc = "verify"
  /\ Fail(p)
  /\ UNCHANGED <<checkout, remote>>

\* syncer.inspect and reconcile: only a dirty checkout that is not behind goes
\* on to the publisher, with the paths that are dirty now.
InspectOutbound(p) ==
  /\ op[p].pc = "inspect"
  /\ ~Behind /\ Dirty # {}
  /\ op' = [op EXCEPT ![p].pc = "open", ![p].branch = branch,
                      ![p].head = head, ![p].dirty = Dirty]
  /\ UNCHANGED <<checkout, remote, outbox, env>>

\* inspect and reconcileInbound: a checkout that is behind and has no local
\* changes at this moment will be fast-forwarded.
InspectInbound(p) ==
  /\ op[p].pc = "inspect"
  /\ Behind /\ Dirty = {}
  /\ Goto(p, "pull")
  /\ UNCHANGED <<checkout, remote, outbox, env>>

\* Mutant: the checkout that was found clean is reset to the remote branch.
PullByReset(p) ==
  /\ op[p].pc = "pull"
  /\ Fail(p)
  /\ branch = 0
  /\ file' = tree[0] /\ head' = tree[0] /\ at' = rev[0]
  /\ UNCHANGED <<branch, remote>>

\* `git pull --ff-only`, of what the checkout and the remote are by now.  A
\* topic branch has no upstream to pull from.  Nothing was published.
Pull(p) ==
  /\ op[p].pc = "pull"
  /\ Fail(p)
  /\ branch = 0 /\ Checkout(0)
  /\ UNCHANGED remote

\* The pull is refused or fails.
PullRefused(p) ==
  /\ op[p].pc = "pull"
  /\ Fail(p)
  /\ UNCHANGED <<checkout, remote>>

\* Fetch failed, nothing to publish, or behind with local changes.
InspectHeld(p) ==
  /\ op[p].pc = "inspect"
  /\ Fail(p)
  /\ UNCHANGED <<checkout, remote>>

\* Mutant: every attempt makes a commit of its own (its own date).
SamePRNever(k, c) == FALSE

\* The prospective commit has HEAD's committer date: the same change on the
\* same parent with the same message is the same commit, the same topic branch
\* and the same PR.
SamePR(k, c) == /\ prs[k].st = "open" /\ prs[k].base = c.base /\ prs[k].title = c.title
                /\ prs[k].from = c.from /\ tree[k] = c.tree

\* Push the topic branch, find its pull request or create it.
Propose(k, c) ==
  \/ SamePR(k, c) /\ UNCHANGED remote
  \/ /\ \A j \in PRs : ~SamePR(j, c)
     /\ prs[k].st = "none" /\ \A j \in 1..(k - 1) : prs[j].st # "none"
     /\ prs' = [prs EXCEPT ![k] = [NoPR EXCEPT !.st = "open", !.base = c.base,
                                                !.from = c.from, !.title = c.title]]
     /\ tree' = [tree EXCEPT ![k] = c.tree]
     /\ pushed' = pushed \cup ({<<r, c.tree[r]>> : r \in Records} \cap Items)
     /\ UNCHANGED <<rev, landed>>

Change(p) == [base |-> op[p].branch, from |-> op[p].head, title |-> "record",
              tree |-> Put(op[p].head, op[p].dirty)]

\* buildProspectiveCommit reads the files and the change is proposed; or the
\* response is lost after the provider has opened the pull request.
OpenPR(p) ==
  LET c == Change(p) IN
  /\ op[p].pc = "open"
  /\ c.tree # c.from
  /\ \E k \in PRs :
       /\ Propose(k, c)
       /\ \/ op' = [op EXCEPT ![p].pc = "attach", ![p].commit = c.tree, ![p].pr = k]
             /\ UNCHANGED outbox
          \/ AppendEvent(op[p].item, "attempt-failed") /\ Return(p) /\ UNCHANGED proof
  /\ UNCHANGED <<checkout, env>>

\* The pre-check denies the change, the push fails, or nothing is left to
\* propose.
OpenDenied(p) ==
  /\ op[p].pc = "open"
  /\ Fail(p)
  /\ UNCHANGED <<checkout, remote>>

\* attachPublishedTopic: HEAD moves to the topic branch, files stay; nothing
\* happens when HEAD has moved since the inspection.
Attach(p) ==
  /\ op[p].pc = "attach"
  /\ IF branch = op[p].branch /\ head = op[p].head
     THEN /\ branch' = op[p].pr /\ at' = 0
          /\ head' = op[p].commit
     ELSE UNCHANGED <<head, branch, at>>
  /\ Goto(p, "mark")
  /\ UNCHANGED <<file, remote, outbox, env>>

\* Every pending item whose path the pull request changed, and the item
\* itself, is submitted, or failed when its content differs by now; a crash
\* between two of the appends leaves the rest as they were.
Mark(p) ==
  LET covered == {i \in Listed : i[1] \in op[p].dirty \/ i = op[p].item}
  IN /\ op[p].pc = "mark"
     /\ \E marked \in SUBSET covered :
          LET exact == {i \in marked : Exact(i)}
              failed == marked \ exact
          IN /\ crashes' = IF marked = covered THEN crashes ELSE crashes + 1
             /\ crashes' <= MaxCrashes
             /\ last' = [i \in Items |-> IF i \in exact THEN "submitted"
                                         ELSE IF i \in failed THEN "attempt-failed"
                                         ELSE last[i]]
             /\ proof' = [i \in Items |-> IF i \in exact THEN op[p].pr ELSE proof[i]]
             /\ \E list \in Lists(failed) :
                  order' = Without(marked) \cup ((Listed \ marked) \X failed) \cup list
     /\ Return(p)
     /\ UNCHANGED <<checkout, remote, edits>>

-----------------------------------------------------------------------------
(* publishPolicyAcceptance: the checkout and its index are preserved *)

\* The acceptance is of another subject, a gate does not pass, the topic branch
\* that HEAD is on has no upstream, or the publication fails.
AcceptRefused(p) ==
  /\ op[p].pc = "accept"
  /\ Fail(p)
  /\ UNCHANGED <<checkout, remote>>

\* The exact acceptance is at the upstream already.
AcceptLanded(p) ==
  LET i == op[p].item IN
  /\ op[p].pc = "accept"
  /\ Exact(i) /\ branch = 0 /\ tree[0][i[1]] = i[2]
  /\ AppendEvent(i, "merged")
  /\ Return(p)
  /\ UNCHANGED <<checkout, remote, proof, env>>

\* The acceptance alone is proposed on top of the upstream.
AcceptOpen(p) ==
  LET i == op[p].item
      c == [base |-> 0, from |-> tree[0], title |-> "policy",
            tree |-> [tree[0] EXCEPT ![i[1]] = i[2]]]
  IN /\ op[p].pc = "accept"
     /\ Exact(i) /\ branch = 0 /\ tree[0][i[1]] # i[2]
     /\ \E k \in PRs :
          /\ Propose(k, c)
          /\ \/ op' = [op EXCEPT ![p].pc = "submit", ![p].pr = k] /\ UNCHANGED outbox
             \/ AppendEvent(i, "attempt-failed") /\ Return(p) /\ UNCHANGED proof
     /\ UNCHANGED <<checkout, env>>

\* The submitted event of the acceptance, with its proof.
AcceptSubmit(p) ==
  LET i == op[p].item IN
  /\ op[p].pc = "submit"
  /\ AppendEvent(i, "submitted")
  /\ proof' = IF Pending(i) THEN [proof EXCEPT ![i] = op[p].pr] ELSE proof
  /\ Return(p)
  /\ UNCHANGED <<checkout, remote, env>>

-----------------------------------------------------------------------------
(* Users, the provider, crashes *)

Edit(r) ==
  /\ r \notin Acceptances
  /\ edits < MaxEdits
  /\ edits' = edits + 1
  /\ file[r] \in 1..(MaxV - 1)
  /\ file' = [file EXCEPT ![r] = @ + 1]
  /\ UNCHANGED <<head, branch, at, remote, outbox, op, crashes>>

\* `git switch` to the base branch and `git pull`.
ReturnToBase ==
  /\ branch # 0
  /\ Checkout(0)
  /\ UNCHANGED <<remote, outbox, op, env>>

\* A reviewer merges a pull request into its base branch.
MergePR(k) ==
  LET b == prs[k].base
      merge == [r \in Records |-> IF tree[k][r] # prs[k].from[r]
                                  THEN tree[k][r] ELSE tree[b][r]]
  IN /\ prs[k].st = "open"
     /\ prs' = [prs EXCEPT ![k].st = "merged", ![k].merge = merge,
                           ![k].moved = rev[k] # 0]
     /\ tree' = [tree EXCEPT ![b] = merge]
     /\ rev' = [rev EXCEPT ![b] = @ + 1]
     /\ landed' = IF b = 0 THEN landed \cup ({<<r, merge[r]>> : r \in Records} \cap Items)
                  ELSE landed
     /\ UNCHANGED <<checkout, pushed, outbox, op, env>>

ClosePR(k) ==
  /\ prs[k].st = "open"
  /\ prs' = [prs EXCEPT ![k].st = "closed"]
  /\ UNCHANGED <<checkout, tree, rev, landed, pushed, outbox, op, env>>

Crash(p) ==
  /\ op[p].pc # "idle"
  /\ crashes < MaxCrashes
  /\ crashes' = crashes + 1
  /\ Return(p)
  /\ UNCHANGED <<checkout, remote, outbox, edits>>

-----------------------------------------------------------------------------
Step(p) ==
  \/ AddQueue(p)
  \/ p \in Flushers /\ FlushReconcile(p)
  \/ FlushSettle(p) \/ FlushPick(p)
  \/ Verified(p) \/ Refused(p)
  \/ InspectOutbound(p) \/ InspectInbound(p) \/ InspectHeld(p)
  \/ Pull(p) \/ PullRefused(p)
  \/ OpenPR(p) \/ OpenDenied(p)
  \/ Attach(p) \/ Mark(p)
  \/ AcceptRefused(p) \/ AcceptLanded(p) \/ AcceptOpen(p) \/ AcceptSubmit(p)

Next ==
  \/ \E p \in Procs : Step(p) \/ Crash(p)
  \/ \E p \in Adders, r \in Records : AddWrite(p, r)
  \/ \E r \in Records : Edit(r)
  \/ ReturnToBase
  \/ \E k \in PRs : MergePR(k) \/ ClosePR(k)

Spec == Init /\ [][Next]_vars

\* The monitor flushes again and again; an attempt for a record that keeps being
\* possible is not refused for ever.  An acceptance may be: that of another
\* account never becomes publishable.
FairSpec ==
  /\ Spec
  /\ \A p \in Flushers :
       /\ WF_vars(Step(p))
       /\ SF_vars(Verified(p))
       /\ SF_vars(InspectOutbound(p))
       /\ SF_vars(OpenPR(p) /\ op'[p].pc = "attach")

-----------------------------------------------------------------------------
(* Properties *)

States == {"none", "queued", "attempt-failed", "submitted", "merged"}
TypeOK ==
  /\ file \in Trees /\ head \in Trees
  /\ branch \in Branches /\ at \in Nat
  /\ tree \in [Branches -> Trees] /\ rev \in [Branches -> Nat]
  /\ prs \in [PRs -> [st : {"none", "open", "merged", "closed"}, base : Branches,
                      from : Trees, title : {"record", "policy"},
                      moved : BOOLEAN, merge : Trees]]
  /\ landed \subseteq Items /\ pushed \subseteq Items
  /\ last \in [Items -> States]
  /\ proof \in [Items -> 0..MaxPR]
  /\ IsList(order, Listed)
  /\ op \in [Procs -> [pc : {"idle", "queue", "settle", "pick", "verify",
                             "inspect", "pull", "open", "attach", "mark",
                             "accept", "submit"},
                       item : Items \cup {NoItem}, branch : Branches,
                       head : Trees, dirty : SUBSET Records, commit : Trees,
                       pr : 0..MaxPR]]
  /\ edits \in 0..MaxEdits /\ crashes \in 0..MaxCrashes

\* A file is replaced only by its user, or when it has no local changes and a
\* remote branch has had its content, whatever was written between the
\* inspection of the checkout, the reading of the files for a pull request and
\* the pull or the move of HEAD (syncer.go:584 and 774, governance_pr.go:218).
LocalWorkKept ==
  [][\A r \in Records : file'[r] # file[r] =>
       \/ file'[r] = file[r] + 1
       \/ r \notin Dirty /\ (file[r] = 0 \/ <<r, file[r]>> \in pushed)]_vars

\* Retries and concurrent commands do not open a second pull request for the
\* same change under the same title (governance_pr.go:184).
NoDuplicatePRs ==
  \A j, k \in PRs : j # k /\ prs[j].st = "open" /\ prs[k].st = "open"
                    /\ rev[j] = 0 /\ rev[k] = 0 =>
    \/ prs[j].base # prs[k].base \/ prs[j].from # prs[k].from
    \/ prs[j].title # prs[k].title \/ tree[j] # tree[k]

\* A record that stays unpublished is queued eventually, wherever the command
\* that wrote it stopped (README.md:504).
UnpublishedIsQueued ==
  \A r \in Records : []<>~(r \in Dirty /\ file[r] # 0 /\ last[<<r, file[r]>>] = "none")

\* A flush has no turn for the repository's records while one of its policy
\* acceptances is pending, however often that has failed.
AcceptanceWaits == \E i \in Listed : i[1] \in Acceptances

\* A record that is exact, unpublished and in a checkout that is not behind is
\* submitted eventually, however many other records keep failing before it,
\* unless an acceptance of its repository keeps failing
\* (record_domains.go:270-299).
PendingIsSubmitted ==
  \A r \in Records \ Acceptances :
    []<>~(/\ r \in Dirty /\ file[r] # 0 /\ Pending(<<r, file[r]>>)
          /\ ~Behind /\ ~AcceptanceWaits
          /\ \E k \in PRs : prs[k].st = "none")

\* An item is merged only when its content is on the trusted base branch:
\* "the outbox never claims repository acceptance prematurely"
\* (README.md:507).
MergedMeansTrusted == \A i \in Items : last[i] = "merged" => i \in landed
=============================================================================
