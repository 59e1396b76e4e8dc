----------------------------- MODULE PolicyLedger -----------------------------
(***************************************************************************)
(* Policy acceptance (cli/policy.go, policy_admin.go) and the governance   *)
(* check of pull requests (governance/check.go).                           *)
(*                                                                         *)
(* A member accepts the policy version its manifest declares in a file of  *)
(* its own in the ledger, an administrator supersedes an acceptance in     *)
(* another one.  Both are published one file at a time by pull requests,   *)
(* which the check judges by the manifest it trusts, commit by commit, and *)
(* which merge later.  People also make pull requests by hand.             *)
(***************************************************************************)
EXTENDS Naturals, Sequences, FiniteSets

CONSTANTS
    Machines,            \* workstations
    Elsewhere, Owner(_), \* those not followed here, and the member each belongs to
    Admins,              \* members with administrator permission
    Records,             \* change records
    PRs,                 \* 1..n: pull requests to the ledger's repository
    Commits,             \* the commits people make by hand: [by, path, file, refs]
    MaxVersion,          \* bound: versions of the policy
    MaxByHand            \* bound: commits and tidying by hand

Members == {Owner(m) : m \in Machines \cup Elsewhere}
Versions == 1..MaxVersion
Accept(s, v) == <<"accept", s, v>>
Super(s, v) == <<"super", s, v>>
Entries == {Accept(s, v) : s \in Members, v \in Versions} \cup {Super(s, v) : s \in Members, v \in Versions}
Other == <<"other", "", 0>>  \* what else the repository has
Paths == Entries \cup {Other}

\* A file is known by the machine it was written on: it names the subject, or
\* for a supersession the administrator, and the time.
Absent == "absent"
Files == Machines \cup Elsewhere
Trees == [Paths -> Files \cup {Absent}]
Items == Entries \X Files
By(c) == IF c = Absent THEN Absent ELSE Owner(c)
NoPR == [author |-> Absent, base |-> [p \in Paths |-> Absent], from |-> 0, head |-> [p \in Paths |-> Absent],
         edges |-> {}, refs |-> {}, event |-> 0, verdict |-> "none", version |-> 0]

VARIABLES
    trusted,     \* upstream: [manifest, doc], the version declared and that of the text
    ledger, tip, \* upstream: the tree, and the number of its commit
    cited,       \* the records merged and the pull requests they cite
    pr,
    have,        \* have[m]: [manifest, doc] as pulled
    head, local, \* of m's ledger checkout: the committed tree, and the files
    queued,      \* queued[m]: the items m has yet to publish
    handled,     \* handled[m]: those submitted, or found merged
    consent,     \* history: who accepted which version, its text at hand
    byHand

upstream == <<trusted, ledger, tip, cited, pr>>
machine == <<have, head, local, queued, handled>>
vars == <<upstream, machine, consent, byHand>>

\* The administrators' acceptances of the first version are there.
Init ==
    /\ trusted = [manifest |-> 1, doc |-> 1]
    /\ ledger = [p \in Paths |->
          IF \E s \in Admins : p = Accept(s, 1) THEN CHOOSE m \in Machines : Owner(m) = p[2] ELSE Absent]
    /\ tip = 1 /\ cited = {} /\ pr = [k \in PRs |-> NoPR]
    /\ have = [m \in Machines |-> trusted] /\ head = [m \in Machines |-> ledger] /\ local = head
    /\ queued = [m \in Machines |-> {}] /\ handled = queued
    /\ consent = {<<s, 1>> : s \in Admins} /\ byHand = 0

(***************************************************************************)
(* A member's machine.                                                     *)
(***************************************************************************)
Set(p, m, c) == local' = [local EXCEPT ![m][p] = c]
\* Mutant: what was submitted is queued again.
QueueAgain(m, items) == queued' = [queued EXCEPT ![m] = @ \cup items] /\ UNCHANGED handled
Queue(m, items) == queued' = [queued EXCEPT ![m] = @ \cup (items \ handled[m])] /\ UNCHANGED handled
MayQueue(m, item) ==
    \/ Queue(m, {item}) /\ UNCHANGED byHand
    \/ byHand < MaxByHand /\ byHand' = byHand + 1 /\ UNCHANGED <<queued, handled>>  \* a stop, or the outbox fails

\* The committed text has the digest the manifest declares.
Verified(m) == have[m].doc = have[m].manifest
Mine(m) == Accept(Owner(m), have[m].manifest)
Superseded(m) == local[m][Super(Owner(m), have[m].manifest)] # Absent
Accepts(m) ==
    /\ Verified(m) /\ By(local[m][Mine(m)]) \in {Absent, Owner(m)}
    /\ LET c == IF local[m][Mine(m)] = Absent THEN m ELSE local[m][Mine(m)]
       IN  Set(Mine(m), m, c) /\ MayQueue(m, <<Mine(m), c>>)
    /\ consent' = consent \cup {<<Owner(m), have[m].manifest>>}
    /\ UNCHANGED <<upstream, have, head>>
\* A launch by a person shows a text that is not accepted yet and asks.
AcceptsAtLaunch(m) == local[m][Mine(m)] = Absent /\ Accepts(m)
Supersedes(m, s) ==
    LET v == have[m].manifest
        p == Super(s, v)
        c == IF local[m][p] = Absent THEN m ELSE local[m][p]
    IN  /\ Owner(m) \in Admins /\ By(local[m][Accept(s, v)]) = s /\ By(local[m][p]) \in {Absent, Owner(m)}
        /\ Set(p, m, c) /\ MayQueue(m, <<p, c>>)
        /\ UNCHANGED <<upstream, have, head, consent>>

\* A launch asks only for the file.
MayLaunch(m) == Verified(m) /\ By(local[m][Mine(m)]) = Owner(m) /\ ~Superseded(m)

\* record flush queues what is in the files and not at HEAD.
Publishable(m, p) ==
    /\ p[3] = have[m].manifest /\ local[m][p] # Absent
    /\ p[1] = "accept" => By(local[m][p]) = p[2]
Unpublished(m) ==
    {<<p, local[m][p]>> : p \in {q \in Entries : Publishable(m, q) /\ local[m][q] # head[m][q]}}
Requeues(m) ==
    /\ Queue(m, Unpublished(m)) /\ queued' # queued
    /\ UNCHANGED <<upstream, have, head, local, consent, byHand>>

\* An acceptance is published by its subject, a supersession by the
\* administrator who wrote it.
MayPublish(m, p, c) ==
    /\ local[m][p] = c /\ Publishable(m, p) /\ By(c) = Owner(m)
    /\ p[1] = "super" => Owner(m) \in Admins
Unused == {k \in PRs : pr[k].verdict = "none"}
Opened(k, author, tree, refs) ==
    pr' = [pr EXCEPT ![k] = [author |-> author, base |-> ledger, from |-> tip, head |-> tree,
        edges |-> {<<ledger, tree>>}, refs |-> refs, event |-> tip, verdict |-> "open", version |-> 0]]
First(S) == CHOOSE k \in S : \A j \in S : k <= j
Publishes(m, p, c) ==
    /\ <<p, c>> \in queued[m] /\ MayPublish(m, p, c)
    /\ queued' = [queued EXCEPT ![m] = @ \ {<<p, c>>}] /\ handled' = [handled EXCEPT ![m] = @ \cup {<<p, c>>}]
    /\ \/ ledger[p] = c /\ UNCHANGED pr
       \/ ledger[p] # c /\ Unused # {} /\ Opened(First(Unused), Owner(m), [ledger EXCEPT ![p] = c], {})
    /\ UNCHANGED <<trusted, ledger, tip, cited, have, head, local, consent, byHand>>

Refreshes(m, part) ==
    /\ have[m][part] # trusted[part] /\ have' = [have EXCEPT ![m][part] = trusted[part]]
    /\ UNCHANGED <<upstream, head, local, queued, handled, consent, byHand>>
\* Only a clean checkout is moved.
Pulls(m) ==
    /\ local[m] = head[m] /\ head[m] # ledger
    /\ local' = [local EXCEPT ![m] = ledger] /\ head' = [head EXCEPT ![m] = ledger]
    /\ UNCHANGED <<upstream, have, queued, handled, consent, byHand>>

(***************************************************************************)
(* The check of a pull request.                                            *)
(***************************************************************************)
\* Every parent edge base..head introduces, and the one from base to head.
\* Mutant: only the latter.
NetEdge(k) == {<<pr[k].base, pr[k].head>>}
Edges(k) == pr[k].edges \cup {<<pr[k].base, pr[k].head>>}
AppendOnly(e) == \A p \in Entries : e[1][p] # Absent => e[2][p] = e[1][p]
\* As GitHub says now, by an identity that no renaming changes.
Administers(author) == author \in Admins
\* An added file is its author's, for the version the trusted manifest declares.
AdditionsFit(e, author, v) ==
    \A p \in Entries : e[1][p] = Absent /\ e[2][p] # Absent =>
        /\ p[3] = v /\ By(e[2][p]) = author
        /\ IF p[1] = "accept" THEN p[2] = author ELSE Administers(author)
Accepted(tree, s, v) == By(tree[Accept(s, v)]) = s /\ tree[Super(s, v)] = Absent
Changed(k) == {p \in Paths : pr[k].base[p] # pr[k].head[p]}
\* A pull request to nothing but the ledger may bring the acceptance itself.
AuthorAccepted(k, v) ==
    \/ Accepted(pr[k].base, pr[k].author, v)
    \/ Changed(k) # {} /\ Changed(k) \subseteq Entries /\ Accepted(pr[k].head, pr[k].author, v)
RecordLinked(k) ==
    Other \in Changed(k) => \E r \in Records : pr[k].refs = {r} /\ <<r, k>> \in cited
Passes(k) ==
    LET v == trusted.manifest IN
    /\ pr[k].from = pr[k].event  \* the head descends from the base
    /\ \A e \in Edges(k) : AppendOnly(e) /\ AdditionsFit(e, pr[k].author, v)
    /\ AuthorAccepted(k, v) /\ RecordLinked(k)
Check(k) ==
    /\ pr[k].verdict = "open"
    /\ pr' = [pr EXCEPT ![k].verdict = IF Passes(k) THEN "passed" ELSE "failed",
                        ![k].version = IF Passes(k) THEN trusted.manifest ELSE @]
    /\ UNCHANGED <<trusted, ledger, tip, cited, machine, consent, byHand>>

(***************************************************************************)
(* The repositories, as the audit wants them: no change but by a pull      *)
(* request whose head has passed.                                          *)
(***************************************************************************)
Conflicts(base, ours, theirs) ==
    {p \in Paths : ours[p] # base[p] /\ theirs[p] # base[p] /\ ours[p] # theirs[p]}
Merged(base, ours, theirs) == [p \in Paths |-> IF ours[p] = base[p] THEN theirs[p] ELSE ours[p]]
Merge(k) ==
    /\ pr[k].verdict = "passed" /\ Conflicts(pr[k].base, pr[k].head, ledger) = {}
    /\ ledger' = Merged(pr[k].base, pr[k].head, ledger) /\ tip' = tip + 1
    /\ pr' = [pr EXCEPT ![k].verdict = "merged"]
    /\ UNCHANGED <<trusted, cited, machine, consent, byHand>>
\* A record of the change is merged; the check is run again.
Cite(r, k) ==
    /\ pr[k].verdict \in {"open", "passed", "failed"} /\ r \in pr[k].refs /\ <<r, k>> \notin cited
    /\ cited' = cited \cup {<<r, k>>}
    /\ pr' = [pr EXCEPT ![k].verdict = "open"]
    /\ UNCHANGED <<trusted, ledger, tip, machine, consent, byHand>>
WritePolicy ==
    /\ trusted.doc = trusted.manifest /\ trusted.doc < MaxVersion /\ trusted' = [trusted EXCEPT !.doc = @ + 1]
    /\ UNCHANGED <<ledger, tip, cited, pr, machine, consent, byHand>>
\* The manifest declares what is merged, not what a checkout has.  Its own
\* pull requests are for administrators.
CommittedText == trusted.doc
DeclarePolicy ==
    /\ trusted.manifest # CommittedText /\ \E s \in Admins : Accepted(ledger, s, trusted.manifest)
    /\ trusted' = [trusted EXCEPT !.manifest = CommittedText]
    /\ UNCHANGED <<ledger, tip, cited, pr, machine, consent, byHand>>

Hand == byHand < MaxByHand /\ byHand' = byHand + 1 /\ UNCHANGED <<trusted, ledger, tip, cited, have, queued, handled>>
\* A commit made by hand puts, changes or removes one file; an acceptance in
\* its author's name, for itself, is one.
Writes(author, p, c) ==
    consent' = IF p[1] = "accept" /\ p[2] = author /\ By(c) = author THEN consent \cup {<<author, p[3]>>} ELSE consent
OpenByHand(x) ==
    /\ Hand /\ Unused # {} /\ ledger[x.path] # x.file /\ Writes(x.by, x.path, x.file)
    /\ Opened(First(Unused), x.by, [ledger EXCEPT ![x.path] = x.file], x.refs) /\ UNCHANGED <<head, local>>
PushByHand(k, x) ==
    /\ Hand /\ pr[k].verdict \in {"open", "passed", "failed"} /\ pr[k].author = x.by
    /\ pr[k].head[x.path] # x.file /\ Writes(x.by, x.path, x.file)
    /\ LET tree == [pr[k].head EXCEPT ![x.path] = x.file]
       IN  pr' = [pr EXCEPT ![k].head = tree, ![k].edges = @ \cup {<<pr[k].head, tree>>}, ![k].refs = @ \cup x.refs,
                            ![k].event = tip, ![k].verdict = "open"]
    /\ UNCHANGED <<head, local>>
UpdateByHand(k) ==
    /\ Hand /\ pr[k].verdict \in {"open", "passed", "failed"} /\ pr[k].from # tip
    /\ Conflicts(pr[k].base, pr[k].head, ledger) = {}
    /\ LET tree == Merged(pr[k].base, pr[k].head, ledger)
       IN  pr' = [pr EXCEPT ![k].head = tree, ![k].edges = @ \cup {<<pr[k].head, tree>>, <<ledger, tree>>},
                            ![k].base = ledger, ![k].from = tip, ![k].event = tip, ![k].verdict = "open"]
    /\ UNCHANGED <<head, local, consent>>
\* Files the upstream has as well make way for a pull.
TidyByHand(m) ==
    /\ Hand /\ local[m] # head[m] /\ head[m] # ledger /\ head' = [head EXCEPT ![m] = ledger]
    /\ local' = [local EXCEPT ![m] = [p \in Paths |-> IF ledger[p] = Absent THEN @[p] ELSE ledger[p]]]
    /\ UNCHANGED <<pr, consent>>

Next ==
    \/ \E m \in Machines :
          \/ Accepts(m) \/ AcceptsAtLaunch(m) \/ Requeues(m) \/ Pulls(m) \/ TidyByHand(m)
          \/ \E s \in Members : Supersedes(m, s)
          \/ \E part \in {"manifest", "doc"} : Refreshes(m, part)
          \/ \E p \in Entries, c \in Files : Publishes(m, p, c)
    \/ \E k \in PRs :
          \/ Check(k) \/ Merge(k) \/ UpdateByHand(k) \/ \E r \in Records : Cite(r, k)
          \/ \E x \in Commits : PushByHand(k, x)
    \/ \E x \in Commits : OpenByHand(x)
    \/ WritePolicy \/ DeclarePolicy

Spec == Init /\ [][Next]_vars
-----------------------------------------------------------------------------
TypeOK ==
    /\ trusted \in [manifest : Versions, doc : Versions] /\ ledger \in Trees /\ tip \in Nat
    /\ cited \subseteq Records \X PRs
    /\ \A k \in PRs :
          /\ pr[k].verdict \in {"none", "open", "passed", "failed", "merged"}
          /\ pr[k].base \in Trees /\ pr[k].head \in Trees /\ pr[k].refs \subseteq Records
    /\ \A m \in Machines :
          /\ have[m] \in [manifest : Versions, doc : Versions] /\ head[m] \in Trees /\ local[m] \in Trees
          /\ queued[m] \subseteq Items \ handled[m] /\ handled[m] \subseteq Items
    /\ consent \subseteq Members \X Versions

\* What is in the ledger stays as it is, in the merged tree and in every
\* commit a merge brings; each acceptance is one its subject gave, each
\* supersession an administrator's; anything else changes only by a member
\* with an acceptance in the trusted ledger and with one record that cites
\* the change; and no launch is made under a version its member has not
\* accepted.
KeepsConsent ==
    /\ AppendOnly(<<ledger, ledger'>>)
    /\ \A p \in Entries : ledger'[p] # ledger[p] =>
          IF p[1] = "accept" THEN By(ledger'[p]) = p[2] /\ <<p[2], p[3]>> \in consent'
          ELSE By(ledger'[p]) \in Admins
    /\ \A k \in PRs : pr'[k].verdict = "merged" /\ pr[k].verdict # "merged" =>
          /\ \A e \in pr[k].edges : AppendOnly(e)
          /\ ledger'[Other] # ledger[Other] =>
                /\ By(ledger[Accept(pr[k].author, pr[k].version)]) = pr[k].author
                /\ \E r \in Records : pr[k].refs = {r} /\ <<r, k>> \in cited
    /\ \A m \in Machines : MayLaunch(m)' => <<Owner(m), have[m].manifest>>' \in consent'
LedgerIsConsent == [][KeepsConsent]_vars
=============================================================================
