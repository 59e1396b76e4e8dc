---------------------------- MODULE ManifestAdmin ----------------------------
(***************************************************************************)
(* `my admin` in a maintainer's manifest checkout (cli/admin*.go,          *)
(* cli/contract.go, internal/manifest): manifest.json with its             *)
(* declarations and the contract, guidance/contract.md, the catalogs and   *)
(* the source of a skill.  A command reads everything, checks the outcome  *)
(* and then writes file after file; it may be stopped between two writes,  *)
(* and within one that is not atomic.  An older release reads only the     *)
(* keys it knows and writes the file back without the others.              *)
(*                                                                         *)
(* One thing of every kind may be declared; one command runs at a time.    *)
(* Changes proposed as pull requests leave the checkout alone and are in   *)
(* RecordPublication.                                                      *)
(***************************************************************************)
EXTENDS Naturals, Sequences, FiniteSets

CONSTANTS
    Rules,         \* texts of contract rules
    Selections,    \* sets of things a declaration may refer to
    MaxCommands,   \* bound: commands
    MaxByHand,     \* bound: edits, commits and restores by hand
    MaxStops       \* bound: crashes and failed writes

\* What refers to what: a role-only mount needs a role to select it, a skill
\* installed by a tool its installer, one of another organization its space.
MayRefer == [skill |-> {"mount", "tool", "installer", "service", "space"},
             role |-> {"mount", "skill", "tool", "service"},
             binding |-> {"mount", "service"},
             policy |-> {"mount", "role"}]
Referrers == DOMAIN MayRefer
Things == Referrers \cup {"mount", "tool", "installer", "service", "space"}
NoFile == {"no file"}

VARIABLES
    files,    \* the checkout: doc, product, repo, guide, source; torn: those half written
    base,     \* what is committed
    rev,      \* the commit
    todo,     \* the writes a command still has to make
    undo,     \* guidance/contract.md as it was, for a command that restores it
    asked,    \* what that command does to the contract
    used, byHand, stops

vars == <<files, base, rev, todo, undo, asked, used, byHand, stops>>

(***************************************************************************)
(* The manifest: validation.                                               *)
(***************************************************************************)
Refs(d, x) == IF x \in d.decl THEN d.refs[x] ELSE {}
SkillsFit(d) == Refs(d, "skill") \subseteq d.decl
ToolsFit(d) == "installer" \in d.decl => "tool" \in d.decl
BindingsFit(d) ==
    "binding" \in d.decl => d.refs["binding"] # {} /\ d.refs["binding"] \subseteq d.decl
RolesFit(d) == Refs(d, "role") \subseteq d.decl
RoleOnlyFit(d) == "mount" \in d.decl /\ d.roleOnly => "mount" \in Refs(d, "role")
PoliciesFit(d) ==
    "policy" \in d.decl => "mount" \in d.refs["policy"] /\ d.refs["policy"] \subseteq d.decl
Validates(d) ==
    SkillsFit(d) /\ ToolsFit(d) /\ BindingsFit(d) /\ RolesFit(d) /\ RoleOnlyFit(d) /\ PoliciesFit(d)
CatalogFits(f, d) ==
    /\ f.torn \cap {"product", "repo"} = {}
    /\ "skill" \in f.product => "skill" \in d.decl
    /\ "repo" \in f.product => f.repo # {}
ContractReads(f, d) == d.source = "file" => "guide" \notin f.torn /\ f.guide # NoFile
ValidateDocument(f, d) == Validates(d) /\ CatalogFits(f, d) /\ ContractReads(f, d)
Readable(f) == f.torn \subseteq {"guide"}

\* What a release of my reads of it, and what it refuses to touch.
Seen(d, old) ==
    IF old THEN [d EXCEPT !.source = "inline", !.rules = IF d.source = "file" THEN {} ELSE @] ELSE d
Serves(d, old) == ~(old /\ d.min)
RaiseMinMyVersion(d) == [d EXCEPT !.min = @ \/ d.source = "file"]

\* The contract members read; the inline copy, when the file differs.
RulesIn(f) == IF f.doc.source = "file" THEN f.guide ELSE f.doc.rules
Drifted(f) == f.doc.source = "both" /\ (f.guide # f.doc.rules \/ "guide" \in f.torn)

(***************************************************************************)
(* Commands.                                                               *)
(***************************************************************************)
EmptyDoc == [decl |-> {}, refs |-> [x \in Referrers |-> {}], roleOnly |-> FALSE,
             rules |-> {}, source |-> "inline", min |-> FALSE]
FullDoc(source, rules) ==
    [EmptyDoc EXCEPT !.decl = Things, !.source = source, !.min = source = "file",
                     !.rules = IF source = "file" THEN {} ELSE rules,
                     !.refs = [skill |-> {"tool", "space"}, role |-> {"mount", "service"},
                               binding |-> {IF source = "inline" THEN "mount" ELSE "service"},
                               policy |-> {"mount"}]]
NotAsked == [kind |-> "nothing", add |-> {}, drop |-> {}]

Init ==
    /\ \E source \in {"inline", "both", "file"}, R \in {{CHOOSE r \in Rules : TRUE}} :
          files = [doc |-> FullDoc(source, R), product |-> {"skill"}, repo |-> {},
                   guide |-> IF source = "inline" THEN NoFile ELSE R, source |-> {"skill"}, torn |-> {}]
    /\ base = files /\ rev = 0 /\ todo = <<>> /\ undo = NoFile /\ asked = NotAsked
    /\ used = 0 /\ byHand = 0 /\ stops = 0

\* loadAuthorizedAdminManifestCheckout and ensureAdminManifestClean.
Begin(force) ==
    /\ todo = <<>> /\ "doc" \notin files.torn
    /\ used < MaxCommands /\ used' = used + 1
    /\ force \/ files = base
    /\ UNCHANGED <<files, base, rev, byHand, stops>>
Write(file, value) == [file |-> file, value |-> value]
\* SaveDocument: EncodeDocument and os.WriteFile.
Save(d) == <<Write("doc", RaiseMinMyVersion(d))>>
Plan(writes) == todo' = writes /\ undo' = NoFile /\ asked' = NotAsked
Edit(old, d) ==
    /\ Serves(files.doc, old) /\ ValidateDocument(files, d)
    /\ Plan(Save(d))

With(d, x) == [d EXCEPT !.decl = @ \cup {x}]
Without(d, x) == [d EXCEPT !.decl = @ \ {x}]
\* The roles drop x, when the command is told to, or must not select it.
Selected(d, x, prune) == ~prune /\ x \in Refs(d, "role")
Pruned(d, x, prune) == IF prune THEN [d EXCEPT !.refs["role"] = @ \ {x}] ELSE d

\* mounts add: with a role when it is for roles only; and mounts remove.
AddMount(force, old) ==
    /\ Begin(force)
    /\ LET d == Seen(files.doc, old)
       IN  \E only, select \in BOOLEAN :
             /\ select => "role" \in d.decl
             /\ Edit(old, [With(d, "mount") EXCEPT !.roleOnly = only,
                           !.refs["role"] = IF select THEN @ \cup {"mount"} ELSE @])
RemoveMount(force, old, prune) ==
    /\ Begin(force)
    /\ LET d == Seen(files.doc, old)
       IN  /\ "mount" \in d.decl /\ ~Selected(d, "mount", prune)
           /\ Edit(old, Pruned(Without(d, "mount"), "mount", prune))

\* tools add, edit; and remove, which asks the skills first.
PutTool(force, old) ==
    /\ Begin(force)
    /\ \E installs \in SUBSET {"installer"} :
          Edit(old, [With(Seen(files.doc, old), "tool") EXCEPT !.decl = (@ \ {"installer"}) \cup installs])
RemoveTool(force, old) ==
    /\ Begin(force)
    /\ LET d == Seen(files.doc, old)
       IN  /\ "tool" \in d.decl /\ Refs(d, "skill") \cap {"tool", "installer"} = {}
           /\ Edit(old, Without(Without(d, "tool"), "installer"))

\* services add, edit; and remove.
PutService(force, old) ==
    Begin(force) /\ Edit(old, With(Seen(files.doc, old), "service"))
RemoveService(force, old, prune) ==
    /\ Begin(force)
    /\ LET d == Seen(files.doc, old)
       IN  /\ "service" \in d.decl /\ ~Selected(d, "service", prune)
           /\ Edit(old, Pruned(Without(d, "service"), "service", prune))

\* roles add, edit; bindings set; policies add: with what they select.
PutReferrer(force, old, x) ==
    /\ Begin(force)
    /\ LET d == Seen(files.doc, old)
       IN  \E R \in Selections \cap SUBSET MayRefer[x] : Edit(old, [With(d, x) EXCEPT !.refs[x] = R])
PutRole(force, old) == PutReferrer(force, old, "role")
PutBinding(force, old) == PutReferrer(force, old, "binding")
AddPolicy(force, old) == "policy" \notin files.doc.decl /\ PutReferrer(force, old, "policy")
\* And their removal: nothing refers to them.
Drop(force, old, x) ==
    Begin(force) /\ x \in files.doc.decl /\ Edit(old, Without(Seen(files.doc, old), x))
RemoveRole(force, old) == Drop(force, old, "role")
RemoveBinding(force, old) == Drop(force, old, "binding")
RemovePolicy(force, old) == Drop(force, old, "policy")

\* skills add: the source is replaced before the manifest is written.
AddSkill(force, old, R) ==
    /\ Begin(force)
    /\ LET d == Seen(files.doc, old)
           next == [d EXCEPT !.decl = @ \cup {"skill"}, !.refs["skill"] = R]
       IN  /\ Serves(files.doc, old)
           /\ "skill" \in d.decl \/ files.source # {} => force
           /\ ValidateDocument(files, next)
           /\ Plan(<<Write("source", {}), Write("source", {"skill"})>> \o Save(next))

\* skills remove: the catalog first, so that no product refers to a skill
\* that is gone; this validates the manifest without the catalogs.
Removal(next, products, deletion) ==
    products \o Save(next) \o deletion
ManifestFirst(next, products, deletion) ==
    Save(next) \o products \o deletion
SkillRemoval(next, products, deletion) == Removal(next, products, deletion)
\* What only the skill referred to: the tool goes with its installer.
Orphans(d) ==
    (Refs(d, "skill") \cap {"tool", "installer", "space"})
        \cup IF Refs(d, "skill") \cap {"tool", "installer"} # {} THEN {"tool", "installer"} ELSE {}
RemoveSkill(force, old, deleteSource, related, orphans) ==
    /\ Begin(force) /\ "product" \notin files.torn
    /\ LET d == Seen(files.doc, old)
           gone == {"skill"} \cup IF orphans THEN Orphans(d) ELSE {}
           without == [d EXCEPT !.decl = @ \ gone]
       IN  /\ "skill" \in d.decl /\ ("skill" \in files.product => related)
           /\ Serves(files.doc, old) /\ Validates(without)
           /\ Plan(SkillRemoval(without,
                   IF "skill" \in files.product THEN <<Write("product", files.product \ {"skill"})>> ELSE <<>>,
                   IF deleteSource THEN <<Write("source", {})>> ELSE <<>>))

\* repos add touches only its catalog, and asks no more of the manifest.
AddRepo(force) ==
    /\ Begin(force) /\ "repo" \notin files.torn
    /\ files.repo # {} => force
    /\ Plan(<<Write("repo", {"repo"})>>)

\* min-version patches its own key only.
PatchMin(d, set) == IF set THEN [d EXCEPT !.min = TRUE] ELSE RaiseMinMyVersion(d)
MinVersion(force, old, set) ==
    /\ Begin(force)
    /\ LET d == PatchMin(files.doc, set)
       IN  /\ d # files.doc /\ ~old
           /\ ValidateDocument(files, d)
           /\ Plan(<<Write("doc", d)>>)

(***************************************************************************)
(* The contract.  Its edits are planned on what was read, which they check *)
(* again before they write; they write through temporary files, the        *)
(* manifest last.                                                          *)
(***************************************************************************)
Check == <<Write("check", [doc |-> files.doc, guide |-> files.guide, rev |-> rev])>>
PlanContract(writes, change) == todo' = writes /\ undo' = files.guide /\ asked' = change
FileFirst(rules, d) == <<Write("guide", rules)>> \o (IF d # files.doc THEN <<Write("contract", d)>> ELSE <<>>)
CopyFirst(rules, d) == (IF d # files.doc THEN <<Write("contract", d)>> ELSE <<>>) \o <<Write("guide", rules)>>
ContractWrites(rules, d) == FileFirst(rules, d)

\* contract add, remove and replace: a rule that is there, or one that is not.
MayEdit(rules, drop, add) == drop \subseteq rules /\ add \cap rules = {} /\ drop \cup add # {}
EditContract(force, drop, add) ==
    /\ Begin(force)
    /\ LET d == files.doc
           next == (RulesIn(files) \ drop) \cup add
           change == [kind |-> "edit", drop |-> drop, add |-> add]
       IN  /\ ContractReads(files, d) /\ ~Drifted(files)
           /\ MayEdit(RulesIn(files), drop, add)
           /\ IF d.source = "inline"
              THEN /\ ValidateDocument(files, [d EXCEPT !.rules = next])
                   /\ PlanContract(Check \o <<Write("contract", [d EXCEPT !.rules = next])>>, change)
              ELSE LET raised == RaiseMinMyVersion([d EXCEPT !.rules = IF d.source = "both" THEN next ELSE @])
                   IN  /\ Validates(raised)
                       /\ PlanContract(Check \o ContractWrites(next, raised), change)
\* The same with an older release: the inline list, and SaveDocument.
EditContractOld(force, drop, add) ==
    /\ Begin(force)
    /\ LET d == Seen(files.doc, TRUE)
           next == [d EXCEPT !.rules = (@ \ drop) \cup add]
       IN  /\ MayEdit(d.rules, drop, add)
           /\ Serves(files.doc, TRUE) /\ ValidateDocument(files, next)
           /\ todo' = Save(next) /\ undo' = NoFile
           /\ asked' = [kind |-> "edit", drop |-> drop, add |-> add]

Migrate(force, fromInline) ==
    /\ Begin(force)
    /\ LET d == files.doc
           rules == IF d.source # "inline" /\ ~fromInline THEN files.guide ELSE d.rules
           next == RaiseMinMyVersion([d EXCEPT !.source = "both", !.rules = rules])
       IN  /\ d.source = "inline" /\ files.guide # NoFile => fromInline
           /\ d.source = "file" => ~fromInline
           /\ rules # NoFile /\ (rules = files.guide /\ d.source # "inline" /\ ~fromInline => "guide" \notin files.torn)
           /\ Validates(next)
           /\ PlanContract(Check \o ContractWrites(rules, next),
                           [kind |-> "migrate", drop |-> {}, add |-> {}])

(***************************************************************************)
(* Writing; and what is left when a write fails or the command is stopped. *)
(***************************************************************************)
Name(w) == IF w.file = "contract" THEN "doc" ELSE w.file
Put(f, w) == [f EXCEPT ![Name(w)] = w.value, !.torn = @ \ {Name(w)}]
Done == todo' = <<>> /\ undo' = NoFile /\ asked' = NotAsked
WriteNext ==
    /\ todo # <<>>
    /\ LET w == Head(todo)
       IN  IF w.file = "check"
           THEN /\ UNCHANGED files
                /\ IF w.value = [doc |-> files.doc, guide |-> files.guide, rev |-> rev]
                   THEN todo' = Tail(todo) /\ UNCHANGED <<undo, asked>> ELSE Done
           ELSE /\ files' = Put(files, w)
                /\ IF Len(todo) = 1 THEN Done ELSE todo' = Tail(todo) /\ UNCHANGED <<undo, asked>>
    /\ UNCHANGED <<base, rev, used, byHand, stops>>

Stop ==
    /\ todo # <<>> /\ Head(todo).file # "check"
    /\ stops < MaxStops /\ stops' = stops + 1
    /\ LET w == Head(todo)
       IN  \/ UNCHANGED files
           \/ w.file \notin {"contract", "source"} /\ (w.file = "guide" => undo = NoFile)
              /\ files' = [files EXCEPT !.torn = @ \cup {w.file}]
           \* A contract edit that fails puts the other file back.
           \/ w.file = "contract" /\ files' = [files EXCEPT !.guide = undo]
    /\ Done /\ UNCHANGED <<base, rev, used, byHand>>

(***************************************************************************)
(* By hand, with no command at work but for a contract edit yet to check.  *)
(***************************************************************************)
ByHand ==
    /\ byHand < MaxByHand /\ byHand' = byHand + 1
    /\ todo # <<>> => Head(todo).file = "check"
    /\ UNCHANGED <<todo, undo, asked, used, stops>>
Commit == ByHand /\ files' = files /\ base' = files /\ rev' = rev + 1
Restore == ByHand /\ files # base /\ files' = base /\ UNCHANGED <<base, rev>>
\* An edit that `my manifest validate` accepts.
EditByHand ==
    /\ ByHand /\ UNCHANGED <<base, rev>> /\ Readable(files)
    /\ \/ \E R \in Rules : files.doc.source # "file" /\ files' = [files EXCEPT !.doc.rules = {R}]
       \/ \E R \in Rules : files.guide # NoFile /\ files' = [files EXCEPT !.guide = {R}]
       \/ \E R \in SUBSET {"skill", "repo"} :
             /\ CatalogFits([files EXCEPT !.product = R], files.doc)
             /\ files' = [files EXCEPT !.product = R]

Next ==
    \/ \E force, old \in BOOLEAN :
          \/ AddMount(force, old) \/ PutTool(force, old) \/ PutService(force, old)
          \/ PutRole(force, old) \/ PutBinding(force, old) \/ AddPolicy(force, old)
          \/ RemoveTool(force, old) \/ RemoveRole(force, old)
          \/ RemoveBinding(force, old) \/ RemovePolicy(force, old)
          \/ \E prune \in BOOLEAN : RemoveMount(force, old, prune) \/ RemoveService(force, old, prune)
          \/ \E R \in Selections \cap SUBSET (MayRefer["skill"] \ {"installer"}) : AddSkill(force, old, R)
          \/ \E deleteSource, related, orphans \in BOOLEAN :
                RemoveSkill(force, old, deleteSource, related, orphans)
          \/ \E set \in BOOLEAN : MinVersion(force, old, set)
    \/ \E force \in BOOLEAN : AddRepo(force)
    \/ \E force \in BOOLEAN, drop, add \in {{}} \cup {{r} : r \in Rules} :
          EditContract(force, drop, add) \/ EditContractOld(force, drop, add)
    \/ \E force, fromInline \in BOOLEAN : Migrate(force, fromInline)
    \/ WriteNext \/ Stop
    \/ Commit \/ Restore \/ EditByHand

Spec == Init /\ [][Next]_vars
-----------------------------------------------------------------------------
Docs == [decl : SUBSET Things, refs : [Referrers -> SUBSET Things], roleOnly : BOOLEAN,
         rules : SUBSET Rules, source : {"inline", "both", "file"}, min : BOOLEAN]
TypeOK ==
    /\ files.doc \in Docs /\ files.torn \subseteq {"doc", "product", "repo", "guide"}
    /\ files.product \subseteq {"skill", "repo"}
    /\ files.repo \subseteq {"repo"} /\ files.source \subseteq {"skill"}
    /\ files.guide = NoFile \/ files.guide \subseteq Rules
    /\ asked.kind \in {"nothing", "edit", "migrate"} /\ rev \in Nat

\* Whenever the files can be read at all, nothing in them refers to what is
\* not declared, wherever a command was stopped: `my` accepts the checkout.
Consistent == Readable(files) => Validates(files.doc) /\ CatalogFits(files, files.doc)

\* The contract that members read changes in one step: by hand, or with the
\* last write of a contract edit, and then by just what that edit asks for;
\* no other command, stopped edit or older release changes it.
ChangesAsAsked ==
    byHand' = byHand /\ "doc" \notin files.torn \cup files'.torn /\ RulesIn(files') # RulesIn(files) =>
       /\ Len(todo) = 1
       /\ \/ asked.kind = "edit" /\ RulesIn(files') = (RulesIn(files) \ asked.drop) \cup asked.add
          \/ asked.kind = "migrate" /\ RulesIn(files') = files.guide
RulesAsAsked == [][ChangesAsAsked]_vars
=============================================================================
