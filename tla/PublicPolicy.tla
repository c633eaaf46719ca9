--------------------------- MODULE PublicPolicy ---------------------------
(***************************************************************************)
(* What may be published: scripts/public-source-policy.mjs inspects a      *)
(* commit before it is published ("build") or while it is worked on        *)
(* ("check").  An inspection reads the repository step by step, while HEAD *)
(* moves and files of the checkout change; what it says is about the       *)
(* commit it started with.  A path is a number, in the order Git lists     *)
(* them; PathFacts says what the path rules see in it, and a content is    *)
(* what the scans see in the bytes.                                        *)
(***************************************************************************)
EXTENDS Naturals, FiniteSets, FiniteSetsExt, Sequences

CONSTANTS
  PathFacts,         \* path -> [portable, branded, class, prohibited, key, place, fixture, archive, required]
  SourceTrees,       \* commit -> path -> [mode, content]
  Edits,             \* what a path of the checkout may become: <<path, content>>
  MaxSourceMoves,    \* bound: how often HEAD or the checkout changes
  MaxPublicBytes, MaxPublicFiles, MaxPublicTotal,   \* budgets, and those of an archive:
  MaxZipEntries, MaxZipEntryBytes, MaxZipBytes,
  Gone, Link,        \* in the checkout, where a file is missing or behind a link
  Broken             \* the entries of an archive that is none

VARIABLES
  head, checkout, sourceMoves,   \* the repository and its working tree
  inspect                        \* the inspection under way
policyVars == <<head, checkout, sourceMoves, inspect>>

AllPaths == DOMAIN PathFacts
RequiredPublic == {p \in AllPaths : PathFacts[p].required}
IsPublicPath(p) == PathFacts[p].class = "public"
IsExplicitlyExcluded(p) == PathFacts[p].class = "excluded"
IsProhibitedPath(p) == PathFacts[p].prohibited
IsPortable(p) == PathFacts[p].portable

----------------------------------------------------------------------------
(* The trust graph of the static example: files of the example by place.    *)
(* A document names its type and version, and the version and digest of the *)
(* next; targets and catalog rows are <<digest, identity>>.                 *)
IsStatic(p) == PathFacts[p].place # <<>>
PathsAt(files, place) == {p \in DOMAIN files : PathFacts[p].place = place}
StaticDoc(files, place, type) ==
  {files[p].doc : p \in {q \in PathsAt(files, place) : files[q].doc.type = type}}
NextDoc(files, doc, type) ==
  {next \in StaticDoc(files, <<type, doc.next>>, type) :
     next.version = doc.next /\ \E p \in PathsAt(files, <<type, doc.next>>) : files[p].digest = doc.digest}
TargetsOf(files) ==
  UNION {UNION {NextDoc(files, snapshot, "targets") : snapshot \in NextDoc(files, timestamp, "snapshot")}
         : timestamp \in StaticDoc(files, <<"timestamp">>, "timestamp")}
ArchiveAt(target) == <<"archive", target.digest, target.name>>
TargetHolds(files, rows, target) ==
  /\ target.proved
  /\ \E p \in PathsAt(files, ArchiveAt(target)) : files[p].digest = target.digest
  /\ Cardinality({i \in DOMAIN rows : rows[i] = target.identity}) = 1
GraphHolds(files) ==
  \E targets \in TargetsOf(files), catalog \in StaticDoc(files, <<"catalog">>, "catalog") :
    /\ Len(catalog.rows) = Cardinality(targets.targets)
    /\ \A target \in targets.targets : TargetHolds(files, catalog.rows, target)
    /\ \A i \in DOMAIN catalog.rows :
         Cardinality({target \in targets.targets : target.identity = catalog.rows[i]}) = 1

(* What is derived: the archives that are allowed, and what is wrong.       *)
DerivedFixtures(files) ==
  IF ~GraphHolds(files) THEN {}
  ELSE UNION {PathsAt(files, ArchiveAt(target)) :
              target \in UNION {targets.targets : targets \in TargetsOf(files)}}
DerivedViolations(files) ==
  IF {p \in DOMAIN files : IsStatic(p)} = {} THEN {}
  ELSE IF ~GraphHolds(files) THEN {<<0, "static-example-trust-graph-invalid">>}
  ELSE {<<p, "generated-archive-not-allowlisted">> :
        p \in {q \in DOMAIN files : IsStatic(q) /\ PathFacts[q].place[1] = "archive"}
              \ DerivedFixtures(files)}

----------------------------------------------------------------------------
(* The scans.  An archive is broken or a list of entries.                   *)
ScanText(x) ==
  {code \in {"secret-pattern", "legacy-brand-content"} : IF code = "secret-pattern" THEN x.secret ELSE x.brand}
ScanNonContainer(x) ==
  ScanText(x) \union IF x.text \/ x.image THEN {} ELSE {"unsupported-binary-content"}
ScanEntry(entry) ==
  CASE entry.kind = "link" -> {"fixture-link-entry"}
    [] entry.kind = "unreadable" -> {"fixture-entry-read-failed"}
    [] entry.kind = "file" ->
         IF entry.data.bytes # entry.size THEN {"fixture-size-mismatch"}
         ELSE IF entry.nested THEN {"fixture-nested-container"} ELSE ScanNonContainer(entry.data)
Declared(entries, i) == {j \in 1..i : entries[j].kind \in {"file", "unreadable"}}
Expanded(entries, i) == {j \in 1..i : entries[j].kind = "file"}
TooLarge(entries, i) ==
  \/ /\ i \in Declared(entries, i)
     /\ \/ entries[i].size > MaxZipEntryBytes
        \/ MapThenSumSet(LAMBDA j : entries[j].size, Declared(entries, i)) > MaxZipBytes
  \/ /\ i \in Expanded(entries, i)
     /\ \/ entries[i].data.bytes > MaxZipEntryBytes
        \/ MapThenSumSet(LAMBDA j : entries[j].data.bytes, Expanded(entries, i)) > MaxZipBytes
(* The scan of an archive ends at the first entry that is too large, after  *)
(* its name.                                                                *)
ScanArchive(p, entries, fixtures) ==
  IF p \notin fixtures THEN {"generated-archive-not-allowlisted"}
  ELSE IF entries = Broken THEN IF PathFacts[p].fixture = "may be broken" THEN {} ELSE {"fixture-archive-invalid"}
  ELSE IF Len(entries) > MaxZipEntries THEN {"fixture-entry-limit"}
  ELSE LET large == {i \in DOMAIN entries : TooLarge(entries, i)}
           files == {i \in DOMAIN entries : entries[i].kind # "directory"}
       IN UNION {ScanText(entries[i].name) : i \in {k \in files : \A j \in large : k <= j}}
          \union UNION {ScanEntry(entries[i]) : i \in {k \in files : \A j \in large : k < j}}
          \union IF large # {} THEN {"fixture-expanded-size-limit"} ELSE {}
ScanBytes(p, x, fixtures) ==
  IF PathFacts[p].archive THEN ScanText(x) \union ScanArchive(p, x.entries, fixtures)
  ELSE ScanNonContainer(x)

(* The rules about all the included files together.                         *)
Collisions(paths) ==
  {<<p, "non-portable-path-collision">> :
   p \in {q \in paths : \E earlier \in paths : earlier < q /\ PathFacts[earlier].key = PathFacts[q].key}}
OverBudget(files) ==
  (IF Cardinality(files) > MaxPublicFiles THEN {<<0, "public-file-count-limit">>} ELSE {})
  \union IF MapThenSumSet(LAMBDA e : e[2].bytes, files) > MaxPublicTotal
         THEN {<<0, "public-total-bytes-limit">>} ELSE {}

----------------------------------------------------------------------------
(* The repository.  The checkout holds a content at each path, or nothing,  *)
(* or a link; it is clean when it is what HEAD says.                        *)
Regular == {"100644", "100755"}
CommittedAt(commit, p) == IF p \in DOMAIN SourceTrees[commit] THEN SourceTrees[commit][p].content ELSE Gone
Dirty == \E p \in AllPaths : checkout[p] # CommittedAt(head, p)
KnownFixtures == {p \in AllPaths : PathFacts[p].fixture # "none"}

PolicyInit ==
  /\ head \in DOMAIN SourceTrees /\ sourceMoves = 0
  /\ checkout = [p \in AllPaths |-> CommittedAt(head, p)]
  /\ \E purpose \in {"build", "check"}, allowDirty, fixed \in BOOLEAN :
       inspect = [pc |-> "commit", purpose |-> purpose, allowDirty |-> allowDirty,
                  fixed |-> fixed, expected |-> head, commit |-> head, dirty |-> FALSE,
                  tracked |-> {}, untracked |-> {}, fixtures |-> {}, included |-> {},
                  excluded |-> {}, violations |-> {}, last |-> head, ok |-> FALSE]

Moves ==
  /\ sourceMoves < MaxSourceMoves /\ inspect.pc \notin {"done", "error"}
  /\ sourceMoves' = sourceMoves + 1 /\ UNCHANGED inspect
SwitchHead ==
  /\ Moves /\ ~Dirty /\ head' \in DOMAIN SourceTrees \ {head}
  /\ checkout' = [p \in AllPaths |-> CommittedAt(head', p)]
EditCheckout ==
  /\ Moves
  /\ \E edit \in Edits : checkout' = [checkout EXCEPT ![edit[1]] = edit[2]]
  /\ checkout' # checkout /\ UNCHANGED head

Building == inspect.purpose = "build"
Inspects == UNCHANGED <<head, checkout, sourceMoves>>

(* The metadata are the commit, then the status; a build is told which      *)
(* commit it is about.                                                      *)
ReadCommit ==
  /\ inspect.pc = "commit"
  /\ inspect' = [inspect EXCEPT !.pc = "status", !.commit = head]
  /\ Inspects
ReadStatus ==
  /\ inspect.pc = "status"
  /\ inspect' = [inspect EXCEPT !.dirty = Dirty,
       !.pc = IF (IF inspect.fixed THEN inspect.commit = inspect.expected ELSE ~Building) THEN "tree" ELSE "error"]
  /\ Inspects
(* A check also lists what is in the checkout and not in the index.         *)
ListTree ==
  /\ inspect.pc = "tree"
  /\ inspect' = [inspect EXCEPT !.pc = "fixtures", !.tracked = DOMAIN SourceTrees[inspect.commit],
       !.untracked = IF Building THEN {}
                     ELSE {p \in AllPaths \ DOMAIN SourceTrees[head] : checkout[p] # Gone}]
  /\ Inspects

(* The bytes of an entry: those of its Git object, or of the checkout.      *)
ModeOf(p) == IF p \in inspect.tracked THEN SourceTrees[inspect.commit][p].mode ELSE "100644"
EntryBytes(p) == IF p \in inspect.tracked THEN SourceTrees[inspect.commit][p].content ELSE checkout[p]
CollectStatic ==
  LET read == {p \in inspect.tracked \union inspect.untracked :
                 /\ IsStatic(p) /\ IsPortable(p) /\ IsPublicPath(p) /\ ~IsProhibitedPath(p)
                 /\ IF Building THEN ModeOf(p) \in Regular ELSE checkout[p] \notin {Gone, Link}}
  IN [p \in read |-> IF Building THEN EntryBytes(p) ELSE checkout[p]]
DeriveFixtures ==
  /\ inspect.pc = "fixtures"
  /\ LET files == CollectStatic IN
       inspect' = [inspect EXCEPT !.pc = "entries", !.violations = DerivedViolations(files),
                     !.fixtures = KnownFixtures \union DerivedFixtures(files)]
  /\ Inspects

(* Why an entry goes no further, in the order of the rules.  An entry is    *)
(* looked at in one step, the static files before it in another.            *)
Refusal(p) ==
  IF ~IsPortable(p) THEN "unsafe-path"
  ELSE IF Building /\ PathFacts[p].branded THEN "legacy-brand-path"
  ELSE IF ~IsPublicPath(p) THEN
    IF IsExplicitlyExcluded(p) THEN "non-public-path-present" ELSE "path-not-public-allowlisted"
  ELSE IF ModeOf(p) \notin Regular THEN "non-regular-file"
  ELSE IF IsProhibitedPath(p) THEN "prohibited-path"
  ELSE IF checkout[p] = Link THEN "non-regular-file"
  ELSE IF checkout[p] = Gone THEN "tracked-path-missing"
  ELSE IF EntryBytes(p).bytes > MaxPublicBytes \/ (~Building /\ checkout[p].bytes > MaxPublicBytes)
       THEN "file-too-large"
  ELSE "none"
(* What a build leaves out a check reports, except a deleted file.          *)
NotPublic == {"non-public-path-present", "path-not-public-allowlisted"}
QuietCodes == IF Building THEN NotPublic \union {"prohibited-path"} ELSE {"tracked-path-missing"}
Scanned(p) ==
  ScanBytes(p, EntryBytes(p), inspect.fixtures) \union
  IF Building THEN {} ELSE ScanBytes(p, checkout[p], inspect.fixtures)
Findings(p) ==
  (IF IsPortable(p) /\ PathFacts[p].branded THEN {"legacy-brand-path"} ELSE {}) \union
  (IF Refusal(p) = "none" THEN Scanned(p) ELSE {Refusal(p)} \ QuietCodes)
Includes(p) == Refusal(p) = "none" /\ (Building => Scanned(p) = {})
Excludes(p) == Refusal(p) \in NotPublic \/ (Refusal(p) \in QuietCodes /\ p \in inspect.tracked)

NextEntry == Min(IF inspect.tracked # {} THEN inspect.tracked ELSE inspect.untracked)
InspectEntry ==
  /\ inspect.pc = "entries" /\ inspect.tracked \union inspect.untracked # {}
  /\ LET p == NextEntry IN
       inspect' = [inspect EXCEPT !.tracked = @ \ {p}, !.untracked = IF inspect.tracked # {} THEN @ ELSE @ \ {p},
         !.included = @ \union (IF Includes(p) THEN {<<p, EntryBytes(p), ModeOf(p)>>} ELSE {}),
         !.excluded = @ \union (IF Excludes(p) THEN {p} ELSE {}),
         !.violations = @ \union {<<p, code>> : code \in Findings(p)}]
  /\ Inspects
PathsIn(files) == {e[1] : e \in files}
CloseInspection ==
  /\ inspect.pc = "entries" /\ inspect.tracked \union inspect.untracked = {}
  /\ inspect' = [inspect EXCEPT !.pc = "last status", !.last = head,
       !.violations = @ \union Collisions(PathsIn(inspect.included)) \union OverBudget(inspect.included)
                        \union {<<p, "required-public-file-missing">> : p \in RequiredPublic \ PathsIn(inspect.included)}]
  /\ Inspects
SourceAsBefore == inspect.last = inspect.commit /\ Dirty = inspect.dirty
FinishInspection ==
  /\ inspect.pc = "last status"
  /\ inspect' = [inspect EXCEPT !.pc = IF SourceAsBefore THEN "done" ELSE "error",
       !.ok = SourceAsBefore /\ inspect.violations = {} /\ (inspect.dirty => inspect.allowDirty)]
  /\ Inspects

PolicyNext ==
  \/ ReadCommit \/ ReadStatus \/ ListTree \/ DeriveFixtures \/ InspectEntry \/ CloseInspection \/ FinishInspection
  \/ SwitchHead \/ EditCheckout
PolicySafetySpec == PolicyInit /\ [][PolicyNext]_policyVars

----------------------------------------------------------------------------
(* What the validator of a snapshot directory says of a set of files.       *)
SnapshotAccepted(included) ==
  LET files == [p \in PathsIn(included) |-> (CHOOSE e \in included : e[1] = p)[2]]
      static == [p \in {q \in PathsIn(included) : IsStatic(q)} |-> files[p]]
      fixtures == KnownFixtures \union DerivedFixtures(static)
  IN /\ DerivedViolations(static) = {}
     /\ \A p \in DOMAIN files :
          /\ ~PathFacts[p].branded /\ IsPortable(p) /\ IsPublicPath(p) /\ ~IsProhibitedPath(p)
          /\ ScanBytes(p, files[p], fixtures) = {}
     /\ Collisions(DOMAIN files) = {} /\ OverBudget(included) = {}

(* What a commit publishes: its public files, prohibited ones left out.     *)
Publishes(commit) ==
  {<<p, SourceTrees[commit][p].content, SourceTrees[commit][p].mode>> :
   p \in {q \in DOMAIN SourceTrees[commit] : IsPublicPath(q) /\ ~IsProhibitedPath(q)}}

(* A build that passes includes exactly what its commit publishes, whatever *)
(* happened to HEAD and the checkout meanwhile, and the validator of the    *)
(* snapshot accepts it.  A check that passes on a clean checkout says the   *)
(* same of its commit and that nothing else is in it, unless two changes    *)
(* came between, for one that is undone in time goes unnoticed.             *)
InspectionBinds ==
  inspect.ok =>
    /\ Building => /\ inspect.commit = inspect.expected
                   /\ inspect.included = Publishes(inspect.commit)
                   /\ SnapshotAccepted(inspect.included)
    /\ ~Building /\ ~inspect.allowDirty /\ sourceMoves < 2 =>
                   /\ inspect.included = Publishes(inspect.commit)
                   /\ PathsIn(inspect.included) = DOMAIN SourceTrees[inspect.commit]
                   /\ SnapshotAccepted(inspect.included)
===========================================================================
