----------------------------- MODULE BuildProof -----------------------------
(***************************************************************************)
(* Theorems about what builds a source, for any commands, tools, channels, *)
(* bytes, generators, commits and bounds: the static source command        *)
(* (SourceCli) and the public snapshot (PublicSource).                     *)
(***************************************************************************)
EXTENDS SourceCli, PublicSource, FiniteSetTheorems, SequenceTheorems, TLAPS

-----------------------------------------------------------------------------
(***************************************************************************)
(* The source command, killed processes and stale locks included: as long  *)
(* as no add, remove or rotation overlaps another command, readers see a   *)
(* consistent graph of documents, versions are written once, and a push to *)
(* a file system leaves there what it read.                                *)
(***************************************************************************)

-----------------------------------------------------------------------------
(* The inductive invariant.                                                 *)

Reserved == {"reserved", "targets", "targets doc", "snapshot doc", "catalog", "saved"}
Linked == {"targets", "targets doc", "snapshot doc", "catalog", "saved"}
WithTargets == {"targets doc", "snapshot doc", "catalog", "saved"}
WithSnapshot == {"snapshot doc", "catalog", "saved"}
WithCatalog == {"catalog", "saved"}
Publishing == {"loaded"} \union Reserved
Rotating == {"rooted", "unkeyed"}

State == [version : Nat, rows : SUBSET Rows]
Document == [rows : SUBSET Rows, run : Nat]
Adder == [pc : {"adding", "copied"}, st : State, row : Rows]
Remover == [pc : {"removing"}, st : State, tool : Tools]
Publisher == [pc : Publishing, st : State, run : Nat]
Rotator == [pc : Rotating, key : Nat]
Command == {Idle} \union Adder \union Remover \union Publisher \union Rotator

\* Documents by version.
Book(f) == f \in [DOMAIN f -> Document] /\ DOMAIN f \subseteq Nat

Disk(d) ==
    /\ d = [targets |-> d.targets, snapshot |-> d.snapshot, timestamp |-> d.timestamp,
            catalog |-> d.catalog, blobs |-> d.blobs]
    /\ Book(d.targets) /\ Book(d.snapshot) /\ d.blobs \subseteq Bytes \union {NoFile}
    /\ d.timestamp \in [version : Nat, names : Document] \union {NoFile}

SourceTyped ==
    /\ saved \in State /\ Disk(disk)
    /\ files \in [Tools -> Bytes \union {NoFile}]
    /\ lock \in Commands \union {Free} /\ cmd \in [Commands -> Command]
    /\ roots \in Seq([key : Nat, signers : SUBSET (Nat \union {NoFile})]) /\ Len(roots) > 0
    /\ rootKey \in Nat \union {NoFile}
    /\ runs \in Nat /\ torn \in BOOLEAN /\ cutOff \in BOOLEAN

\* One command at a time has something under way; the one that publishes holds the lock.
OneCommand ==
    /\ \A p, q \in Commands : p # q => cmd[p].pc = "idle" \/ cmd[q].pc = "idle"
    /\ \A p \in Commands : cmd[p].pc \in Publishing => lock = p

\* No document has a version that is not reserved yet.
ReservedFirst == \A v \in DOMAIN disk.targets \union DOMAIN disk.snapshot : v <= saved.version

\* How far a publication is: its version is the reserved one, and no document has it
\* before it is written; what is written stays as it was.
Progress(p) ==
    LET pc == cmd[p].pc IN
    /\ pc \in {"adding", "copied", "removing"} \union Publishing => cmd[p].st = saved
    /\ pc = "reserved" \/ pc = "targets" => saved.version \notin DOMAIN disk.targets
    /\ pc \in {"reserved", "targets", "targets doc"} => saved.version \notin DOMAIN disk.snapshot
    /\ pc \in Linked => \A r \in saved.rows : r[3] \in disk.blobs
    /\ pc \in WithTargets =>
          saved.version \in DOMAIN disk.targets /\ disk.targets[saved.version] = Signed(p)
    /\ pc \in WithSnapshot =>
          saved.version \in DOMAIN disk.snapshot /\ disk.snapshot[saved.version] = Signed(p)
    /\ pc \in WithCatalog => disk.catalog = Signed(p) /\ torn

\* A rotation that was not cut off leaves the key of the last root, or is about to.
RootsKept ==
    ~cutOff =>
      /\ RootChain
      /\ \A p \in Commands : cmd[p].pc \in Rotating => cmd[p].key = roots[Len(roots)].key
      /\ (\A p \in Commands : cmd[p].pc \notin Rotating) => rootKey = roots[Len(roots)].key

SourceStrong ==
    /\ SourceTyped /\ OneCommand /\ ReservedFirst
    /\ \A p \in Commands : Progress(p)
    /\ RootsKept /\ ReadersSeeAGraph /\ CatalogBound

DocumentsKept ==
    WrittenOnce(disk.targets, disk'.targets) /\ WrittenOnce(disk.snapshot, disk'.snapshot)

\* What a push read is a consistent graph; what it has put is there with its bytes.
PushFits ==
    /\ pushed = [objects |-> pushed.objects, ended |-> pushed.ended]
    /\ pushed.ended # "under way" => plan = {}
    /\ plan \subseteq DOMAIN pushed.objects
    /\ pushed.ended \in {"under way", "ok"} =>
          /\ LET ts == pushed.objects[<<"metadata", "timestamp">>]
                 snapshot == <<"metadata", "snapshot", ts.version>>
                 targets == <<"metadata", "targets", ts.version>> IN
                 /\ {<<"metadata", "timestamp">>, snapshot, targets} \subseteq DOMAIN pushed.objects
                 /\ pushed.objects[snapshot] = ts.names /\ pushed.objects[targets] = ts.names
          /\ \A k \in DOMAIN pushed.objects \ plan :
                k \in DOMAIN remote /\ remote[k] = pushed.objects[k]

-----------------------------------------------------------------------------
(* What the helpers return, and what a command record holds.                *)

\* A document added to a book: the book has it, and keeps the others (Put).
LEMMA PutIntoBook ==
  ASSUME NEW f, Book(f), NEW v \in Nat, NEW d \in Document
  PROVE  /\ Book(Put(f, v, d)) /\ DOMAIN Put(f, v, d) = DOMAIN f \union {v}
         /\ Put(f, v, d)[v] = d
         /\ \A k \in DOMAIN f \ {v} : Put(f, v, d)[k] = f[k]
  BY DEF Put, Book

\* Where a command is tells what it carries.
LEMMA CommandShape ==
  ASSUME NEW c \in Command
  PROVE  /\ c.pc \in {"idle"} \union Writers \union Publishing
         /\ c.pc = "idle" => c = Idle
         /\ c.pc \in {"adding", "copied"} => c \in Adder
         /\ c.pc = "removing" => c \in Remover
         /\ c.pc \in Publishing => c \in Publisher
         /\ c.pc \in Rotating => c \in Rotator
  <1>1. CASE c = Idle
    BY <1>1 DEF Idle, Publishing, Reserved, Rotating
  <1>2. CASE c \in Adder
    <2>1. c.pc \in {"adding", "copied"}
      BY <1>2 DEF Adder
    <2>2. QED
      BY <1>2, <2>1 DEF Publishing, Reserved, Rotating, Writers
  <1>3. CASE c \in Remover
    <2>1. c.pc = "removing"
      BY <1>3 DEF Remover
    <2>2. QED
      BY <1>3, <2>1 DEF Publishing, Reserved, Rotating, Writers
  <1>4. CASE c \in Publisher
    <2>1. c.pc \in Publishing
      BY <1>4 DEF Publisher
    <2>2. QED
      BY <1>4, <2>1 DEF Publishing, Reserved, Rotating
  <1>5. CASE c \in Rotator
    <2>1. c.pc \in Rotating
      BY <1>5 DEF Rotator
    <2>2. QED
      BY <1>5, <2>1 DEF Publishing, Reserved, Rotating, Writers
  <1>6. QED
    BY <1>1, <1>2, <1>3, <1>4, <1>5 DEF Command

\* A command under way is alone.
LEMMA Alone ==
  ASSUME OneCommand, NEW p \in Commands, cmd[p].pc # "idle", NEW q \in Commands, q # p
  PROVE  cmd[q].pc = "idle"
  BY DEF OneCommand

\* While others are idle, the step of one command leaves one command.
LEMMA OneStep ==
  ASSUME SourceTyped, OneCommand, NEW p \in Commands, NEW c \in Command,
         cmd' = [cmd EXCEPT ![p] = c],
         \A q \in Commands \ {p} : cmd[q].pc = "idle",
         c.pc \in Publishing => lock' = p
  PROVE  /\ cmd' \in [Commands -> Command] /\ cmd'[p] = c
         /\ \A q \in Commands \ {p} : cmd'[q].pc = "idle"
         /\ OneCommand'
         /\ Progress(p)' => \A q \in Commands : Progress(q)'
  <1>1. /\ cmd' \in [Commands -> Command] /\ cmd'[p] = c
        /\ \A q \in Commands \ {p} : cmd'[q].pc = "idle"
    BY DEF SourceTyped
  <1>2. OneCommand'
    BY <1>1 DEF OneCommand, Publishing, Reserved
  <1>3. ASSUME NEW q \in Commands \ {p} PROVE Progress(q)'
    BY <1>1, <1>3 DEF Progress, Publishing, Reserved, Linked, WithTargets, WithSnapshot,
                      WithCatalog
  <1>4. QED
    BY <1>1, <1>2, <1>3

\* A command that does not rotate leaves the chain of roots.
LEMMA RootsRest ==
  ASSUME SourceTyped, RootsKept, UNCHANGED rootVars, NEW p \in Commands, NEW c \in Command,
         cmd' = [cmd EXCEPT ![p] = c], cmd[p].pc \notin Rotating, c.pc \notin Rotating
  PROVE  RootsKept'
  <1>1. \A q \in Commands :
          /\ cmd'[q].pc \in Rotating <=> cmd[q].pc \in Rotating
          /\ cmd[q].pc \in Rotating => cmd'[q] = cmd[q]
    BY DEF SourceTyped
  <1>2. QED
    BY <1>1 DEF RootsKept, RootChain, rootVars

\* With the documents as they were, readers see what they saw.
LEMMA DocumentsRest ==
  ASSUME disk' = disk, ReadersSeeAGraph, CatalogBound, ReservedFirst, saved' \in State,
         saved \in State, saved'.version >= saved.version, Disk(disk), torn' = torn
  PROVE  ReadersSeeAGraph' /\ CatalogBound' /\ ReservedFirst' /\ Disk(disk)' /\ DocumentsKept
  BY DEF ReadersSeeAGraph, Verifies, CatalogBound, ReservedFirst, DocumentsKept, WrittenOnce,
         Disk, Book, State

-----------------------------------------------------------------------------
(* The steps of add-package and remove-package.                             *)

\* The step of an edit: the state it saves has the version the directory has.
LEMMA EditSteps ==
  ASSUME SourceStrong, NEW p \in Commands, ~Interleave,
         \/ \E t \in Tools : \/ StartRemove(p, t)
                             \/ \E c \in Channels, b \in Bytes : StartAdd(p, t, c, b)
         \/ CopyPackage(p) \/ SaveAdded(p) \/ SaveRemoved(p)
  PROVE  SourceStrong' /\ DocumentsKept
  <1>1. /\ SourceTyped /\ OneCommand /\ Progress(p) /\ cmd[p] \in Command
        /\ saved \in State /\ cmd \in [Commands -> Command]
    BY DEF SourceStrong, SourceTyped
  <1> DEFINE Edited(c) == /\ cmd' = [cmd EXCEPT ![p] = c] /\ c.pc \notin Publishing
                          /\ c.pc \notin Rotating
                          /\ c.pc \in {"adding", "copied", "removing"} => c.st = saved'
  <1> DEFINE Edit == /\ UNCHANGED <<disk, lock, roots, rootKey, cutOff, runs, torn>>
                     /\ files' \in [Tools -> Bytes \union {NoFile}]
                     /\ saved' \in State /\ saved'.version = saved.version
                     /\ \A q \in Commands \ {p} : cmd[q].pc = "idle"
                     /\ cmd[p].pc \notin Rotating
                     /\ \E c \in Command : Edited(c)
  <1>2. Edit
    <2> USE <1>1 DEF rootVars, bookVars, storeVars
    <2> USE DEF Rotating, Publishing, Reserved
    <2>1. ASSUME NEW t \in Tools, NEW k \in Channels, NEW b \in Bytes, StartAdd(p, t, k, b)
          PROVE  Edit
      <3> DEFINE c == [pc |-> "adding", st |-> saved, row |-> <<t, k, b>>]
      <3>1. c \in Command
        BY DEF Command, Adder, Rows
      <3>2. Edited(c)
        BY <2>1 DEF StartAdd
      <3>3. QED
        BY <2>1, <3>1, <3>2 DEF StartAdd, Overlapping, Quiet, SourceTyped
    <2>2. ASSUME CopyPackage(p) PROVE Edit
      <3> DEFINE c == [cmd[p] EXCEPT !.pc = "copied"]
      <3>1. cmd[p] \in Adder
        BY <2>2, CommandShape DEF CopyPackage
      <3>2. c \in Command
        BY <3>1 DEF Command, Adder
      <3>3. cmd[p].row[1] \in Tools /\ cmd[p].row[3] \in Bytes
        BY <3>1 DEF Adder, Rows
      <3>4. Edited(c)
        BY <2>2, <3>1 DEF CopyPackage, Adder, Progress
      <3>5. QED
        BY <2>2, <3>2, <3>3, <3>4, Alone DEF CopyPackage, SourceTyped
    <2>3. ASSUME SaveAdded(p) PROVE Edit
      <3>1. cmd[p] \in Adder /\ cmd[p].st = saved
        BY <2>3, CommandShape DEF SaveAdded, Progress
      <3>2. saved' \in State /\ saved'.version = saved.version
        BY <2>3, <3>1 DEF SaveAdded, Adder, State, Replaced, RowsOf
      <3>3. Edited(Idle) /\ Idle \in Command
        BY <2>3 DEF SaveAdded, Idle, Command
      <3>4. QED
        BY <2>3, <3>2, <3>3, Alone DEF SaveAdded, SourceTyped
    <2>4. ASSUME NEW t \in Tools, StartRemove(p, t) PROVE Edit
      <3> DEFINE c == [pc |-> "removing", st |-> saved, tool |-> t]
      <3>1. c \in Command
        BY DEF Command, Remover
      <3>2. Edited(c)
        BY <2>4 DEF StartRemove
      <3>3. QED
        BY <2>4, <3>1, <3>2 DEF StartRemove, Overlapping, Quiet, SourceTyped
    <2>5. ASSUME SaveRemoved(p) PROVE Edit
      <3>1. cmd[p] \in Remover /\ cmd[p].st = saved
        BY <2>5, CommandShape DEF SaveRemoved, Progress
      <3>2. saved' \in State /\ saved'.version = saved.version
        BY <2>5, <3>1 DEF SaveRemoved, Remover, State
      <3>3. Edited(Idle) /\ Idle \in Command
        BY <2>5 DEF SaveRemoved, Idle, Command
      <3>4. QED
        BY <2>5, <3>2, <3>3, Alone DEF SaveRemoved, SourceTyped
    <2>6. QED
      BY <2>1, <2>2, <2>3, <2>4, <2>5
  <1>3. PICK c \in Command : Edited(c)
    BY <1>2
  <1>4. /\ cmd' \in [Commands -> Command] /\ cmd'[p] = c /\ OneCommand'
        /\ Progress(p)' => \A q \in Commands : Progress(q)'
    BY <1>1, <1>2, <1>3, OneStep
  <1>5. Progress(p)'
    BY <1>3, <1>4 DEF Progress, Publishing, Reserved, Linked, WithTargets, WithSnapshot,
                      WithCatalog
  <1>6. RootsKept'
    BY <1>1, <1>2, <1>3, RootsRest DEF SourceStrong, rootVars
  <1>7. ReadersSeeAGraph' /\ CatalogBound' /\ ReservedFirst' /\ Disk(disk)' /\ DocumentsKept
    BY <1>1, <1>2, DocumentsRest DEF SourceStrong, SourceTyped, State
  <1>8. SourceTyped'
    BY <1>1, <1>2, <1>4, <1>7 DEF SourceTyped
  <1>9. QED
    BY <1>4, <1>5, <1>6, <1>7, <1>8 DEF SourceStrong

-----------------------------------------------------------------------------
(* The steps of rotate-root, a killed command and a stale lock.             *)

\* A rotation adds a root signed by the last one, and leaves its key in place of that one's.
LEMMA RotationSteps ==
  ASSUME SourceStrong, NEW p \in Commands, ~Interleave,
         RotateDocument(p) \/ BackUpRootKey(p) \/ WriteRootKey(p)
  PROVE  SourceStrong' /\ DocumentsKept
  <1>1. /\ SourceTyped /\ OneCommand /\ RootsKept /\ cmd[p] \in Command
        /\ saved \in State /\ cmd \in [Commands -> Command] /\ lock \in Commands \union {Free}
        /\ Disk(disk) /\ rootKey \in Nat \union {NoFile} /\ cutOff \in BOOLEAN
    BY DEF SourceStrong, SourceTyped
  <1> DEFINE Root == [key : Nat, signers : SUBSET (Nat \union {NoFile})]
  <1>2. roots \in Seq(Root) /\ Len(roots) \in Nat /\ Len(roots) > 0
    BY <1>1 DEF SourceTyped
  <1> DEFINE Rotated(c) == cmd' = [cmd EXCEPT ![p] = c] /\ c.pc \in {"idle", "rooted", "unkeyed"}
  <1> DEFINE Rotation == /\ UNCHANGED <<saved, files, disk, lock, cutOff, runs, torn>>
                         /\ roots' \in Seq(Root) /\ Len(roots') > 0
                         /\ rootKey' \in Nat \union {NoFile}
                         /\ \A q \in Commands \ {p} : cmd[q].pc = "idle"
                         /\ ~cutOff => RootChain'
                         /\ \E c \in Command :
                               /\ Rotated(c)
                               /\ ~cutOff => IF c.pc \in Rotating
                                             THEN c.key = roots'[Len(roots')].key
                                             ELSE rootKey' = roots'[Len(roots')].key
  <1>3. Rotation
    <2> USE DEF Rotating, bookVars, storeVars
    <2>1. CASE RotateDocument(p)
      <3> DEFINE new == Len(roots) + 1
                 root == [key |-> new, signers |-> {rootKey, new}]
                 c == [pc |-> "rooted", key |-> new]
      <3>1. roots' = Append(roots, root) /\ cmd' = [cmd EXCEPT ![p] = c]
        BY <2>1 DEF RotateDocument
      <3>2. \A q \in Commands : cmd[q].pc = "idle"
        BY <2>1 DEF RotateDocument, Overlapping, Quiet
      <3>3. root \in Root /\ c \in Command
        BY <1>1, <1>2 DEF Command, Rotator
      <3>4. /\ roots' \in Seq(Root) /\ Len(roots') = new
            /\ \A i \in 1..Len(roots) : roots'[i] = roots[i]
            /\ roots'[new] = root
        BY <1>2, <3>1, <3>3, AppendProperties
      <3>5. ASSUME ~cutOff PROVE RootChain'
        <4>1. rootKey = roots[Len(roots)].key /\ RootChain
          BY <1>1, <3>2, <3>5 DEF RootsKept
        <4>2. ASSUME NEW i \in 2..new
              PROVE  {roots'[i - 1].key, roots'[i].key} \subseteq roots'[i].signers
          <5>1. CASE i = new
            BY <1>2, <3>4, <4>1, <5>1
          <5>2. CASE i \in 2..Len(roots)
            <6>1. i - 1 \in 1..Len(roots) /\ i \in 1..Len(roots)
              BY <1>2, <5>2
            <6>2. QED
              BY <3>4, <4>1, <5>2, <6>1 DEF RootChain
          <5>3. QED
            BY <1>2, <4>2, <5>1, <5>2
        <4>3. QED
          BY <3>4, <4>2 DEF RootChain
      <3>6. Rotated(c) /\ c.key = roots'[Len(roots')].key /\ c.pc \in Rotating
        BY <3>1, <3>4
      <3> HIDE DEF c, root
      <3>7. QED
        <4>1. UNCHANGED <<saved, files, disk, lock, cutOff, runs, torn, rootKey>>
          BY <2>1 DEF RotateDocument
        <4>2. \E d \in Command : /\ Rotated(d)
                                 /\ ~cutOff => IF d.pc \in Rotating
                                               THEN d.key = roots'[Len(roots')].key
                                               ELSE rootKey' = roots'[Len(roots')].key
          BY <3>3, <3>6
        <4>3. roots' \in Seq(Root) /\ Len(roots') > 0
          BY <1>2, <3>4
        <4> HIDE DEF Rotated
        <4>4. QED
          BY <1>1, <3>2, <3>5, <4>1, <4>2, <4>3
    <2>2. CASE BackUpRootKey(p)
      <3> DEFINE c == [cmd[p] EXCEPT !.pc = "unkeyed"]
      <3>1. cmd[p] \in Rotator /\ cmd[p].pc = "rooted"
        BY <1>1, <2>2, CommandShape DEF BackUpRootKey
      <3>2. c \in Command /\ c.pc = "unkeyed" /\ c.key = cmd[p].key
        BY <3>1 DEF Command, Rotator
      <3>3. Rotated(c)
        BY <2>2, <3>2 DEF BackUpRootKey
      <3>4. ~cutOff => RootChain /\ c.key = roots[Len(roots)].key
        BY <1>1, <3>1, <3>2 DEF RootsKept
      <3> HIDE DEF c
      <3>5. QED
        BY <1>1, <1>2, <2>2, <3>1, <3>2, <3>3, <3>4, Alone DEF BackUpRootKey, RootChain
    <2>3. CASE WriteRootKey(p)
      <3>1. cmd[p] \in Rotator /\ cmd[p].pc = "unkeyed"
        BY <1>1, <2>3, CommandShape DEF WriteRootKey
      <3>2. rootKey' = cmd[p].key /\ cmd[p].key \in Nat
        BY <2>3, <3>1 DEF WriteRootKey, Rotator
      <3>3. Rotated(Idle) /\ Idle \in Command /\ Idle.pc = "idle"
        BY <2>3 DEF WriteRootKey, Idle, Command
      <3>4. ~cutOff => RootChain /\ cmd[p].key = roots[Len(roots)].key
        BY <1>1, <3>1 DEF RootsKept
      <3>5. QED
        BY <1>1, <1>2, <2>3, <3>1, <3>2, <3>3, <3>4, Alone DEF WriteRootKey, RootChain
    <2>4. QED
      BY <2>1, <2>2, <2>3
  <1>4. PICK c \in Command :
          /\ Rotated(c)
          /\ ~cutOff => IF c.pc \in Rotating THEN c.key = roots'[Len(roots')].key
                                             ELSE rootKey' = roots'[Len(roots')].key
    BY <1>3
  <1>5. /\ cmd' \in [Commands -> Command] /\ cmd'[p] = c /\ OneCommand'
        /\ \A q \in Commands \ {p} : cmd'[q].pc = "idle"
        /\ Progress(p)' => \A q \in Commands : Progress(q)'
    <2>1. c.pc \notin Publishing
      BY <1>4 DEF Publishing, Reserved
    <2>2. QED
      BY <1>1, <1>3, <1>4, <2>1, OneStep
  <1>6. Progress(p)'
    BY <1>4, <1>5 DEF Progress, Publishing, Reserved, Linked, WithTargets, WithSnapshot,
                      WithCatalog
  <1>7. RootsKept'
    BY <1>3, <1>4, <1>5 DEF RootsKept, Rotating
  <1>8. ReadersSeeAGraph' /\ CatalogBound' /\ ReservedFirst' /\ Disk(disk)' /\ DocumentsKept
    BY <1>1, <1>3, DocumentsRest DEF SourceStrong, State
  <1>9. SourceTyped'
    BY <1>1, <1>3, <1>5, <1>8 DEF SourceTyped
  <1>10. QED
    BY <1>5, <1>6, <1>7, <1>8, <1>9 DEF SourceStrong

\* A killed command leaves files and lock as they are; one that rotated is on record.
LEMMA KillStep ==
  ASSUME SourceStrong, NEW p \in Commands, Kill(p)
  PROVE  SourceStrong' /\ DocumentsKept
  <1>1. /\ SourceTyped /\ OneCommand /\ RootsKept /\ saved \in State /\ Idle \in Command
        /\ Disk(disk) /\ cmd \in [Commands -> Command] /\ cutOff \in BOOLEAN
    BY DEF SourceStrong, SourceTyped, Command
  <1>2. /\ cmd' = [cmd EXCEPT ![p] = Idle]
        /\ UNCHANGED <<saved, files, disk, lock, roots, rootKey, runs, torn>>
        /\ \A q \in Commands \ {p} : cmd[q].pc = "idle"
        /\ cutOff' = (cutOff \/ cmd[p].pc \in Rotating)
        /\ Idle.pc \notin Publishing /\ Idle.pc = "idle"
    BY <1>1, Alone DEF Kill, bookVars, Rotating, Publishing, Reserved, Idle
  <1>3. /\ cmd' \in [Commands -> Command] /\ cmd'[p] = Idle /\ OneCommand'
        /\ \A q \in Commands \ {p} : cmd'[q].pc = "idle"
        /\ Progress(p)' => \A q \in Commands : Progress(q)'
    BY <1>1, <1>2, OneStep
  <1>4. Progress(p)'
    BY <1>2, <1>3 DEF Progress, Publishing, Reserved, Linked, WithTargets, WithSnapshot,
                      WithCatalog
  <1>5. RootsKept'
    BY <1>1, <1>2, <1>3 DEF RootsKept, RootChain, Rotating
  <1>6. ReadersSeeAGraph' /\ CatalogBound' /\ ReservedFirst' /\ Disk(disk)' /\ DocumentsKept
    BY <1>1, <1>2, DocumentsRest DEF SourceStrong, State
  <1>7. SourceTyped'
    BY <1>1, <1>2, <1>3, <1>6 DEF SourceTyped
  <1>8. QED
    BY <1>3, <1>4, <1>5, <1>6, <1>7 DEF SourceStrong

\* The operator removes the lock of a killed publish, never that of a running one.
LEMMA StaleLockStep ==
  ASSUME SourceStrong, RemoveStaleLock
  PROVE  SourceStrong' /\ DocumentsKept
  <1>1. /\ UNCHANGED <<saved, files, disk, cmd, roots, rootKey, cutOff, runs, torn>>
        /\ lock' = Free /\ lock \in Commands /\ cmd[lock].pc = "idle"
    BY DEF RemoveStaleLock, rootVars, bookVars, SourceStrong, SourceTyped
  <1>2. OneCommand'
    BY <1>1 DEF SourceStrong, OneCommand, Publishing, Reserved
  <1>3. \A p \in Commands : Progress(p)'
    BY <1>1 DEF SourceStrong, Progress, Signed
  <1>4. RootsKept'
    BY <1>1 DEF SourceStrong, RootsKept, RootChain
  <1>5. ReadersSeeAGraph' /\ CatalogBound' /\ ReservedFirst' /\ Disk(disk)' /\ DocumentsKept
    BY <1>1, DocumentsRest DEF SourceStrong, SourceTyped, State
  <1>6. SourceTyped'
    BY <1>1, <1>5 DEF SourceStrong, SourceTyped
  <1>7. QED
    BY <1>2, <1>3, <1>4, <1>5, <1>6 DEF SourceStrong

-----------------------------------------------------------------------------
(* The steps of publish.                                                    *)

\* A publication under way is alone, holds the lock and has the state of the directory.
LEMMA Publishes ==
  ASSUME SourceStrong, NEW p \in Commands, cmd[p].pc \in Publishing
  PROVE  /\ cmd[p] \in Publisher /\ cmd[p].st = saved /\ lock = p
         /\ cmd[p] = [pc |-> cmd[p].pc, st |-> saved, run |-> cmd[p].run]
         /\ cmd[p].run \in Nat
         /\ Signed(p) = [rows |-> saved.rows, run |-> cmd[p].run] /\ Signed(p) \in Document
         /\ \A q \in Commands \ {p} : cmd[q].pc = "idle"
  <1>1. cmd[p] \in Publisher
    BY CommandShape DEF SourceStrong, SourceTyped
  <1>2. cmd[p].st = saved /\ lock = p /\ cmd[p].pc # "idle"
    BY DEF SourceStrong, Progress, OneCommand, Publishing, Reserved
  <1>3. cmd[p] = [pc |-> cmd[p].pc, st |-> saved, run |-> cmd[p].run] /\ cmd[p].run \in Nat
    BY <1>1, <1>2 DEF Publisher
  <1>4. QED
    BY <1>1, <1>2, <1>3, Alone DEF SourceStrong, SourceTyped, Signed, State, Document

\* What every step of a publication leaves: one command, typed state, the roots.
LEMMA PublishFrame ==
  ASSUME SourceStrong, NEW p \in Commands, NEW c \in Command,
         cmd' = [cmd EXCEPT ![p] = c], \A q \in Commands \ {p} : cmd[q].pc = "idle",
         cmd[p].pc \notin Rotating, c.pc \notin Rotating,
         c.pc \in Publishing => lock' = p, lock' \in Commands \union {Free},
         UNCHANGED <<files, roots, rootKey, cutOff>>, saved' \in State, Disk(disk)',
         runs' \in Nat, torn' \in BOOLEAN
  PROVE  /\ SourceTyped' /\ OneCommand' /\ RootsKept' /\ cmd'[p] = c
         /\ Progress(p)' => \A q \in Commands : Progress(q)'
  <1>1. /\ cmd' \in [Commands -> Command] /\ cmd'[p] = c /\ OneCommand'
        /\ Progress(p)' => \A q \in Commands : Progress(q)'
    BY OneStep DEF SourceStrong
  <1>2. RootsKept'
    BY RootsRest DEF SourceStrong, rootVars
  <1>3. SourceTyped'
    BY <1>1 DEF SourceStrong, SourceTyped
  <1>4. QED
    BY <1>1, <1>2, <1>3

\* A publication starts when no other one and no writer is under way.
LEMMA StartPublishStep ==
  ASSUME SourceStrong, NEW p \in Commands, ~Interleave, StartPublish(p)
  PROVE  SourceStrong' /\ DocumentsKept
  <1> DEFINE c == [pc |-> "loaded", st |-> saved, run |-> runs + 1]
  <1>1. /\ SourceTyped /\ OneCommand /\ runs \in Nat /\ saved \in State /\ Disk(disk)
        /\ cmd \in [Commands -> Command] /\ torn \in BOOLEAN
    BY DEF SourceStrong, SourceTyped
  <1>2. ASSUME NEW q \in Commands PROVE cmd[q].pc = "idle"
    <2>1. cmd[q].pc \in {"idle"} \union Publishing
      BY <1>1, CommandShape DEF StartPublish
    <2>2. cmd[q].pc \notin Publishing
      BY <1>1, SourceBounds DEF StartPublish, LockFree, OneCommand
    <2>3. QED
      BY <2>1, <2>2
  <1>3. /\ cmd' = [cmd EXCEPT ![p] = c] /\ lock' = p /\ runs' = runs + 1
        /\ UNCHANGED <<saved, files, disk, roots, rootKey, cutOff, torn>>
    BY DEF StartPublish, rootVars
  <1>4. c \in Command /\ c.pc = "loaded" /\ c.st = saved
    BY <1>1 DEF Command, Publisher, Publishing
  <1> HIDE DEF c
  <1>5. ReadersSeeAGraph' /\ CatalogBound' /\ ReservedFirst' /\ Disk(disk)' /\ DocumentsKept
    BY <1>1, <1>3, DocumentsRest DEF SourceStrong, State
  <1>6. /\ SourceTyped' /\ OneCommand' /\ RootsKept' /\ cmd'[p] = c
        /\ Progress(p)' => \A q \in Commands : Progress(q)'
    <2>1. runs' \in Nat /\ torn' \in BOOLEAN /\ saved' \in State
      BY <1>1, <1>3
    <2>2. cmd[p].pc \notin Rotating /\ c.pc \notin Rotating
      BY <1>2, <1>4 DEF Rotating
    <2>3. lock' = p /\ lock' \in Commands \union {Free}
      BY <1>3
    <2>4. QED
      BY <1>2, <1>3, <1>4, <1>5, <2>1, <2>2, <2>3, PublishFrame
  <1>7. Progress(p)'
    BY <1>3, <1>4, <1>6 DEF Progress, Linked, WithTargets, WithSnapshot, WithCatalog
  <1>8. QED
    BY <1>5, <1>6, <1>7 DEF SourceStrong

\* The version is reserved: no document has it.
LEMMA ReserveStep ==
  ASSUME SourceStrong, NEW p \in Commands, ReserveVersion(p)
  PROVE  SourceStrong' /\ DocumentsKept
  <1> DEFINE st == [saved EXCEPT !.version = @ + 1]
             c == [pc |-> "reserved", st |-> st, run |-> cmd[p].run]
  <1>1. /\ cmd \in [Commands -> Command] /\ saved \in State /\ Disk(disk)
        /\ lock \in Commands \union {Free} /\ runs \in Nat /\ torn \in BOOLEAN
    BY DEF SourceStrong, SourceTyped
  <1>2. /\ cmd[p].pc = "loaded" /\ cmd[p].pc \in Publishing /\ cmd[p].pc \notin Rotating
        /\ UNCHANGED <<files, disk, lock, roots, rootKey, cutOff, runs, torn>>
    BY DEF ReserveVersion, Publishing, rootVars, bookVars, Rotating
  <1>3. /\ cmd[p] = [pc |-> "loaded", st |-> saved, run |-> cmd[p].run] /\ lock = p
        /\ cmd[p].run \in Nat /\ \A q \in Commands \ {p} : cmd[q].pc = "idle"
    BY <1>2, Publishes
  <1>4. saved' = st /\ cmd' = [cmd EXCEPT ![p] = c]
    <2>1. [cmd[p].st EXCEPT !.version = @ + 1] = st
      BY <1>3
    <2> HIDE DEF st
    <2>2. QED
      BY <1>1, <2>1 DEF ReserveVersion
  <1>5. st \in State /\ st.version > saved.version /\ st.rows = saved.rows
    BY <1>1 DEF State
  <1>6. c \in Command /\ c.pc = "reserved" /\ c.st = st
    BY <1>3, <1>5 DEF Command, Publisher, Publishing, Reserved
  <1> HIDE DEF c, st
  <1>7. ReadersSeeAGraph' /\ CatalogBound' /\ ReservedFirst' /\ Disk(disk)' /\ DocumentsKept
    BY <1>1, <1>2, <1>4, <1>5, DocumentsRest DEF SourceStrong, State
  <1>8. /\ SourceTyped' /\ OneCommand' /\ RootsKept' /\ cmd'[p] = c
        /\ Progress(p)' => \A q \in Commands : Progress(q)'
    BY <1>1, <1>2, <1>3, <1>4, <1>5, <1>6, <1>7, PublishFrame DEF Rotating
  <1>9. saved'.version \notin DOMAIN disk.targets \union DOMAIN disk.snapshot
    BY <1>1, <1>4, <1>5 DEF SourceStrong, ReservedFirst, Disk, Book, State
  <1>10. Progress(p)'
    BY <1>2, <1>4, <1>6, <1>8, <1>9
    DEF Progress, Linked, WithTargets, WithSnapshot, WithCatalog
  <1>11. QED
    BY <1>7, <1>8, <1>10 DEF SourceStrong

\* The targets are copied when every row is the package file it was; otherwise publish ends.
LEMMA WriteTargetsStep ==
  ASSUME SourceStrong, NEW p \in Commands, WriteTargets(p)
  PROVE  SourceStrong' /\ DocumentsKept
  <1>1. /\ cmd \in [Commands -> Command] /\ saved \in State /\ Disk(disk)
        /\ lock \in Commands \union {Free} /\ runs \in Nat /\ torn \in BOOLEAN
        /\ files \in [Tools -> Bytes \union {NoFile}]
    BY DEF SourceStrong, SourceTyped
  <1>2. /\ cmd[p].pc = "reserved" /\ cmd[p].pc \in Publishing /\ cmd[p].pc \notin Rotating
        /\ UNCHANGED <<saved, files, roots, rootKey, cutOff, runs, torn>>
    BY DEF WriteTargets, Publishing, Reserved, rootVars, bookVars, Rotating
  <1>3. /\ cmd[p] = [pc |-> "reserved", st |-> saved, run |-> cmd[p].run] /\ lock = p
        /\ cmd[p].run \in Nat /\ \A q \in Commands \ {p} : cmd[q].pc = "idle"
    BY <1>2, Publishes
  <1>4. CASE Intact(saved.rows)
    <2> DEFINE c == [pc |-> "targets", st |-> saved, run |-> cmd[p].run]
               more == {files[r[1]] : r \in saved.rows}
    <2>1. /\ disk' = [disk EXCEPT !.blobs = @ \union more] /\ lock' = lock
          /\ cmd' = [cmd EXCEPT ![p] = c]
      BY <1>1, <1>3, <1>4 DEF WriteTargets
    <2>2. more \subseteq Bytes \union {NoFile} /\ \A r \in saved.rows : r[3] \in more
      BY <1>1, <1>4 DEF Intact, State, Rows
    <2>3. c \in Command /\ c.pc = "targets" /\ c.st = saved
      BY <1>1, <1>3 DEF Command, Publisher, Publishing, Reserved
    <2> HIDE DEF c, more
    <2>4. /\ Disk(disk)' /\ disk'.targets = disk.targets /\ disk'.snapshot = disk.snapshot
          /\ disk'.timestamp = disk.timestamp /\ disk'.catalog = disk.catalog
          /\ disk'.blobs = disk.blobs \union more
      BY <1>1, <2>1, <2>2 DEF Disk
    <2>5. /\ SourceTyped' /\ OneCommand' /\ RootsKept' /\ cmd'[p] = c
          /\ Progress(p)' => \A q \in Commands : Progress(q)'
      BY <1>1, <1>2, <1>3, <2>1, <2>3, <2>4, PublishFrame DEF Rotating
    <2>6. Progress(p)'
      BY <1>2, <2>2, <2>3, <2>4, <2>5
      DEF SourceStrong, Progress, Linked, WithTargets, WithSnapshot, WithCatalog
    <2>7. ReadersSeeAGraph' /\ CatalogBound' /\ ReservedFirst' /\ DocumentsKept
      BY <1>2, <2>4 DEF SourceStrong, ReadersSeeAGraph, Verifies, CatalogBound, ReservedFirst,
                        DocumentsKept, WrittenOnce
    <2>8. QED
      BY <2>5, <2>6, <2>7 DEF SourceStrong
  <1>5. CASE ~Intact(saved.rows)
    <2>1. disk' = disk /\ lock' = Free /\ cmd' = [cmd EXCEPT ![p] = Idle]
      BY <1>3, <1>5 DEF WriteTargets
    <2>2. /\ Idle \in Command /\ Idle.pc = "idle" /\ Idle.pc \notin Publishing
          /\ Idle.pc \notin Rotating
      BY DEF Idle, Command, Publishing, Reserved, Rotating
    <2>3. ReadersSeeAGraph' /\ CatalogBound' /\ ReservedFirst' /\ Disk(disk)' /\ DocumentsKept
      BY <1>1, <1>2, <2>1, DocumentsRest DEF SourceStrong, State
    <2>4. /\ SourceTyped' /\ OneCommand' /\ RootsKept' /\ cmd'[p] = Idle
          /\ Progress(p)' => \A q \in Commands : Progress(q)'
      BY <1>1, <1>2, <1>3, <2>1, <2>2, <2>3, PublishFrame
    <2>5. Progress(p)'
      BY <2>2, <2>4 DEF Progress, Linked, WithTargets, WithSnapshot, WithCatalog, Publishing,
                        Reserved
    <2>6. QED
      BY <2>3, <2>4, <2>5 DEF SourceStrong
  <1>6. QED
    BY <1>4, <1>5

\* A publication that goes on to its next write keeps what it has loaded.
LEMMA PublishGoesOn ==
  ASSUME SourceStrong, NEW p \in Commands, cmd[p].pc \in Publishing, NEW to \in Publishing,
         cmd' = [cmd EXCEPT ![p].pc = to],
         UNCHANGED <<files, lock, roots, rootKey, cutOff, runs, saved>>,
         Disk(disk)', torn' \in BOOLEAN
  PROVE  /\ SourceTyped' /\ OneCommand' /\ RootsKept'
         /\ cmd'[p].pc = to /\ cmd'[p].st = saved /\ Signed(p)' = Signed(p)
         /\ Progress(p)' => \A q \in Commands : Progress(q)'
  <1> DEFINE c == [pc |-> to, st |-> saved, run |-> cmd[p].run]
  <1>1. /\ cmd[p] = [pc |-> cmd[p].pc, st |-> saved, run |-> cmd[p].run] /\ lock = p
        /\ cmd[p].run \in Nat /\ \A q \in Commands \ {p} : cmd[q].pc = "idle"
        /\ Signed(p) = [rows |-> saved.rows, run |-> cmd[p].run]
    BY Publishes
  <1>2. cmd' = [cmd EXCEPT ![p] = c]
    <2>1. ASSUME NEW x, NEW y, NEW n
          PROVE  [[pc |-> x, st |-> y, run |-> n] EXCEPT !.pc = to]
                   = [pc |-> to, st |-> y, run |-> n]
      OBVIOUS
    <2>2. [cmd[p] EXCEPT !.pc = to] = c
      BY <1>1, <2>1
    <2> HIDE DEF c
    <2>3. QED
      BY <2>2 DEF SourceStrong, SourceTyped
  <1>3. c \in Command /\ c.pc = to /\ c.st = saved /\ c.run = cmd[p].run
    BY <1>1 DEF Command, Publisher, SourceStrong, SourceTyped
  <1> HIDE DEF c
  <1>4. /\ runs' \in Nat /\ saved' \in State /\ lock' = p /\ lock' \in Commands \union {Free}
    BY <1>1 DEF SourceStrong, SourceTyped
  <1>5. cmd[p].pc \notin Rotating /\ c.pc \notin Rotating
    BY <1>3 DEF Publishing, Reserved, Rotating
  <1>6. /\ SourceTyped' /\ OneCommand' /\ RootsKept' /\ cmd'[p] = c
        /\ Progress(p)' => \A q \in Commands : Progress(q)'
    BY <1>1, <1>2, <1>3, <1>4, <1>5, PublishFrame
  <1>7. QED
    BY <1>1, <1>3, <1>6 DEF Signed

\* The targets document of the reserved version is new; the others stay.
LEMMA TargetsDocStep ==
  ASSUME SourceStrong, NEW p \in Commands, WriteTargetsDoc(p)
  PROVE  SourceStrong' /\ DocumentsKept
  <1> DEFINE v == saved.version
             f == Put(disk.targets, v, Signed(p))
  <1>1. /\ saved \in State /\ Disk(disk) /\ torn \in BOOLEAN /\ v \in Nat
    BY DEF SourceStrong, SourceTyped, State
  <1>2. /\ cmd[p].pc = "targets" /\ cmd[p].pc \in Publishing
        /\ cmd' = [cmd EXCEPT ![p].pc = "targets doc"] /\ "targets doc" \in Publishing
        /\ UNCHANGED <<saved, files, lock, roots, rootKey, cutOff, runs, torn>>
    BY DEF WriteTargetsDoc, Publishing, Reserved, rootVars, bookVars
  <1>3. cmd[p].st = saved /\ Signed(p) \in Document
    BY <1>2, Publishes
  <1>4. /\ v \notin DOMAIN disk.targets /\ v \notin DOMAIN disk.snapshot
        /\ \A r \in saved.rows : r[3] \in disk.blobs
    BY <1>2 DEF SourceStrong, Progress, Linked
  <1>5. /\ Book(f) /\ DOMAIN f = DOMAIN disk.targets \union {v} /\ f[v] = Signed(p)
        /\ \A k \in DOMAIN disk.targets : f[k] = disk.targets[k]
    BY <1>1, <1>3, <1>4, PutIntoBook, SMTT(30) DEF Disk
  <1>6. disk' = [disk EXCEPT !.targets = f]
    BY <1>3 DEF WriteTargetsDoc
  <1> HIDE DEF f
  <1>7. /\ Disk(disk)' /\ disk'.targets = f /\ disk'.snapshot = disk.snapshot
        /\ disk'.timestamp = disk.timestamp /\ disk'.catalog = disk.catalog
        /\ disk'.blobs = disk.blobs
    BY <1>1, <1>5, <1>6 DEF Disk
  <1>8. /\ SourceTyped' /\ OneCommand' /\ RootsKept'
        /\ cmd'[p].pc = "targets doc" /\ cmd'[p].st = saved /\ Signed(p)' = Signed(p)
        /\ Progress(p)' => \A q \in Commands : Progress(q)'
    BY <1>1, <1>2, <1>7, PublishGoesOn
  <1>9. Progress(p)'
    BY <1>2, <1>4, <1>5, <1>7, <1>8
    DEF Progress, Publishing, Reserved, Linked, WithTargets, WithSnapshot, WithCatalog
  <1>10. ReadersSeeAGraph' /\ CatalogBound' /\ DocumentsKept
    BY <1>2, <1>5, <1>7
    DEF SourceStrong, ReadersSeeAGraph, Verifies, CatalogBound, DocumentsKept, WrittenOnce
  <1>11. ReservedFirst'
    <2>1. ASSUME NEW k \in DOMAIN disk.targets \union DOMAIN disk.snapshot \union {v}
          PROVE  k <= saved.version
      BY <1>1 DEF SourceStrong, ReservedFirst
    <2>2. QED
      BY <1>2, <1>5, <1>7, <2>1 DEF ReservedFirst
  <1>12. QED
    BY <1>8, <1>9, <1>10, <1>11 DEF SourceStrong

\* The snapshot document of the reserved version is new; the others stay.
LEMMA SnapshotDocStep ==
  ASSUME SourceStrong, NEW p \in Commands, WriteSnapshotDoc(p)
  PROVE  SourceStrong' /\ DocumentsKept
  <1> DEFINE v == saved.version
             f == Put(disk.snapshot, v, Signed(p))
  <1>1. /\ saved \in State /\ Disk(disk) /\ torn \in BOOLEAN /\ v \in Nat
    BY DEF SourceStrong, SourceTyped, State
  <1>2. /\ cmd[p].pc = "targets doc" /\ cmd[p].pc \in Publishing
        /\ cmd' = [cmd EXCEPT ![p].pc = "snapshot doc"] /\ "snapshot doc" \in Publishing
        /\ UNCHANGED <<saved, files, lock, roots, rootKey, cutOff, runs, torn>>
    BY DEF WriteSnapshotDoc, Publishing, Reserved, rootVars, bookVars
  <1>3. cmd[p].st = saved /\ Signed(p) \in Document
    BY <1>2, Publishes
  <1>4. /\ v \notin DOMAIN disk.snapshot
        /\ v \in DOMAIN disk.targets /\ disk.targets[v] = Signed(p)
        /\ \A r \in saved.rows : r[3] \in disk.blobs
    BY <1>2 DEF SourceStrong, Progress, Linked, WithTargets
  <1>5. /\ Book(f) /\ DOMAIN f = DOMAIN disk.snapshot \union {v} /\ f[v] = Signed(p)
        /\ \A k \in DOMAIN disk.snapshot : f[k] = disk.snapshot[k]
    <2>1. v \in Nat /\ Signed(p) \in Document /\ Book(disk.snapshot)
      BY <1>1, <1>3 DEF Disk
    <2> HIDE DEF v
    <2> DEFINE b == disk.snapshot
               d == Signed(p)
    <2>2. Book(b) /\ v \in Nat /\ d \in Document
      BY <2>1
    <2> HIDE DEF b, d
    <2>3. /\ Book(Put(b, v, d)) /\ DOMAIN Put(b, v, d) = DOMAIN b \union {v}
          /\ Put(b, v, d)[v] = d
          /\ \A k \in DOMAIN b \ {v} : Put(b, v, d)[k] = b[k]
      BY <2>2, PutIntoBook
    <2>4. v \notin DOMAIN b => \A k \in DOMAIN b : k \in DOMAIN b \ {v}
      OBVIOUS
    <2>5. QED
      BY <1>4, <2>3, <2>4 DEF b, d
  <1>6. disk' = [disk EXCEPT !.snapshot = f]
    BY <1>3 DEF WriteSnapshotDoc
  <1> HIDE DEF f
  <1>7. /\ Disk(disk)' /\ disk'.snapshot = f /\ disk'.targets = disk.targets
        /\ disk'.timestamp = disk.timestamp /\ disk'.catalog = disk.catalog
        /\ disk'.blobs = disk.blobs
    BY <1>1, <1>5, <1>6 DEF Disk
  <1>8. /\ SourceTyped' /\ OneCommand' /\ RootsKept'
        /\ cmd'[p].pc = "snapshot doc" /\ cmd'[p].st = saved /\ Signed(p)' = Signed(p)
        /\ Progress(p)' => \A q \in Commands : Progress(q)'
    BY <1>1, <1>2, <1>7, PublishGoesOn
  <1>9. Progress(p)'
    BY <1>2, <1>4, <1>5, <1>7, <1>8
    DEF Progress, Publishing, Reserved, Linked, WithTargets, WithSnapshot, WithCatalog
  <1>10. ReadersSeeAGraph' /\ CatalogBound' /\ DocumentsKept
    BY <1>2, <1>5, <1>7
    DEF SourceStrong, ReadersSeeAGraph, Verifies, CatalogBound, DocumentsKept, WrittenOnce
  <1>11. ReservedFirst'
    <2>1. ASSUME NEW k \in DOMAIN disk.targets \union DOMAIN disk.snapshot \union {v}
          PROVE  k <= saved.version
      BY <1>1 DEF SourceStrong, ReservedFirst
    <2>2. QED
      BY <1>2, <1>5, <1>7, <2>1 DEF ReservedFirst
  <1>12. QED
    BY <1>8, <1>9, <1>10, <1>11 DEF SourceStrong

\* The catalog names the new targets; until the timestamp does, the publication is torn.
LEMMA CatalogStep ==
  ASSUME SourceStrong, NEW p \in Commands, WriteCatalog(p)
  PROVE  SourceStrong' /\ DocumentsKept
  <1>1. saved \in State /\ Disk(disk) /\ torn' \in BOOLEAN
    BY DEF SourceStrong, SourceTyped, WriteCatalog
  <1>2. /\ cmd[p].pc = "snapshot doc" /\ cmd[p].pc \in Publishing /\ torn' = TRUE
        /\ cmd' = [cmd EXCEPT ![p].pc = "catalog"] /\ "catalog" \in Publishing
        /\ UNCHANGED <<saved, files, lock, roots, rootKey, cutOff, runs>>
        /\ disk' = [disk EXCEPT !.catalog = Signed(p)]
    BY DEF WriteCatalog, Publishing, Reserved, rootVars
  <1>3. /\ Disk(disk)' /\ disk'.snapshot = disk.snapshot /\ disk'.targets = disk.targets
        /\ disk'.timestamp = disk.timestamp /\ disk'.catalog = Signed(p)
        /\ disk'.blobs = disk.blobs
    BY <1>1, <1>2 DEF Disk
  <1>4. /\ SourceTyped' /\ OneCommand' /\ RootsKept'
        /\ cmd'[p].pc = "catalog" /\ cmd'[p].st = saved /\ Signed(p)' = Signed(p)
        /\ Progress(p)' => \A q \in Commands : Progress(q)'
    BY <1>1, <1>2, <1>3, PublishGoesOn
  <1>5. Progress(p)'
    BY <1>2, <1>3, <1>4
    DEF SourceStrong, Progress, Publishing, Reserved, Linked, WithTargets, WithSnapshot,
        WithCatalog
  <1>6. ReadersSeeAGraph' /\ CatalogBound' /\ ReservedFirst' /\ DocumentsKept
    BY <1>2, <1>3 DEF SourceStrong, ReadersSeeAGraph, Verifies, CatalogBound, ReservedFirst,
                      DocumentsKept, WrittenOnce
  <1>7. QED
    BY <1>4, <1>5, <1>6 DEF SourceStrong

\* The state is saved once more, as it is.
LEMMA SavePublishedStep ==
  ASSUME SourceStrong, NEW p \in Commands, SavePublished(p)
  PROVE  SourceStrong' /\ DocumentsKept
  <1>1. saved \in State /\ Disk(disk) /\ torn \in BOOLEAN
    BY DEF SourceStrong, SourceTyped
  <1>2. /\ cmd[p].pc = "catalog" /\ cmd[p].pc \in Publishing /\ saved' = cmd[p].st
        /\ cmd' = [cmd EXCEPT ![p].pc = "saved"] /\ "saved" \in Publishing
        /\ UNCHANGED <<files, disk, lock, roots, rootKey, cutOff, runs, torn>>
    BY DEF SavePublished, Publishing, Reserved, rootVars, bookVars
  <1>3. saved' = saved
    BY <1>2, Publishes
  <1>4. ReadersSeeAGraph' /\ CatalogBound' /\ ReservedFirst' /\ Disk(disk)' /\ DocumentsKept
    BY <1>1, <1>2, <1>3, DocumentsRest DEF SourceStrong, State
  <1>5. /\ SourceTyped' /\ OneCommand' /\ RootsKept'
        /\ cmd'[p].pc = "saved" /\ cmd'[p].st = saved /\ Signed(p)' = Signed(p)
        /\ Progress(p)' => \A q \in Commands : Progress(q)'
    BY <1>1, <1>2, <1>3, <1>4, PublishGoesOn
  <1>6. Progress(p)'
    BY <1>2, <1>3, <1>5
    DEF SourceStrong, Progress, Publishing, Reserved, Linked, WithTargets, WithSnapshot,
        WithCatalog
  <1>7. QED
    BY <1>4, <1>5, <1>6 DEF SourceStrong

\* The timestamp names documents that are there, and the catalog is theirs.
LEMMA TimestampStep ==
  ASSUME SourceStrong, NEW p \in Commands, CommitTimestamp(p)
  PROVE  SourceStrong' /\ DocumentsKept
  <1> DEFINE ts == [version |-> saved.version, names |-> Signed(p)]
  <1>1. /\ saved \in State /\ Disk(disk) /\ runs \in Nat
    BY DEF SourceStrong, SourceTyped
  <1>2. /\ cmd[p].pc = "saved" /\ cmd[p].pc \in Publishing /\ cmd[p].pc \notin Rotating
        /\ cmd' = [cmd EXCEPT ![p] = Idle] /\ lock' = Free /\ torn' = FALSE
        /\ UNCHANGED <<saved, files, roots, rootKey, cutOff, runs>>
    BY DEF CommitTimestamp, Publishing, Reserved, rootVars, Rotating
  <1>3. /\ cmd[p].st = saved /\ Signed(p) \in Document /\ Signed(p).rows = saved.rows
        /\ \A q \in Commands \ {p} : cmd[q].pc = "idle"
    <2>1. /\ cmd[p].st = saved /\ Signed(p) \in Document
          /\ \A q \in Commands \ {p} : cmd[q].pc = "idle"
      BY <1>2, Publishes
    <2>2. QED
      BY <2>1 DEF Signed
  <1>4. disk' = [disk EXCEPT !.timestamp = ts]
    BY <1>3 DEF CommitTimestamp
  <1>5. ts \in [version : Nat, names : Document]
        /\ ts.version = saved.version /\ ts.names = Signed(p)
    BY <1>1, <1>3 DEF State
  <1> HIDE DEF ts
  <1>6. /\ Disk(disk)' /\ disk'.targets = disk.targets /\ disk'.snapshot = disk.snapshot
        /\ disk'.timestamp = ts /\ disk'.catalog = disk.catalog /\ disk'.blobs = disk.blobs
    BY <1>1, <1>4, <1>5 DEF Disk
  <1>7. /\ saved.version \in DOMAIN disk.targets /\ disk.targets[saved.version] = Signed(p)
        /\ saved.version \in DOMAIN disk.snapshot /\ disk.snapshot[saved.version] = Signed(p)
        /\ \A r \in saved.rows : r[3] \in disk.blobs
        /\ disk.catalog = Signed(p)
    BY <1>2 DEF SourceStrong, Progress, Linked, WithTargets, WithSnapshot, WithCatalog
  <1>8. ReadersSeeAGraph' /\ CatalogBound'
    BY <1>3, <1>5, <1>6, <1>7 DEF ReadersSeeAGraph, Verifies, CatalogBound
  <1>9. ReservedFirst' /\ DocumentsKept
    BY <1>2, <1>6 DEF SourceStrong, ReservedFirst, DocumentsKept, WrittenOnce
  <1>10. /\ Idle \in Command /\ Idle.pc = "idle" /\ Idle.pc \notin Publishing
         /\ Idle.pc \notin Rotating
    BY DEF Idle, Command, Publishing, Reserved, Rotating
  <1>11. /\ SourceTyped' /\ OneCommand' /\ RootsKept' /\ cmd'[p] = Idle
         /\ Progress(p)' => \A q \in Commands : Progress(q)'
    BY <1>1, <1>2, <1>3, <1>6, <1>10, PublishFrame
  <1>12. Progress(p)'
    BY <1>10, <1>11 DEF Progress, Linked, WithTargets, WithSnapshot, WithCatalog, Publishing,
                        Reserved
  <1>13. QED
    BY <1>8, <1>9, <1>11, <1>12 DEF SourceStrong

-----------------------------------------------------------------------------
(* The directory.                                                           *)

\* A fresh directory has one root, no document and no command under way (init).
LEMMA SourceStarts == SourceInit => SourceStrong
  <1> SUFFICES ASSUME SourceInit PROVE SourceStrong
    OBVIOUS
  <1> DEFINE Root == [key : Nat, signers : SUBSET (Nat \union {NoFile})]
             first == [key |-> 1, signers |-> {1}]
  <1>1. /\ saved = [version |-> 0, rows |-> {}] /\ saved \in State
        /\ files \in [Tools -> Bytes \union {NoFile}] /\ lock = Free
        /\ cmd = [p \in Commands |-> Idle] /\ cmd \in [Commands -> Command]
        /\ runs = 0 /\ torn = FALSE /\ cutOff = FALSE /\ rootKey = 1
        /\ roots = <<first>>
    BY DEF SourceInit, State, Command
  <1>2. /\ disk = [targets |-> <<>>, snapshot |-> <<>>, timestamp |-> NoFile,
                   catalog |-> NoFile, blobs |-> {}]
        /\ DOMAIN disk.targets = {} /\ DOMAIN disk.snapshot = {} /\ disk.timestamp = NoFile
        /\ Book(disk.targets) /\ Book(disk.snapshot)
    BY DEF SourceInit, Book
  <1>3. Disk(disk)
    BY <1>2 DEF Disk
  <1>4. /\ roots \in Seq(Root) /\ Len(roots) = 1 /\ roots[1] = first
    BY <1>1
  <1>5. SourceTyped
    <2>1. rootKey \in Nat \union {NoFile} /\ runs \in Nat /\ Len(roots) > 0
      BY <1>1, <1>4
    <2>2. roots \in Seq([key : Nat, signers : SUBSET (Nat \union {NoFile})])
      BY <1>4
    <2> HIDE DEF Root, first
    <2>3. QED
      BY <1>1, <1>3, <2>1, <2>2 DEF SourceTyped
  <1>6. \A p \in Commands : cmd[p].pc = "idle"
    BY <1>1 DEF Idle
  <1>7. OneCommand /\ \A p \in Commands : Progress(p)
    BY <1>6 DEF OneCommand, Progress, Publishing, Reserved, Linked, WithTargets, WithSnapshot,
                WithCatalog
  <1>8. RootsKept
    BY <1>1, <1>4, <1>6 DEF RootsKept, RootChain, Rotating
  <1>9. ReservedFirst /\ ReadersSeeAGraph /\ CatalogBound
    BY <1>2 DEF ReservedFirst, ReadersSeeAGraph, CatalogBound
  <1>10. QED
    BY <1>5, <1>7, <1>8, <1>9 DEF SourceStrong

PushStep == StartPush \/ PushFails \/ PushDone \/ \E k \in NextObjects : PutObject(k)

\* A push reads the directory and writes the object storage.
LEMMA PushLeaves ==
  ASSUME SourceStrong,
         UNCHANGED <<saved, files, disk, lock, cmd, roots, rootKey, cutOff, runs, torn>>
  PROVE  SourceStrong' /\ DocumentsKept
  <1>1. ReadersSeeAGraph' /\ CatalogBound' /\ ReservedFirst' /\ Disk(disk)' /\ DocumentsKept
    BY DocumentsRest DEF SourceStrong, SourceTyped, State
  <1>2. SourceTyped' /\ OneCommand'
    BY <1>1 DEF SourceStrong, SourceTyped, OneCommand
  <1>3. \A p \in Commands : Progress(p)'
    BY DEF SourceStrong, Progress, Signed
  <1>4. RootsKept'
    BY DEF SourceStrong, RootsKept, RootChain
  <1>5. QED
    BY <1>1, <1>2, <1>3, <1>4 DEF SourceStrong

\* The steps of commands leave a push alone, and a push the directory.
LEMMA PushOrCommand ==
  ASSUME [SourceNext]_sourceVars
  PROVE  \/ PushStep /\ UNCHANGED <<saved, files, disk, lock, cmd, roots, rootKey, cutOff,
                                    runs, torn>>
         \/ UNCHANGED <<plan, pushed, remote>>
  <1> USE DEF rootVars, bookVars, storeVars
  <1>1. CASE UNCHANGED sourceVars
    BY <1>1 DEF sourceVars
  <1>2. ASSUME NEW p \in Commands,
               \/ \E t \in Tools : \/ StartRemove(p, t)
                                   \/ \E c \in Channels, b \in Bytes : StartAdd(p, t, c, b)
               \/ CopyPackage(p) \/ SaveAdded(p) \/ SaveRemoved(p)
        PROVE  UNCHANGED <<plan, pushed, remote>>
    BY <1>2 DEF StartRemove, StartAdd, CopyPackage, SaveAdded, SaveRemoved
  <1>3. ASSUME NEW p \in Commands,
               \/ StartPublish(p) \/ ReserveVersion(p) \/ WriteTargets(p)
               \/ WriteTargetsDoc(p) \/ WriteSnapshotDoc(p) \/ WriteCatalog(p)
               \/ SavePublished(p) \/ CommitTimestamp(p)
        PROVE  UNCHANGED <<plan, pushed, remote>>
    BY <1>3 DEF StartPublish, ReserveVersion, WriteTargets, WriteTargetsDoc, WriteSnapshotDoc,
                WriteCatalog, SavePublished, CommitTimestamp
  <1>4. ASSUME NEW p \in Commands,
               RotateDocument(p) \/ BackUpRootKey(p) \/ WriteRootKey(p) \/ Kill(p)
        PROVE  UNCHANGED <<plan, pushed, remote>>
    BY <1>4 DEF RotateDocument, BackUpRootKey, WriteRootKey, Kill
  <1>5. CASE RemoveStaleLock
    BY <1>5 DEF RemoveStaleLock
  <1>6. CASE PushStep
    BY <1>6 DEF PushStep, StartPush, PushFails, PushDone, PutObject
  <1>7. QED
    BY <1>1, <1>2, <1>3, <1>4, <1>5, <1>6 DEF SourceNext, PushStep

\* Every step keeps the directory consistent and its documents as they are.
LEMMA SourceSteps ==
  ASSUME SourceStrong, ~Interleave, [SourceNext]_sourceVars
  PROVE  SourceStrong' /\ DocumentsKept
  <1>1. CASE UNCHANGED sourceVars
    BY <1>1, PushLeaves DEF sourceVars
  <1>2. ASSUME NEW p \in Commands,
               \/ \E t \in Tools : \/ StartRemove(p, t)
                                   \/ \E c \in Channels, b \in Bytes : StartAdd(p, t, c, b)
               \/ CopyPackage(p) \/ SaveAdded(p) \/ SaveRemoved(p)
        PROVE  SourceStrong' /\ DocumentsKept
    BY <1>2, EditSteps
  <1>3. ASSUME NEW p \in Commands,
               \/ StartPublish(p) \/ ReserveVersion(p) \/ WriteTargets(p)
               \/ WriteTargetsDoc(p) \/ WriteSnapshotDoc(p) \/ WriteCatalog(p)
               \/ SavePublished(p) \/ CommitTimestamp(p)
        PROVE  SourceStrong' /\ DocumentsKept
    BY <1>3, StartPublishStep, ReserveStep, WriteTargetsStep, TargetsDocStep, SnapshotDocStep,
       CatalogStep, SavePublishedStep, TimestampStep
  <1>4. ASSUME NEW p \in Commands,
               RotateDocument(p) \/ BackUpRootKey(p) \/ WriteRootKey(p) \/ Kill(p)
        PROVE  SourceStrong' /\ DocumentsKept
    BY <1>4, RotationSteps, KillStep
  <1>5. CASE RemoveStaleLock
    BY <1>5, StaleLockStep
  <1>6. CASE PushStep
    <2>1. UNCHANGED <<saved, files, disk, lock, cmd, roots, rootKey, cutOff, runs, torn>>
      BY <1>6 DEF PushStep, StartPush, PushFails, PushDone, PutObject, rootVars, bookVars
    <2>2. QED
      BY <2>1, PushLeaves
  <1>7. QED
    BY <1>1, <1>2, <1>3, <1>4, <1>5, <1>6 DEF SourceNext, PushStep

-----------------------------------------------------------------------------
(* The push.                                                                *)

\* What is exported holds the timestamp and the documents it names (objects of pushStorage).
LEMMA Exported ==
  ASSUME ReadersSeeAGraph, disk.timestamp # NoFile
  PROVE  LET ts == Objects[<<"metadata", "timestamp">>]
             snapshot == <<"metadata", "snapshot", ts.version>>
             targets == <<"metadata", "targets", ts.version>> IN
         /\ {<<"metadata", "timestamp">>, snapshot, targets} \subseteq DOMAIN Objects
         /\ Objects[snapshot] = ts.names /\ Objects[targets] = ts.names
  <1> DEFINE v == disk.timestamp.version
             time == <<"metadata", "timestamp">>
             cat == <<"catalog", "snapshot">>
             snap == <<"metadata", "snapshot", v>>
             targ == <<"metadata", "targets", v>>
  <1>1. /\ v \in DOMAIN disk.snapshot /\ disk.snapshot[v] = disk.timestamp.names
        /\ v \in DOMAIN disk.targets /\ disk.targets[v] = disk.timestamp.names
    BY DEF ReadersSeeAGraph, Verifies
  <1>2. time \in DOMAIN Objects /\ snap \in DOMAIN Objects /\ targ \in DOMAIN Objects
    BY <1>1 DEF Objects
  <1>3. /\ snap[1] = "metadata" /\ snap[2] = "snapshot" /\ snap[3] = v
        /\ targ[1] = "metadata" /\ targ[2] = "targets" /\ targ[3] = v
        /\ time[1] = "metadata" /\ time[2] = "timestamp" /\ cat[1] = "catalog"
    OBVIOUS
  <1>4. snap # time /\ snap # cat /\ targ # time /\ targ # cat
    BY <1>3
  <1>5. Objects[time] = disk.timestamp
    BY <1>2 DEF Objects
  <1>6. Objects[snap] = disk.snapshot[v]
    BY <1>2, <1>3, <1>4 DEF Objects
  <1>7. Objects[targ] = disk.targets[v]
    BY <1>2, <1>3, <1>4 DEF Objects
  <1>8. QED
    BY <1>1, <1>2, <1>5, <1>6, <1>7

\* A push to a file system never replaces an object, and knows an equal one by its bytes.
LEMMA PushSteps ==
  ASSUME SourceStrong, PushFits, Backend = "fs", [SourceNext]_sourceVars
  PROVE  PushFits'
  <1>1. CASE UNCHANGED <<plan, pushed, remote>>
    BY <1>1 DEF PushFits
  <1>2. CASE StartPush
    <2>1. /\ plan' = DOMAIN Objects /\ remote' = remote
          /\ pushed' = [objects |-> Objects, ended |-> "under way"]
      BY <1>2 DEF StartPush
    <2>2. ReadersSeeAGraph /\ disk.timestamp # NoFile
      BY <1>2 DEF StartPush, SourceStrong
    <2>3. pushed'.objects = Objects /\ pushed'.ended = "under way"
      BY <2>1
    <2>4. QED
      BY <2>1, <2>2, <2>3, Exported DEF PushFits
  <1>3. CASE PushFails \/ PushDone
    <2>1. /\ plan' = {} /\ remote' = remote /\ pushed.ended = "under way"
          /\ pushed'.objects = pushed.objects
          /\ \/ pushed'.ended = "failed"
             \/ pushed'.ended = "ok" /\ plan = {}
          /\ pushed' = [objects |-> pushed'.objects, ended |-> pushed'.ended]
      BY <1>3 DEF PushFails, PushDone, PushEnds, PushFits
    <2>2. QED
      BY <2>1 DEF PushFits
  <1>4. ASSUME NEW k \in NextObjects, PutObject(k) PROVE PushFits'
    <2> DEFINE bytes == pushed.objects[k]
    <2>1. k \in plan /\ pushed.ended = "under way"
      BY <1>4 DEF NextObjects, PushFits
    <2>2. CASE k \notin DOMAIN remote
      <3>1. remote' = Put(remote, k, bytes) /\ plan' = plan \ {k} /\ pushed' = pushed
        BY <1>4, <2>2 DEF PutObject
      <3>2. /\ DOMAIN remote' = DOMAIN remote \union {k} /\ remote'[k] = bytes
            /\ \A l \in DOMAIN remote : l # k => remote'[l] = remote[l]
        BY <3>1 DEF Put
      <3> QED
        BY <2>1, <2>2, <3>1, <3>2 DEF PushFits
    <2>3. CASE k \in DOMAIN remote /\ remote[k] = bytes
      <3>1. remote' = remote /\ plan' = plan \ {k} /\ pushed' = pushed
        BY <1>4, <2>3 DEF PutObject, SameObject
      <3>2. QED
        BY <2>1, <2>3, <3>1 DEF PushFits
    <2>4. CASE k \in DOMAIN remote /\ remote[k] # bytes
      <3>1. remote' = remote /\ PushEnds("conflict")
        BY <1>4, <2>4 DEF PutObject, SameObject
      <3>2. /\ plan' = {} /\ pushed'.objects = pushed.objects /\ pushed'.ended = "conflict"
            /\ pushed' = [objects |-> pushed'.objects, ended |-> pushed'.ended]
        BY <3>1 DEF PushEnds, PushFits
      <3>3. QED
        BY <3>1, <3>2 DEF PushFits
    <2>5. QED
      BY <2>2, <2>3, <2>4
  <1>5. QED
    BY <1>1, <1>2, <1>3, <1>4, PushOrCommand DEF PushStep

-----------------------------------------------------------------------------
(* The theorems.                                                            *)

\* While no add, remove or rotation overlaps another command, the directory stays
\* consistent at every write, under every kill and with every stale lock.
THEOREM SourceInvariance ==
  ASSUME ~Interleave
  PROVE  SourceSafetySpec => []SourceStrong
  <1>1. SourceStrong /\ [SourceNext]_sourceVars => SourceStrong'
    BY SourceSteps
  <1>2. QED
    BY <1>1, SourceStarts, PTL DEF SourceSafetySpec

\* The documents of a version are written once: a reserved version is never reused
\* (ReserveVersion in publishLocked).
THEOREM VersionsStay ==
  ASSUME ~Interleave
  PROVE  SourceSafetySpec => VersionsWrittenOnce
  <1>1. SourceStrong /\ [SourceNext]_sourceVars
          => [WrittenOnce(disk.targets, disk'.targets)
                /\ WrittenOnce(disk.snapshot, disk'.snapshot)]_sourceVars
    BY SourceSteps DEF DocumentsKept
  <1>2. QED
    BY <1>1, SourceInvariance, PTL DEF SourceSafetySpec, VersionsWrittenOnce

\* What was published stays readable and as it was, catalog, roots and a push to a file
\* system included (publishLocked, rotateRoot, pushStorage).
THEOREM SourceStays ==
  ASSUME ~Interleave, Backend = "fs"
  PROVE  SourceSafetySpec => PublishedStays
  <1>1. SourceInit => PushFits
    BY DEF SourceInit, PushFits
  <1>2. SourceStrong /\ PushFits /\ [SourceNext]_sourceVars => PushFits'
    BY PushSteps
  <1>3. SourceStrong /\ PushFits => ReadersSeeAGraph /\ SourceInv
    <2> SUFFICES ASSUME SourceStrong, PushFits PROVE ReadersSeeAGraph /\ SourceInv
      OBVIOUS
    <2>1. PushedAsRead
      BY DEF PushFits, PushedAsRead
    <2>2. /\ saved.rows \subseteq Rows /\ lock \in Commands \union {Free}
          /\ \A v \in DOMAIN disk.targets : v <= saved.version
          /\ CatalogBound /\ ReadersSeeAGraph /\ (~cutOff => RootChain)
      BY DEF SourceStrong, SourceTyped, State, ReservedFirst, RootsKept
    <2>3. QED
      BY <2>1, <2>2 DEF SourceInv
  <1>4. SourceSafetySpec => []PushFits
    BY <1>1, <1>2, SourceInvariance, PTL DEF SourceSafetySpec
  <1>5. SourceSafetySpec => [](ReadersSeeAGraph /\ SourceInv)
    BY <1>3, <1>4, SourceInvariance, PTL
  <1>6. QED
    BY <1>5, VersionsStay, PTL DEF PublishedStays

-----------------------------------------------------------------------------
(***************************************************************************)
(* The snapshot, whatever other programs do: snapshots never mix, a        *)
(* complete marker stands over a whole snapshot of one commit, and what    *)
(* verification accepts is the one root commit of such a snapshot.         *)
(***************************************************************************)

-----------------------------------------------------------------------------
(* The inductive invariant.                                                 *)

Paths == {"output", "receipt", "marker"}
Before == {"inspected", "marked", "copying", "validated"}
Receipted == {"receipted", "completed", "ok"}
Ends == {"failing", "failed", "killed"}
AllFiles == UNION {Tree[c] : c \in DOMAIN Tree}
Fresh == [pc : {"new", "failed"}]
Working == [pc : Before \union Receipted \union Ends, commit : DOMAIN Tree,
            todo : SUBSET AllFiles, marker : Nat, output : Nat, receipt : Nat]

\* The identity a generator remembers of what it created at a path.
IdOf(g, p) == IF p = "marker" THEN gen[g].marker
              ELSE IF p = "output" THEN gen[g].output ELSE gen[g].receipt

Object(o, last) ==
    /\ o = [id |-> o.id, by |-> o.by, data |-> o.data]
    /\ o.id \in 1..last /\ o.by \in Generators \union {Nobody}

PublicTyped ==
    /\ at = [p \in Paths |-> at[p]] /\ ids \in Nat
    /\ \A p \in Paths : at[p] # NoObject => Object(at[p], ids)
    /\ gen \in [Generators -> Fresh \union Working]
    /\ \A g \in Generators, p \in Paths : gen[g] \in Working => IdOf(g, p) <= ids
    /\ repo.commit \in DOMAIN Tree /\ repo = [commit |-> repo.commit, dirty |-> repo.dirty]
    /\ meddled \in Nat

\* What stands at a path is a generator's exactly when it has the identity it remembers.
Owner ==
    \A p \in Paths, g \in Generators :
        at[p] # NoObject => (at[p].by = g <=> gen[g] \in Working /\ IdOf(g, p) = at[p].id)

Has(g, p) == at[p] # NoObject /\ at[p].by = g

\* The marker of a generator says complete only between its completion and its failure.
Completed(g) == [phase |-> "complete", commit |-> gen[g].commit, output |-> gen[g].output,
                 receipt |-> gen[g].receipt, marker |-> gen[g].marker]
MarkerSays(g) ==
    Has(g, "marker") =>
        \/ at["marker"].data = [phase |-> "incomplete"]
        \/ /\ at["marker"].data = Completed(g) /\ gen[g].receipt # 0
           /\ gen[g].pc \in {"completed", "ok", "failing", "killed"}

\* The receipt of a generator lists its commit.
ReceiptSays(g) ==
    Has(g, "receipt") =>
        at["receipt"].data = [commit |-> gen[g].commit, files |-> Contents(gen[g].commit)]

\* The output of a generator has files of its commit, or edited in place; once validated it
\* has them all.
OutputHolds(g) ==
    Has(g, "output") =>
        LET d == at["output"].data IN
        /\ d = [files |-> d.files, commits |-> d.commits, committed |-> d.committed]
        /\ \A e \in d.files : e = <<e[1], e[2]>> /\ e[2] \in {0, gen[g].commit}
        /\ gen[g].pc = "validated" \/ gen[g].receipt # 0 =>
             {e[1] : e \in d.files} = Tree[gen[g].commit]

\* A receipt is remembered from its creation on; a success still has its marker while nobody
\* else removes anything.
Receipts(g) ==
    gen[g] \in Working =>
        /\ gen[g].pc \in Before => gen[g].receipt = 0
        /\ gen[g].pc \in Receipted => gen[g].receipt # 0
KeepsMarker(g) == meddled = 0 /\ gen[g].pc = "ok" => Has(g, "marker")

OfGenerator(g) ==
    MarkerSays(g) /\ ReceiptSays(g) /\ OutputHolds(g) /\ Receipts(g) /\ KeepsMarker(g)

PublicStrong == PublicTyped /\ Owner /\ \A g \in Generators : OfGenerator(g)

-----------------------------------------------------------------------------
(* What the steps have in common.                                           *)

\* The files of a commit.
LEMMA TreeFiles == \A c \in DOMAIN Tree : Tree[c] \in SUBSET AllFiles
  BY DEF AllFiles

\* The names in what a commit contains are its files.
LEMMA NamesOfContents == \A c : {e[1] : e \in Contents(c)} = Tree[c]
  <1>1. ASSUME NEW c PROVE {e[1] : e \in Contents(c)} = Tree[c]
    <2>1. ASSUME NEW x \in {e[1] : e \in Contents(c)} PROVE x \in Tree[c]
      <3>1. PICK e \in Contents(c) : x = e[1]
        OBVIOUS
      <3>2. PICK f \in Tree[c] : e = <<f, c>>
        BY DEF Contents
      <3>3. QED
        BY <3>1, <3>2
    <2>2. ASSUME NEW f \in Tree[c] PROVE f \in {e[1] : e \in Contents(c)}
      <3>1. <<f, c>> \in Contents(c) /\ <<f, c>>[1] = f
        BY DEF Contents
      <3>2. QED
        BY <3>1
    <2>3. QED
      BY <2>1, <2>2
  <1>2. QED
    BY <1>1

\* A generator that does not move, and whose objects stay, keeps what holds of it.
LEMMA Bystander ==
  ASSUME NEW h \in Generators, OfGenerator(h), gen'[h] = gen[h], meddled \in Nat,
         meddled' \in Nat, meddled' = meddled \/ meddled' > meddled,
         \A p \in Paths : Has(h, p)' => at'[p] = at[p],
         meddled' = 0 /\ Has(h, "marker") => at'["marker"] = at["marker"]
  PROVE  OfGenerator(h)'
  <1>1. \A p \in Paths : Has(h, p)' => Has(h, p) /\ at'[p] = at[p]
    BY DEF Has
  <1>2. MarkerSays(h)'
    BY <1>1 DEF OfGenerator, MarkerSays, Completed, Paths
  <1>3. ReceiptSays(h)'
    BY <1>1 DEF OfGenerator, ReceiptSays, Paths
  <1>4. OutputHolds(h)'
    BY <1>1 DEF OfGenerator, OutputHolds, Paths
  <1>5. Receipts(h)'
    BY DEF OfGenerator, Receipts
  <1>6. KeepsMarker(h)'
    BY DEF OfGenerator, KeepsMarker, Has
  <1>7. QED
    BY <1>2, <1>3, <1>4, <1>5, <1>6 DEF OfGenerator

\* A generator goes on, or fails, and nothing else changes.
LEMMA GoesStep ==
  ASSUME PublicStrong, NEW g \in Generators, gen[g] \in Working,
         NEW to \in {"validated", "ok"} \union Ends, Goes(g, to),
         UNCHANGED <<at, ids, repo, meddled>>,
         to = "failed" => gen[g].pc \in Before \/ ~Has(g, "marker"),
         to = "validated" => /\ gen[g].pc = "copying"
                             /\ Has(g, "output") =>
                                  {e[1] : e \in at["output"].data.files} = Tree[gen[g].commit],
         to = "ok" => gen[g].pc = "completed" /\ Has(g, "marker")
  PROVE  PublicStrong'
  <1>1. PublicTyped /\ Owner /\ gen \in [Generators -> Fresh \union Working] /\ meddled \in Nat
    BY DEF PublicStrong, PublicTyped
  <1> DEFINE w == [gen[g] EXCEPT !.pc = to]
  <1>2. /\ w \in Working /\ w.pc = to /\ w.commit = gen[g].commit /\ w.todo = gen[g].todo
        /\ w.marker = gen[g].marker /\ w.output = gen[g].output /\ w.receipt = gen[g].receipt
    BY DEF Working, Before, Receipted, Ends
  <1>3. gen' \in [Generators -> Fresh \union Working] /\ gen'[g] = w
    BY <1>1, <1>2 DEF Goes
  <1>4. \A h \in Generators \ {g} : gen'[h] = gen[h]
    BY <1>1 DEF Goes
  <1> HIDE DEF w
  <1>5. \A h \in Generators, p \in Paths :
          IdOf(h, p)' = IdOf(h, p) /\ (gen'[h] \in Working <=> gen[h] \in Working)
    BY <1>2, <1>3, <1>4 DEF IdOf
  <1>6. PublicTyped'
    BY <1>1, <1>3, <1>5 DEF PublicTyped, Object
  <1>7. Owner'
    BY <1>1, <1>5 DEF Owner
  <1>8. \A h \in Generators \ {g} : OfGenerator(h)'
    BY <1>1, <1>4, Bystander DEF PublicStrong, Has
  <1>9. OfGenerator(g) /\ \A p \in Paths : Has(g, p)' = Has(g, p)
    BY DEF PublicStrong, Has
  <1>10. MarkerSays(g)'
    BY <1>2, <1>3, <1>9 DEF OfGenerator, MarkerSays, Completed, Paths, Ends, Before
  <1>11. ReceiptSays(g)'
    BY <1>2, <1>3, <1>9 DEF OfGenerator, ReceiptSays, Paths
  <1>12. OutputHolds(g)'
    BY <1>2, <1>3, <1>9 DEF OfGenerator, OutputHolds, Paths
  <1>13. Receipts(g)'
    BY <1>2, <1>3, <1>9 DEF OfGenerator, Receipts, Before, Receipted, Ends
  <1>14. KeepsMarker(g)'
    BY <1>2, <1>3, <1>9 DEF OfGenerator, KeepsMarker, Paths, Ends
  <1>15. QED
    BY <1>6, <1>7, <1>8, <1>10, <1>11, <1>12, <1>13, <1>14 DEF PublicStrong, OfGenerator

\* A generator creates an object at a path where nothing is.
LEMMA CreateStep ==
  ASSUME PublicStrong, NEW g \in Generators, gen[g] \in Working, NEW p \in Paths,
         at[p] = NoObject, NEW data, NEW to \in Before \union Receipted,
         Creates(g, p, data, to), UNCHANGED <<repo, meddled>>
  PROVE  /\ PublicTyped' /\ Owner' /\ \A h \in Generators \ {g} : OfGenerator(h)'
         /\ at'[p] = [id |-> ids + 1, by |-> g, data |-> data]
         /\ \A q \in Paths \ {p} : at'[q] = at[q]
         /\ gen'[g] = Made(gen[g], p, to) /\ gen'[g] \in Working
  <1>1. /\ PublicTyped /\ Owner /\ gen \in [Generators -> Fresh \union Working]
        /\ meddled \in Nat /\ ids \in Nat /\ at = [q \in Paths |-> at[q]]
    BY DEF PublicStrong, PublicTyped
  <1> DEFINE o == [id |-> ids + 1, by |-> g, data |-> data]
             w == Made(gen[g], p, to)
  <1>2. /\ at'[p] = o /\ \A q \in Paths \ {p} : at'[q] = at[q]
        /\ at' = [q \in Paths |-> at'[q]]
    BY <1>1 DEF Creates, New
  <1>3. w \in Working
    BY <1>1 DEF Made, Working, Before
  <1>4. /\ gen' \in [Generators -> Fresh \union Working] /\ gen'[g] = w
        /\ \A h \in Generators \ {g} : gen'[h] = gen[h]
    BY <1>1, <1>3 DEF Creates
  <1>5. /\ IdOf(g, p)' = ids + 1 /\ \A q \in Paths \ {p} : IdOf(g, q)' = IdOf(g, q)
        /\ \A h \in Generators \ {g}, q \in Paths : IdOf(h, q)' = IdOf(h, q)
    BY <1>4 DEF IdOf, Made, Paths
  <1>6. ids' = ids + 1 /\ ids' \in Nat
    BY <1>1 DEF Creates
  <1> HIDE DEF w
  <1>7. \A q \in Paths : at'[q] # NoObject => Object(at'[q], ids')
    <2>1. Object(o, ids + 1)
      BY <1>1 DEF Object
    <2>2. \A q \in Paths : at[q] # NoObject => Object(at[q], ids + 1)
      BY <1>1 DEF PublicTyped, Object
    <2> HIDE DEF o
    <2>3. QED
      BY <1>2, <1>6, <2>1, <2>2
  <1>8. PublicTyped'
    <2>1. \A h \in Generators, q \in Paths : gen'[h] \in Working => IdOf(h, q)' <= ids'
      BY <1>1, <1>4, <1>5, <1>6 DEF PublicTyped, IdOf, Working
    <2>2. repo' = repo /\ meddled' = meddled
      OBVIOUS
    <2> HIDE DEF o
    <2>3. QED
      BY <1>1, <1>2, <1>4, <1>6, <1>7, <2>1, <2>2 DEF PublicTyped
  <1>9. Owner'
    BY <1>1, <1>2, <1>3, <1>4, <1>5 DEF Owner, PublicTyped, Object
  <1>10. \A h \in Generators \ {g} : OfGenerator(h)'
    BY <1>1, <1>2, <1>4, Bystander DEF PublicStrong, Has, Paths
  <1>11. QED
    BY <1>2, <1>3, <1>4, <1>8, <1>9, <1>10 DEF w

\* What is in an object changes, with its generator or without; the object stays.
LEMMA RewriteStep ==
  ASSUME PublicStrong, NEW g \in Generators, NEW p \in Paths, Has(g, p),
         at' = [q \in Paths |-> at'[q]], \A q \in Paths \ {p} : at'[q] = at[q],
         at'[p] = [id |-> at[p].id, by |-> g, data |-> at'[p].data],
         NEW w \in Working, gen' = [gen EXCEPT ![g] = w],
         w.marker = gen[g].marker, w.output = gen[g].output, w.receipt = gen[g].receipt,
         UNCHANGED <<ids, repo>>, meddled' \in Nat, meddled' = meddled \/ meddled' > meddled
  PROVE  /\ PublicTyped' /\ Owner' /\ \A h \in Generators \ {g} : OfGenerator(h)'
         /\ gen[g] \in Working /\ gen'[g] = w
  <1>1. /\ PublicTyped /\ Owner /\ gen \in [Generators -> Fresh \union Working]
        /\ meddled \in Nat /\ ids \in Nat /\ at = [q \in Paths |-> at[q]]
        /\ Object(at[p], ids) /\ at[p].by = g
    BY DEF PublicStrong, PublicTyped, Has
  <1>2. at'[p].id = at[p].id /\ at'[p].by = g
    OBVIOUS
  <1>3. gen[g] \in Working
    BY <1>1 DEF Owner, Has
  <1>4. /\ gen' \in [Generators -> Fresh \union Working] /\ gen'[g] = w
        /\ \A h \in Generators \ {g} : gen'[h] = gen[h]
    BY <1>1
  <1>5. \A h \in Generators, q \in Paths :
          IdOf(h, q)' = IdOf(h, q) /\ (gen'[h] \in Working <=> gen[h] \in Working)
    BY <1>3, <1>4 DEF IdOf
  <1>6. /\ at'[p].id = at[p].id /\ at'[p].by = g /\ at[p] # NoObject
        /\ Object(at'[p], ids)
    BY <1>1, <1>2 DEF Object, Has
  <1>7. PublicTyped'
    <2>1. \A q \in Paths : at'[q] # NoObject => Object(at'[q], ids)
      BY <1>1, <1>2, <1>6 DEF PublicTyped
    <2>2. QED
      BY <1>1, <1>2, <1>4, <1>5, <2>1 DEF PublicTyped
  <1>8. Owner'
    BY <1>1, <1>2, <1>5, <1>6 DEF Owner
  <1>9. \A h \in Generators \ {g} : OfGenerator(h)'
    BY <1>1, <1>2, <1>4, <1>6, Bystander DEF PublicStrong, Has, Paths
  <1>10. QED
    BY <1>2, <1>3, <1>4, <1>7, <1>8, <1>9

\* The data of an object changes, and nothing else at any path.
LEMMA DataChange ==
  ASSUME PublicStrong, NEW p \in Paths, at[p] # NoObject, NEW d,
         at' = [at EXCEPT ![p].data = d]
  PROVE  /\ at' = [q \in Paths |-> at'[q]] /\ \A q \in Paths \ {p} : at'[q] = at[q]
         /\ at'[p] = [id |-> at[p].id, by |-> at[p].by, data |-> at'[p].data]
         /\ at'[p].data = d
  <1>1. at = [q \in Paths |-> at[q]]
    BY DEF PublicStrong, PublicTyped
  <1>2. at[p] = [id |-> at[p].id, by |-> at[p].by, data |-> at[p].data]
    BY DEF PublicStrong, PublicTyped, Object
  <1>3. ASSUME NEW o, NEW i, NEW b, NEW x, o = [id |-> i, by |-> b, data |-> x]
        PROVE  [o EXCEPT !.data = d] = [id |-> i, by |-> b, data |-> d]
    BY <1>3
  <1>4. at'[p] = [at[p] EXCEPT !.data = d] /\ at' = [q \in Paths |-> at'[q]]
        /\ \A q \in Paths \ {p} : at'[q] = at[q]
    BY <1>1
  <1>5. at'[p] = [id |-> at[p].id, by |-> at[p].by, data |-> d]
    BY <1>2, <1>3, <1>4
  <1>6. at'[p].data = d
    BY <1>5
  <1>7. QED
    BY <1>4, <1>5, <1>6

-----------------------------------------------------------------------------
(* The steps of a generator.                                                *)

\* Where a generator is says that it works.
LEMMA AtWork ==
  ASSUME PublicStrong, NEW g \in Generators, gen[g].pc \notin {"new", "failed"}
  PROVE  gen[g] \in Working
  BY DEF PublicStrong, PublicTyped, Fresh

\* What is owned has the generator's name on it (OutputOwned, ReceiptOwned, MarkerOwned).
LEMMA Owned ==
  ASSUME PublicStrong, NEW g \in Generators, gen[g] \in Working
  PROVE  /\ OutputOwned(g) <=> Has(g, "output")
         /\ ReceiptOwned(g) <=> Has(g, "receipt")
         /\ MarkerOwned(g) <=> Has(g, "marker")
  BY DEF PublicStrong, Owner, OutputOwned, ReceiptOwned, MarkerOwned, Is, Has, IdOf, Paths

\* A generator that starts has nothing anywhere.
LEMMA PreflightStep ==
  ASSUME PublicStrong, NEW g \in Generators, Preflight(g)
  PROVE  PublicStrong'
  <1>1. /\ PublicTyped /\ Owner /\ gen \in [Generators -> Fresh \union Working]
        /\ meddled \in Nat /\ repo.commit \in DOMAIN Tree
        /\ UNCHANGED <<at, ids, repo, meddled>>
    BY DEF PublicStrong, PublicTyped, Preflight, Others
  <1>2. gen[g] \in Fresh /\ gen[g] \notin Working
    BY <1>1 DEF Preflight, Fresh, Working, Before, Receipted, Ends
  <1>3. \A p \in Paths : ~Has(g, p)
    BY <1>1, <1>2 DEF Owner, Has
  <1>4. /\ gen' \in [Generators -> Fresh \union Working]
        /\ \A h \in Generators \ {g} : gen'[h] = gen[h]
        /\ \/ gen'[g] = [pc |-> "failed"]
           \/ /\ gen'[g] = [pc |-> "inspected", commit |-> repo.commit,
                            todo |-> Tree[repo.commit],
                            marker |-> 0, output |-> 0, receipt |-> 0]
              /\ gen'[g] \in Working
    <2>1. CASE gen' = [gen EXCEPT ![g].pc = "failed"]
      <3>1. [gen[g] EXCEPT !.pc = "failed"] = [pc |-> "failed"] /\ [pc |-> "failed"] \in Fresh
        BY <1>2 DEF Fresh
      <3>2. QED
        BY <1>1, <2>1, <3>1
    <2>2. CASE gen' = [gen EXCEPT ![g] =
                        [pc |-> "inspected", commit |-> repo.commit, todo |-> Tree[repo.commit],
                         marker |-> 0, output |-> 0, receipt |-> 0]]
      <3>1. [pc |-> "inspected", commit |-> repo.commit, todo |-> Tree[repo.commit],
             marker |-> 0, output |-> 0, receipt |-> 0] \in Working
        BY <1>1, TreeFiles DEF Working, Before
      <3>2. QED
        BY <1>1, <2>2, <3>1
    <2>3. QED
      BY <2>1, <2>2 DEF Preflight
  <1>5. gen'[g] \in Working => \A p \in Paths : IdOf(g, p)' = 0
    <2>1. [pc |-> "failed"] \notin Working
      BY DEF Working
    <2>2. QED
      BY <1>4, <2>1 DEF IdOf
  <1>6. \A h \in Generators \ {g}, p \in Paths : IdOf(h, p)' = IdOf(h, p)
    BY <1>4 DEF IdOf
  <1>7. PublicTyped'
    BY <1>1, <1>4, <1>5, <1>6 DEF PublicTyped
  <1>8. Owner'
    BY <1>1, <1>3, <1>4, <1>5, <1>6 DEF Owner, Has, PublicTyped, Object
  <1>9. \A h \in Generators \ {g} : OfGenerator(h)'
    BY <1>1, <1>4, Bystander DEF PublicStrong, Has
  <1>10. OfGenerator(g)'
    <2>1. \A p \in Paths : ~Has(g, p)'
      BY <1>1, <1>3 DEF Has
    <2>2. gen'[g].pc # "ok" /\ Receipts(g)'
      BY <1>4 DEF Receipts, Before, Receipted, Working
    <2>3. QED
      BY <2>1, <2>2
      DEF OfGenerator, MarkerSays, ReceiptSays, OutputHolds, KeepsMarker, Paths
  <1>11. QED
    BY <1>7, <1>8, <1>9, <1>10 DEF PublicStrong

\* The marker is created incomplete.
LEMMA StartTransactionStep ==
  ASSUME PublicStrong, NEW g \in Generators, StartTransaction(g)
  PROVE  PublicStrong'
  <1>1. gen[g] \in Working /\ gen[g].pc = "inspected" /\ UNCHANGED <<repo, meddled>>
    BY AtWork DEF StartTransaction, Others
  <1>2. CASE at["marker"] # NoObject
    BY <1>1, <1>2, GoesStep DEF StartTransaction, Ends, Before
  <1>3. CASE at["marker"] = NoObject
    <2> DEFINE data == [phase |-> "incomplete"]
    <2>1. Creates(g, "marker", data, "marked")
      BY <1>1, <1>3 DEF StartTransaction
    <2>2. /\ PublicTyped' /\ Owner' /\ \A h \in Generators \ {g} : OfGenerator(h)'
          /\ at'["marker"] = [id |-> ids + 1, by |-> g, data |-> data]
          /\ \A q \in Paths \ {"marker"} : at'[q] = at[q]
          /\ gen'[g] = Made(gen[g], "marker", "marked")
      BY <1>1, <1>3, <2>1, CreateStep DEF Paths, Before
    <2>3. /\ gen'[g].pc = "marked" /\ gen'[g].commit = gen[g].commit
          /\ gen'[g].receipt = gen[g].receipt /\ OfGenerator(g)
          /\ Has(g, "receipt")' = Has(g, "receipt") /\ Has(g, "output")' = Has(g, "output")
          /\ at'["output"] = at["output"] /\ at'["receipt"] = at["receipt"]
          /\ at'["marker"].data = data
      BY <2>2 DEF Made, Paths, Has, PublicStrong
    <2>4. OfGenerator(g)'
      BY <1>1, <2>3 DEF OfGenerator, MarkerSays, ReceiptSays, OutputHolds, Receipts, KeepsMarker,
                        Before, Receipted
    <2>5. QED
      BY <2>2, <2>4 DEF PublicStrong
  <1>4. QED
    BY <1>2, <1>3

\* The output is created empty.
LEMMA ReserveOutputStep ==
  ASSUME PublicStrong, NEW g \in Generators, ReserveOutput(g)
  PROVE  PublicStrong'
  <1>1. gen[g] \in Working /\ gen[g].pc = "marked" /\ UNCHANGED <<repo, meddled>>
    BY AtWork DEF ReserveOutput, Others
  <1>2. CASE Fails(g)
    BY <1>1, <1>2, GoesStep DEF Fails, Ends
  <1>3. CASE at["output"] = NoObject /\ ~Fails(g)
    <2> DEFINE data == [files |-> {}, commits |-> 0, committed |-> {}]
    <2>1. Creates(g, "output", data, "copying")
      BY <1>1, <1>3 DEF ReserveOutput
    <2>2. /\ PublicTyped' /\ Owner' /\ \A h \in Generators \ {g} : OfGenerator(h)'
          /\ at'["output"] = [id |-> ids + 1, by |-> g, data |-> data]
          /\ \A q \in Paths \ {"output"} : at'[q] = at[q]
          /\ gen'[g] = Made(gen[g], "output", "copying")
      BY <1>1, <1>3, <2>1, CreateStep DEF Paths, Before
    <2>3. /\ gen'[g].pc = "copying" /\ gen'[g].commit = gen[g].commit
          /\ gen'[g].receipt = gen[g].receipt /\ OfGenerator(g)
          /\ Has(g, "receipt")' = Has(g, "receipt") /\ Has(g, "marker")' = Has(g, "marker")
          /\ at'["marker"] = at["marker"] /\ at'["receipt"] = at["receipt"]
          /\ at'["output"].data = data
      BY <2>2 DEF Made, Paths, Has, PublicStrong
    <2>4. gen[g].receipt = 0
      BY <1>1, <2>3 DEF OfGenerator, Receipts, Before
    <2>5. OfGenerator(g)'
      BY <1>1, <2>3, <2>4 DEF OfGenerator, MarkerSays, ReceiptSays, OutputHolds, Receipts,
                              KeepsMarker, Before, Receipted
    <2>6. QED
      BY <2>2, <2>5 DEF PublicStrong
  <1>4. QED
    BY <1>2, <1>3 DEF ReserveOutput

\* A file is copied from the generator's own commit.
LEMMA CopyStep ==
  ASSUME PublicStrong, NEW g \in Generators, CopyGitEntry(g)
  PROVE  PublicStrong'
  <1>1. gen[g] \in Working /\ gen[g].pc = "copying" /\ UNCHANGED <<repo, meddled>>
    BY AtWork DEF CopyGitEntry, Others
  <1>2. CASE Fails(g)
    BY <1>1, <1>2, GoesStep DEF Fails, Ends
  <1>3. CASE ~Fails(g)
    <2> DEFINE f == Min(gen[g].todo)
               w == [gen[g] EXCEPT !.todo = @ \ {f}]
               d == at["output"].data
    <2>1. /\ Has(g, "output") /\ UNCHANGED ids
          /\ at' = [at EXCEPT !["output"].data.files = @ \union {<<f, gen[g].commit>>}]
          /\ gen' = [gen EXCEPT ![g].todo = @ \ {f}]
      BY <1>1, <1>3, Owned DEF CopyGitEntry
    <2> HIDE DEF f
    <2>2. /\ d = [files |-> d.files, commits |-> d.commits, committed |-> d.committed]
          /\ \A e \in d.files : e = <<e[1], e[2]>> /\ e[2] \in {0, gen[g].commit}
          /\ gen[g].receipt = 0
      BY <1>1, <2>1 DEF PublicStrong, OfGenerator, OutputHolds, Receipts, Before
    <2> DEFINE more == d.files \union {<<f, gen[g].commit>>}
               new == [files |-> more, commits |-> d.commits, committed |-> d.committed]
    <2>3. at' = [at EXCEPT !["output"] = [id |-> at["output"].id, by |-> g, data |-> new]]
      <3>1. [at["output"].data EXCEPT !.files = more] = new
        BY <2>2
      <3>2. at["output"] = [id |-> at["output"].id, by |-> g, data |-> at["output"].data]
        BY <2>1 DEF PublicStrong, PublicTyped, Object, Has, Paths
      <3> HIDE DEF new
      <3>3. ASSUME NEW o, NEW i, NEW x, o = [id |-> i, by |-> g, data |-> x]
            PROVE  [o EXCEPT !.data = new] = [id |-> i, by |-> g, data |-> new]
        BY <3>3
      <3>4. [at["output"] EXCEPT !.data = new]
              = [id |-> at["output"].id, by |-> g, data |-> new]
        BY <3>2, <3>3
      <3>5. at' = [at EXCEPT !["output"] = [at["output"] EXCEPT !.data = new]]
        BY <2>1, <3>1
      <3>6. QED
        BY <3>4, <3>5
    <2>4. /\ at' = [q \in Paths |-> at'[q]] /\ \A q \in Paths \ {"output"} : at'[q] = at[q]
          /\ at'["output"] = [id |-> at["output"].id, by |-> g, data |-> at'["output"].data]
          /\ at'["output"].data = new
      BY <2>3 DEF PublicStrong, PublicTyped, Paths
    <2>5. /\ w \in Working /\ w.pc = "copying" /\ w.commit = gen[g].commit
          /\ w.marker = gen[g].marker /\ w.output = gen[g].output /\ w.receipt = gen[g].receipt
      BY <1>1 DEF Working
    <2>6. gen' = [gen EXCEPT ![g] = w]
      BY <2>1
    <2>7. meddled \in Nat /\ "output" \in Paths
      BY DEF PublicStrong, PublicTyped, Paths
    <2> HIDE DEF w, new
    <2>8. /\ PublicTyped' /\ Owner' /\ \A h \in Generators \ {g} : OfGenerator(h)'
          /\ gen'[g] = w
      <3>1. Has(g, "output") /\ UNCHANGED <<ids, repo, meddled>>
        BY <1>1, <2>1
      <3>2. QED
        BY <2>4, <2>5, <2>6, <2>7, <3>1, RewriteStep
    <2>9. /\ OfGenerator(g) /\ at'["output"].data = new
          /\ Has(g, "receipt")' = Has(g, "receipt") /\ Has(g, "marker")' = Has(g, "marker")
          /\ at'["marker"] = at["marker"] /\ at'["receipt"] = at["receipt"]
      BY <2>4, <2>8 DEF Paths, Has, PublicStrong
    <2>10. OutputHolds(g)'
      <3>1. \A e \in more : e = <<e[1], e[2]>> /\ e[2] \in {0, gen[g].commit}
        BY <2>2
      <3>2. new = [files |-> new.files, commits |-> new.commits, committed |-> new.committed]
            /\ new.files = more
        BY DEF new
      <3> HIDE DEF more
      <3>3. QED
        BY <2>2, <2>5, <2>8, <2>9, <3>1, <3>2 DEF OutputHolds
    <2>11. OfGenerator(g)'
      BY <1>1, <2>5, <2>8, <2>9, <2>10
      DEF OfGenerator, MarkerSays, ReceiptSays, Receipts, KeepsMarker, Before, Receipted,
          Completed
    <2>12. QED
      BY <2>8, <2>11 DEF PublicStrong
  <1>4. QED
    BY <1>2, <1>3

\* The snapshot is compared with the commit.
LEMMA ValidateStep ==
  ASSUME PublicStrong, NEW g \in Generators, ValidateSnapshot(g)
  PROVE  PublicStrong'
  <1>1. /\ gen[g] \in Working /\ gen[g].pc = "copying" /\ UNCHANGED <<repo, meddled>>
    BY AtWork DEF ValidateSnapshot, Others
  <1>2. CASE Fails(g)
    BY <1>1, <1>2, GoesStep DEF Fails, Ends
  <1>3. CASE ~Fails(g)
    <2>1. /\ Goes(g, "validated") /\ UNCHANGED <<at, ids>>
          /\ at["output"].data.files = Contents(gen[g].commit)
      BY <1>3 DEF ValidateSnapshot
    <2>2. {e[1] : e \in Contents(gen[g].commit)} = Tree[gen[g].commit]
      BY NamesOfContents
    <2>3. QED
      BY <1>1, <2>1, <2>2, GoesStep DEF Ends
  <1>4. QED
    BY <1>2, <1>3

\* The receipt is created once the snapshot is validated.
LEMMA WriteReceiptStep ==
  ASSUME PublicStrong, NEW g \in Generators, WriteReceipt(g)
  PROVE  PublicStrong'
  <1>1. gen[g] \in Working /\ gen[g].pc = "validated" /\ UNCHANGED <<repo, meddled>>
    BY AtWork DEF WriteReceipt, Others
  <1>2. CASE Fails(g)
    BY <1>1, <1>2, GoesStep DEF Fails, Ends
  <1>3. CASE at["receipt"] = NoObject /\ ~Fails(g)
    <2> DEFINE data == [commit |-> gen[g].commit, files |-> Contents(gen[g].commit)]
    <2>1. Creates(g, "receipt", data, "receipted")
      BY <1>1, <1>3 DEF WriteReceipt
    <2>2. /\ PublicTyped' /\ Owner' /\ \A h \in Generators \ {g} : OfGenerator(h)'
          /\ at'["receipt"] = [id |-> ids + 1, by |-> g, data |-> data]
          /\ \A q \in Paths \ {"receipt"} : at'[q] = at[q]
          /\ gen'[g] = Made(gen[g], "receipt", "receipted")
      BY <1>1, <1>3, <2>1, CreateStep DEF Paths, Receipted
    <2>3. /\ gen'[g].pc = "receipted" /\ gen'[g].commit = gen[g].commit
          /\ gen'[g].receipt = ids + 1 /\ OfGenerator(g) /\ ids \in Nat
          /\ Has(g, "output")' = Has(g, "output") /\ Has(g, "marker")' = Has(g, "marker")
          /\ at'["marker"] = at["marker"] /\ at'["output"] = at["output"]
          /\ at'["receipt"].data = data
      BY <2>2 DEF Made, Paths, Has, PublicStrong, PublicTyped
    <2>4. gen'[g].receipt # 0
      BY <2>3
    <2>5. MarkerSays(g)'
      BY <1>1, <2>3, <2>4 DEF OfGenerator, MarkerSays
    <2>6. ReceiptSays(g)' /\ Receipts(g)' /\ KeepsMarker(g)'
      BY <2>3, <2>4 DEF ReceiptSays, Contents, Receipts, KeepsMarker, Before
    <2>7. OutputHolds(g)'
      BY <1>1, <2>3 DEF OfGenerator, OutputHolds
    <2>8. QED
      BY <2>2, <2>5, <2>6, <2>7 DEF PublicStrong, OfGenerator
  <1>4. QED
    BY <1>2, <1>3 DEF WriteReceipt

\* The marker of the generator itself is rewritten, as complete.
LEMMA CompleteMarkerStep ==
  ASSUME PublicStrong, NEW g \in Generators, CompleteMarker(g)
  PROVE  PublicStrong'
  <1>1. gen[g] \in Working /\ gen[g].pc = "receipted" /\ UNCHANGED <<repo, meddled>>
    BY AtWork DEF CompleteMarker, Others
  <1>2. CASE Fails(g)
    BY <1>1, <1>2, GoesStep DEF Fails, Ends
  <1>3. CASE ~Fails(g)
    <2> DEFINE w == [gen[g] EXCEPT !.pc = "completed"]
    <2>1. /\ Has(g, "marker") /\ UNCHANGED ids
          /\ at' = [at EXCEPT !["marker"].data = Completed(g)]
          /\ gen' = [gen EXCEPT ![g].pc = "completed"]
      BY <1>1, <1>3, Owned DEF CompleteMarker, AllOwned, Goes, Completed
    <2>2. /\ w \in Working /\ w.pc = "completed" /\ w.commit = gen[g].commit
          /\ w.marker = gen[g].marker /\ w.output = gen[g].output /\ w.receipt = gen[g].receipt
      BY <1>1 DEF Working, Receipted
    <2>3. gen' = [gen EXCEPT ![g] = w]
      BY <2>1
    <2>4. meddled \in Nat /\ "marker" \in Paths /\ at["marker"] # NoObject /\ at["marker"].by = g
      BY <2>1 DEF PublicStrong, PublicTyped, Paths, Has
    <2> DEFINE c == Completed(g)
    <2> HIDE DEF w, c
    <2>5. /\ at' = [q \in Paths |-> at'[q]] /\ \A q \in Paths \ {"marker"} : at'[q] = at[q]
          /\ at'["marker"] = [id |-> at["marker"].id, by |-> g, data |-> at'["marker"].data]
          /\ at'["marker"].data = c
      <3>1. at' = [at EXCEPT !["marker"].data = c]
        BY <2>1 DEF c
      <3>2. QED
        BY <2>4, <3>1, DataChange
    <2>6. /\ PublicTyped' /\ Owner' /\ \A h \in Generators \ {g} : OfGenerator(h)'
          /\ gen'[g] = w
      <3>1. Has(g, "marker") /\ UNCHANGED <<ids, repo, meddled>>
        BY <1>1, <2>1
      <3>2. QED
        BY <2>2, <2>3, <2>4, <2>5, <3>1, RewriteStep
    <2>7. /\ OfGenerator(g) /\ Completed(g)' = c
          /\ Has(g, "receipt")' = Has(g, "receipt") /\ Has(g, "output")' = Has(g, "output")
          /\ at'["output"] = at["output"] /\ at'["receipt"] = at["receipt"]
      BY <2>2, <2>5, <2>6 DEF Paths, Has, PublicStrong, Completed, c
    <2>8. OfGenerator(g)'
      BY <1>1, <2>2, <2>5, <2>6, <2>7
      DEF OfGenerator, MarkerSays, ReceiptSays, OutputHolds, Receipts, KeepsMarker, Before,
          Receipted
    <2>9. QED
      BY <2>6, <2>8 DEF PublicStrong
  <1>4. QED
    BY <1>2, <1>3

\* What is confirmed is still the generator's own.
LEMMA ConfirmStep ==
  ASSUME PublicStrong, NEW g \in Generators, Confirm(g)
  PROVE  PublicStrong'
  <1>1. gen[g] \in Working /\ gen[g].pc = "completed" /\ UNCHANGED <<repo, meddled>>
    BY AtWork DEF Confirm, Others
  <1>2. CASE Fails(g)
    BY <1>1, <1>2, GoesStep DEF Fails, Ends
  <1>3. CASE ~Fails(g)
    <2>1. Has(g, "marker") /\ Goes(g, "ok") /\ UNCHANGED <<at, ids>>
      BY <1>1, <1>3, Owned DEF Confirm, AllOwned
    <2>2. QED
      BY <1>1, <2>1, GoesStep DEF Ends
  <1>4. QED
    BY <1>2, <1>3

\* A failure makes the generator's own marker incomplete again.
LEMMA MarkIncompleteStep ==
  ASSUME PublicStrong, NEW g \in Generators, MarkIncomplete(g)
  PROVE  PublicStrong'
  <1>1. /\ gen[g] \in Working /\ gen[g].pc = "failing" /\ UNCHANGED <<ids, repo, meddled>>
        /\ Goes(g, "failed")
    BY AtWork DEF MarkIncomplete, Others
  <1>2. CASE ~Has(g, "marker")
    <2>1. at' = at
      BY <1>1, <1>2, Owned DEF MarkIncomplete, Incomplete
    <2>2. QED
      BY <1>1, <1>2, <2>1, GoesStep DEF Ends
  <1>3. CASE Has(g, "marker")
    <2> DEFINE w == [gen[g] EXCEPT !.pc = "failed"]
               d == [phase |-> "incomplete"]
    <2>1. at' = [at EXCEPT !["marker"].data = d]
      BY <1>1, <1>3, Owned DEF MarkIncomplete, Incomplete
    <2>2. /\ w \in Working /\ w.pc = "failed" /\ w.commit = gen[g].commit
          /\ w.marker = gen[g].marker /\ w.output = gen[g].output /\ w.receipt = gen[g].receipt
      BY <1>1 DEF Working, Ends
    <2>3. gen' = [gen EXCEPT ![g] = w]
      BY <1>1 DEF Goes
    <2>4. meddled \in Nat /\ "marker" \in Paths /\ at["marker"] # NoObject /\ at["marker"].by = g
      BY <1>3 DEF PublicStrong, PublicTyped, Paths, Has
    <2> HIDE DEF w, d
    <2>5. /\ at' = [q \in Paths |-> at'[q]] /\ \A q \in Paths \ {"marker"} : at'[q] = at[q]
          /\ at'["marker"] = [id |-> at["marker"].id, by |-> g, data |-> at'["marker"].data]
          /\ at'["marker"].data = d
      BY <2>1, <2>4, DataChange
    <2>6. /\ PublicTyped' /\ Owner' /\ \A h \in Generators \ {g} : OfGenerator(h)'
          /\ gen'[g] = w
      <3>1. UNCHANGED <<ids, repo, meddled>>
        BY <1>1
      <3>2. QED
        BY <1>3, <2>2, <2>3, <2>4, <2>5, <3>1, RewriteStep
    <2>7. /\ OfGenerator(g)
          /\ Has(g, "receipt")' = Has(g, "receipt") /\ Has(g, "output")' = Has(g, "output")
          /\ at'["output"] = at["output"] /\ at'["receipt"] = at["receipt"]
      BY <2>5, <2>6 DEF Paths, Has, PublicStrong
    <2>8. MarkerSays(g)'
      BY <2>5 DEF MarkerSays, d
    <2>9. OfGenerator(g)'
      BY <1>1, <2>2, <2>6, <2>7, <2>8
      DEF OfGenerator, ReceiptSays, OutputHolds, Receipts, KeepsMarker, Before, Receipted
    <2>10. QED
      BY <2>6, <2>9 DEF PublicStrong
  <1>4. QED
    BY <1>2, <1>3

\* A killed generator leaves everything as it is.
LEMMA KillGeneratorStep ==
  ASSUME PublicStrong, NEW g \in Generators, KillGenerator(g)
  PROVE  PublicStrong'
  <1>1. gen[g] \in Working /\ UNCHANGED <<at, ids, repo, meddled>> /\ Goes(g, "killed")
    BY AtWork DEF KillGenerator, Others
  <1>2. QED
    BY <1>1, GoesStep DEF Ends

-----------------------------------------------------------------------------
(* What other programs do, and the owner.                                   *)

\* An object of nobody takes a place, or an object goes, or only the repository changes.
LEMMA ForeignStep ==
  ASSUME PublicStrong, gen' = gen, ids' \in Nat, ids' = ids \/ ids' = ids + 1,
         Meddles, repo'.commit \in DOMAIN Tree,
         repo' = [commit |-> repo'.commit, dirty |-> repo'.dirty],
         at' = [p \in Paths |-> at'[p]],
         \A p \in Paths : \/ at'[p] = at[p] \/ at'[p] = NoObject
                          \/ /\ at'[p] = [id |-> ids', by |-> Nobody, data |-> at'[p].data]
                             /\ ids' = ids + 1
  PROVE  PublicStrong'
  <1>1. /\ PublicTyped /\ Owner /\ gen \in [Generators -> Fresh \union Working]
        /\ meddled \in Nat /\ ids \in Nat /\ meddled' \in Nat /\ meddled' > meddled
        /\ Nobody \notin Generators
    BY PublicSourceBounds DEF PublicStrong, PublicTyped, Meddles
  <1>2. \A p \in Paths : at'[p] # NoObject =>
          \/ at'[p] = at[p] /\ at[p] # NoObject
          \/ /\ at'[p] = [id |-> ids', by |-> Nobody, data |-> at'[p].data]
             /\ at'[p].id = ids + 1 /\ at'[p].by = Nobody
    <2>1. ASSUME NEW p \in Paths, at'[p] # NoObject, ids' = ids + 1,
                 at'[p] = [id |-> ids', by |-> Nobody, data |-> at'[p].data]
          PROVE  at'[p].id = ids + 1 /\ at'[p].by = Nobody
      BY <2>1
    <2>2. QED
      BY <2>1
  <1>3. \A h \in Generators, p \in Paths : IdOf(h, p)' = IdOf(h, p)
    BY DEF IdOf
  <1>4. \A p \in Paths : at'[p] # NoObject => Object(at'[p], ids')
    <2>1. ASSUME NEW p \in Paths, at'[p] # NoObject PROVE Object(at'[p], ids')
      <3>1. CASE at'[p] = at[p] /\ at[p] # NoObject
        BY <1>1, <3>1 DEF PublicTyped, Object
      <3>2. CASE /\ at'[p] = [id |-> ids', by |-> Nobody, data |-> at'[p].data]
                 /\ at'[p].id = ids + 1 /\ at'[p].by = Nobody
        <4>1. at'[p] = [id |-> at'[p].id, by |-> at'[p].by, data |-> at'[p].data]
              /\ at'[p].id = ids'
          BY <3>2
        <4>2. ids' \in 1..ids'
          BY <1>1, <3>2, <4>1
        <4>3. QED
          BY <3>2, <4>1, <4>2 DEF Object
      <3>3. QED
        BY <1>2, <2>1, <3>1, <3>2
    <2>2. QED
      BY <2>1
  <1>5. PublicTyped'
    <2>1. \A h \in Generators, p \in Paths : gen'[h] \in Working => IdOf(h, p)' <= ids'
      BY <1>1, <1>3 DEF PublicTyped, IdOf, Working
    <2>2. QED
      BY <1>1, <1>4, <2>1 DEF PublicTyped
  <1>6. Owner'
    <2>1. ASSUME NEW p \in Paths, NEW g \in Generators, at'[p] # NoObject
          PROVE  at'[p].by = g <=> gen'[g] \in Working /\ IdOf(g, p)' = at'[p].id
      <3>1. CASE at'[p] = at[p] /\ at[p] # NoObject
        BY <1>1, <1>3, <3>1 DEF Owner
      <3>2. CASE at'[p].id = ids + 1 /\ at'[p].by = Nobody
        <4>1. gen[g] \in Working => IdOf(g, p) \in Nat /\ IdOf(g, p) <= ids
          BY <1>1 DEF PublicTyped, IdOf, Working
        <4>2. QED
          BY <1>1, <1>3, <3>2, <4>1
      <3>3. QED
        BY <1>2, <2>1, <3>1, <3>2
    <2>2. QED
      BY <2>1 DEF Owner
  <1>7. \A h \in Generators, p \in Paths : Has(h, p)' => at'[p] = at[p]
    BY <1>1, <1>2 DEF Has
  <1>8. \A h \in Generators : OfGenerator(h)'
    BY <1>1, <1>7, Bystander DEF PublicStrong
  <1>9. QED
    BY <1>5, <1>6, <1>8 DEF PublicStrong

\* The repository moves on to its next commit, or has changes that are not committed.
LEMMA SourceStep ==
  ASSUME PublicStrong, CommitSource \/ TouchSource
  PROVE  PublicStrong'
  <1>1. /\ Meddles /\ gen' = gen /\ at' = at /\ ids' = ids
        /\ at = [p \in Paths |-> at[p]] /\ ids \in Nat
        /\ repo = [commit |-> repo.commit, dirty |-> repo.dirty] /\ repo.commit \in DOMAIN Tree
    BY DEF CommitSource, TouchSource, PublicStrong, PublicTyped
  <1>2. /\ repo'.commit \in DOMAIN Tree
        /\ repo' = [commit |-> repo'.commit, dirty |-> repo'.dirty]
    <2>1. CASE CommitSource
      BY <2>1 DEF CommitSource
    <2>2. CASE TouchSource
      BY <1>1, <2>2 DEF TouchSource
    <2>3. QED
      BY <2>1, <2>2
  <1>3. QED
    BY <1>1, <1>2, ForeignStep

\* What is at a path goes, or something else takes its place.
LEMMA PathStep ==
  ASSUME PublicStrong, NEW p \in Paths, Remove(p) \/ Replace(p)
  PROVE  PublicStrong'
  <1>1. /\ Meddles /\ gen' = gen /\ repo' = repo
        /\ at = [q \in Paths |-> at[q]] /\ ids \in Nat
        /\ repo = [commit |-> repo.commit, dirty |-> repo.dirty] /\ repo.commit \in DOMAIN Tree
    BY DEF Remove, Replace, PublicStrong, PublicTyped
  <1>2. CASE Remove(p)
    <2>1. /\ at' = [q \in Paths |-> at'[q]] /\ ids' = ids
          /\ at'[p] = NoObject /\ \A q \in Paths \ {p} : at'[q] = at[q]
      BY <1>1, <1>2 DEF Remove
    <2>2. QED
      BY <1>1, <2>1, ForeignStep
  <1>3. CASE Replace(p)
    <2> DEFINE x == IF at[p] = NoObject THEN [phase |-> "complete"] ELSE at[p].data
    <2>1. ids' = ids + 1 /\ at' = [at EXCEPT ![p] = New(Nobody, x)]
      BY <1>3 DEF Replace
    <2> HIDE DEF x
    <2>2. /\ at' = [q \in Paths |-> at'[q]] /\ \A q \in Paths \ {p} : at'[q] = at[q]
          /\ at'[p] = [id |-> ids + 1, by |-> Nobody, data |-> x]
      BY <1>1, <2>1 DEF New
    <2>3. at'[p] = [id |-> ids + 1, by |-> Nobody, data |-> at'[p].data]
      BY <2>2
    <2>4. QED
      BY <1>1, <2>1, <2>2, <2>3, ForeignStep
  <1>4. QED
    BY <1>2, <1>3

\* The files of an output are edited in place, or committed where they stand.
LEMMA OutputStep ==
  ASSUME PublicStrong, NEW g \in Generators, Has(g, "output"), NEW new,
         at' = [at EXCEPT !["output"].data = new],
         UNCHANGED <<repo, gen, ids>>, meddled' \in Nat, meddled' = meddled \/ meddled' > meddled,
         new = [files |-> new.files, commits |-> new.commits, committed |-> new.committed],
         \A e \in new.files : e = <<e[1], e[2]>> /\ e[2] \in {0, gen[g].commit},
         {e[1] : e \in new.files} = {e[1] : e \in at["output"].data.files}
  PROVE  PublicStrong'
  <1>1. "output" \in Paths /\ at["output"] # NoObject /\ at["output"].by = g
    BY DEF Paths, Has
  <1>2. /\ at' = [q \in Paths |-> at'[q]] /\ \A q \in Paths \ {"output"} : at'[q] = at[q]
        /\ at'["output"] = [id |-> at["output"].id, by |-> g, data |-> at'["output"].data]
        /\ at'["output"].data = new
    BY <1>1, DataChange
  <1> DEFINE w == gen[g]
  <1>3. /\ w \in Working /\ gen' = [gen EXCEPT ![g] = w]
        /\ w.marker = gen[g].marker /\ w.output = gen[g].output /\ w.receipt = gen[g].receipt
    <2>1. gen \in [Generators -> Fresh \union Working] /\ Owner
      BY DEF PublicStrong, PublicTyped
    <2>2. QED
      BY <1>1, <2>1 DEF Owner
  <1> HIDE DEF w
  <1>4. PublicTyped' /\ Owner' /\ \A h \in Generators \ {g} : OfGenerator(h)'
    <2>1. UNCHANGED <<ids, repo>>
      OBVIOUS
    <2>2. QED
      BY <1>1, <1>2, <1>3, <2>1, RewriteStep, ZenonT(60)
  <1>5. /\ OfGenerator(g) /\ gen' = gen /\ meddled \in Nat
        /\ Has(g, "receipt")' = Has(g, "receipt") /\ Has(g, "marker")' = Has(g, "marker")
        /\ at'["marker"] = at["marker"] /\ at'["receipt"] = at["receipt"]
    BY <1>2 DEF Paths, Has, PublicStrong, PublicTyped
  <1>6. MarkerSays(g)' /\ ReceiptSays(g)' /\ Receipts(g)'
    BY <1>5 DEF OfGenerator, MarkerSays, ReceiptSays, Receipts, Completed
  <1>7. KeepsMarker(g)'
    BY <1>5 DEF OfGenerator, KeepsMarker
  <1>8. OutputHolds(g)'
    BY <1>2, <1>5 DEF OfGenerator, OutputHolds
  <1>9. QED
    BY <1>4, <1>6, <1>7, <1>8 DEF PublicStrong, OfGenerator

\* What a generator's output holds, by its name.
LEMMA OutputOf ==
  ASSUME PublicStrong, at["output"] # NoObject, at["output"].by # Nobody
  PROVE  \E g \in Generators : Has(g, "output") /\ at["output"].by = g /\ OutputHolds(g)
                               /\ gen[g] \in Working
  BY DEF PublicStrong, PublicTyped, Object, Has, OfGenerator, Paths, Owner

\* A file of a snapshot is edited in place.
LEMMA EditFileStep ==
  ASSUME PublicStrong, EditFile
  PROVE  PublicStrong'
  <1>1. PICK g \in Generators : Has(g, "output") /\ OutputHolds(g)
    BY OutputOf DEF EditFile
  <1> DEFINE d == at["output"].data
  <1>2. PICK e \in d.files :
          at' = [at EXCEPT !["output"].data.files = (@ \ {e}) \union {<<e[1], 0>>}]
    BY DEF EditFile
  <1>3. /\ d = [files |-> d.files, commits |-> d.commits, committed |-> d.committed]
        /\ \A x \in d.files : x = <<x[1], x[2]>> /\ x[2] \in {0, gen[g].commit}
    BY <1>1 DEF OutputHolds
  <1> DEFINE edited == (d.files \ {e}) \union {<<e[1], 0>>}
             new == [files |-> edited, commits |-> d.commits, committed |-> d.committed]
  <1>4. at' = [at EXCEPT !["output"].data = new]
    <2>1. [d EXCEPT !.files = edited] = new
      BY <1>3
    <2>2. QED
      BY <1>2, <2>1
  <1>5. /\ \A x \in edited : x = <<x[1], x[2]>> /\ x[2] \in {0, gen[g].commit}
        /\ {x[1] : x \in edited} = {x[1] : x \in d.files}
    <2>1. <<e[1], 0>>[1] = e[1] /\ <<e[1], 0>>[2] = 0
      OBVIOUS
    <2>2. ASSUME NEW x \in edited PROVE x[1] \in {y[1] : y \in d.files}
      BY <2>1
    <2>3. ASSUME NEW x \in d.files PROVE x[1] \in {y[1] : y \in edited}
      BY <2>1
    <2>4. QED
      BY <1>3, <2>1, <2>2, <2>3
  <1>6. /\ new = [files |-> new.files, commits |-> new.commits, committed |-> new.committed]
        /\ new.files = edited
    OBVIOUS
  <1>7. UNCHANGED <<repo, gen, ids>> /\ meddled' \in Nat /\ meddled' > meddled
    BY DEF EditFile, Meddles, PublicStrong, PublicTyped
  <1> HIDE DEF edited, new
  <1>8. QED
    BY <1>1, <1>4, <1>5, <1>6, <1>7, OutputStep

\* The owner commits the files of the snapshot.
LEMMA CommitPublicStep ==
  ASSUME PublicStrong, CommitPublic
  PROVE  PublicStrong'
  <1>1. PICK g \in Generators : Has(g, "output") /\ OutputHolds(g)
    BY OutputOf DEF CommitPublic
  <1> DEFINE d == at["output"].data
             new == [files |-> d.files, commits |-> d.commits + 1, committed |-> d.files]
  <1>2. at' = [at EXCEPT !["output"].data = new] /\ UNCHANGED <<repo, gen, ids, meddled>>
    BY DEF CommitPublic
  <1>3. \A x \in d.files : x = <<x[1], x[2]>> /\ x[2] \in {0, gen[g].commit}
    BY <1>1 DEF OutputHolds
  <1>4. /\ new = [files |-> new.files, commits |-> new.commits, committed |-> new.committed]
        /\ new.files = d.files /\ meddled' \in Nat /\ meddled' = meddled
    BY <1>2 DEF PublicStrong, PublicTyped
  <1> HIDE DEF new
  <1>5. QED
    BY <1>1, <1>2, <1>3, <1>4, OutputStep

\* A verification, and a stutter, change no object.
LEMMA UnchangedStep ==
  ASSUME PublicStrong, UNCHANGED <<repo, at, gen, ids, meddled>>
  PROVE  PublicStrong'
  <1>1. \A h \in Generators, p \in Paths : IdOf(h, p)' = IdOf(h, p)
    BY DEF IdOf
  <1>2. PublicTyped'
    BY <1>1 DEF PublicStrong, PublicTyped, Object
  <1>3. Owner'
    BY <1>1 DEF PublicStrong, Owner
  <1>4. \A h \in Generators : OfGenerator(h)'
    BY Bystander DEF PublicStrong, PublicTyped
  <1>5. QED
    BY <1>2, <1>3, <1>4 DEF PublicStrong

-----------------------------------------------------------------------------
(* The invariant.                                                           *)

\* Nothing is anywhere when no generator has started.
LEMMA PublicStart == PublicInit => PublicStrong
  <1> SUFFICES ASSUME PublicInit PROVE PublicStrong
    OBVIOUS
  <1>1. /\ at = [p \in Paths |-> NoObject] /\ gen = [g \in Generators |-> [pc |-> "new"]]
        /\ ids = 0 /\ meddled = 0 /\ repo = [commit |-> 1, dirty |-> FALSE]
    BY DEF PublicInit, Paths
  <1>2. \A g \in Generators : gen[g] \in Fresh /\ gen[g] \notin Working /\ gen[g].pc = "new"
    BY <1>1 DEF Fresh, Working, Before, Receipted, Ends
  <1>3. \A p \in Paths : at[p] = NoObject
    BY <1>1
  <1>4. PublicTyped
    BY <1>1, <1>2, <1>3, PublicSourceBounds DEF PublicTyped
  <1>5. Owner /\ \A g \in Generators : OfGenerator(g)
    BY <1>2, <1>3 DEF Owner, OfGenerator, MarkerSays, ReceiptSays, OutputHolds, Receipts,
                      KeepsMarker, Has, Paths
  <1>6. QED
    BY <1>4, <1>5 DEF PublicStrong

\* Every step keeps the invariant.
LEMMA PublicSteps == PublicStrong /\ [PublicNext]_publicVars => PublicStrong'
  <1> SUFFICES ASSUME PublicStrong, [PublicNext]_publicVars PROVE PublicStrong'
    OBVIOUS
  <1>1. ASSUME NEW g \in Generators,
               \/ Preflight(g) \/ StartTransaction(g) \/ ReserveOutput(g) \/ CopyGitEntry(g)
               \/ ValidateSnapshot(g) \/ WriteReceipt(g) \/ CompleteMarker(g) \/ Confirm(g)
               \/ MarkIncomplete(g) \/ KillGenerator(g)
        PROVE  PublicStrong'
    BY <1>1, PreflightStep, StartTransactionStep, ReserveOutputStep, CopyStep, ValidateStep,
       WriteReceiptStep, CompleteMarkerStep, ConfirmStep, MarkIncompleteStep, KillGeneratorStep
  <1>2. CASE CommitSource \/ TouchSource
    BY <1>2, SourceStep
  <1>3. CASE EditFile
    BY <1>3, EditFileStep
  <1>4. CASE CommitPublic
    BY <1>4, CommitPublicStep
  <1>5. CASE Verify
    BY <1>5, UnchangedStep DEF Verify
  <1>6. ASSUME NEW p \in DOMAIN at, Remove(p) \/ Replace(p) PROVE PublicStrong'
    <2>1. p \in Paths
      <3>1. at = [q \in Paths |-> at[q]]
        BY DEF PublicStrong, PublicTyped
      <3>2. DOMAIN at = Paths
        BY <3>1
      <3>3. QED
        BY <1>6, <3>2
    <2>2. QED
      BY <1>6, <2>1, PathStep
  <1>7. CASE UNCHANGED publicVars
    BY <1>7, UnchangedStep DEF publicVars
  <1>8. QED
    BY <1>1, <1>2, <1>3, <1>4, <1>5, <1>6, <1>7 DEF PublicNext

\* The invariant holds of every behaviour (scripts/prepare-public-source.mjs).
THEOREM PublicInvariance == PublicSafetySpec => []PublicStrong
  BY PublicStart, PublicSteps, PTL DEF PublicSafetySpec

-----------------------------------------------------------------------------
(* The properties.                                                          *)

\* The invariant gives the properties of every state: no mixture, a whole snapshot under a
\* complete marker, no complete marker after a failure.
LEMMA StrongGivesInv == PublicStrong => PublicInv
  <1> SUFFICES ASSUME PublicStrong PROVE PublicInv
    OBVIOUS
  <1>1. NoMixture
    BY OutputOf DEF NoMixture, OutputHolds, Has
  <1>2. FailureIsMarked
    BY DEF PublicStrong, OfGenerator, MarkerSays, FailureIsMarked, Has
  <1>3. CompleteMeansWhole
    <2> DEFINE m == at["marker"]
    <2> SUFFICES ASSUME m # NoObject, m.by # Nobody, m.data.phase = "complete",
                        Is("output", m.data.output), Is("receipt", m.data.receipt)
                 PROVE  /\ at["receipt"].data.files = Contents(m.data.commit)
                        /\ {e[1] : e \in at["output"].data.files} = Tree[m.data.commit]
                        /\ (\A e \in at["output"].data.files : e[2] # 0) =>
                               at["output"].data.files = Contents(m.data.commit)
      BY DEF CompleteMeansWhole
    <2>1. PICK g \in Generators : Has(g, "marker") /\ OfGenerator(g) /\ gen[g] \in Working
      BY DEF PublicStrong, PublicTyped, Object, Has, Paths, Owner
    <2>2. m.data = Completed(g) /\ gen[g].receipt # 0
      BY <2>1 DEF OfGenerator, MarkerSays
    <2>3. m.data.commit = gen[g].commit /\ Has(g, "output") /\ Has(g, "receipt")
      BY <2>1, <2>2 DEF Completed, Is, PublicStrong, Owner, IdOf, Paths, Has
    <2> DEFINE d == at["output"].data.files
    <2>4. /\ at["receipt"].data.files = Contents(gen[g].commit)
          /\ {e[1] : e \in d} = Tree[gen[g].commit]
          /\ \A e \in d : e = <<e[1], e[2]>> /\ e[2] \in {0, gen[g].commit}
      BY <2>1, <2>2, <2>3 DEF OfGenerator, ReceiptSays, OutputHolds
    <2> HIDE DEF d
    <2>5. ASSUME \A e \in d : e[2] # 0 PROVE d = Contents(gen[g].commit)
      <3>1. ASSUME NEW e \in d PROVE e \in Contents(gen[g].commit)
        BY <2>4, <2>5 DEF Contents
      <3>2. ASSUME NEW e \in Contents(gen[g].commit) PROVE e \in d
        <4>1. PICK f \in Tree[gen[g].commit] : e = <<f, gen[g].commit>>
          BY DEF Contents
        <4>2. PICK x \in d : x[1] = f
          BY <2>4
        <4>3. x = <<f, gen[g].commit>>
          BY <2>4, <2>5, <4>2
        <4>4. QED
          BY <4>1, <4>3
      <3>3. QED
        BY <3>1, <3>2
    <2>6. QED
      BY <2>3, <2>4, <2>5 DEF d
  <1>4. QED
    BY <1>1, <1>2, <1>3 DEF PublicInv

\* Two generators that succeed both have the marker, which has one maker.
LEMMA StrongGivesOne == PublicStrong => OneSucceeds
  <1> SUFFICES ASSUME PublicStrong, meddled = 0
               PROVE  Cardinality({g \in Generators : gen[g].pc = "ok"}) <= 1
    BY DEF OneSucceeds
  <1> DEFINE ok == {g \in Generators : gen[g].pc = "ok"}
  <1>1. \A g, h \in ok : g = h
    BY DEF PublicStrong, OfGenerator, KeepsMarker, Has
  <1>2. CASE ok = {}
    BY <1>2, FS_EmptySet
  <1>3. CASE ok # {}
    <2>1. PICK g \in ok : TRUE
      BY <1>3
    <2>2. ok = {g}
      BY <1>1, <2>1
    <2> HIDE DEF ok
    <2>3. Cardinality(ok) = 1
      BY <2>2, FS_Singleton
    <2>4. QED
      BY <2>3 DEF ok
  <1>4. QED
    BY <1>2, <1>3

\* A commit that verification accepts has the files its receipt lists, and the receipt is
\* that of a commit of the private repository.
LEMMA VerifyAccepts ==
  ASSUME PublicStrong, [PublicNext]_publicVars
  PROVE  [verified' = "ok" /\ verified # "ok" =>
              \E c \in DOMAIN Tree : at["output"].data.committed = Contents(c)
                                     /\ at["output"].data.commits = 1]_publicVars
  <1>1. SUFFICES ASSUME verified' = "ok", verified # "ok"
                 PROVE  \E c \in DOMAIN Tree : at["output"].data.committed = Contents(c)
                                               /\ at["output"].data.commits = 1
    OBVIOUS
  <1>2. Verify
    BY <1>1 DEF PublicNext, publicVars, Others, Preflight, StartTransaction, ReserveOutput,
       CopyGitEntry, ValidateSnapshot, WriteReceipt, CompleteMarker, Confirm, MarkIncomplete,
       KillGenerator, CommitSource, TouchSource, EditFile, CommitPublic, Remove, Replace
  <1>3. PublicCommitAccepted
    BY <1>1, <1>2 DEF Verify
  <1>4. at["receipt"] # NoObject /\ at["receipt"].by # Nobody
    <2>1. at = [q \in Paths |-> at[q]]
      BY DEF PublicStrong, PublicTyped
    <2>2. DOMAIN at = Paths
      BY <2>1
    <2>3. QED
      BY <1>3, <2>2 DEF PublicCommitAccepted, Paths
  <1>5. PICK r \in Generators : Has(r, "receipt") /\ OfGenerator(r) /\ gen[r] \in Working
    BY <1>4 DEF PublicStrong, PublicTyped, Object, Has, Paths, Owner
  <1>6. at["receipt"].data.files = Contents(gen[r].commit) /\ gen[r].commit \in DOMAIN Tree
    BY <1>5 DEF OfGenerator, ReceiptSays, Working
  <1>7. QED
    BY <1>3, <1>6 DEF PublicCommitAccepted

\* Snapshots never mix, a complete marker stands over a whole one, at most one generator
\* succeeds, and verification accepts only the one commit of a whole snapshot
\* (scripts/prepare-public-source.mjs, scripts/verify-public-commit.mjs).
THEOREM PublicSourceIsSafe == PublicSafetySpec => PublicSourceSafe
  <1>1. PublicStrong => PublicInv /\ OneSucceeds
    BY StrongGivesInv, StrongGivesOne
  <1>2. PublicStrong /\ [PublicNext]_publicVars =>
          [verified' = "ok" /\ verified # "ok" =>
              \E c \in DOMAIN Tree : at["output"].data.committed = Contents(c)
                                     /\ at["output"].data.commits = 1]_publicVars
    BY VerifyAccepts
  <1>3. QED
    BY <1>1, <1>2, PublicInvariance, PTL DEF PublicSafetySpec, PublicSourceSafe, VerifiedIsTheTree
=============================================================================
