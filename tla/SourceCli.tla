---------------------------- MODULE SourceCli ----------------------------
(***************************************************************************)
(* The directory of a static source and the commands of `useful source`    *)
(* (packages/useful-cli/bin/source: source.mjs, tuf.mjs, storage.mjs).     *)
(* Every command is a process that reads and writes the same files: the    *)
(* state file with the registered packages and the last version, the       *)
(* package files, the TUF documents, the catalog and the root keys.  Only  *)
(* publish takes a lock.  Any process may be killed between two writes.    *)
(* Targets, snapshot and timestamp are versioned together, so one number   *)
(* stands for the three.  The bytes of a document are its packages and the *)
(* run of publish that signed it: the expiry makes every signature new.    *)
(***************************************************************************)
EXTENDS Integers, FiniteSets, Sequences

CONSTANTS Commands,      \* processes that run a command
          Tools, Channels, Bytes,
          MixedCase,     \* tools whose manifest id has an upper-case letter
          MaxRuns,       \* bounds: runs of publish,
          MaxEdits,      \*   adds, removes and rotations,
          MaxKills,      \*   killed processes and failed pushes
          Interleave,    \* may add, remove and rotate overlap other commands
          Backend,       \* "fs" or "s3"
          NoFile         \* what a path holds that no file is at

Free == "free"

ASSUME SourceBounds ==
    /\ MaxRuns \in Nat /\ MaxEdits \in Nat /\ MaxKills \in Nat
    /\ MixedCase \subseteq Tools /\ Free \notin Commands
    /\ Interleave \in BOOLEAN /\ Backend \in {"fs", "s3"}

Rows == Tools \X Channels \X Bytes        \* toolId and version, channel, sha256
ExportOrder == <<"metadata", "targets", "catalog">>

VARIABLES
    saved,      \* source-state.json: version and rows
    files,      \* repository/packages: tool -> bytes
    disk,       \* published documents: targets, snapshot, timestamp, catalog, blobs
    lock,       \* .useful-source-publish.lock
    cmd,        \* process -> the command it runs
    roots,      \* metadata/N.root.json
    rootKey,    \* keys/root.pem
    runs, edits, kills,
    torn,       \* a publish wrote its catalog and not yet its timestamp
    cutOff,     \* a rotation was killed half way
    plan,       \* storage push: the objects still to put
    pushed,     \* the objects of the plan, and how the push ended
    remote      \* object storage: key -> bytes

sourceVars == <<saved, files, disk, lock, cmd, roots, rootKey, runs, edits, kills, torn, cutOff,
                plan, pushed, remote>>
storeVars == <<plan, pushed, remote>>
rootVars == <<roots, rootKey, cutOff>>
bookVars == <<runs, torn>>

Idle == [pc |-> "idle"]
RowsOf(rows, t, c) == {r \in rows : r[1] = t /\ r[2] = c}

SourceInit ==
    /\ saved = [version |-> 0, rows |-> {}]
    /\ files = [t \in Tools |-> NoFile]
    /\ disk = [targets |-> <<>>, snapshot |-> <<>>, timestamp |-> NoFile,
               catalog |-> NoFile, blobs |-> {}]
    /\ lock = Free /\ cmd = [p \in Commands |-> Idle]
    /\ roots = <<[key |-> 1, signers |-> {1}]>> /\ rootKey = 1
    /\ runs = 0 /\ edits = 0 /\ kills = 0 /\ torn = FALSE /\ cutOff = FALSE
    /\ plan = {} /\ pushed = [objects |-> <<>>, ended |-> "never"] /\ remote = <<>>

Put(f, key, value) == [k \in DOMAIN f \union {key} |-> IF k = key THEN value ELSE f[k]]

Quiet(p) == \A q \in Commands \ {p} : cmd[q].pc = "idle"
Overlapping(p) == Interleave \/ Quiet(p)
EditPackage == edits < MaxEdits /\ edits' = edits + 1
Writers == {"adding", "copied", "removing", "rooted", "unkeyed"}

----------------------------------------------------------------------------
(* add-package: reads the state, copies the package, saves the state.       *)
(* The package file is named by tool and version, not by channel; the row   *)
(* it replaces is looked up by the manifest's id but kept in lower case.    *)
StartAdd(p, t, c, b) ==
    /\ cmd[p].pc = "idle" /\ Overlapping(p) /\ EditPackage
    /\ cmd' = [cmd EXCEPT ![p] = [pc |-> "adding", st |-> saved, row |-> <<t, c, b>>]]
    /\ UNCHANGED <<saved, files, disk, lock, rootVars, bookVars, kills, storeVars>>

CopyPackage(p) ==
    /\ cmd[p].pc = "adding"
    /\ files' = [files EXCEPT ![cmd[p].row[1]] = cmd[p].row[3]]
    /\ cmd' = [cmd EXCEPT ![p].pc = "copied"]
    /\ UNCHANGED <<saved, disk, lock, rootVars, bookVars, edits, kills, storeVars>>

Replaced(rows, row) ==
    IF row[1] \in MixedCase THEN {} ELSE RowsOf(rows, row[1], row[2])

SaveAdded(p) ==
    /\ cmd[p].pc = "copied"
    /\ saved' = [cmd[p].st EXCEPT !.rows = (@ \ Replaced(@, cmd[p].row)) \union {cmd[p].row}]
    /\ cmd' = [cmd EXCEPT ![p] = Idle]
    /\ UNCHANGED <<files, disk, lock, rootVars, bookVars, edits, kills, storeVars>>

StartRemove(p, t) ==
    /\ cmd[p].pc = "idle" /\ Overlapping(p) /\ EditPackage
    /\ \E r \in saved.rows : r[1] = t
    /\ cmd' = [cmd EXCEPT ![p] = [pc |-> "removing", st |-> saved, tool |-> t]]
    /\ UNCHANGED <<saved, files, disk, lock, rootVars, bookVars, kills, storeVars>>

SaveRemoved(p) ==
    /\ cmd[p].pc = "removing"
    /\ saved' = [cmd[p].st EXCEPT !.rows = {r \in @ : r[1] # cmd[p].tool}]
    /\ cmd' = [cmd EXCEPT ![p] = Idle]
    /\ UNCHANGED <<files, disk, lock, rootVars, bookVars, edits, kills, storeVars>>

----------------------------------------------------------------------------
(* publish, under the lock.  A command that dies by itself removes the lock *)
(* on exit; one that is killed leaves it to the operator.                   *)
LockFree == lock = Free

StartPublish(p) ==
    /\ cmd[p].pc = "idle" /\ runs < MaxRuns /\ LockFree
    /\ Interleave \/ \A q \in Commands : cmd[q].pc \notin Writers
    /\ lock' = p
    /\ cmd' = [cmd EXCEPT ![p] = [pc |-> "loaded", st |-> saved, run |-> runs + 1]]
    /\ runs' = runs + 1
    /\ UNCHANGED <<saved, files, disk, rootVars, torn, edits, kills, storeVars>>

(* Faulty variant: the version is counted up in memory only.                *)
ReserveInMemory(p) ==
    /\ cmd[p].pc = "loaded"
    /\ cmd' = [cmd EXCEPT ![p] = [pc |-> "reserved", st |-> [@.st EXCEPT !.version = @ + 1], run |-> @.run]]
    /\ UNCHANGED <<saved, files, disk, lock, rootVars, bookVars, edits, kills, storeVars>>
(* The version is reserved on disk before anything is produced.             *)
ReserveVersion(p) ==
    /\ cmd[p].pc = "loaded"
    /\ LET st == [cmd[p].st EXCEPT !.version = @ + 1] IN
           /\ saved' = st
           /\ cmd' = [cmd EXCEPT ![p] = [pc |-> "reserved", st |-> st, run |-> @.run]]
    /\ UNCHANGED <<files, disk, lock, rootVars, bookVars, edits, kills, storeVars>>

(* Every row must still be the package file it was, and name its own target.*)
Intact(rows) ==
    /\ \A r \in rows : files[r[1]] = r[3]
    /\ \A r, s \in rows : r[1] = s[1] /\ r[2] = s[2] => r = s

WriteTargets(p) ==
    /\ cmd[p].pc = "reserved"
    /\ IF Intact(cmd[p].st.rows)
       THEN /\ disk' = [disk EXCEPT !.blobs = @ \union {files[r[1]] : r \in cmd[p].st.rows}]
            /\ cmd' = [cmd EXCEPT ![p].pc = "targets"]
            /\ lock' = lock
       ELSE /\ cmd' = [cmd EXCEPT ![p] = Idle]
            /\ lock' = Free
            /\ disk' = disk
    /\ UNCHANGED <<saved, files, rootVars, bookVars, edits, kills, storeVars>>

Signed(p) == [rows |-> cmd[p].st.rows, run |-> cmd[p].run]

WriteTargetsDoc(p) ==
    /\ cmd[p].pc = "targets"
    /\ disk' = [disk EXCEPT !.targets = Put(@, cmd[p].st.version, Signed(p))]
    /\ cmd' = [cmd EXCEPT ![p].pc = "targets doc"]
    /\ UNCHANGED <<saved, files, lock, rootVars, bookVars, edits, kills, storeVars>>

WriteSnapshotDoc(p) ==
    /\ cmd[p].pc = "targets doc"
    /\ disk' = [disk EXCEPT !.snapshot = Put(@, cmd[p].st.version, Signed(p))]
    /\ cmd' = [cmd EXCEPT ![p].pc = "snapshot doc"]
    /\ UNCHANGED <<saved, files, lock, rootVars, bookVars, edits, kills, storeVars>>

WriteCatalog(p) ==
    /\ cmd[p].pc = "snapshot doc"
    /\ disk' = [disk EXCEPT !.catalog = Signed(p)]
    /\ torn' = TRUE
    /\ cmd' = [cmd EXCEPT ![p].pc = "catalog"]
    /\ UNCHANGED <<saved, files, lock, rootVars, runs, edits, kills, storeVars>>

SavePublished(p) ==
    /\ cmd[p].pc = "catalog"
    /\ saved' = cmd[p].st
    /\ cmd' = [cmd EXCEPT ![p].pc = "saved"]
    /\ UNCHANGED <<files, disk, lock, rootVars, bookVars, edits, kills, storeVars>>

(* timestamp.json last: the commit point of the publication.                *)
CommitTimestamp(p) ==
    /\ cmd[p].pc = "saved"
    /\ disk' = [disk EXCEPT !.timestamp = [version |-> cmd[p].st.version, names |-> Signed(p)]]
    /\ torn' = FALSE
    /\ lock' = Free
    /\ cmd' = [cmd EXCEPT ![p] = Idle]
    /\ UNCHANGED <<saved, files, rootVars, runs, edits, kills, storeVars>>

RemoveStaleLock ==
    /\ lock # Free /\ cmd[lock].pc = "idle"
    /\ lock' = Free
    /\ UNCHANGED <<saved, files, disk, cmd, rootVars, bookVars, edits, kills, storeVars>>

----------------------------------------------------------------------------
(* rotate-root: the new root document first, then the key files.            *)
RotateDocument(p) ==
    /\ cmd[p].pc = "idle" /\ Overlapping(p) /\ EditPackage
    /\ rootKey # NoFile
    /\ LET new == Len(roots) + 1 IN
           /\ roots' = Append(roots, [key |-> new, signers |-> {rootKey, new}])
           /\ cmd' = [cmd EXCEPT ![p] = [pc |-> "rooted", key |-> new]]
    /\ UNCHANGED <<saved, files, disk, lock, rootKey, cutOff, bookVars, kills, storeVars>>

BackUpRootKey(p) ==
    /\ cmd[p].pc = "rooted"
    /\ rootKey' = NoFile
    /\ cmd' = [cmd EXCEPT ![p].pc = "unkeyed"]
    /\ UNCHANGED <<saved, files, disk, lock, roots, cutOff, bookVars, edits, kills, storeVars>>

WriteRootKey(p) ==
    /\ cmd[p].pc = "unkeyed"
    /\ rootKey' = cmd[p].key
    /\ cmd' = [cmd EXCEPT ![p] = Idle]
    /\ UNCHANGED <<saved, files, disk, lock, roots, cutOff, bookVars, edits, kills, storeVars>>

(* The process is killed: its files stay as they are.                       *)
Kill(p) ==
    /\ cmd[p].pc # "idle" /\ kills < MaxKills
    /\ kills' = kills + 1
    /\ cutOff' = (cutOff \/ cmd[p].pc \in {"rooted", "unkeyed"})
    /\ cmd' = [cmd EXCEPT ![p] = Idle]
    /\ UNCHANGED <<saved, files, disk, lock, roots, rootKey, bookVars, edits, storeVars>>

----------------------------------------------------------------------------
(* storage push: exports the published directories and puts every object.   *)
Objects ==
    [k \in {<<"metadata", "timestamp">>, <<"catalog", "snapshot">>}
           \union {<<"metadata", "targets", v>> : v \in DOMAIN disk.targets}
           \union {<<"metadata", "snapshot", v>> : v \in DOMAIN disk.snapshot}
           \union {<<"targets", b>> : b \in disk.blobs} |->
        IF k = <<"metadata", "timestamp">> THEN disk.timestamp
        ELSE IF k = <<"catalog", "snapshot">> THEN disk.catalog
        ELSE IF k[1] = "targets" THEN k[2]
        ELSE IF k[2] = "targets" THEN disk.targets[k[3]] ELSE disk.snapshot[k[3]]]

StartPush ==
    /\ pushed.ended # "under way" /\ disk.timestamp # NoFile
    /\ \A p \in Commands : cmd[p].pc = "idle"
    /\ plan' = DOMAIN Objects
    /\ pushed' = [objects |-> Objects, ended |-> "under way"]
    /\ UNCHANGED <<saved, files, disk, lock, cmd, rootVars, bookVars, edits, kills, remote>>

(* The directories go in order, the files of one in the order of the disk.  *)
NextObjects ==
    {k \in plan : \A i, j \in DOMAIN ExportOrder :
                      ExportOrder[i] = k[1] /\ j < i => ~\E l \in plan : l[1] = ExportOrder[j]}

(* FsStorageDriver compares the bytes, S3StorageDriver the sizes, of which  *)
(* any two documents of one kind may have the same.                          *)
SameObject(key, bytes) ==
    IF remote[key] = bytes THEN {TRUE} ELSE IF Backend = "s3" THEN {TRUE, FALSE} ELSE {FALSE}

PushEnds(how) == plan' = {} /\ pushed' = [pushed EXCEPT !.ended = how]

PutObject(k) ==
    /\ LET bytes == pushed.objects[k] IN
       IF k \notin DOMAIN remote
       THEN remote' = Put(remote, k, bytes) /\ plan' = plan \ {k} /\ UNCHANGED pushed
       ELSE /\ UNCHANGED remote
            /\ \E same \in SameObject(k, bytes) :
                   IF same THEN plan' = plan \ {k} /\ UNCHANGED pushed
                   ELSE PushEnds("conflict")
    /\ UNCHANGED <<saved, files, disk, lock, cmd, rootVars, bookVars, edits, kills>>

PushFails ==
    /\ pushed.ended = "under way" /\ kills < MaxKills
    /\ kills' = kills + 1
    /\ PushEnds("failed")
    /\ UNCHANGED <<saved, files, disk, lock, cmd, rootVars, bookVars, edits, remote>>

PushDone ==
    /\ pushed.ended = "under way" /\ plan = {}
    /\ PushEnds("ok")
    /\ UNCHANGED <<saved, files, disk, lock, cmd, rootVars, bookVars, edits, kills, remote>>

SourceNext ==
    \/ \E p \in Commands :
           \/ \E t \in Tools : \/ StartRemove(p, t)
                               \/ \E c \in Channels, b \in Bytes : StartAdd(p, t, c, b)
           \/ CopyPackage(p) \/ SaveAdded(p) \/ SaveRemoved(p)
           \/ StartPublish(p) \/ ReserveVersion(p) \/ WriteTargets(p)
           \/ WriteTargetsDoc(p) \/ WriteSnapshotDoc(p) \/ WriteCatalog(p)
           \/ SavePublished(p) \/ CommitTimestamp(p)
           \/ RotateDocument(p) \/ BackUpRootKey(p) \/ WriteRootKey(p)
           \/ Kill(p)
    \/ RemoveStaleLock \/ StartPush \/ PushFails \/ PushDone
    \/ \E k \in NextObjects : PutObject(k)

SourceSafetySpec == SourceInit /\ [][SourceNext]_sourceVars

----------------------------------------------------------------------------
(* verifyRepository: each document is the one its parent names, and the     *)
(* target files are there.                                                  *)
Verifies(ts, targets, snapshot, blobs) ==
    /\ ts.version \in DOMAIN snapshot /\ snapshot[ts.version] = ts.names
    /\ ts.version \in DOMAIN targets /\ targets[ts.version] = snapshot[ts.version]
    /\ \A r \in targets[ts.version].rows : r[3] \in blobs

(* The chain of roots a client walks from the one it pinned.                *)
RootChain == \A i \in 2..Len(roots) : {roots[i - 1].key, roots[i].key} \subseteq roots[i].signers

(* Readers see the graph of the last publication or of the one before, at   *)
(* every write and after every kill (source.mjs:411); its files are those   *)
(* the rows were added with.                                                *)
ReadersSeeAGraph ==
    disk.timestamp # NoFile =>
        Verifies(disk.timestamp, disk.targets, disk.snapshot, disk.blobs)

(* Once a publication is committed, and until another one reaches its       *)
(* catalog, `validate` finds the catalog bound to the targets.              *)
CatalogBound == ~torn /\ disk.timestamp # NoFile => disk.catalog = disk.timestamp.names

(* A push that ended well left in the storage what it read, and a client of *)
(* the storage verifies it.                                                 *)
PushedAsRead ==
    pushed.ended = "ok" =>
        /\ \A k \in DOMAIN pushed.objects : k \in DOMAIN remote /\ remote[k] = pushed.objects[k]
        /\ LET ts == remote[<<"metadata", "timestamp">>] IN
               /\ remote[<<"metadata", "snapshot", ts.version>>] = ts.names
               /\ remote[<<"metadata", "targets", ts.version>>] = ts.names

(* No version is below a published document's, rotations that were not cut  *)
(* off keep the chain of roots, and every part of the directory is as the   *)
(* parts above say.                                                         *)
SourceInv ==
    /\ saved.rows \subseteq Rows /\ lock \in Commands \union {Free}
    /\ \A v \in DOMAIN disk.targets : v <= saved.version
    /\ CatalogBound /\ PushedAsRead
    /\ ~cutOff => RootChain

(* A reserved version is never reused (source.mjs:320): the documents of a  *)
(* version are written once.                                                *)
WrittenOnce(before, after) == \A v \in DOMAIN before : after[v] = before[v]
VersionsWrittenOnce ==
    [][WrittenOnce(disk.targets, disk'.targets) /\ WrittenOnce(disk.snapshot, disk'.snapshot)]_sourceVars

(* What was published stays readable and as it was, under every kill and    *)
(* every overlap the lock allows (publishLocked, pushStorage).              *)
PublishedStays == [](ReadersSeeAGraph /\ SourceInv) /\ VersionsWrittenOnce
=============================================================================
