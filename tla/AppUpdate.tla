----------------------------- MODULE AppUpdate -----------------------------
(***************************************************************************)
(* The portable client's updater (crates/useful-bootstrap): "check" saves  *)
(* an offered update under update/pending, "apply" verifies it, backs up   *)
(* the files it replaces, replaces them one at a time, starts the new      *)
(* program and rolls back when it does not start.  Both are short-lived    *)
(* processes over one directory that nothing locks; the user may start     *)
(* the program meanwhile.  A file's content is the version it belongs to.  *)
(***************************************************************************)
EXTENDS Naturals, Sequences

CONSTANTS
    Procs,       \* bootstrap processes
    Files,       \* files of the portable directory
    Exe,         \* Useful.exe
    Versions,    \* released versions, in their order
    Base,        \* the version installed at first
    Package,     \* version -> the files its payload holds
    Broken,      \* versions whose program cannot be started
    Absent,      \* no such file
    Torn,        \* a file still being written
    KeepBackups, \* KEEP_BACKUPS
    UserStarts,  \* does the user start the program during updates
    MaxRuns, MaxCrashes, MaxFaults   \* bounds

ASSUME AppUpdateAssumption ==
    /\ Versions \subseteq Nat \ {0} /\ Base \in Versions \ Broken /\ Broken \subseteq Versions
    /\ Package \in [Versions -> SUBSET Files] /\ \A v \in Versions : Exe \in Package[v]
    /\ Absent \notin Versions \cup {Torn} /\ Torn \notin Versions
    /\ KeepBackups \in Nat \ {0} /\ UserStarts \in BOOLEAN
    /\ MaxRuns \in Nat /\ MaxCrashes \in Nat /\ MaxFaults \in Nat

VARIABLES
    app,        \* the installed files
    running,    \* is Useful.exe running
    current,    \* update/current-version.txt
    manifest,   \* update/pending/update-manifest.json
    payload,    \* update/pending/payload.zip
    staged,     \* update/staging
    backups,    \* backup/<version>-<time>, oldest first
    pc, my,     \* per process: position in its command, and its locals
    runs, crashes, faults

pending == <<manifest, payload>>
disk == <<app, current, pending, staged, backups>>
bounds == <<runs, crashes, faults>>
vars == <<disk, running, pc, my, bounds>>

\* How a process ended, and where it may be in between.
Ended == {"ok", "failed", "killed"}
Saving == {"openManifest", "saveManifest", "openPayload", "savePayload"}
Replacing == {"extract", "backup", "replace", "rename", "spawn", "record", "finish",
              "rollback", "respawn"}
Applying == Replacing \cup {"read", "verify", "exited"}
PCs == Ended \cup Saving \cup Applying

\* Locals: the manifest and payload in memory, the version found installed, the files
\* a loop has yet to visit, and the file and content of a replacement under way.
Locals(m) == [man |-> m, pay |-> Absent, cur |-> Base, left |-> {}, file |-> Exe, tmp |-> Absent]
FileSystem == [Files -> Versions \cup {Absent}]
NoFiles == [f \in Files |-> Absent]

Init ==
    /\ app = [f \in Files |-> IF f \in Package[Base] THEN Base ELSE Absent]
    /\ running = FALSE /\ current = Base
    /\ manifest = Absent /\ payload = Absent
    /\ staged = NoFiles /\ backups = <<>>
    /\ pc = [p \in Procs |-> "ok"] /\ my = [p \in Procs |-> Locals(Absent)]
    /\ runs = 0 /\ crashes = 0 /\ faults = 0

Step(p, here, there) == pc[p] = here /\ pc' = [pc EXCEPT ![p] = there]
Exit(p, how) == pc' = [pc EXCEPT ![p] = how] /\ my' = [my EXCEPT ![p] = Locals(Absent)]
Keep(p, locals) == my' = [my EXCEPT ![p] = locals]
Begin(p, there, locals) ==
    /\ pc[p] \in Ended /\ pc' = [pc EXCEPT ![p] = there] /\ Keep(p, locals)
    /\ runs < MaxRuns /\ runs' = runs + 1
    /\ UNCHANGED <<crashes, faults>>
Startable == app[Exe] \in Versions \ Broken

\* current_version: a missing or unreadable record counts as 0.0.0.
InstalledVersion == IF current = Torn THEN 0 ELSE current

\* --------------------------------------------------------- faulty variants
\* Operations below with a plausible mistake; no part of Next.

VerifiesAnyBytes(m, c, cur) == m \in Versions /\ c \in Versions /\ m > cur
VerifiesAnyVersion(m, c, cur) == m \in Versions /\ c = m

ExtractReusingBackup(p) ==
    /\ Step(p, "extract", "backup")
    /\ staged' = [f \in Files |-> IF f \in Package[my[p].pay] THEN my[p].pay ELSE Absent]
    /\ backups' = IF backups # <<>> /\ backups[Len(backups)].of = my[p].cur THEN backups
                  ELSE Append(backups, [of |-> my[p].cur, files |-> NoFiles])
    /\ Keep(p, [my[p] EXCEPT !.left = Package[my[p].pay]])
    /\ UNCHANGED <<app, current, pending, running, bounds>>

\* ------------------------------------------------------------------- check

\* The feed offers version v, newer than the recorded one; it is downloaded and
\* verified before anything is written.
Check(p, v) ==
    /\ v > InstalledVersion
    /\ Begin(p, "openManifest", Locals(v))
    /\ UNCHANGED <<disk, running>>

\* std::fs::write truncates, then writes; the manifest first, then the payload.
OpenManifest(p) ==
    /\ Step(p, "openManifest", "saveManifest") /\ manifest' = Torn
    /\ UNCHANGED <<app, current, payload, staged, backups, running, my, bounds>>
SaveManifest(p) ==
    /\ Step(p, "saveManifest", "openPayload") /\ manifest' = my[p].man
    /\ UNCHANGED <<app, current, payload, staged, backups, running, my, bounds>>
OpenPayload(p) ==
    /\ Step(p, "openPayload", "savePayload") /\ payload' = Torn
    /\ UNCHANGED <<app, current, manifest, staged, backups, running, my, bounds>>
SavePayload(p) ==
    /\ pc[p] = "savePayload" /\ payload' = my[p].man
    /\ Exit(p, "ok")
    /\ UNCHANGED <<app, current, manifest, staged, backups, running, bounds>>

\* ------------------------------------------------------------------- apply

\* One apply at a time (assumed: nothing in the code enforces it).
Apply(p) ==
    /\ \A q \in Procs : pc[q] \notin Applying
    /\ manifest # Absent
    /\ Begin(p, "read", Locals(manifest))
    /\ UNCHANGED <<disk, running>>

ReadPayload(p) ==
    /\ Step(p, "read", "verify")
    /\ Keep(p, [my[p] EXCEPT !.pay = payload])
    /\ UNCHANGED <<disk, running, bounds>>

\* verify_update: a strict upgrade whose payload is the one the manifest signs.
Verifies(m, c, cur) == m \in Versions /\ c = m /\ m > cur
Verify(p) ==
    /\ pc[p] = "verify"
    /\ IF Verifies(my[p].man, my[p].pay, InstalledVersion)
       THEN Step(p, "verify", "exited") /\ Keep(p, [my[p] EXCEPT !.cur = InstalledVersion])
       ELSE Exit(p, "failed")
    /\ UNCHANGED <<disk, running, bounds>>

\* Whether the program runs is asked once, before the first file is touched.
EnsureAppExited(p) ==
    /\ pc[p] = "exited"
    /\ IF running THEN Exit(p, "failed") ELSE Step(p, "exited", "extract") /\ UNCHANGED my
    /\ UNCHANGED <<disk, running, bounds>>

\* Unpacks the verified payload and makes an empty backup directory.
ExtractPayload(p) ==
    /\ Step(p, "extract", "backup")
    /\ staged' = [f \in Files |-> IF f \in Package[my[p].pay] THEN my[p].pay ELSE Absent]
    /\ backups' = Append(backups, [of |-> my[p].cur, files |-> NoFiles])
    /\ Keep(p, [my[p] EXCEPT !.left = Package[my[p].pay]])
    /\ UNCHANGED <<app, current, pending, running, bounds>>

BackupFile(p) ==
    /\ pc[p] = "backup"
    /\ \E f \in my[p].left :
          /\ backups' = [backups EXCEPT ![Len(backups)].files[f] = app[f]]
          /\ Keep(p, [my[p] EXCEPT !.left = @ \ {f}])
    /\ UNCHANGED <<app, current, pending, staged, running, pc, bounds>>
BackupDone(p) ==
    /\ Step(p, "backup", "replace") /\ my[p].left = {}
    /\ Keep(p, [my[p] EXCEPT !.left = Package[my[p].pay]])
    /\ UNCHANGED <<disk, running, bounds>>

\* One file: copy the new one beside it, remove the old one, which a running program
\* prevents, and rename.
RemoveOld(p) ==
    /\ pc[p] = "replace"
    /\ \E f \in my[p].left :
          IF f = Exe /\ running
          THEN Exit(p, "failed") /\ UNCHANGED app
          ELSE /\ Step(p, "replace", "rename")
               /\ app' = [app EXCEPT ![f] = Absent]
               /\ Keep(p, [my[p] EXCEPT !.file = f, !.tmp = staged[f], !.left = @ \ {f}])
    /\ UNCHANGED <<current, pending, staged, backups, running, bounds>>
RenameNew(p) ==
    /\ Step(p, "rename", IF my[p].left = {} THEN "spawn" ELSE "replace")
    /\ app' = [app EXCEPT ![my[p].file] = my[p].tmp]
    /\ UNCHANGED <<current, pending, staged, backups, running, my, bounds>>

\* A program that starts ends the update; one that does not is rolled back.
BackedUp == LET b == backups[Len(backups)].files IN {f \in Files : b[f] # Absent}
Spawn(p) ==
    /\ pc[p] = "spawn"
    /\ IF Startable
       THEN Step(p, "spawn", "record") /\ running' = TRUE /\ UNCHANGED my
       ELSE /\ Step(p, "spawn", "rollback") /\ UNCHANGED running
            /\ Keep(p, [my[p] EXCEPT !.left = BackedUp])
    /\ UNCHANGED <<disk, bounds>>

RecordVersion(p) ==
    /\ Step(p, "record", "finish") /\ current' = my[p].man
    /\ UNCHANGED <<app, pending, staged, backups, running, my, bounds>>

\* Removes pending and staging and all but the newest backups; errors are ignored.
Finish(p) ==
    /\ pc[p] = "finish" /\ Exit(p, "ok")
    /\ manifest' = Absent /\ payload' = Absent /\ staged' = NoFiles
    /\ backups' = IF Len(backups) <= KeepBackups THEN backups
                  ELSE SubSeq(backups, Len(backups) - KeepBackups + 1, Len(backups))
    /\ UNCHANGED <<app, current, running, bounds>>

\* Copies the newest backup back; files it does not hold stay.
RestoreFile(p) ==
    /\ pc[p] = "rollback"
    /\ \E f \in my[p].left :
          /\ app' = [app EXCEPT ![f] = backups[Len(backups)].files[f]]
          /\ Keep(p, [my[p] EXCEPT !.left = @ \ {f}])
    /\ UNCHANGED <<current, pending, staged, backups, running, pc, bounds>>
RestoreDone(p) ==
    /\ Step(p, "rollback", "respawn") /\ my[p].left = {}
    /\ UNCHANGED <<disk, running, my, bounds>>
Respawn(p) ==
    /\ pc[p] = "respawn" /\ Exit(p, "failed")
    /\ running' = (running \/ Startable)
    /\ UNCHANGED <<disk, bounds>>

\* --------------------------------------------------- user, errors, crashes

UserStart == UserStarts /\ ~running /\ Startable /\ running' = TRUE
             /\ UNCHANGED <<disk, pc, my, bounds>>
UserExit == running /\ running' = FALSE /\ UNCHANGED <<disk, pc, my, bounds>>

\* A write of the version record that is cut short leaves the old one or an empty file.
RecordCut(p) == IF pc[p] = "record" THEN current' \in {current, Torn} ELSE UNCHANGED current

\* A file operation fails.  Before the program is started that ends the command with
\* 1; afterwards the error is ignored, and the version or the clean-up is lost.
Fail(p) ==
    /\ faults < MaxFaults /\ faults' = faults + 1
    /\ \/ pc[p] \in {"record", "finish"}
          /\ IF pc[p] = "record" THEN Step(p, "record", "finish") /\ UNCHANGED my
                                 ELSE Exit(p, "ok")
       \/ pc[p] \in (Saving \cup Replacing) \ {"record", "finish", "spawn", "respawn"}
          /\ Exit(p, "failed")
    /\ RecordCut(p)
    /\ UNCHANGED <<app, pending, staged, backups, running, runs, crashes>>

Crash(p) ==
    /\ crashes < MaxCrashes /\ crashes' = crashes + 1
    /\ pc[p] \notin Ended /\ Exit(p, "killed")
    /\ RecordCut(p)
    /\ UNCHANGED <<app, pending, staged, backups, running, runs, faults>>

Quiescent == (\A p \in Procs : pc[p] \in Ended) /\ UNCHANGED vars

Next ==
    \/ \E p \in Procs, v \in Versions : Check(p, v)
    \/ \E p \in Procs :
          \/ OpenManifest(p) \/ SaveManifest(p) \/ OpenPayload(p) \/ SavePayload(p)
          \/ Apply(p) \/ ReadPayload(p) \/ Verify(p) \/ EnsureAppExited(p)
          \/ ExtractPayload(p) \/ BackupFile(p) \/ BackupDone(p)
          \/ RemoveOld(p) \/ RenameNew(p) \/ Spawn(p) \/ RecordVersion(p) \/ Finish(p)
          \/ RestoreFile(p) \/ RestoreDone(p) \/ Respawn(p) \/ Fail(p) \/ Crash(p)
    \/ UserStart \/ UserExit \/ Quiescent

Spec == Init /\ [][Next]_vars

\* ------------------------------------------------------------- properties

\* The directory keeps its shape; nothing torn is ever unpacked or installed.
TypeOK ==
    /\ app \in FileSystem /\ staged \in FileSystem /\ running \in BOOLEAN
    /\ current \in Versions \cup {Torn}
    /\ manifest \in Versions \cup {Absent, Torn} /\ payload \in Versions \cup {Absent, Torn}
    /\ Len(backups) <= MaxRuns
    /\ \A n \in DOMAIN backups : backups[n] \in [of : Versions \cup {0}, files : FileSystem]
    /\ pc \in [Procs -> PCs]
    /\ my \in [Procs -> [man : Versions \cup {Absent, Torn}, pay : Versions \cup {Absent, Torn},
                         cur : Versions \cup {0}, left : SUBSET Files, file : Files,
                         tmp : Versions \cup {Absent}]]
    /\ runs \in 0..MaxRuns /\ crashes \in 0..MaxCrashes /\ faults \in 0..MaxFaults

Whole(v) == \A f \in Package[v] : app[f] = v

\* A version is recorded only over all of its files, whatever a concurrent check does
\* to the pending pair (cmd_apply, current-version.txt).
RecordedIsWhole == [][current' # current /\ current' # Torn => Whole(current')]_vars

\* A recorded version is only replaced by a newer one: an update saved before a newer one
\* was applied is refused (verify_update, strict upgrade).
NeverDowngrades == [][current # Torn /\ current' # Torn => current' >= current]_vars

\* Whatever fails, is killed or is started halfway, and however often apply is retried,
\* no file of the installed program is lost: some version that starts has each of its
\* files in place or in a backup (backup/ as the source of a rollback).
Recoverable == \E v \in Versions \ Broken : \A f \in Package[v] :
    app[f] = v \/ \E n \in DOMAIN backups : backups[n].files[f] = v

\* The directory at any moment.
UpdaterInv == TypeOK /\ Recoverable

\* After a rollback the recorded version is installed again, all of it
\* (docs/BETA-UPGRADE-ROLLBACK.md:44).
RolledBackMeansOld == \A p \in Procs : pc[p] = "respawn" /\ my[p].cur # 0 => Whole(my[p].cur)
=============================================================================
