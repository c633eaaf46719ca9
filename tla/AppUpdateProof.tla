--------------------------- MODULE AppUpdateProof ---------------------------
(***************************************************************************)
(* Theorems about what runs on a user's machine, for any parameters.       *)
(* AppUpdate: the inductive invariant UpdateInv, and from it that no file  *)
(* of the installed program is lost, that a recorded version is complete   *)
(* and that it is only replaced by a newer one.  PluginBridge, VideoTrim   *)
(* and the throttle of VideoTimeline: an inductive invariant each, and     *)
(* from it what the desktop program promises of them.                      *)
(***************************************************************************)
EXTENDS AppUpdate, PluginBridge, VideoTrim, VideoTimeline, FiniteSetTheorems, TLAPS

-----------------------------------------------------------------------------
(* The inductive invariant, in named parts.                                 *)

\* A backup directory, and the files of the newest one.
Backup == [of : Versions \cup {0}, files : FileSystem]
Newest == backups[Len(backups)].files

\* Where an apply has verified its payload, and where it has yet to make its backup.
Upgrading == Replacing \cup {"exited"}
Starting == {"read", "verify", "exited", "extract"}

\* One apply at a time is under way.
OneApply == \A p, q \in Procs : pc[p] \in Applying /\ pc[q] \in Applying => p = q

\* Each apply makes at most one backup directory.
Counted ==
    /\ Len(backups) <= runs
    /\ (\E p \in Procs : pc[p] \in Starting) => Len(backups) + 1 <= runs

\* A verified payload is the one of its manifest and newer than the record, which stands
\* until this apply writes it.
Verified(p) ==
    pc[p] \in Upgrading =>
        /\ my[p].man \in Versions /\ my[p].pay = my[p].man
        /\ pc[p] # "finish" => my[p].cur = InstalledVersion /\ my[p].man > my[p].cur

\* The payload is unpacked as a whole before the first file is touched.
Unpacked(p) ==
    pc[p] \in {"backup", "replace", "rename"} =>
        /\ my[p].left \subseteq Package[my[p].man]
        /\ \A f \in Package[my[p].man] : staged[f] = my[p].man

\* The newest backup has the files of this payload that were installed, and no others;
\* what is not replaced yet is there as it is.
BackupTaken(p) ==
    /\ pc[p] \in {"backup", "replace", "rename", "spawn", "rollback"} => Len(backups) > 0
    /\ pc[p] \in {"backup", "replace", "rename", "spawn"} =>
          \A f \in Files \ Package[my[p].man] : Newest[f] = Absent
    /\ pc[p] = "backup" =>
          \A f \in my[p].left : Newest[f] = Absent
    /\ pc[p] = "backup" =>
          \A f \in Package[my[p].man] \ my[p].left : Newest[f] = app[f]
    /\ pc[p] \in {"replace", "rename"} => \A f \in my[p].left : Newest[f] = app[f]

\* What was replaced is of the new version, until all of it is; a program that was
\* started is one that starts.
Replaced(p) ==
    /\ pc[p] = "replace" => \A f \in Package[my[p].man] \ my[p].left : app[f] = my[p].man
    /\ pc[p] = "rename" =>
          /\ my[p].file \in Package[my[p].man] \ my[p].left /\ my[p].tmp = my[p].man
          /\ app[my[p].file] = Absent
          /\ \A f \in Package[my[p].man] \ my[p].left : f # my[p].file => app[f] = my[p].man
    /\ pc[p] \in {"spawn", "record", "finish"} => Whole(my[p].man)
    /\ pc[p] \in {"record", "finish"} => my[p].man \notin Broken

\* A rollback overwrites only files of a version that does not start.
RollsBack(p) ==
    pc[p] = "rollback" =>
        my[p].man \in Broken /\ \A f \in my[p].left : app[f] = my[p].man

ApplyInv(p) == Verified(p) /\ Unpacked(p) /\ BackupTaken(p) /\ Replaced(p) /\ RollsBack(p)

UpdateInv ==
    /\ TypeOK /\ backups \in Seq(Backup)
    /\ OneApply /\ Counted /\ Recoverable
    /\ \A p \in Procs : ApplyInv(p)

-----------------------------------------------------------------------------
(* Moves of one process.                                                    *)

\* What a step of process p leaves alone in the other processes.
OthersStand(p) == \A q \in Procs : q # p => pc'[q] = pc[q] /\ my'[q] = my[q]

LocalVars == [man : Versions \cup {Absent, Torn}, pay : Versions \cup {Absent, Torn},
              cur : Versions \cup {0}, left : SUBSET Files, file : Files,
              tmp : Versions \cup {Absent}]

\* Packages hold the program; the locals a command starts with are well typed.
LEMMA LocalsTyped ==
  ASSUME NEW m \in Versions \cup {Absent, Torn}
  PROVE  /\ Locals(m) \in LocalVars /\ Locals(m).man = m
         /\ Exe \in Files /\ \A v \in Versions : Package[v] \subseteq Files /\ Exe \in Package[v]
  BY AppUpdateAssumption DEF AppUpdateAssumption, Locals, LocalVars

\* A command that ends is where it ended, and nobody else moves.
LEMMA Exited ==
  ASSUME TypeOK, NEW p \in Procs, NEW how \in Ended, Exit(p, how)
  PROVE  /\ pc' \in [Procs -> PCs] /\ my' \in [Procs -> LocalVars]
         /\ pc'[p] = how /\ OthersStand(p)
  BY LocalsTyped DEF Exit, TypeOK, PCs, LocalVars, OthersStand

\* A command that goes on with new locals.
LEMMA Moved ==
  ASSUME TypeOK, NEW p \in Procs, NEW there \in PCs, pc' = [pc EXCEPT ![p] = there],
         NEW l \in LocalVars, Keep(p, l)
  PROVE  /\ pc' \in [Procs -> PCs] /\ my' \in [Procs -> LocalVars]
         /\ pc'[p] = there /\ my'[p] = l /\ OthersStand(p)
  BY DEF Keep, TypeOK, LocalVars, OthersStand

\* One that goes on with the locals it has.
LEMMA WentOn ==
  ASSUME TypeOK, NEW p \in Procs, NEW here \in PCs, NEW there \in PCs, Step(p, here, there),
         UNCHANGED my
  PROVE  /\ pc' \in [Procs -> PCs] /\ my' \in [Procs -> LocalVars]
         /\ pc[p] = here /\ pc'[p] = there /\ my'[p] = my[p] /\ OthersStand(p)
  BY DEF Step, TypeOK, LocalVars, OthersStand

\* Under way alone: while p applies nobody else does, before and after its step.
LEMMA Alone ==
  ASSUME UpdateInv, NEW p \in Procs, pc[p] \in Applying, OthersStand(p)
  PROVE  /\ OneApply'
         /\ \A q \in Procs : q # p => pc[q] \notin Applying /\ pc'[q] \notin Applying
         /\ \A q \in Procs : q # p => ApplyInv(q)'
  <1>1. \A q \in Procs : q # p => pc[q] \notin Applying /\ pc'[q] \notin Applying
    BY DEF UpdateInv, OneApply, OthersStand
  <1>2. \A q \in Procs : q # p => ApplyInv(q)'
    BY <1>1 DEF ApplyInv, Verified, Unpacked, BackupTaken, Replaced, RollsBack, Upgrading,
                Applying, Replacing
  <1>3. QED
    BY <1>1, <1>2 DEF OneApply

\* A step outside apply that leaves the directory alone, and a command that ends, keep
\* what the apply under way relies on.
LEMMA Beside ==
  ASSUME UpdateInv, NEW p \in Procs, OthersStand(p), pc'[p] \notin Applying,
         pc' \in [Procs -> PCs], my' \in [Procs -> LocalVars],
         UNCHANGED <<app, staged, backups>>,
         pc[p] \in Applying \/ UNCHANGED current, current' \in Versions \cup {Torn},
         runs' >= runs, runs' \in 0..MaxRuns, crashes' \in 0..MaxCrashes,
         faults' \in 0..MaxFaults, running' \in BOOLEAN,
         manifest' \in Versions \cup {Absent, Torn}, payload' \in Versions \cup {Absent, Torn}
  PROVE  UpdateInv'
  <1>1. TypeOK' /\ (backups \in Seq(Backup))'
    BY DEF UpdateInv, TypeOK, LocalVars, Backup, FileSystem
  <1>2. OneApply' /\ Counted'
    <2>1. OneApply'
      BY DEF UpdateInv, OneApply, OthersStand
    <2>2. \A q \in Procs : pc'[q] \in Starting => pc[q] \in Starting
      <3>1. pc'[p] \notin Starting
        BY DEF Starting, Applying, Replacing
      <3>2. QED
        BY <3>1 DEF OthersStand
    <2>3. Len(backups) \in Nat /\ Len(backups') = Len(backups) /\ runs \in Nat /\ runs' \in Nat
      BY AppUpdateAssumption DEF UpdateInv, TypeOK, AppUpdateAssumption
    <2>4. QED
      BY <2>1, <2>2, <2>3 DEF UpdateInv, Counted
  <1>3. Recoverable'
    BY DEF UpdateInv, Recoverable
  <1>4. ASSUME NEW q \in Procs PROVE ApplyInv(q)'
    <2>1. CASE pc'[q] \notin Applying
      BY <2>1 DEF ApplyInv, Verified, Unpacked, BackupTaken, Replaced, RollsBack, Upgrading,
                  Applying, Replacing
    <2>2. CASE pc'[q] \in Applying
      <3>1. q # p /\ pc[q] \in Applying /\ pc[p] \notin Applying
        BY <2>2 DEF UpdateInv, OneApply, OthersStand
      <3>2. UNCHANGED current /\ pc'[q] = pc[q] /\ my'[q] = my[q] /\ ApplyInv(q)
        BY <3>1 DEF UpdateInv, OthersStand
      <3>3. QED
        BY <3>2 DEF ApplyInv, Verified, Unpacked, BackupTaken, Replaced, RollsBack,
                    InstalledVersion, Newest, Whole
    <2>3. QED
      BY <2>1, <2>2
  <1>5. QED
    BY <1>1, <1>2, <1>3, <1>4 DEF UpdateInv

\* What an applying step of p has to show when it keeps the backups as they are and does
\* not go back to the start.
LEMMA OnwardFaulting ==
  ASSUME UpdateInv, NEW p \in Procs, pc[p] \in Applying, OthersStand(p),
         pc'[p] \in Starting => pc[p] \in Starting,
         pc' \in [Procs -> PCs], my' \in [Procs -> LocalVars],
         app' \in FileSystem, staged' \in FileSystem, running' \in BOOLEAN,
         current' \in Versions \cup {Torn},
         UNCHANGED <<backups, manifest, payload, runs, crashes>>, faults' \in 0..MaxFaults,
         Recoverable', ApplyInv(p)'
  PROVE  UpdateInv'
  <1>1. TypeOK' /\ (backups \in Seq(Backup))'
    BY DEF UpdateInv, TypeOK, LocalVars, Backup
  <1>2. OneApply' /\ \A q \in Procs : ApplyInv(q)'
    BY Alone
  <1>3. Counted'
    <2>1. (\E q \in Procs : pc'[q] \in Starting) => \E q \in Procs : pc[q] \in Starting
      BY Alone DEF Starting, Applying, Replacing
    <2>2. QED
      BY <2>1 DEF UpdateInv, Counted
  <1>4. QED
    BY <1>1, <1>2, <1>3 DEF UpdateInv

\* The same of a step that is not a fault.
LEMMA Onward ==
  ASSUME UpdateInv, NEW p \in Procs, pc[p] \in Applying, OthersStand(p),
         pc'[p] \in Starting => pc[p] \in Starting,
         pc' \in [Procs -> PCs], my' \in [Procs -> LocalVars],
         app' \in FileSystem, staged' \in FileSystem, running' \in BOOLEAN,
         current' \in Versions \cup {Torn},
         UNCHANGED <<backups, manifest, payload, bounds>>,
         Recoverable', ApplyInv(p)'
  PROVE  UpdateInv'
  BY OnwardFaulting DEF UpdateInv, TypeOK, bounds

-----------------------------------------------------------------------------
(* Every step keeps the invariant.                                          *)

\* A check writes only under update/pending.
LEMMA CheckKeeps ==
  ASSUME UpdateInv, NEW p \in Procs,
         \/ \E v \in Versions : Check(p, v)
         \/ OpenManifest(p) \/ SaveManifest(p) \/ OpenPayload(p) \/ SavePayload(p)
  PROVE  UpdateInv'
  <1>1. /\ pc' \in [Procs -> PCs] /\ my' \in [Procs -> LocalVars]
        /\ OthersStand(p) /\ pc'[p] \notin Applying
    <2>1. ASSUME NEW v \in Versions, Check(p, v)
          PROVE  pc' = [pc EXCEPT ![p] = "openManifest"] /\ Keep(p, Locals(v))
      BY <2>1 DEF Check, Begin
    <2>2. CASE \E v \in Versions : Check(p, v)
      BY <2>1, <2>2, LocalsTyped, Moved DEF UpdateInv, PCs, Saving, Applying, Replacing
    <2>3. CASE OpenManifest(p)
      <3>1. Step(p, "openManifest", "saveManifest") /\ UNCHANGED my /\ TypeOK
        BY <2>3 DEF UpdateInv, OpenManifest
      <3>2. QED
        BY <3>1, WentOn DEF PCs, Saving, Applying, Replacing
    <2>4. CASE SaveManifest(p)
      <3>1. Step(p, "saveManifest", "openPayload") /\ UNCHANGED my /\ TypeOK
        BY <2>4 DEF UpdateInv, SaveManifest
      <3>2. QED
        BY <3>1, WentOn DEF PCs, Saving, Applying, Replacing
    <2>5. CASE OpenPayload(p)
      <3>1. Step(p, "openPayload", "savePayload") /\ UNCHANGED my /\ TypeOK
        BY <2>5 DEF UpdateInv, OpenPayload
      <3>2. /\ "openPayload" \in PCs /\ "savePayload" \in PCs
            /\ "savePayload" \notin Applying
        BY DEF PCs, Saving, Applying, Replacing
      <3>3. QED
        BY <3>1, <3>2, WentOn
    <2>6. CASE SavePayload(p)
      BY <2>6, Exited DEF UpdateInv, SavePayload, Ended, Applying, Replacing
    <2>7. QED
      BY <2>2, <2>3, <2>4, <2>5, <2>6
  <1>2. /\ UNCHANGED <<app, current, staged, backups, running>>
        /\ runs' >= runs /\ runs' \in 0..MaxRuns /\ UNCHANGED <<crashes, faults>>
    BY AppUpdateAssumption
    DEF UpdateInv, TypeOK, AppUpdateAssumption, Check, Begin, OpenManifest, SaveManifest,
        OpenPayload, SavePayload, disk, pending, bounds
  <1>3. manifest' \in Versions \cup {Absent, Torn} /\ payload' \in Versions \cup {Absent, Torn}
    BY DEF UpdateInv, TypeOK, Check, OpenManifest, SaveManifest, OpenPayload, SavePayload,
           disk, pending
  <1>4. QED
    BY <1>1, <1>2, <1>3, Beside DEF UpdateInv, TypeOK

\* An apply begins when no other is under way.
LEMMA ApplyKeeps ==
  ASSUME UpdateInv, NEW p \in Procs, Apply(p)
  PROVE  UpdateInv'
  <1>1. /\ pc' \in [Procs -> PCs] /\ my' \in [Procs -> LocalVars]
        /\ OthersStand(p) /\ pc'[p] = "read"
    <2>1. pc' = [pc EXCEPT ![p] = "read"] /\ Keep(p, Locals(manifest))
      BY DEF Apply, Begin
    <2>2. manifest \in Versions \cup {Absent, Torn}
      BY DEF UpdateInv, TypeOK
    <2>3. QED
      BY <2>1, <2>2, LocalsTyped, Moved DEF UpdateInv, PCs, Applying
  <1>2. /\ UNCHANGED <<app, current, pending, staged, backups, running, crashes, faults>>
        /\ runs' = runs + 1 /\ runs' \in 0..MaxRuns /\ runs \in Nat
        /\ \A q \in Procs : pc[q] \notin Applying
    BY AppUpdateAssumption DEF UpdateInv, TypeOK, AppUpdateAssumption, Apply, Begin, disk
  <1>3. TypeOK' /\ (backups \in Seq(Backup))' /\ Recoverable'
    BY <1>1, <1>2 DEF UpdateInv, TypeOK, LocalVars, Backup, Recoverable, pending
  <1>4. OneApply'
    BY <1>1, <1>2 DEF OneApply, OthersStand
  <1>5. Counted'
    <2>1. Len(backups) \in Nat /\ Len(backups') = Len(backups)
      BY <1>2 DEF UpdateInv
    <2>2. QED
      BY <1>2, <2>1 DEF UpdateInv, Counted
  <1>6. ASSUME NEW q \in Procs PROVE ApplyInv(q)'
    BY <1>1, <1>2 DEF ApplyInv, Verified, Unpacked, BackupTaken, Replaced, RollsBack, Upgrading,
                      OthersStand, Applying, Replacing
  <1>7. QED
    BY <1>3, <1>4, <1>5, <1>6 DEF UpdateInv

\* Reading the payload touches nothing.
LEMMA ReadPayloadKeeps ==
  ASSUME UpdateInv, NEW p \in Procs, ReadPayload(p)
  PROVE  UpdateInv'
  <1>1. [my[p] EXCEPT !.pay = payload] \in LocalVars
    BY ZenonT(60) DEF UpdateInv, TypeOK, LocalVars
  <1>2. /\ pc' \in [Procs -> PCs] /\ my' \in [Procs -> LocalVars]
        /\ OthersStand(p) /\ pc[p] = "read" /\ pc'[p] = "verify"
    BY <1>1, Moved DEF UpdateInv, ReadPayload, Step, PCs, Applying
  <1>3. UNCHANGED <<app, current, manifest, payload, staged, backups, running, bounds>>
    BY DEF ReadPayload, disk, pending
  <1>4. Recoverable' /\ ApplyInv(p)'
    BY <1>2, <1>3 DEF UpdateInv, Recoverable, ApplyInv, Verified, Unpacked, BackupTaken,
                      Replaced, RollsBack, Upgrading, Replacing
  <1>5. QED
    BY <1>2, <1>3, <1>4, Onward DEF UpdateInv, TypeOK, Starting, Applying

\* Only a payload that its manifest signs and that is newer than the record goes on.
LEMMA VerifyKeeps ==
  ASSUME UpdateInv, NEW p \in Procs, Verify(p)
  PROVE  UpdateInv'
  <1>1. UNCHANGED <<app, current, manifest, payload, staged, backups, running, bounds>>
    BY DEF Verify, disk, pending
  <1>2. InstalledVersion \in Versions \cup {0} /\ UNCHANGED InstalledVersion
    BY <1>1 DEF UpdateInv, TypeOK, InstalledVersion
  <1>3. CASE Verifies(my[p].man, my[p].pay, InstalledVersion)
    <2>1. [my[p] EXCEPT !.cur = InstalledVersion] \in LocalVars
      BY <1>2, ZenonT(60) DEF UpdateInv, TypeOK, LocalVars
    <2>2. /\ pc' \in [Procs -> PCs] /\ my' \in [Procs -> LocalVars]
          /\ OthersStand(p) /\ pc[p] = "verify" /\ pc'[p] = "exited"
          /\ my'[p] = [my[p] EXCEPT !.cur = InstalledVersion]
      BY <1>3, <2>1, Moved DEF UpdateInv, Verify, Step, PCs, Applying
    <2>3. Verified(p)'
      BY <1>1, <1>2, <1>3, <2>2
      DEF UpdateInv, TypeOK, Verified, Verifies
    <2>4. ApplyInv(p)'
      BY <2>2, <2>3 DEF ApplyInv, Unpacked, BackupTaken, Replaced, RollsBack
    <2>5. Recoverable'
      BY <1>1 DEF UpdateInv, Recoverable
    <2>6. QED
      BY <1>1, <2>2, <2>4, <2>5, Onward DEF UpdateInv, TypeOK, Starting, Applying
  <1>4. CASE ~Verifies(my[p].man, my[p].pay, InstalledVersion)
    BY <1>1, <1>4, Exited, Beside DEF UpdateInv, TypeOK, Verify, Ended, Applying, Replacing, bounds
  <1>5. QED
    BY <1>3, <1>4

\* So does an apply that finds the program ended.
LEMMA EnsureAppExitedKeeps ==
  ASSUME UpdateInv, NEW p \in Procs, EnsureAppExited(p)
  PROVE  UpdateInv'
  <1>1. UNCHANGED <<app, current, manifest, payload, staged, backups, running, bounds>>
    BY DEF EnsureAppExited, disk, pending
  <1>2. CASE running
    BY <1>1, <1>2, Exited, Beside
    DEF UpdateInv, TypeOK, EnsureAppExited, Ended, Applying, Replacing, bounds
  <1>3. CASE ~running
    <2>1. /\ pc' \in [Procs -> PCs] /\ my' \in [Procs -> LocalVars]
          /\ OthersStand(p) /\ pc[p] = "exited" /\ pc'[p] = "extract" /\ my'[p] = my[p]
      BY <1>3, WentOn DEF UpdateInv, EnsureAppExited, PCs, Applying, Replacing
    <2>2. ApplyInv(p)'
      BY <1>1, <2>1 DEF UpdateInv, ApplyInv, Verified, Unpacked, BackupTaken, Replaced,
                        RollsBack, Upgrading, Replacing, InstalledVersion
    <2>3. QED
      BY <1>1, <2>1, <2>2, Onward DEF UpdateInv, TypeOK, Recoverable, Starting, Applying
  <1>4. QED
    BY <1>2, <1>3

\* A new backup directory is empty; the payload is unpacked in one step.
LEMMA ExtractPayloadKeeps ==
  ASSUME UpdateInv, NEW p \in Procs, ExtractPayload(p)
  PROVE  UpdateInv'
  <1> DEFINE m == my[p].man
             b == [of |-> my[p].cur, files |-> NoFiles]
  <1>1. /\ m \in Versions /\ my[p].pay = m /\ Package[m] \subseteq Files
        /\ pc[p] = "extract" /\ pc[p] \in Applying /\ b \in Backup
    BY LocalsTyped DEF UpdateInv, ApplyInv, Verified, Upgrading, Replacing, Applying,
       ExtractPayload, Step, TypeOK, Backup, FileSystem, NoFiles
  <1>2. [my[p] EXCEPT !.left = Package[m]] \in LocalVars
    BY <1>1 DEF UpdateInv, TypeOK, LocalVars
  <1>3. /\ pc' \in [Procs -> PCs] /\ my' \in [Procs -> LocalVars]
        /\ OthersStand(p) /\ pc'[p] = "backup" /\ my'[p] = [my[p] EXCEPT !.left = Package[m]]
    <2>1. pc' = [pc EXCEPT ![p] = "backup"] /\ Keep(p, [my[p] EXCEPT !.left = Package[m]])
      BY <1>1 DEF ExtractPayload, Step
    <2>2. QED
      BY <1>2, <2>1, Moved DEF UpdateInv, PCs, Applying, Replacing
  <1>4. /\ UNCHANGED <<app, current, manifest, payload, running, runs, crashes, faults>>
        /\ staged' = [f \in Files |-> IF f \in Package[m] THEN m ELSE Absent]
        /\ backups' = Append(backups, b)
    BY <1>1 DEF ExtractPayload, pending, bounds
  <1>5. /\ backups' \in Seq(Backup) /\ Len(backups') = Len(backups) + 1 /\ Len(backups) \in Nat
        /\ backups'[Len(backups')] = b
        /\ \A n \in DOMAIN backups : n \in DOMAIN backups' /\ backups'[n] = backups[n]
    BY <1>1, <1>4 DEF UpdateInv
  <1>6. \A q \in Procs : pc'[q] \notin Starting
    BY <1>1, <1>3, Alone DEF Starting, Applying, Replacing
  <1>7. Len(backups') <= runs /\ runs \in 0..MaxRuns
    BY <1>1, <1>5 DEF UpdateInv, Counted, Starting, TypeOK
  <1>8. TypeOK'
    <2>1. staged' \in FileSystem
      BY <1>1, <1>4 DEF FileSystem
    <2>2. \A n \in DOMAIN backups' : backups'[n] \in Backup
      BY <1>5
    <2>3. Len(backups') <= MaxRuns
      BY <1>5, <1>7, AppUpdateAssumption DEF AppUpdateAssumption
    <2>4. QED
      BY <1>3, <1>4, <2>1, <2>2, <2>3 DEF UpdateInv, TypeOK, LocalVars, Backup
  <1>9. Counted'
    BY <1>4, <1>6, <1>7 DEF Counted
  <1>10. Recoverable'
    BY <1>4, <1>5 DEF UpdateInv, Recoverable
  <1>11. ApplyInv(p)'
    <2>1. Verified(p)'
      BY <1>1, <1>3, <1>4 DEF UpdateInv, TypeOK, ApplyInv, Verified, Upgrading, Replacing,
                              InstalledVersion
    <2>2. my'[p].man = m /\ my'[p].left = Package[m]
      BY <1>3 DEF UpdateInv, TypeOK
    <2>3. Unpacked(p)'
      BY <1>1, <1>4, <2>2 DEF Unpacked
    <2>4. Newest' = NoFiles
      BY <1>5 DEF Newest
    <2>5. BackupTaken(p)'
      BY <1>1, <1>3, <1>5, <2>2, <2>4 DEF BackupTaken, NoFiles
    <2>6. QED
      BY <1>3, <2>1, <2>3, <2>5 DEF ApplyInv, Replaced, RollsBack
  <1>12. QED
    BY <1>1, <1>3, <1>5, <1>8, <1>9, <1>10, <1>11, Alone DEF UpdateInv

\* A file is copied to the newest backup, which does not hold it yet.
LEMMA BackupFileKeeps ==
  ASSUME UpdateInv, NEW p \in Procs, BackupFile(p)
  PROVE  UpdateInv'
  <1> DEFINE m == my[p].man
             k == Len(backups)
  <1>1. /\ pc[p] = "backup" /\ pc[p] \in Applying /\ m \in Versions
        /\ Package[m] \subseteq Files /\ my[p].left \subseteq Package[m]
        /\ Len(backups) > 0 /\ backups \in Seq(Backup) /\ k \in DOMAIN backups
    BY LocalsTyped DEF UpdateInv, ApplyInv, Verified, Unpacked, BackupTaken, Upgrading,
       Replacing, Applying, BackupFile
  <1>2. PICK f \in my[p].left :
            /\ backups' = [backups EXCEPT ![k].files[f] = app[f]]
            /\ my' = [my EXCEPT ![p] = [my[p] EXCEPT !.left = @ \ {f}]]
    BY DEF BackupFile, Keep
  <1>3. UNCHANGED <<app, current, manifest, payload, staged, running, pc, runs, crashes, faults>>
    BY DEF BackupFile, pending, bounds
  <1>4. /\ pc' \in [Procs -> PCs] /\ my' \in [Procs -> LocalVars] /\ OthersStand(p)
        /\ my'[p] = [my[p] EXCEPT !.left = @ \ {f}]
    BY <1>2, <1>3 DEF UpdateInv, TypeOK, LocalVars, OthersStand
  <1>5. /\ backups' \in Seq(Backup) /\ Len(backups') = k /\ DOMAIN backups' = DOMAIN backups
        /\ \A n \in DOMAIN backups : n # k => backups'[n] = backups[n]
        /\ backups'[k] = [backups[k] EXCEPT !.files = [@ EXCEPT ![f] = app[f]]]
    <2>1. f \in Files /\ app[f] \in Versions \cup {Absent}
      BY <1>1 DEF UpdateInv, TypeOK, FileSystem
    <2>2. backups[k] \in Backup
      BY <1>1
    <2>3. [backups[k] EXCEPT !.files = [@ EXCEPT ![f] = app[f]]] \in Backup
      BY <2>1, <2>2 DEF Backup, FileSystem
    <2>4. backups' = [backups EXCEPT ![k] = [backups[k] EXCEPT !.files = [@ EXCEPT ![f] = app[f]]]]
      BY <1>2
    <2>5. QED
      BY <1>1, <2>3, <2>4
  <1>6. /\ f \in Files /\ Newest[f] = Absent /\ Newest \in FileSystem
        /\ Newest' = [Newest EXCEPT ![f] = app[f]]
    <2>1. backups[k] \in Backup /\ f \in Files
      BY <1>1
    <2>2. Newest[f] = Absent
      BY <1>1 DEF UpdateInv, ApplyInv, BackupTaken
    <2>3. Newest \in FileSystem /\ Newest' = [Newest EXCEPT ![f] = app[f]]
      BY <1>5, <2>1 DEF Newest, Backup
    <2>4. QED
      BY <2>1, <2>2, <2>3
  <1>7. TypeOK'
    BY <1>3, <1>4, <1>5 DEF UpdateInv, TypeOK, LocalVars, Backup
  <1>8. Counted'
    BY <1>3, <1>5 DEF UpdateInv, Counted
  <1>9. Recoverable'
    <2>1. PICK v \in Versions \ Broken : \A g \in Package[v] :
              app[g] = v \/ \E n \in DOMAIN backups : backups[n].files[g] = v
      BY DEF UpdateInv, Recoverable
    <2>2. v # Absent
      BY AppUpdateAssumption DEF AppUpdateAssumption
    <2>3. ASSUME NEW g \in Package[v], NEW n \in DOMAIN backups, backups[n].files[g] = v
          PROVE  backups'[n].files[g] = v
      <3>1. CASE n # k
        BY <1>5, <2>3, <3>1
      <3>2. CASE n = k
        <4>1. g # f
          BY <1>6, <2>2, <2>3, <3>2 DEF Newest
        <4>2. g \in Files
          BY LocalsTyped
        <4>3. QED
          BY <1>5, <1>6, <2>3, <3>2, <4>1, <4>2 DEF Newest, FileSystem
      <3>3. QED
        BY <3>1, <3>2
    <2>4. QED
      BY <1>3, <1>5, <2>1, <2>3 DEF Recoverable
  <1>10. ApplyInv(p)'
    <2>1. my'[p].man = m /\ my'[p].left = my[p].left \ {f}
      BY <1>4 DEF UpdateInv, TypeOK
    <2>2. Verified(p)'
      BY <1>1, <1>3, <1>4 DEF UpdateInv, TypeOK, ApplyInv, Verified, Upgrading, Replacing,
                              InstalledVersion
    <2>3. Unpacked(p)'
      BY <1>1, <1>3, <2>1 DEF UpdateInv, ApplyInv, Unpacked
    <2>4. BackupTaken(p)'
      <3>1. \A g \in Files \ Package[m] : Newest'[g] = Absent
        BY <1>1, <1>6 DEF UpdateInv, ApplyInv, BackupTaken, FileSystem
      <3>2. \A g \in my[p].left \ {f} : Newest'[g] = Absent
        BY <1>1, <1>6 DEF UpdateInv, ApplyInv, BackupTaken, FileSystem
      <3>3. \A g \in Package[m] \ (my[p].left \ {f}) : Newest'[g] = app[g]
        BY <1>1, <1>6 DEF UpdateInv, ApplyInv, BackupTaken, FileSystem
      <3>4. QED
        BY <1>1, <1>3, <1>5, <2>1, <3>1, <3>2, <3>3 DEF BackupTaken
    <2>5. QED
      BY <1>1, <1>3, <2>2, <2>3, <2>4 DEF ApplyInv, Replaced, RollsBack
  <1>11. QED
    BY <1>1, <1>4, <1>5, <1>7, <1>8, <1>9, <1>10, Alone DEF UpdateInv

\* With the backup complete, the files of the payload are gone through once more.
LEMMA BackupDoneKeeps ==
  ASSUME UpdateInv, NEW p \in Procs, BackupDone(p)
  PROVE  UpdateInv'
  <1> DEFINE m == my[p].man
  <1>1. /\ pc[p] = "backup" /\ pc[p] \in Applying /\ m \in Versions /\ my[p].pay = m
        /\ Package[m] \subseteq Files /\ my[p].left = {}
        /\ Verified(p) /\ Unpacked(p) /\ BackupTaken(p)
    BY LocalsTyped DEF UpdateInv, ApplyInv, Verified, Upgrading, Replacing, Applying,
       BackupDone, Step
  <1>2. [my[p] EXCEPT !.left = Package[m]] \in LocalVars
    BY <1>1 DEF UpdateInv, TypeOK, LocalVars
  <1>3. /\ pc' \in [Procs -> PCs] /\ my' \in [Procs -> LocalVars]
        /\ OthersStand(p) /\ pc'[p] = "replace" /\ my'[p] = [my[p] EXCEPT !.left = Package[m]]
    <2>1. pc' = [pc EXCEPT ![p] = "replace"] /\ Keep(p, [my[p] EXCEPT !.left = Package[m]])
      BY <1>1 DEF BackupDone, Step
    <2>2. QED
      BY <1>2, <2>1, Moved DEF UpdateInv, PCs, Applying, Replacing
  <1>4. UNCHANGED <<app, current, manifest, payload, staged, backups, running, bounds>>
    BY DEF BackupDone, disk, pending
  <1>5. /\ my'[p].man = m /\ my'[p].left = Package[m] /\ my'[p].cur = my[p].cur
        /\ my'[p].pay = my[p].pay
    BY <1>3 DEF UpdateInv, TypeOK
  <1>6. ApplyInv(p)'
    <2>1. Verified(p)' /\ Unpacked(p)'
      BY <1>1, <1>3, <1>4, <1>5 DEF Verified, Unpacked, Upgrading, Replacing, InstalledVersion
    <2>2. BackupTaken(p)'
      BY <1>1, <1>3, <1>4, <1>5 DEF BackupTaken, Newest
    <2>3. QED
      BY <1>3, <1>5, <2>1, <2>2 DEF ApplyInv, Replaced, RollsBack
  <1>7. Recoverable'
    BY <1>4 DEF UpdateInv, Recoverable
  <1>8. QED
    BY <1>1, <1>3, <1>4, <1>6, <1>7, Onward DEF UpdateInv, TypeOK, Starting

\* The old file is in the newest backup when it is removed.
LEMMA RemoveOldKeeps ==
  ASSUME UpdateInv, NEW p \in Procs, RemoveOld(p)
  PROVE  UpdateInv'
  <1> DEFINE m == my[p].man
  <1>1. /\ pc[p] = "replace" /\ pc[p] \in Applying /\ m \in Versions /\ my[p].pay = m
        /\ Package[m] \subseteq Files /\ my[p].left \subseteq Package[m]
        /\ Verified(p) /\ Unpacked(p) /\ BackupTaken(p) /\ Replaced(p)
        /\ backups \in Seq(Backup) /\ Len(backups) \in DOMAIN backups
    BY LocalsTyped DEF UpdateInv, ApplyInv, Verified, Unpacked, BackupTaken, Upgrading,
       Replacing, Applying, RemoveOld
  <1>2. UNCHANGED <<current, manifest, payload, staged, backups, running, bounds>>
    BY DEF RemoveOld, pending
  <1>3. CASE Exit(p, "failed") /\ UNCHANGED app
    BY <1>2, <1>3, Exited, Beside DEF UpdateInv, TypeOK, Ended, Applying, Replacing, bounds
  <1>4. ASSUME NEW f \in my[p].left, Step(p, "replace", "rename"),
               app' = [app EXCEPT ![f] = Absent],
               Keep(p, [my[p] EXCEPT !.file = f, !.tmp = staged[f], !.left = @ \ {f}])
        PROVE  UpdateInv'
    <2> DEFINE l == [my[p] EXCEPT !.file = f, !.tmp = staged[f], !.left = @ \ {f}]
    <2>1. f \in Files /\ f \in Package[m] /\ staged[f] = m /\ l \in LocalVars
      <3>1. f \in Files /\ f \in Package[m] /\ staged[f] = m
        BY <1>1, <1>4 DEF Unpacked
      <3>2. my[p] \in LocalVars
        BY DEF UpdateInv, TypeOK, LocalVars
      <3>3. QED
        BY <1>1, <3>1, <3>2 DEF LocalVars
    <2>2. /\ pc' \in [Procs -> PCs] /\ my' \in [Procs -> LocalVars]
          /\ OthersStand(p) /\ pc'[p] = "rename" /\ my'[p] = l
      <3>1. pc' = [pc EXCEPT ![p] = "rename"] /\ Keep(p, l)
        BY <1>4 DEF Step
      <3>2. TypeOK /\ "rename" \in PCs
        BY DEF UpdateInv, PCs, Applying, Replacing
      <3>3. l \in LocalVars
        BY <2>1
      <3> HIDE DEF l
      <3>4. QED
        BY <3>1, <3>2, <3>3, Moved
    <2>3. /\ my'[p].man = m /\ my'[p].pay = m /\ my'[p].cur = my[p].cur
          /\ my'[p].left = my[p].left \ {f} /\ my'[p].file = f /\ my'[p].tmp = m
      BY <1>1, <2>1, <2>2 DEF UpdateInv, TypeOK
    <2>4. /\ app' \in FileSystem /\ app'[f] = Absent
          /\ \A g \in Files : g # f => app'[g] = app[g]
      BY <1>4, <2>1 DEF UpdateInv, TypeOK, FileSystem
    <2>5. Recoverable'
      <3>1. PICK v \in Versions \ Broken : \A g \in Package[v] :
                app[g] = v \/ \E n \in DOMAIN backups : backups[n].files[g] = v
        BY DEF UpdateInv, Recoverable
      <3>2. Newest[f] = app[f]
        BY <1>1, <1>4 DEF BackupTaken
      <3>3. ASSUME NEW g \in Package[v]
            PROVE  app'[g] = v \/ \E n \in DOMAIN backups : backups[n].files[g] = v
        BY <1>1, <2>4, <3>1, <3>2, LocalsTyped DEF Newest
      <3>4. QED
        BY <1>2, <3>3 DEF Recoverable
    <2>6. Verified(p)' /\ Unpacked(p)' /\ BackupTaken(p)'
      <3>1. Verified(p)' /\ Unpacked(p)'
        BY <1>1, <1>2, <2>2, <2>3 DEF Verified, Unpacked, Upgrading, Replacing, InstalledVersion
      <3>2. BackupTaken(p)'
        BY <1>1, <1>2, <2>2, <2>3, <2>4 DEF BackupTaken, Newest
      <3>3. QED
        BY <3>1, <3>2
    <2>7. Replaced(p)'
      BY <1>1, <2>1, <2>2, <2>3, <2>4 DEF Replaced
    <2>8. QED
      BY <1>1, <1>2, <2>2, <2>4, <2>5, <2>6, <2>7, Onward
      DEF UpdateInv, TypeOK, ApplyInv, RollsBack, Starting
  <1>5. QED
    BY <1>3, <1>4 DEF RemoveOld

\* The new file takes the place left free.
LEMMA RenameNewKeeps ==
  ASSUME UpdateInv, NEW p \in Procs, RenameNew(p)
  PROVE  UpdateInv'
  <1> DEFINE m == my[p].man
             f == my[p].file
             there == IF my[p].left = {} THEN "spawn" ELSE "replace"
  <1>1. /\ pc[p] = "rename" /\ pc[p] \in Applying /\ m \in Versions /\ my[p].pay = m
        /\ Package[m] \subseteq Files /\ my[p].left \subseteq Package[m]
        /\ Verified(p) /\ Unpacked(p) /\ BackupTaken(p) /\ Replaced(p)
    BY LocalsTyped DEF UpdateInv, ApplyInv, Verified, Unpacked, Upgrading, Replacing, Applying,
       RenameNew, Step
  <1>2. /\ UNCHANGED <<current, manifest, payload, staged, backups, running, bounds>>
        /\ app' = [app EXCEPT ![f] = my[p].tmp]
    BY DEF RenameNew, pending
  <1>3. /\ pc' \in [Procs -> PCs] /\ my' \in [Procs -> LocalVars]
        /\ OthersStand(p) /\ pc'[p] = there /\ my'[p] = my[p]
    <2>1. Step(p, "rename", there) /\ UNCHANGED my /\ TypeOK
      BY DEF RenameNew, UpdateInv
    <2>2. "rename" \in PCs /\ there \in PCs
      BY DEF PCs, Applying, Replacing
    <2>3. QED
      BY <2>1, <2>2, WentOn
  <1>4. f \in Package[m] \ my[p].left /\ my[p].tmp = m /\ app[f] = Absent
    BY <1>1 DEF Replaced
  <1>5. /\ app' \in FileSystem /\ app'[f] = m /\ \A g \in Files : g # f => app'[g] = app[g]
    BY <1>1, <1>2, <1>4 DEF UpdateInv, TypeOK, FileSystem
  <1>6. Recoverable'
    <2>1. PICK v \in Versions \ Broken : \A g \in Package[v] :
              app[g] = v \/ \E n \in DOMAIN backups : backups[n].files[g] = v
      BY DEF UpdateInv, Recoverable
    <2>2. v # Absent
      BY AppUpdateAssumption DEF AppUpdateAssumption
    <2>3. ASSUME NEW g \in Package[v]
          PROVE  app'[g] = v \/ \E n \in DOMAIN backups : backups[n].files[g] = v
      BY <1>4, <1>5, <2>1, <2>2, LocalsTyped
    <2>4. QED
      BY <1>2, <2>3 DEF Recoverable
  <1>7. Verified(p)' /\ Unpacked(p)'
    BY <1>1, <1>2, <1>3 DEF Verified, Unpacked, Upgrading, Replacing, InstalledVersion
  <1>8. BackupTaken(p)'
    BY <1>1, <1>2, <1>3, <1>4, <1>5 DEF BackupTaken, Newest
  <1>9. \A g \in Package[m] \ my[p].left : app'[g] = m
    BY <1>1, <1>4, <1>5 DEF Replaced
  <1>10. Replaced(p)'
    BY <1>1, <1>3, <1>9 DEF Replaced, Whole
  <1>11. QED
    BY <1>1, <1>2, <1>3, <1>5, <1>6, <1>7, <1>8, <1>10, Onward
    DEF UpdateInv, TypeOK, ApplyInv, RollsBack, Starting

\* All of the new version is installed: it starts, or it is one that does not.
LEMMA SpawnKeeps ==
  ASSUME UpdateInv, NEW p \in Procs, Spawn(p)
  PROVE  UpdateInv'
  <1> DEFINE m == my[p].man
  <1>1. /\ pc[p] = "spawn" /\ pc[p] \in Applying /\ m \in Versions /\ my[p].pay = m
        /\ Package[m] \subseteq Files /\ Whole(m) /\ app[Exe] = m
        /\ Verified(p) /\ BackupTaken(p)
    BY LocalsTyped DEF UpdateInv, ApplyInv, Verified, Upgrading, Replacing, Applying, Replaced,
       Whole, Spawn
  <1>2. UNCHANGED <<app, current, manifest, payload, staged, backups, bounds>>
    BY DEF Spawn, disk, pending
  <1>3. Recoverable'
    BY <1>2 DEF UpdateInv, Recoverable
  <1>4. CASE Startable
    <2>1. /\ pc' \in [Procs -> PCs] /\ my' \in [Procs -> LocalVars] /\ running' = TRUE
          /\ OthersStand(p) /\ pc'[p] = "record" /\ my'[p] = my[p]
      <3>1. Step(p, "spawn", "record") /\ UNCHANGED my /\ running' = TRUE /\ TypeOK
        BY <1>4 DEF UpdateInv, Spawn
      <3>2. QED
        BY <3>1, WentOn DEF PCs, Applying, Replacing
    <2>2. m \notin Broken
      BY <1>1, <1>4 DEF Startable
    <2>3. ApplyInv(p)'
      BY <1>1, <1>2, <2>1, <2>2 DEF ApplyInv, Verified, Unpacked, BackupTaken, Replaced,
                                    RollsBack, Whole, Upgrading, Replacing, InstalledVersion
    <2>4. QED
      BY <1>1, <1>2, <1>3, <2>1, <2>3, Onward DEF UpdateInv, TypeOK, Starting
  <1>5. CASE ~Startable
    <2> DEFINE l == [my[p] EXCEPT !.left = BackedUp]
    <2>1. l \in LocalVars /\ l.left = BackedUp
      BY DEF UpdateInv, TypeOK, LocalVars, BackedUp
    <2>2. /\ pc' \in [Procs -> PCs] /\ my' \in [Procs -> LocalVars] /\ UNCHANGED running
          /\ OthersStand(p) /\ pc'[p] = "rollback" /\ my'[p] = l
      <3>1. pc' = [pc EXCEPT ![p] = "rollback"] /\ Keep(p, l) /\ UNCHANGED running
        BY <1>5 DEF Spawn, Step
      <3>2. TypeOK /\ "rollback" \in PCs
        BY DEF UpdateInv, PCs, Applying, Replacing
      <3>3. QED
        BY <2>1, <3>1, <3>2, Moved
    <2>3. my'[p].man = m /\ my'[p].pay = m /\ my'[p].cur = my[p].cur /\ my'[p].left = BackedUp
      BY <1>1, <2>1, <2>2 DEF UpdateInv, TypeOK
    <2>4. m \in Broken
      BY <1>1, <1>5 DEF Startable
    <2>5. \A f \in BackedUp : f \in Package[m]
      BY <1>1 DEF BackedUp, BackupTaken, Newest
    <2>6. ApplyInv(p)'
      BY <1>1, <1>2, <2>2, <2>3, <2>4, <2>5
      DEF ApplyInv, Verified, Unpacked, BackupTaken, Replaced, RollsBack, Whole, Upgrading,
          Replacing, InstalledVersion
    <2>7. QED
      BY <1>1, <1>2, <1>3, <2>2, <2>6, Onward DEF UpdateInv, TypeOK, Starting
  <1>6. QED
    BY <1>4, <1>5

\* The version is recorded when all of it is installed.
LEMMA RecordVersionKeeps ==
  ASSUME UpdateInv, NEW p \in Procs, RecordVersion(p)
  PROVE  UpdateInv' /\ current' = my[p].man /\ Whole(current') /\ current' > InstalledVersion
  <1>1. /\ pc[p] = "record" /\ pc[p] \in Applying
        /\ Verified(p) /\ BackupTaken(p) /\ Replaced(p) /\ Whole(my[p].man)
        /\ my[p].man \in Versions /\ my[p].man > InstalledVersion
    BY DEF UpdateInv, ApplyInv, Verified, Replaced, Upgrading, Replacing, Applying,
       RecordVersion, Step
  <1>2. /\ UNCHANGED <<app, manifest, payload, staged, backups, running, bounds>>
        /\ current' = my[p].man
    BY DEF RecordVersion, pending
  <1>3. /\ pc' \in [Procs -> PCs] /\ my' \in [Procs -> LocalVars]
        /\ OthersStand(p) /\ pc'[p] = "finish" /\ my'[p] = my[p]
    <2>1. Step(p, "record", "finish") /\ UNCHANGED my /\ TypeOK
      BY DEF RecordVersion, UpdateInv
    <2>2. QED
      BY <2>1, WentOn DEF PCs, Applying, Replacing
  <1>4. Recoverable' /\ ApplyInv(p)'
    <2>1. Recoverable'
      BY <1>2 DEF UpdateInv, Recoverable
    <2>2. Verified(p)' /\ Unpacked(p)' /\ BackupTaken(p)'
      BY <1>1, <1>2, <1>3 DEF Verified, Unpacked, BackupTaken, Upgrading, Replacing
    <2>3. Replaced(p)' /\ RollsBack(p)'
      BY <1>1, <1>2, <1>3 DEF Replaced, RollsBack, Whole
    <2>4. QED
      BY <2>1, <2>2, <2>3 DEF ApplyInv
  <1>5. UpdateInv'
    BY <1>1, <1>2, <1>3, <1>4, Onward DEF UpdateInv, TypeOK, Starting
  <1>6. QED
    BY <1>1, <1>2, <1>5

\* Backups are only removed while all of the new version is in place.
LEMMA FinishKeeps ==
  ASSUME UpdateInv, NEW p \in Procs, Finish(p)
  PROVE  UpdateInv'
  <1> DEFINE m == my[p].man
             k == Len(backups)
  <1>1. /\ pc[p] = "finish" /\ pc[p] \in Applying /\ m \in Versions \ Broken /\ Whole(m)
    BY DEF UpdateInv, ApplyInv, Verified, Replaced, Upgrading, Replacing, Applying, Finish
  <1>2. /\ UNCHANGED <<app, current, running, runs, crashes, faults>>
        /\ manifest' = Absent /\ payload' = Absent /\ staged' = NoFiles
        /\ backups' = IF k <= KeepBackups THEN backups ELSE SubSeq(backups, k - KeepBackups + 1, k)
    BY DEF Finish, bounds
  <1>3. /\ pc' \in [Procs -> PCs] /\ my' \in [Procs -> LocalVars]
        /\ OthersStand(p) /\ pc'[p] = "ok"
    <2>1. Exit(p, "ok") /\ TypeOK
      BY DEF Finish, UpdateInv
    <2>2. QED
      BY <2>1, Exited DEF Ended
  <1>4. backups' \in Seq(Backup) /\ Len(backups') <= k /\ Len(backups') \in Nat /\ k \in Nat
    <2>1. backups \in Seq(Backup) /\ k \in Nat /\ KeepBackups \in Nat \ {0}
      BY AppUpdateAssumption DEF UpdateInv, AppUpdateAssumption
    <2>2. CASE k <= KeepBackups
      BY <1>2, <2>1, <2>2
    <2>3. CASE ~(k <= KeepBackups)
      <3>1. backups' = SubSeq(backups, k - KeepBackups + 1, k)
        BY <1>2, <2>3
      <3>2. k - KeepBackups + 1 \in 1..k
        BY <2>1, <2>3
      <3>3. QED
        BY <2>1, <3>1, <3>2
    <2>4. QED
      BY <2>2, <2>3
  <1>5. TypeOK'
    <2>1. staged' \in FileSystem
      BY <1>2 DEF NoFiles, FileSystem
    <2>2. \A n \in DOMAIN backups' : backups'[n] \in Backup
      BY <1>4
    <2>3. Len(backups') <= MaxRuns
      BY <1>4, AppUpdateAssumption DEF UpdateInv, TypeOK, AppUpdateAssumption
    <2>4. QED
      BY <1>2, <1>3, <2>1, <2>2, <2>3 DEF UpdateInv, TypeOK, LocalVars, Backup
  <1>6. Counted'
    <2>1. \A q \in Procs : pc'[q] \notin Starting
      BY <1>1, <1>3, Alone DEF Starting, Applying, Replacing
    <2>2. k <= runs /\ runs \in Nat
      BY AppUpdateAssumption DEF UpdateInv, Counted, TypeOK, AppUpdateAssumption
    <2>3. QED
      BY <1>2, <1>4, <2>1, <2>2 DEF Counted
  <1>7. Recoverable'
    BY <1>1, <1>2 DEF Recoverable, Whole
  <1>8. ApplyInv(p)'
    BY <1>3 DEF ApplyInv, Verified, Unpacked, BackupTaken, Replaced, RollsBack, Upgrading,
                Replacing
  <1>9. QED
    BY <1>1, <1>3, <1>4, <1>5, <1>6, <1>7, <1>8, Alone DEF UpdateInv

\* A rollback overwrites a file of a version that does not start.
LEMMA RestoreFileKeeps ==
  ASSUME UpdateInv, NEW p \in Procs, RestoreFile(p)
  PROVE  UpdateInv'
  <1> DEFINE m == my[p].man
  <1>1. /\ pc[p] = "rollback" /\ pc[p] \in Applying /\ m \in Broken /\ m \in Versions
        /\ \A f \in my[p].left : app[f] = m
        /\ my[p].left \subseteq Files /\ Verified(p) /\ BackupTaken(p)
        /\ Newest \in FileSystem
    <2>1. pc[p] = "rollback"
      BY DEF RestoreFile
    <2>2. Len(backups) \in DOMAIN backups /\ backups \in Seq(Backup)
      BY <2>1 DEF UpdateInv, ApplyInv, BackupTaken
    <2>3. Newest \in FileSystem
      <3>1. backups[Len(backups)] \in Backup
        BY <2>2
      <3>2. QED
        BY <3>1 DEF Backup, Newest
    <2>4. my[p].left \subseteq Files
      BY DEF UpdateInv, TypeOK
    <2>5. QED
      BY <2>1, <2>3, <2>4 DEF UpdateInv, ApplyInv, Verified, RollsBack, Upgrading, Replacing,
                              Applying
  <1>2. PICK f \in my[p].left :
            /\ app' = [app EXCEPT ![f] = Newest[f]]
            /\ my' = [my EXCEPT ![p] = [my[p] EXCEPT !.left = @ \ {f}]]
    BY DEF RestoreFile, Keep, Newest
  <1>3. UNCHANGED <<current, manifest, payload, staged, backups, running, pc, bounds>>
    BY DEF RestoreFile, pending
  <1>4. /\ pc' \in [Procs -> PCs] /\ my' \in [Procs -> LocalVars] /\ OthersStand(p)
        /\ my'[p].left = my[p].left \ {f} /\ my'[p].man = m /\ my'[p].pay = my[p].pay
        /\ my'[p].cur = my[p].cur
    BY <1>2, <1>3 DEF UpdateInv, TypeOK, LocalVars, OthersStand
  <1>5. /\ app' \in FileSystem /\ \A g \in Files : g # f => app'[g] = app[g]
    BY <1>1, <1>2 DEF UpdateInv, TypeOK, FileSystem
  <1>6. Recoverable'
    <2>1. PICK v \in Versions \ Broken : \A g \in Package[v] :
              app[g] = v \/ \E n \in DOMAIN backups : backups[n].files[g] = v
      BY DEF UpdateInv, Recoverable
    <2>2. ASSUME NEW g \in Package[v]
          PROVE  app'[g] = v \/ \E n \in DOMAIN backups : backups[n].files[g] = v
      BY <1>1, <1>5, <2>1, LocalsTyped
    <2>3. QED
      BY <1>3, <2>2 DEF Recoverable
  <1>7. Verified(p)' /\ BackupTaken(p)'
    BY <1>1, <1>3, <1>4 DEF Verified, BackupTaken, Upgrading, Replacing, InstalledVersion
  <1>8. RollsBack(p)'
    BY <1>1, <1>4, <1>5 DEF RollsBack
  <1>9. QED
    BY <1>1, <1>3, <1>4, <1>5, <1>6, <1>7, <1>8, Onward
    DEF UpdateInv, TypeOK, ApplyInv, Unpacked, Replaced, Starting

\* A rollback has copied everything back.
LEMMA RestoreDoneKeeps ==
  ASSUME UpdateInv, NEW p \in Procs, RestoreDone(p)
  PROVE  UpdateInv'
  <1>1. UNCHANGED <<app, current, manifest, payload, staged, backups, running, bounds>>
    BY DEF RestoreDone, disk, pending
  <1>2. /\ pc' \in [Procs -> PCs] /\ my' \in [Procs -> LocalVars]
        /\ OthersStand(p) /\ pc[p] = "rollback" /\ pc'[p] = "respawn" /\ my'[p] = my[p]
    <2>1. Step(p, "rollback", "respawn") /\ UNCHANGED my /\ TypeOK
      BY DEF RestoreDone, UpdateInv
    <2>2. QED
      BY <2>1, WentOn DEF PCs, Applying, Replacing
  <1>3. Recoverable'
    BY <1>1 DEF UpdateInv, Recoverable
  <1>4. ApplyInv(p)'
    BY <1>1, <1>2 DEF UpdateInv, ApplyInv, Verified, Unpacked, BackupTaken, Replaced, RollsBack,
                      Upgrading, Replacing, InstalledVersion
  <1>5. QED
    BY <1>1, <1>2, <1>3, <1>4, Onward DEF UpdateInv, TypeOK, Starting, Applying, Replacing

\* The old program is started again if it starts; the apply has failed either way.
LEMMA RespawnKeeps ==
  ASSUME UpdateInv, NEW p \in Procs, Respawn(p)
  PROVE  UpdateInv'
  <1>1. UNCHANGED <<app, current, manifest, payload, staged, backups, runs, crashes, faults>>
    BY DEF Respawn, disk, pending, bounds
  <1>2. running' \in BOOLEAN
    BY DEF UpdateInv, TypeOK, Respawn
  <1>3. QED
    BY <1>1, <1>2, Exited, Beside DEF UpdateInv, TypeOK, Respawn, Ended, Applying, Replacing

\* A failed file operation ends the command, or is ignored once the program is started.
LEMMA FailKeeps ==
  ASSUME UpdateInv, NEW p \in Procs, Fail(p)
  PROVE  UpdateInv'
  <1>1. /\ UNCHANGED <<app, manifest, payload, staged, backups, running, runs, crashes>>
        /\ faults' \in 0..MaxFaults /\ faults' = faults + 1
    BY AppUpdateAssumption DEF UpdateInv, TypeOK, AppUpdateAssumption, Fail, pending
  <1>2. CASE pc[p] = "record"
    <2>1. current' \in {current, Torn}
      BY <1>2 DEF Fail, RecordCut
    <2>2. /\ pc' \in [Procs -> PCs] /\ my' \in [Procs -> LocalVars]
          /\ OthersStand(p) /\ pc'[p] = "finish" /\ my'[p] = my[p]
      <3>1. Step(p, "record", "finish") /\ UNCHANGED my /\ TypeOK
        BY <1>2 DEF Fail, UpdateInv
      <3>2. QED
        BY <3>1, WentOn DEF PCs, Applying, Replacing
    <2>3. Recoverable'
      BY <1>1 DEF UpdateInv, Recoverable
    <2>4. /\ my[p].man \in Versions /\ my[p].pay = my[p].man /\ my[p].man \notin Broken
          /\ Whole(my[p].man)
      BY <1>2 DEF UpdateInv, ApplyInv, Verified, Replaced, Upgrading, Replacing
    <2>5. Verified(p)' /\ Replaced(p)'
      BY <1>1, <2>2, <2>4 DEF Verified, Replaced, Whole
    <2>6. ApplyInv(p)'
      BY <2>2, <2>5 DEF ApplyInv, Unpacked, BackupTaken, RollsBack
    <2>7. pc[p] \in Applying
      BY <1>2 DEF Applying, Replacing
    <2>8. QED
      BY <1>1, <2>1, <2>2, <2>3, <2>6, <2>7, OnwardFaulting DEF UpdateInv, TypeOK, Starting
  <1>3. CASE pc[p] # "record"
    <2>1. UNCHANGED current
      BY <1>3 DEF Fail, RecordCut
    <2>2. PICK how \in Ended : Exit(p, how)
      BY <1>3 DEF Fail, Ended
    <2>3. QED
      BY <1>1, <2>1, <2>2, Exited, Beside, SMTT(30) DEF UpdateInv, TypeOK, Ended, Applying,
          Replacing
  <1>4. QED
    BY <1>2, <1>3

\* A command is killed.
LEMMA CrashKeeps ==
  ASSUME UpdateInv, NEW p \in Procs, Crash(p)
  PROVE  UpdateInv'
  <1>1. /\ UNCHANGED <<app, manifest, payload, staged, backups, running, runs, faults>>
        /\ crashes' \in 0..MaxCrashes
    BY AppUpdateAssumption DEF UpdateInv, TypeOK, AppUpdateAssumption, Crash, pending
  <1>2. pc[p] \in Applying \/ UNCHANGED current
    BY DEF Crash, RecordCut, Applying, Replacing
  <1>3. current' \in Versions \cup {Torn}
    BY DEF UpdateInv, TypeOK, Crash, RecordCut
  <1>4. Exit(p, "killed") /\ TypeOK
    BY DEF UpdateInv, Crash
  <1>5. /\ pc' \in [Procs -> PCs] /\ my' \in [Procs -> LocalVars]
        /\ pc'[p] = "killed" /\ OthersStand(p)
    BY <1>4, Exited DEF Ended
  <1>6. QED
    BY <1>1, <1>2, <1>3, <1>5, Beside DEF UpdateInv, TypeOK, Applying, Replacing

\* The user starts and ends the program; nothing else moves.
LEMMA UserKeeps ==
  ASSUME UpdateInv, running' \in BOOLEAN, UNCHANGED <<disk, pc, my, bounds>>
  PROVE  UpdateInv'
  <1>1. UNCHANGED <<app, current, manifest, payload, staged, backups, runs, crashes, faults>>
    BY DEF disk, pending, bounds
  <1>2. TypeOK' /\ (backups \in Seq(Backup))'
    BY <1>1 DEF UpdateInv, TypeOK, Backup, FileSystem
  <1>3. OneApply' /\ Counted' /\ Recoverable'
    BY <1>1 DEF UpdateInv, OneApply, Counted, Recoverable
  <1>4. ASSUME NEW p \in Procs PROVE ApplyInv(p)'
    <2>1. ApplyInv(p)
      BY DEF UpdateInv
    <2>2. QED
      BY <1>1, <2>1 DEF ApplyInv, Verified, Unpacked, BackupTaken, Replaced, RollsBack,
                        InstalledVersion, Newest, Whole
  <1>5. QED
    BY <1>2, <1>3, <1>4 DEF UpdateInv

-----------------------------------------------------------------------------
(* The theorems.                                                            *)

\* The directory as installed satisfies the invariant.
LEMMA InitUpdateInv == Init => UpdateInv
  <1> SUFFICES ASSUME Init PROVE UpdateInv
    OBVIOUS
  <1>1. /\ app \in FileSystem /\ staged \in FileSystem /\ Whole(Base)
        /\ Base \in Versions \ Broken /\ Base \in Versions
    BY AppUpdateAssumption DEF AppUpdateAssumption, Init, FileSystem, NoFiles, Whole
  <1>2. \A p \in Procs : pc[p] = "ok" /\ pc[p] \notin Applying
    BY DEF Init, Applying, Replacing
  <1>3. TypeOK /\ backups \in Seq(Backup)
    <2>1. backups = <<>> /\ Len(backups) = 0 /\ DOMAIN backups = {} /\ runs = 0
      BY DEF Init
    <2>2. my \in [Procs -> LocalVars]
      BY LocalsTyped DEF Init
    <2>3. pc \in [Procs -> PCs]
      BY DEF Init, PCs, Ended
    <2>4. /\ runs \in 0..MaxRuns /\ crashes \in 0..MaxCrashes /\ faults \in 0..MaxFaults
          /\ Len(backups) <= MaxRuns
      BY <2>1, AppUpdateAssumption DEF Init, AppUpdateAssumption
    <2>5. /\ running \in BOOLEAN /\ current \in Versions \cup {Torn}
          /\ manifest \in Versions \cup {Absent, Torn} /\ payload \in Versions \cup {Absent, Torn}
      BY <1>1 DEF Init
    <2>6. QED
      BY <1>1, <2>1, <2>2, <2>3, <2>4, <2>5 DEF TypeOK, LocalVars
  <1>4. Counted
    BY <1>2 DEF Init, Counted, Starting
  <1>5. Recoverable
    BY <1>1 DEF Recoverable, Whole
  <1>6. OneApply /\ \A p \in Procs : ApplyInv(p)
    BY <1>2 DEF OneApply, ApplyInv, Verified, Unpacked, BackupTaken, Replaced, RollsBack,
                Upgrading, Replacing
  <1>7. QED
    BY <1>3, <1>4, <1>5, <1>6 DEF UpdateInv

\* Every step of the specification keeps it.
LEMMA NextKeepsUpdateInv ==
  ASSUME UpdateInv, [Next]_vars
  PROVE  UpdateInv'
  <1>1. CASE UNCHANGED vars
    BY <1>1, UserKeeps DEF vars, UpdateInv, TypeOK
  <1>2. ASSUME NEW p \in Procs, NEW v \in Versions, Check(p, v) PROVE UpdateInv'
    BY <1>2, CheckKeeps
  <1>3. ASSUME NEW p \in Procs,
               OpenManifest(p) \/ SaveManifest(p) \/ OpenPayload(p) \/ SavePayload(p)
        PROVE  UpdateInv'
    BY <1>3, CheckKeeps
  <1>4. ASSUME NEW p \in Procs,
               Apply(p) \/ ReadPayload(p) \/ Verify(p) \/ EnsureAppExited(p)
        PROVE  UpdateInv'
    BY <1>4, ApplyKeeps, ReadPayloadKeeps, VerifyKeeps, EnsureAppExitedKeeps
  <1>5. ASSUME NEW p \in Procs,
               ExtractPayload(p) \/ BackupFile(p) \/ BackupDone(p) \/ RemoveOld(p) \/ RenameNew(p)
        PROVE  UpdateInv'
    BY <1>5, ExtractPayloadKeeps, BackupFileKeeps, BackupDoneKeeps, RemoveOldKeeps, RenameNewKeeps
  <1>6. ASSUME NEW p \in Procs, Spawn(p) \/ RecordVersion(p) \/ Finish(p)
        PROVE  UpdateInv'
    BY <1>6, SpawnKeeps, RecordVersionKeeps, FinishKeeps
  <1>7. ASSUME NEW p \in Procs,
               RestoreFile(p) \/ RestoreDone(p) \/ Respawn(p) \/ Fail(p) \/ Crash(p)
        PROVE  UpdateInv'
    BY <1>7, RestoreFileKeeps, RestoreDoneKeeps, RespawnKeeps, FailKeeps, CrashKeeps
  <1>8. CASE UserStart \/ UserExit
    BY <1>8, UserKeeps DEF UserStart, UserExit
  <1>9. CASE Quiescent
    BY <1>1, <1>9 DEF Quiescent
  <1>10. QED
    BY <1>1, <1>2, <1>3, <1>4, <1>5, <1>6, <1>7, <1>8, <1>9 DEF Next

\* The record is written by RecordVersion alone; a fault or a crash may only tear it.
LEMMA OnlyRecordVersionRecords ==
  ASSUME [Next]_vars
  PROVE  \/ UNCHANGED <<app, current>> \/ current' \in {current, Torn}
         \/ \E p \in Procs : RecordVersion(p)
  BY DEF Next, vars, disk, Check, OpenManifest, SaveManifest, OpenPayload, SavePayload, Apply,
         ReadPayload, Verify, EnsureAppExited, ExtractPayload, BackupFile, BackupDone,
         RemoveOld, RenameNew, Spawn, Finish, RestoreFile, RestoreDone, Respawn, Fail, Crash,
         RecordCut, UserStart, UserExit, Quiescent

\* Whatever fails, crashes or is retried, the directory keeps its shape and an apply under
\* way what it relies on (cmd_apply).
THEOREM UpdateInvariance == Spec => []UpdateInv
  <1>1. UpdateInv /\ [Next]_vars => UpdateInv'
    BY NextKeepsUpdateInv
  <1>2. QED
    BY <1>1, InitUpdateInv, PTL DEF Spec

\* No file of the installed program is lost: some version that starts has each of its
\* files in place or in a backup (backup_and_replace, rollback).
THEOREM NothingIsLost == Spec => []UpdaterInv
  <1>1. UpdateInv => UpdaterInv
    BY DEF UpdateInv, UpdaterInv
  <1>2. QED
    BY <1>1, UpdateInvariance, PTL

\* A version is recorded only when all of its files are installed (cmd_apply,
\* current-version.txt).
THEOREM RecordedWhole == Spec => RecordedIsWhole
  <1>1. ASSUME UpdateInv, [Next]_vars, current' # current, current' # Torn
        PROVE  Whole(current')
    BY <1>1, OnlyRecordVersionRecords, RecordVersionKeeps DEF RecordVersion, Whole
  <1>2. UpdateInv /\ [Next]_vars
          => [current' # current /\ current' # Torn => Whole(current')]_vars
    BY <1>1
  <1>3. QED
    BY <1>2, UpdateInvariance, PTL DEF Spec, RecordedIsWhole

\* A recorded version is only replaced by a newer one (verify_update, strict upgrade).
THEOREM NoDowngrade == Spec => NeverDowngrades
  <1>1. ASSUME UpdateInv, [Next]_vars, current # Torn, current' # Torn
        PROVE  current' >= current
    <2>1. current \in Nat
      BY <1>1, AppUpdateAssumption DEF UpdateInv, TypeOK, AppUpdateAssumption
    <2>2. CASE current' = current
      BY <2>1, <2>2
    <2>3. ASSUME NEW p \in Procs, RecordVersion(p) PROVE current' >= current
      <3>1. current' > InstalledVersion /\ current' \in Versions
        BY <1>1, <2>3, RecordVersionKeeps DEF UpdateInv, ApplyInv, Verified, RecordVersion, Step,
           Upgrading, Replacing
      <3>2. QED
        BY <1>1, <2>1, <3>1, AppUpdateAssumption DEF InstalledVersion, AppUpdateAssumption
    <2>4. QED
      BY <1>1, <2>2, <2>3, OnlyRecordVersionRecords
  <1>2. UpdateInv /\ [Next]_vars
          => [current # Torn /\ current' # Torn => current' >= current]_vars
    BY <1>1
  <1>3. QED
    BY <1>2, UpdateInvariance, PTL DEF Spec, NeverDowngrades

----------------------------------------------------------------------------
(* The bridge to a web plugin.                                              *)

CallRecords == [id : Nat, plugin : Plugins, load : Nat, late : BOOLEAN]
SlotRecords == [global : Nat, plugin : [Plugins -> Nat]]
OfPlugin(calls, p) == {c \in calls : c.plugin = p}

\* The slots that are taken are those of the calls in the program.
SlotsCounted(calls, taken) ==
    /\ IsFiniteSet(calls) /\ calls \subseteq CallRecords /\ taken \in SlotRecords
    /\ taken.global = Cardinality(calls) /\ taken.global <= GlobalSlots
    /\ \A p \in Plugins : /\ taken.plugin[p] = Cardinality(OfPlugin(calls, p))
                          /\ taken.plugin[p] <= PluginSlots

(* A call that starts takes a slot of its plugin and of the program.        *)
LEMMA CallStarts ==
  ASSUME NEW calls, NEW taken, SlotsCounted(calls, taken), NEW n \in CallRecords, n \notin calls,
         taken.global < GlobalSlots, taken.plugin[n.plugin] < PluginSlots,
         NEW after, after = [global |-> taken.global + 1,
                             plugin |-> [taken.plugin EXCEPT ![n.plugin] = @ + 1]]
  PROVE  SlotsCounted(calls \union {n}, after)
<1> USE BridgeAssumption
<1>1. n.plugin \in Plugins /\ taken \in SlotRecords
  BY DEF CallRecords, SlotsCounted
<1>2. /\ taken.global \in Nat /\ taken.plugin \in [Plugins -> Nat]
      /\ after.global = taken.global + 1 /\ after.plugin = [taken.plugin EXCEPT ![n.plugin] = @ + 1]
  BY <1>1 DEF SlotRecords
<1>3. after \in SlotRecords
  BY <1>1, <1>2 DEF SlotRecords
<1>4. /\ IsFiniteSet(calls \union {n}) /\ calls \union {n} \subseteq CallRecords
      /\ Cardinality(calls \union {n}) = Cardinality(calls) + 1
  BY FS_AddElement DEF SlotsCounted
<1>5. ASSUME NEW p \in Plugins
      PROVE  after.plugin[p] = Cardinality(OfPlugin(calls \union {n}, p))
            /\ after.plugin[p] <= PluginSlots
  <2>1. IsFiniteSet(OfPlugin(calls, p))
    BY FS_Subset DEF OfPlugin, SlotsCounted
  <2>2. taken.plugin[p] = Cardinality(OfPlugin(calls, p)) /\ taken.plugin[p] <= PluginSlots
        /\ taken.plugin[p] \in Nat
    BY <1>2 DEF SlotsCounted
  <2>3. CASE p = n.plugin
    <3>1. OfPlugin(calls \union {n}, p) = OfPlugin(calls, p) \union {n}
          /\ n \notin OfPlugin(calls, p)
      BY <2>3 DEF OfPlugin
    <3>2. Cardinality(OfPlugin(calls, p) \union {n}) = Cardinality(OfPlugin(calls, p)) + 1
      BY <2>1, <3>1, FS_AddElement
    <3>3. after.plugin[p] = taken.plugin[p] + 1
      BY <1>2, <2>3
    <3>4. Cardinality(OfPlugin(calls \union {n}, p)) = Cardinality(OfPlugin(calls, p)) + 1
      BY <3>1, <3>2
    <3>5. taken.plugin[p] < PluginSlots
      BY <2>3
    <3>6. taken.plugin[p] + 1 <= PluginSlots
      BY <2>2, <3>5
    <3> QED
      BY <2>2, <3>3, <3>4, <3>6
  <2>4. CASE p # n.plugin
    <3>1. OfPlugin(calls \union {n}, p) = OfPlugin(calls, p)
      BY <2>4 DEF OfPlugin
    <3>2. after.plugin[p] = taken.plugin[p]
      BY <1>2, <2>4
    <3> QED
      BY <2>2, <3>1, <3>2
  <2> QED
    BY <2>3, <2>4
<1>6. after.global = Cardinality(calls \union {n}) /\ after.global <= GlobalSlots
  BY <1>2, <1>4 DEF SlotsCounted
<1> QED
  BY <1>3, <1>4, <1>5, <1>6 DEF SlotsCounted

(* A call that settles gives both slots back.                               *)
LEMMA CallEnds ==
  ASSUME NEW calls, NEW taken, SlotsCounted(calls, taken), NEW c \in calls, NEW after,
         after = [global |-> IF taken.global = 0 THEN 0 ELSE taken.global - 1,
                  plugin |-> [taken.plugin EXCEPT ![c.plugin] = IF @ = 0 THEN 0 ELSE @ - 1]]
  PROVE  SlotsCounted(calls \ {c}, after)
<1> USE BridgeAssumption
<1>1. c.plugin \in Plugins /\ taken \in SlotRecords
  BY DEF CallRecords, SlotsCounted
<1>2. /\ taken.global \in Nat /\ taken.plugin \in [Plugins -> Nat]
      /\ after.global = (IF taken.global = 0 THEN 0 ELSE taken.global - 1)
      /\ after.plugin = [taken.plugin EXCEPT ![c.plugin] = IF @ = 0 THEN 0 ELSE @ - 1]
  BY <1>1 DEF SlotRecords
<1>3. after \in SlotRecords
  <2>1. \A m \in Nat : (IF m = 0 THEN 0 ELSE m - 1) \in Nat
    OBVIOUS
  <2>2. after.global \in Nat /\ after.plugin \in [Plugins -> Nat]
    BY <1>1, <1>2, <2>1
  <2> QED
    BY <2>2 DEF SlotRecords
<1>4. /\ IsFiniteSet(calls \ {c}) /\ calls \ {c} \subseteq CallRecords
      /\ Cardinality(calls \ {c}) = Cardinality(calls) - 1
  BY FS_RemoveElement DEF SlotsCounted
<1>5. Cardinality(calls \ {c}) \in Nat
  BY <1>4, FS_CardinalityType
<1>6. ASSUME NEW p \in Plugins
      PROVE  after.plugin[p] = Cardinality(OfPlugin(calls \ {c}, p))
            /\ after.plugin[p] <= PluginSlots
  <2>1. IsFiniteSet(OfPlugin(calls, p))
    BY FS_Subset DEF OfPlugin, SlotsCounted
  <2>2. taken.plugin[p] = Cardinality(OfPlugin(calls, p)) /\ taken.plugin[p] <= PluginSlots
        /\ taken.plugin[p] \in Nat
    BY <1>2 DEF SlotsCounted
  <2>3. CASE p = c.plugin
    <3>1. OfPlugin(calls \ {c}, p) = OfPlugin(calls, p) \ {c} /\ c \in OfPlugin(calls, p)
      BY <2>3 DEF OfPlugin
    <3>2. /\ Cardinality(OfPlugin(calls, p) \ {c}) = Cardinality(OfPlugin(calls, p)) - 1
          /\ IsFiniteSet(OfPlugin(calls, p) \ {c})
      BY <2>1, <3>1, FS_RemoveElement
    <3>3. Cardinality(OfPlugin(calls, p) \ {c}) \in Nat
      BY <3>2, FS_CardinalityType
    <3>4. after.plugin[p] = (IF taken.plugin[p] = 0 THEN 0 ELSE taken.plugin[p] - 1)
      BY <1>2, <2>3
    <3>5. Cardinality(OfPlugin(calls \ {c}, p)) = taken.plugin[p] - 1
      BY <2>2, <3>1, <3>2
    <3>6. taken.plugin[p] - 1 \in Nat
      BY <3>1, <3>3, <3>5
    <3>7. after.plugin[p] = taken.plugin[p] - 1 /\ taken.plugin[p] - 1 <= PluginSlots
      BY <2>2, <3>4, <3>6
    <3> QED
      BY <3>5, <3>7
  <2>4. CASE p # c.plugin
    <3>1. OfPlugin(calls \ {c}, p) = OfPlugin(calls, p)
      BY <2>4 DEF OfPlugin
    <3>2. after.plugin[p] = taken.plugin[p]
      BY <1>2, <2>4
    <3> QED
      BY <2>2, <3>1, <3>2
  <2> QED
    BY <2>3, <2>4
<1>7. after.global = Cardinality(calls \ {c}) /\ after.global <= GlobalSlots
  BY <1>2, <1>4, <1>5 DEF SlotsCounted
<1> QED
  BY <1>3, <1>4, <1>6, <1>7 DEF SlotsCounted

(* A call whose time is up keeps its slots.                                 *)
LEMMA CallIsLate ==
  ASSUME NEW calls, NEW taken, SlotsCounted(calls, taken), NEW c \in calls, NEW d \in CallRecords,
         d \notin calls, d.plugin = c.plugin
  PROVE  SlotsCounted((calls \ {c}) \union {d}, taken)
<1>1. /\ IsFiniteSet((calls \ {c}) \union {d}) /\ (calls \ {c}) \union {d} \subseteq CallRecords
      /\ Cardinality((calls \ {c}) \union {d}) = Cardinality(calls)
  <2>1. IsFiniteSet(calls \ {c}) /\ Cardinality(calls \ {c}) = Cardinality(calls) - 1
        /\ Cardinality(calls) \in Nat
    BY FS_RemoveElement, FS_CardinalityType DEF SlotsCounted
  <2>2. /\ IsFiniteSet((calls \ {c}) \union {d})
        /\ Cardinality((calls \ {c}) \union {d}) = Cardinality(calls \ {c}) + 1
    BY <2>1, FS_AddElement
  <2> QED
    BY <2>1, <2>2 DEF SlotsCounted
<1>2. ASSUME NEW p \in Plugins
      PROVE  Cardinality(OfPlugin((calls \ {c}) \union {d}, p)) = Cardinality(OfPlugin(calls, p))
  <2>1. IsFiniteSet(OfPlugin(calls, p))
    BY FS_Subset DEF OfPlugin, SlotsCounted
  <2>2. CASE p = c.plugin
    <3>1. /\ OfPlugin((calls \ {c}) \union {d}, p) = (OfPlugin(calls, p) \ {c}) \union {d}
          /\ c \in OfPlugin(calls, p) /\ d \notin OfPlugin(calls, p)
      BY <2>2 DEF OfPlugin
    <3>2. /\ Cardinality(OfPlugin(calls, p) \ {c}) = Cardinality(OfPlugin(calls, p)) - 1
          /\ IsFiniteSet(OfPlugin(calls, p) \ {c}) /\ Cardinality(OfPlugin(calls, p)) \in Nat
      BY <2>1, <3>1, FS_RemoveElement, FS_CardinalityType
    <3>3. Cardinality((OfPlugin(calls, p) \ {c}) \union {d}) = Cardinality(OfPlugin(calls,
                                                                                    p) \ {c}) + 1
      BY <3>1, <3>2, FS_AddElement
    <3>4. Cardinality(OfPlugin((calls \ {c}) \union {d},
                               p)) = Cardinality((OfPlugin(calls, p) \ {c}) \union {d})
      BY <3>1
    <3>5. \A k \in Nat : (k - 1) + 1 = k
      OBVIOUS
    <3>6. Cardinality((OfPlugin(calls, p) \ {c}) \union {d}) = Cardinality(OfPlugin(calls, p))
      BY <3>2, <3>3, <3>5
    <3> QED
      BY <3>4, <3>6
  <2>3. CASE p # c.plugin
    <3>1. OfPlugin((calls \ {c}) \union {d}, p) = OfPlugin(calls, p)
      BY <2>3 DEF OfPlugin
    <3> QED
      BY <3>1
  <2> QED
    BY <2>2, <2>3
<1> QED
  BY <1>1, <1>2 DEF SlotsCounted

----------------------------------------------------------------------------
(* The inductive invariant, in four parts.                                  *)

HostRecords == [plugin : Plugins, load : Nat, awaiting : BOOLEAN, error : BOOLEAN, left : BOOLEAN]
Documents == [n : Nat, plugin : Plugins, load : Nat, secret : Nat, loaded : BOOLEAN, seen : BOOLEAN,
              awaited : BOOLEAN, client : {"new", "asked", "failed", "open"}]
FrameEvents == [kind : {"load", "bootstrap"}, document : Nat, load : Nat, secret : Nat]
Requests == [id : Nat, kind : {"known", "unknown", "huge"}]

BridgeTypes ==
    /\ pluginHost \in HostRecords
    /\ bridge = NoBridge \/ bridge \in Bridges
    /\ frame = NoDocument \/ frame \in Documents
    /\ frameEvents \in Seq(FrameEvents) /\ toHost \in Seq(Requests)
    /\ bridgeCounts \in [loads : Nat, documents : Nat, messages : Nat]

\* Document numbers are given once, and what a document sent carries its secret.
FramesFit ==
    /\ frame # NoDocument => frame.n >= 1 /\ frame.n <= bridgeCounts.documents
    /\ bridge # NoBridge => bridge.port <= bridgeCounts.documents
    /\ \A k \in 1..Len(frameEvents) :
          /\ frameEvents[k].document <= bridgeCounts.documents
          /\ frame # NoDocument /\ frameEvents[k].document = frame.n
               => frameEvents[k].secret = frame.secret
    /\ frame # NoDocument /\ pluginHost.awaiting => bridge # NoBridge

\* A request has its number to itself, on the port and in the program.
NumbersFit ==
    /\ \A k \in 1..Len(toHost) : toHost[k].id <= bridgeCounts.messages
    /\ \A j, k \in 1..Len(toHost) : toHost[j].id = toHost[k].id => j = k
    /\ \A c \in inProgram : /\ c.id <= bridgeCounts.messages /\ c.id \in DOMAIN replies
                            /\ \A k \in 1..Len(toHost) : toHost[k].id # c.id
    /\ \A c, d \in inProgram : c.id = d.id => c = d

AnswersFit ==
    \A i \in DOMAIN replies :
        /\ replies[i] \in {0, 1}
        /\ \A c \in inProgram : c.id = i /\ ~c.late => replies[i] = 0

BridgeInv ==
    /\ BridgeTypes /\ FramesFit /\ PortIsKept /\ NumbersFit /\ AnswersFit
    /\ SlotsCounted(inProgram, slots)

(* What the host asks, a navigation or a message of the client leaves the   *)
(* calls as they are when no request comes to the port.                     *)
LEMMA CallsKept ==
  ASSUME BridgeInv, UNCHANGED <<inProgram, slots, replies>>,
         bridgeCounts'.messages = bridgeCounts.messages,
         toHost' = toHost \/ toHost' = <<>>
  PROVE  NumbersFit' /\ AnswersFit' /\ SlotsCounted(inProgram, slots)' /\ toHost' \in Seq(Requests)
<1>1. SlotsCounted(inProgram, slots)'
  BY DEF BridgeInv, SlotsCounted, OfPlugin
<1>2. AnswersFit'
  BY DEF BridgeInv, AnswersFit
<1>3. NumbersFit'
  <2>1. CASE toHost' = toHost
    BY <2>1 DEF BridgeInv, NumbersFit
  <2>2. CASE toHost' = <<>>
    <3>1. 1..Len(toHost') = {}
      BY <2>2
    <3> QED
      BY <3>1 DEF BridgeInv, NumbersFit
  <2> QED
    BY <2>1, <2>2
<1>4. toHost' \in Seq(Requests)
  <2>1. toHost \in Seq(Requests)
    BY DEF BridgeInv, BridgeTypes
  <2>2. <<>> \in Seq(Requests)
    OBVIOUS
  <2> QED
    BY <2>1, <2>2
<1> QED
  BY <1>1, <1>2, <1>3, <1>4

(* The first request of the port is taken off.                              *)
LEMMA RequestTaken ==
  ASSUME BridgeInv, toHost # <<>>, toHost' = Tail(toHost), bridgeCounts' = bridgeCounts
  PROVE  /\ Head(toHost) \in Requests /\ toHost' \in Seq(Requests)
         /\ Head(toHost) = toHost[1] /\ 1 \in 1..Len(toHost)
         /\ \A k \in 1..Len(toHost') : toHost'[k].id # Head(toHost).id
              /\ toHost'[k].id <= bridgeCounts.messages
         /\ \A j, k \in 1..Len(toHost') : toHost'[j].id = toHost'[k].id => j = k
         /\ \A k \in 1..Len(toHost') : \E j \in 1..Len(toHost) : toHost'[k] = toHost[j]
<1>1. toHost \in Seq(Requests)
  BY DEF BridgeInv, BridgeTypes
<1>2. /\ Head(toHost) \in Requests /\ toHost' \in Seq(Requests) /\ Head(toHost) = toHost[1]
      /\ Len(toHost') = Len(toHost) - 1 /\ Len(toHost) \in Nat /\ Len(toHost) >= 1
      /\ \A k \in 1..Len(toHost') : toHost'[k] = toHost[k + 1]
  BY <1>1
<1>3. \A k \in 1..Len(toHost') : k + 1 \in 1..Len(toHost) /\ k + 1 # 1 /\ k \in Nat
  BY <1>2
<1>4. 1 \in 1..Len(toHost)
  BY <1>2
<1>5. \A j, k \in Nat : j + 1 = k + 1 => j = k
  OBVIOUS
<1> QED
  BY <1>2, <1>3, <1>4, <1>5 DEF BridgeInv, NumbersFit

(* Taking the event at the head of the frame's queue leaves those behind it.*)
LEMMA EventTaken ==
  ASSUME BridgeInv, frameEvents # <<>>, frameEvents' = Tail(frameEvents)
  PROVE  /\ Head(frameEvents) \in FrameEvents /\ frameEvents' \in Seq(FrameEvents)
         /\ Head(frameEvents) = frameEvents[1] /\ 1 \in 1..Len(frameEvents)
         /\ \A k \in 1..Len(frameEvents') :
                \E j \in 1..Len(frameEvents) : frameEvents'[k] = frameEvents[j]
<1>1. frameEvents \in Seq(FrameEvents)
  BY DEF BridgeInv, BridgeTypes
<1>2. /\ Head(frameEvents) \in FrameEvents /\ frameEvents' \in Seq(FrameEvents)
      /\ Head(frameEvents) = frameEvents[1]
      /\ Len(frameEvents') = Len(frameEvents) - 1 /\ Len(frameEvents) \in Nat
      /\ Len(frameEvents) >= 1
      /\ \A k \in 1..Len(frameEvents') : frameEvents'[k] = frameEvents[k + 1]
  BY <1>1
<1>3. \A k \in 1..Len(frameEvents') : k + 1 \in 1..Len(frameEvents)
  BY <1>2
<1>4. 1 \in 1..Len(frameEvents)
  BY <1>2
<1> QED
  BY <1>2, <1>3, <1>4

(* An event of the document in the frame joins the queue.                   *)
LEMMA EventSent ==
  ASSUME BridgeInv, frame # NoDocument, NEW kind \in {"load", "bootstrap"}, Send(kind)
  PROVE  /\ frameEvents' \in Seq(FrameEvents)
         /\ \A k \in 1..Len(frameEvents') :
               /\ frameEvents'[k].document <= bridgeCounts.documents
               /\ frameEvents'[k].document = frame.n => frameEvents'[k].secret = frame.secret
<1>1. PICK e : e = [kind |-> kind, document |-> frame.n, load |-> frame.load,
                    secret |-> frame.secret]
  OBVIOUS
<1>2. frame \in Documents
  BY DEF BridgeInv, BridgeTypes
<1>3. /\ e \in FrameEvents /\ e.document = frame.n /\ e.secret = frame.secret
      /\ frame.n <= bridgeCounts.documents /\ frameEvents' = Append(frameEvents, e)
  BY <1>1, <1>2 DEF BridgeInv, FramesFit, FrameEvents, Documents, Send
<1>4. frameEvents \in Seq(FrameEvents)
  BY DEF BridgeInv, BridgeTypes
<1>5. /\ frameEvents' \in Seq(FrameEvents) /\ Len(frameEvents') = Len(frameEvents) + 1
      /\ Len(frameEvents) \in Nat
      /\ \A k \in 1..Len(frameEvents) : frameEvents'[k] = frameEvents[k]
      /\ frameEvents'[Len(frameEvents) + 1] = e
  BY <1>3, <1>4
<1>6. \A k \in 1..Len(frameEvents') : k \in 1..Len(frameEvents) \/ k = Len(frameEvents) + 1
  BY <1>5
<1> QED
  BY <1>3, <1>5, <1>6 DEF BridgeInv, FramesFit

(* Events in the queue are of documents there have been.                    *)
LEMMA EventDocuments ==
  ASSUME BridgeInv
  PROVE  \A k \in 1..Len(frameEvents) :
            frameEvents[k].document \in Nat /\ frameEvents[k].document <= bridgeCounts.documents
<1>1. frameEvents \in Seq(FrameEvents)
  BY DEF BridgeInv, BridgeTypes
<1>2. \A k \in 1..Len(frameEvents) : frameEvents[k] \in FrameEvents
  BY <1>1
<1> QED
  BY <1>2 DEF BridgeInv, FramesFit, FrameEvents

(* Another plugin or a retry: new frame, new bridge.                        *)
LEMMA LoadKeeps == ASSUME BridgeInv, NEW p \in Plugins, LoadPlugin(p) PROVE BridgeInv'
<1>1. /\ NumbersFit' /\ AnswersFit' /\ SlotsCounted(inProgram, slots)' /\ toHost' \in Seq(Requests)
  <2>1. bridgeCounts'.messages = bridgeCounts.messages
    BY DEF LoadPlugin, BridgeInv, BridgeTypes
  <2> QED
    BY <2>1, CallsKept DEF LoadPlugin
<1>2. PICK load, n : load = bridgeCounts.loads + 1 /\ n = bridgeCounts.documents + 1
  OBVIOUS
<1>3. /\ load \in Nat /\ n \in Nat /\ bridgeCounts.documents \in Nat /\ n > bridgeCounts.documents
      /\ bridgeCounts' = [bridgeCounts EXCEPT !.loads = load, !.documents = n]
      /\ pluginHost' = [pluginHost EXCEPT !.plugin = p, !.load = load, !.awaiting = TRUE,
                        !.error = FALSE]
      /\ bridge' = [plugin |-> p, load |-> load, armed |-> FALSE, booted |-> FALSE, port |-> 0]
      /\ frame' = [n |-> n, plugin |-> p, load |-> load, secret |-> load,
                   loaded |-> FALSE, seen |-> FALSE, awaited |-> FALSE, client |-> "new"]
      /\ frameEvents' = frameEvents
  BY <1>2 DEF BridgeInv, BridgeTypes, LoadPlugin, NewBridge, Document
<1>4. bridgeCounts'.documents = n /\ bridgeCounts' \in [loads : Nat, documents : Nat,
                                                        messages : Nat]
  BY <1>3 DEF BridgeInv, BridgeTypes
<1>5. /\ pluginHost' \in HostRecords /\ pluginHost'.plugin = p
      /\ bridge' \in Bridges /\ bridge'.plugin = p /\ bridge'.port = 0 /\ bridge'.load = load
      /\ frame' \in Documents /\ frame'.plugin = p /\ frame'.n = n /\ frame'.secret = load
      /\ ~frame'.seen
  BY <1>3 DEF BridgeInv, BridgeTypes, HostRecords, Bridges, Documents
<1>6. BridgeTypes'
  BY <1>1, <1>3, <1>4, <1>5 DEF BridgeInv, BridgeTypes
<1>7. FramesFit'
  <2>1. \A k \in 1..Len(frameEvents) : frameEvents[k].document \in Nat
        /\ frameEvents[k].document <= bridgeCounts.documents
    BY EventDocuments
  <2>2. \A m \in Nat : m <= bridgeCounts.documents => m <= n /\ m # n
    BY <1>3
  <2>3. n >= 1 /\ 0 <= n
    BY <1>3
  <2> QED
    <3>1. bridge' # NoBridge
      BY <1>5, BridgeAssumption
    <3>2. \A k \in 1..Len(frameEvents') : frameEvents'[k].document <= n
          /\ frameEvents'[k].document # n
      BY <1>3, <2>1, <2>2
    <3>3. /\ frame'.n >= 1 /\ frame'.n <= bridgeCounts'.documents
          /\ bridge'.port <= bridgeCounts'.documents
      <4>1. n <= n
        BY <1>3
      <4> QED
        BY <1>4, <1>5, <2>3, <4>1
    <3> QED
      BY <1>4, <1>5, <3>1, <3>2, <3>3 DEF FramesFit
<1>8. PortIsKept'
  <2>1. n # 0
    BY <1>3
  <2> QED
    BY <1>5, <2>1 DEF PortIsKept
<1> QED
  BY <1>1, <1>6, <1>7, <1>8 DEF BridgeInv

(* A frame that cannot be loaded, and a view that is left.                  *)
LEMMA ClosesKeep == ASSUME BridgeInv, OnIframeError \/ LeavePlugin PROVE BridgeInv'
<1>1. /\ NumbersFit' /\ AnswersFit' /\ SlotsCounted(inProgram, slots)' /\ toHost' \in Seq(Requests)
  BY CallsKept DEF OnIframeError, LeavePlugin
<1>2. /\ bridge' = NoBridge /\ frame' = NoDocument /\ bridgeCounts' = bridgeCounts
      /\ frameEvents' = frameEvents \/ frameEvents' = <<>>
      /\ pluginHost' = [pluginHost EXCEPT !.error = TRUE]
           \/ pluginHost' = [pluginHost EXCEPT !.left = TRUE]
  BY DEF OnIframeError, LeavePlugin, ShowError
<1>3. pluginHost' \in HostRecords
  BY <1>2 DEF BridgeInv, BridgeTypes, HostRecords
<1>4. frameEvents' \in Seq(FrameEvents)
  <2>1. frameEvents \in Seq(FrameEvents)
    BY DEF BridgeInv, BridgeTypes
  <2>2. <<>> \in Seq(FrameEvents)
    OBVIOUS
  <2> QED
    BY <1>2, <2>1, <2>2
<1>5. BridgeTypes'
  BY <1>1, <1>2, <1>3, <1>4 DEF BridgeInv, BridgeTypes
<1>6. FramesFit'
  <2>1. frameEvents' = <<>> => 1..Len(frameEvents') = {}
    OBVIOUS
  <2>2. \A k \in 1..Len(frameEvents') : frameEvents'[k].document <= bridgeCounts.documents
    BY <1>2, <2>1 DEF BridgeInv, FramesFit
  <2> QED
    BY <1>2, <2>2 DEF FramesFit
<1>7. PortIsKept'
  BY <1>2 DEF PortIsKept
<1> QED
  BY <1>1, <1>5, <1>6, <1>7 DEF BridgeInv

(* The document loads, or asks for the port.                                *)
LEMMA DocumentSteps ==
  ASSUME BridgeInv, DocumentLoads \/ \E own \in BOOLEAN : AskForPort(own) PROVE BridgeInv'
<1>1. /\ NumbersFit' /\ AnswersFit' /\ SlotsCounted(inProgram, slots)' /\ toHost' \in Seq(Requests)
  BY CallsKept DEF DocumentLoads, AskForPort
<1>2. /\ frame # NoDocument /\ bridge' = bridge /\ bridgeCounts' = bridgeCounts
      /\ pluginHost' = pluginHost
      /\ frame' = [frame EXCEPT !.loaded = TRUE] \/ frame' = [frame EXCEPT !.client = "asked"]
  BY DEF DocumentLoads, AskForPort
<1>3. PICK kind \in {"load", "bootstrap"} : Send(kind)
  BY DEF DocumentLoads, AskForPort
<1>4. /\ frameEvents' \in Seq(FrameEvents)
      /\ \A k \in 1..Len(frameEvents') :
            /\ frameEvents'[k].document <= bridgeCounts.documents
            /\ frameEvents'[k].document = frame.n => frameEvents'[k].secret = frame.secret
  BY <1>2, <1>3, EventSent
<1>5. /\ frame' \in Documents /\ frame'.n = frame.n /\ frame'.secret = frame.secret
      /\ frame'.plugin = frame.plugin
      /\ frame'.seen = frame.seen /\ frame'.awaited = frame.awaited
  BY <1>2 DEF BridgeInv, BridgeTypes, Documents
<1>6. BridgeTypes'
  BY <1>1, <1>2, <1>4, <1>5 DEF BridgeInv, BridgeTypes
<1>7. FramesFit'
  BY <1>2, <1>4, <1>5 DEF BridgeInv, FramesFit
<1>8. PortIsKept'
  BY <1>2, <1>5 DEF BridgeInv, PortIsKept
<1> QED
  BY <1>1, <1>6, <1>7, <1>8 DEF BridgeInv

(* The client of the document gives up, or hears something.                 *)
LEMMA ClientSteps == ASSUME BridgeInv, BootstrapTimesOut \/ PluginHears PROVE BridgeInv'
<1>1. /\ NumbersFit' /\ AnswersFit' /\ SlotsCounted(inProgram, slots)' /\ toHost' \in Seq(Requests)
  BY CallsKept DEF BootstrapTimesOut, PluginHears
<1>2. PICK client \in {"failed", "open", frame.client} : frame' = [frame EXCEPT !.client = client]
  BY DEF BootstrapTimesOut, PluginHears
<1>3. /\ frame # NoDocument /\ bridge' = bridge /\ bridgeCounts' = bridgeCounts
      /\ pluginHost' = pluginHost
      /\ frameEvents' = frameEvents
  BY DEF BootstrapTimesOut, PluginHears
<1>4. /\ frame' \in Documents /\ frame'.n = frame.n /\ frame'.secret = frame.secret
      /\ frame'.plugin = frame.plugin
      /\ frame'.seen = frame.seen /\ frame'.awaited = frame.awaited
  BY <1>2, <1>3 DEF BridgeInv, BridgeTypes, Documents
<1>5. BridgeTypes'
  BY <1>1, <1>3, <1>4 DEF BridgeInv, BridgeTypes
<1>6. FramesFit'
  BY <1>3, <1>4 DEF BridgeInv, FramesFit
<1>7. PortIsKept'
  BY <1>3, <1>4 DEF BridgeInv, PortIsKept
<1> QED
  BY <1>1, <1>5, <1>6, <1>7 DEF BridgeInv

(* The frame shows another document, which the host has not seen.           *)
LEMMA NavigateKeeps == ASSUME BridgeInv, NEW secret \in Nat, Navigate(secret) PROVE BridgeInv'
<1>1. /\ NumbersFit' /\ AnswersFit' /\ SlotsCounted(inProgram, slots)' /\ toHost' \in Seq(Requests)
  <2>1. bridgeCounts'.messages = bridgeCounts.messages
    BY DEF Navigate, BridgeInv, BridgeTypes
  <2> QED
    BY <2>1, CallsKept DEF Navigate
<1>2. PICK n : n = bridgeCounts.documents + 1
  OBVIOUS
<1>3. /\ n \in Nat /\ bridgeCounts.documents \in Nat /\ n > bridgeCounts.documents
      /\ frame # NoDocument
      /\ bridgeCounts' = [bridgeCounts EXCEPT !.documents = n]
      /\ frame' = [n |-> n, plugin |-> frame.plugin, load |-> frame.load, secret |-> secret,
                   loaded |-> FALSE, seen |-> FALSE, awaited |-> FALSE, client |-> "new"]
      /\ frameEvents' = frameEvents /\ bridge' = bridge /\ pluginHost' = pluginHost
  BY <1>2 DEF BridgeInv, BridgeTypes, Navigate, Document
<1>4. bridgeCounts'.documents = n /\ bridgeCounts' \in [loads : Nat, documents : Nat,
                                                        messages : Nat]
  BY <1>3 DEF BridgeInv, BridgeTypes
<1>5. frame' \in Documents /\ frame'.plugin = frame.plugin /\ frame'.n = n /\ ~frame'.seen
  BY <1>3 DEF BridgeInv, BridgeTypes, Documents
<1>6. BridgeTypes'
  BY <1>1, <1>3, <1>4, <1>5 DEF BridgeInv, BridgeTypes
<1>7. \A m \in Nat : m <= bridgeCounts.documents => m <= n /\ m # n
  BY <1>3
<1>8. bridge # NoBridge => bridge.port \in Nat /\ bridge.port <= bridgeCounts.documents
  BY DEF BridgeInv, BridgeTypes, FramesFit, Bridges
<1>9. FramesFit'
  <2>1. \A k \in 1..Len(frameEvents) : frameEvents[k].document \in Nat
        /\ frameEvents[k].document <= bridgeCounts.documents
    BY EventDocuments
  <2>2. n >= 1 /\ n <= n
    BY <1>3
  <2>3. pluginHost'.awaiting => bridge' # NoBridge
    BY <1>3 DEF BridgeInv, FramesFit
  <2> QED
    BY <1>3, <1>4, <1>5, <1>7, <1>8, <2>1, <2>2, <2>3 DEF FramesFit
<1>10. PortIsKept'
  BY <1>3, <1>5, <1>7, <1>8 DEF BridgeInv, PortIsKept
<1> QED
  BY <1>1, <1>6, <1>9, <1>10 DEF BridgeInv

(* The host takes an event of the frame.                                    *)
LEMMA EventKeeps == ASSUME BridgeInv, TakeFrameEvent PROVE BridgeInv'
<1>1. PICK e : e = Head(frameEvents)
  OBVIOUS
<1>2. /\ frameEvents # <<>> /\ frameEvents' = Tail(frameEvents) /\ bridgeCounts' = bridgeCounts
      /\ UNCHANGED <<inProgram, slots, replies>>
  BY DEF TakeFrameEvent
<1>3. /\ e \in FrameEvents /\ frameEvents' \in Seq(FrameEvents)
      /\ e.document <= bridgeCounts.documents
      /\ frame # NoDocument /\ e.document = frame.n => e.secret = frame.secret
      /\ \A k \in 1..Len(frameEvents') :
            /\ frameEvents'[k].document <= bridgeCounts.documents
            /\ frame # NoDocument /\ frameEvents'[k].document = frame.n
                 => frameEvents'[k].secret = frame.secret
  BY <1>1, <1>2, EventTaken DEF BridgeInv, FramesFit
<1>4. \/ OnBootstrap(e)
      \/ InPage(e) /\ OnIframeLoad(e)
      \/ UNCHANGED <<pluginHost, bridge, frame, toHost, toPlugin>>
  BY <1>1 DEF TakeFrameEvent
<1>5. CASE OnBootstrap(e)
  <2>1. /\ NumbersFit' /\ AnswersFit' /\ SlotsCounted(inProgram, slots)'
        /\ toHost' \in Seq(Requests)
    BY <1>2, <1>5, CallsKept DEF OnBootstrap
  <2>2. frame' = frame /\ pluginHost' = pluginHost
    BY <1>5 DEF OnBootstrap
  <2>3. CASE MayHave(e)
    <3>1. /\ bridge # NoBridge /\ e.secret = bridge.load
          /\ bridge' = [bridge EXCEPT !.armed = FALSE, !.booted = TRUE, !.port = e.document]
      BY <1>5, <2>3 DEF OnBootstrap, MayHave
    <3>2. /\ bridge' \in Bridges /\ bridge'.port = e.document /\ bridge'.plugin = bridge.plugin
          /\ bridge'.load = bridge.load
      BY <1>3, <3>1 DEF BridgeInv, BridgeTypes, Bridges, FrameEvents
    <3>3. BridgeTypes'
      BY <1>2, <1>3, <2>1, <2>2, <3>2 DEF BridgeInv, BridgeTypes
    <3>4. FramesFit'
      <4>1. bridge'.port <= bridgeCounts'.documents
        BY <1>2, <1>3, <3>2
      <4>2. \A k \in 1..Len(frameEvents') :
               /\ frameEvents'[k].document <= bridgeCounts'.documents
               /\ frame' # NoDocument /\ frameEvents'[k].document = frame'.n
                    => frameEvents'[k].secret = frame'.secret
        BY <1>2, <1>3, <2>2
      <4>3. frame' # NoDocument => frame'.n >= 1 /\ frame'.n <= bridgeCounts'.documents
        BY <1>2, <2>2 DEF BridgeInv, FramesFit
      <4>4. bridge' # NoBridge
        BY <3>2, BridgeAssumption
      <4> QED
        BY <4>1, <4>2, <4>3, <4>4 DEF FramesFit
    <3>5. PortIsKept'
      BY <1>3, <2>2, <3>1, <3>2 DEF BridgeInv, PortIsKept
    <3> QED
      BY <2>1, <3>3, <3>4, <3>5 DEF BridgeInv
  <2>4. CASE ~MayHave(e)
    <3>1. bridge' = bridge
      BY <1>5, <2>4 DEF OnBootstrap
    <3>2. BridgeTypes'
      BY <1>2, <1>3, <2>1, <2>2, <3>1 DEF BridgeInv, BridgeTypes
    <3>3. FramesFit'
      BY <1>2, <1>3, <2>2, <3>1 DEF BridgeInv, FramesFit
    <3>4. PortIsKept'
      BY <2>2, <3>1 DEF BridgeInv, PortIsKept
    <3> QED
      BY <2>1, <3>2, <3>3, <3>4 DEF BridgeInv
  <2> QED
    BY <2>3, <2>4
<1>6. CASE InPage(e) /\ OnIframeLoad(e)
  <2>1. /\ frame # NoDocument /\ frame \in Documents /\ pluginHost \in HostRecords
        /\ frame' = IF frame.n = e.document
             THEN [frame EXCEPT !.seen = TRUE, !.awaited = pluginHost.awaiting] ELSE frame
    BY <1>6 DEF InPage, OnIframeLoad, BridgeInv, BridgeTypes
  <2>2. /\ frame' \in Documents /\ frame'.n = frame.n /\ frame'.secret = frame.secret
        /\ frame'.plugin = frame.plugin
        /\ \/ frame'.seen = frame.seen /\ frame'.awaited = frame.awaited
           \/ frame'.seen = TRUE /\ frame'.awaited = pluginHost.awaiting
    <3>1. CASE frame.n = e.document
      BY <2>1, <3>1 DEF Documents, HostRecords
    <3>2. CASE frame.n # e.document
      BY <2>1, <3>2
    <3> QED
      BY <3>1, <3>2
  <2>3. CASE pluginHost.awaiting
    <3>1. /\ pluginHost' = [pluginHost EXCEPT !.awaiting = FALSE]
          /\ bridge' = [bridge EXCEPT !.armed = TRUE]
          /\ toHost' = toHost
      BY <1>6, <2>3 DEF OnIframeLoad
    <3>2. /\ NumbersFit' /\ AnswersFit' /\ SlotsCounted(inProgram, slots)'
          /\ toHost' \in Seq(Requests)
      BY <1>2, <3>1, CallsKept
    <3>3. bridge # NoBridge /\ bridge \in Bridges
      BY <2>1, <2>3 DEF BridgeInv, BridgeTypes, FramesFit
    <3>4. /\ bridge' \in Bridges /\ bridge'.plugin = bridge.plugin /\ bridge'.port = bridge.port
          /\ bridge'.load = bridge.load
      BY <3>1, <3>3 DEF Bridges
    <3>5. pluginHost' \in HostRecords /\ pluginHost'.plugin = pluginHost.plugin
      BY <2>1, <3>1 DEF HostRecords
    <3>6. pluginHost'.awaiting = FALSE
      BY <2>1, <3>1 DEF HostRecords
    <3>7. BridgeTypes'
      BY <1>2, <1>3, <2>1, <2>2, <3>2, <3>4, <3>5 DEF BridgeInv, BridgeTypes
    <3>8. FramesFit'
      BY <1>2, <1>3, <2>1, <2>2, <3>3, <3>4, <3>6 DEF BridgeInv, FramesFit
    <3>9. PortIsKept'
      BY <2>1, <2>2, <2>3, <3>3, <3>4, <3>5 DEF BridgeInv, PortIsKept
    <3> QED
      BY <3>2, <3>7, <3>8, <3>9 DEF BridgeInv
  <2>4. CASE ~pluginHost.awaiting
    <3>1. bridge' = NoBridge /\ pluginHost' = pluginHost /\ (toHost' = toHost \/ toHost' = <<>>)
      BY <1>6, <2>4 DEF OnIframeLoad, LoadedAgain
    <3>2. /\ NumbersFit' /\ AnswersFit' /\ SlotsCounted(inProgram, slots)'
          /\ toHost' \in Seq(Requests)
      BY <1>2, <3>1, CallsKept
    <3>3. BridgeTypes'
      BY <1>2, <1>3, <2>1, <2>2, <3>1, <3>2 DEF BridgeInv, BridgeTypes
    <3>4. FramesFit'
      BY <1>2, <1>3, <2>1, <2>2, <2>4, <3>1 DEF BridgeInv, FramesFit
    <3>5. PortIsKept'
      BY <3>1 DEF PortIsKept
    <3> QED
      BY <3>2, <3>3, <3>4, <3>5 DEF BridgeInv
  <2> QED
    BY <2>3, <2>4
<1>7. CASE UNCHANGED <<pluginHost, bridge, frame, toHost, toPlugin>>
  <2>1. /\ NumbersFit' /\ AnswersFit' /\ SlotsCounted(inProgram, slots)'
        /\ toHost' \in Seq(Requests)
    BY <1>2, <1>7, CallsKept
  <2>2. BridgeTypes'
    BY <1>2, <1>3, <1>7, <2>1 DEF BridgeInv, BridgeTypes
  <2>3. FramesFit'
    BY <1>2, <1>3, <1>7 DEF BridgeInv, FramesFit
  <2>4. PortIsKept'
    BY <1>7 DEF BridgeInv, PortIsKept
  <2> QED
    BY <2>1, <2>2, <2>3, <2>4 DEF BridgeInv
<1> QED
  BY <1>4, <1>5, <1>6, <1>7

(* A request is put on the port, or is lost because no bridge listens.      *)
LEMMA RequestKeeps ==
  ASSUME BridgeInv, NEW kind \in {"known", "unknown", "huge"}, PluginCalls(kind) PROVE BridgeInv'
<1>1. PICK m, r : m = bridgeCounts.messages + 1 /\ r = [id |-> m, kind |-> kind]
  OBVIOUS
<1>2. /\ m \in Nat /\ bridgeCounts.messages \in Nat /\ m = bridgeCounts.messages + 1
      /\ bridgeCounts' = [bridgeCounts EXCEPT !.messages = m]
      /\ toHost' = toHost \/ toHost' = Append(toHost, r)
      /\ UNCHANGED <<pluginHost, bridge, frame, frameEvents, inProgram, slots, replies>>
      /\ r \in Requests /\ r.id = m /\ toHost \in Seq(Requests)
  BY <1>1 DEF PluginCalls, BridgeInv, BridgeTypes, Requests
<1>3. /\ bridgeCounts'.messages = m /\ bridgeCounts'.documents = bridgeCounts.documents
      /\ bridgeCounts' \in [loads : Nat, documents : Nat, messages : Nat]
  BY <1>2 DEF BridgeInv, BridgeTypes
<1>4. /\ toHost' \in Seq(Requests)
      /\ \A k \in 1..Len(toHost') : \/ k \in 1..Len(toHost) /\ toHost'[k] = toHost[k]
                                    \/ k = Len(toHost) + 1 /\ k = Len(toHost') /\ toHost'[k] = r
  <2>1. CASE toHost' = toHost
    BY <1>2, <2>1
  <2>2. CASE toHost' = Append(toHost, r)
    <3>1. /\ toHost' \in Seq(Requests) /\ Len(toHost') = Len(toHost) + 1 /\ Len(toHost) \in Nat
          /\ \A k \in 1..Len(toHost) : toHost'[k] = toHost[k]
          /\ toHost'[Len(toHost) + 1] = r
      BY <1>2, <2>2
    <3>2. \A k \in 1..Len(toHost') : k \in 1..Len(toHost) \/ k = Len(toHost) + 1
      BY <3>1
    <3> QED
      BY <3>1, <3>2
  <2> QED
    BY <1>2, <2>1, <2>2
<1>5. \A i \in Nat : i <= bridgeCounts.messages => i <= m /\ i # m
  BY <1>2
<1>6. \A k \in 1..Len(toHost) : toHost[k].id \in Nat /\ toHost[k].id <= bridgeCounts.messages
  <2>1. \A k \in 1..Len(toHost) : toHost[k] \in Requests
    BY <1>2
  <2> QED
    BY <2>1 DEF BridgeInv, NumbersFit, Requests
<1>7. \A c \in inProgram : c.id \in Nat /\ c.id <= bridgeCounts.messages
  BY DEF BridgeInv, NumbersFit, SlotsCounted, CallRecords
<1>8. NumbersFit'
  <2>1. \A k \in 1..Len(toHost') : toHost'[k].id <= m
    BY <1>2, <1>4, <1>5, <1>6
  <2>2. ASSUME NEW j \in 1..Len(toHost'), NEW k \in 1..Len(toHost'), toHost'[j].id = toHost'[k].id
        PROVE j = k
    <3>1. CASE j \in 1..Len(toHost) /\ toHost'[j] = toHost[j] /\ k \in 1..Len(toHost)
          /\ toHost'[k] = toHost[k]
      BY <2>2, <3>1 DEF BridgeInv, NumbersFit
    <3>2. CASE toHost'[j] = r /\ j = Len(toHost') /\ toHost'[k] = r /\ k = Len(toHost')
      BY <3>2
    <3>3. CASE toHost'[j] = r /\ k \in 1..Len(toHost) /\ toHost'[k] = toHost[k]
      BY <1>2, <1>5, <1>6, <2>2, <3>3
    <3>4. CASE toHost'[k] = r /\ j \in 1..Len(toHost) /\ toHost'[j] = toHost[j]
      BY <1>2, <1>5, <1>6, <2>2, <3>4
    <3> QED
      BY <1>4, <3>1, <3>2, <3>3, <3>4
  <2>3. \A c \in inProgram : \A k \in 1..Len(toHost') : toHost'[k].id # c.id
    BY <1>2, <1>4, <1>5, <1>7 DEF BridgeInv, NumbersFit
  <2>4. \A c \in inProgram : c.id <= m
    BY <1>5, <1>7
  <2> QED
    BY <1>2, <1>3, <2>1, <2>2, <2>3, <2>4 DEF BridgeInv, NumbersFit
<1>9. BridgeTypes'
  BY <1>2, <1>3, <1>4 DEF BridgeInv, BridgeTypes
<1>10. FramesFit' /\ PortIsKept' /\ AnswersFit' /\ SlotsCounted(inProgram, slots)'
  BY <1>2, <1>3 DEF BridgeInv, FramesFit, PortIsKept, AnswersFit, SlotsCounted, OfPlugin
<1> QED
  BY <1>8, <1>9, <1>10 DEF BridgeInv

(* The host takes a request off the port.                                   *)
LEMMA MessageKeeps == ASSUME BridgeInv, OnPortMessage PROVE BridgeInv'
<1>1. PICK m : m = Head(toHost)
  OBVIOUS
<1>2. bridge # NoBridge /\ toHost # <<>> /\ toHost' = Tail(toHost) /\ bridge' = bridge
      /\ bridgeCounts' = bridgeCounts
  BY DEF OnPortMessage
<1>3. /\ m \in Requests /\ toHost' \in Seq(Requests)
      /\ m = toHost[1] /\ 1 \in 1..Len(toHost)
      /\ \A k \in 1..Len(toHost') : toHost'[k].id # m.id /\ toHost'[k].id <= bridgeCounts.messages
      /\ \A j, k \in 1..Len(toHost') : toHost'[j].id = toHost'[k].id => j = k
      /\ \A k \in 1..Len(toHost') : \E j \in 1..Len(toHost) : toHost'[k] = toHost[j]
  BY <1>1, <1>2, RequestTaken
<1>4. bridge \in Bridges
  BY <1>2 DEF BridgeInv, BridgeTypes
<1>5. ASSUME UNCHANGED <<inProgram, replies>> PROVE NumbersFit'
  <2>1. \A c \in inProgram : \A k \in 1..Len(toHost') : toHost'[k].id # c.id
    BY <1>3 DEF BridgeInv, NumbersFit
  <2>2. /\ \A c \in inProgram : c.id <= bridgeCounts.messages /\ c.id \in DOMAIN replies
        /\ \A c, d \in inProgram : c.id = d.id => c = d
    BY DEF BridgeInv, NumbersFit
  <2> QED
    BY <1>2, <1>3, <1>5, <2>1, <2>2 DEF NumbersFit
<1>6. CASE ShowError /\ UNCHANGED <<inProgram, slots, replies>>
  <2>1. /\ frame' = NoDocument /\ frameEvents' = frameEvents
        /\ pluginHost' = [pluginHost EXCEPT !.error = TRUE]
    BY <1>6 DEF ShowError
  <2>2. pluginHost' \in HostRecords
    BY <2>1 DEF BridgeInv, BridgeTypes, HostRecords
  <2>3. BridgeTypes'
    BY <1>2, <1>3, <2>1, <2>2 DEF BridgeInv, BridgeTypes
  <2>4. FramesFit' /\ PortIsKept'
    BY <1>2, <2>1 DEF BridgeInv, FramesFit, PortIsKept
  <2>5. AnswersFit' /\ SlotsCounted(inProgram, slots)'
    BY <1>6 DEF BridgeInv, AnswersFit, SlotsCounted, OfPlugin
  <2> QED
    BY <1>5, <1>6, <2>3, <2>4, <2>5 DEF BridgeInv
<1>7. CASE UNCHANGED <<pluginHost, frame, frameEvents, inProgram, slots, replies>>
  <2>1. BridgeTypes'
    BY <1>2, <1>3, <1>7 DEF BridgeInv, BridgeTypes
  <2>2. FramesFit' /\ PortIsKept'
    BY <1>2, <1>7 DEF BridgeInv, FramesFit, PortIsKept
  <2>3. AnswersFit' /\ SlotsCounted(inProgram, slots)'
    BY <1>7 DEF BridgeInv, AnswersFit, SlotsCounted, OfPlugin
  <2> QED
    BY <1>5, <1>7, <2>1, <2>2, <2>3 DEF BridgeInv
<1>8. CASE /\ Free(bridge.plugin) /\ slots' = Reserved(bridge.plugin)
           /\ inProgram' = inProgram \union {[id |-> m.id, plugin |-> bridge.plugin,
                                              load |-> bridge.load, late |-> FALSE]}
           /\ replies' = [i \in DOMAIN replies \union {m.id} |-> IF i = m.id THEN 0 ELSE replies[i]]
           /\ UNCHANGED <<pluginHost, frame, frameEvents>>
  <2>1. PICK n : n = [id |-> m.id, plugin |-> bridge.plugin, load |-> bridge.load, late |-> FALSE]
    OBVIOUS
  <2>2. n \in CallRecords /\ n.id = m.id /\ n.plugin = bridge.plugin
    BY <1>3, <1>4, <2>1 DEF CallRecords, Requests, Bridges
  <2>3. \A c \in inProgram : c.id # m.id
    BY <1>3 DEF BridgeInv, NumbersFit
  <2>4. n \notin inProgram /\ inProgram' = inProgram \union {n}
    BY <1>8, <2>1, <2>2, <2>3
  <2>5. SlotsCounted(inProgram \union {n}, slots')
    <3>1. /\ SlotsCounted(inProgram, slots)
          /\ slots.global < GlobalSlots /\ slots.plugin[n.plugin] < PluginSlots
          /\ slots' = [global |-> slots.global + 1,
                       plugin |-> [slots.plugin EXCEPT ![n.plugin] = @ + 1]]
      BY <1>8, <2>2 DEF BridgeInv, Free, Reserved
    <3>2. PICK after : after = slots'
      OBVIOUS
    <3> QED
      BY <2>2, <2>4, <3>1, <3>2, CallStarts
  <2>6. SlotsCounted(inProgram, slots)'
    BY <2>4, <2>5 DEF SlotsCounted, OfPlugin
  <2>7. DOMAIN replies' = DOMAIN replies \union {m.id}
        /\ replies'[m.id] = 0 /\ \A i \in DOMAIN replies : i # m.id => replies'[i] = replies[i]
    BY <1>8
  <2>8. AnswersFit'
    BY <2>2, <2>4, <2>7 DEF BridgeInv, AnswersFit
  <2>9. NumbersFit'
    <3>1. \A c \in inProgram : \A k \in 1..Len(toHost') : toHost'[k].id # c.id
      BY <1>3 DEF BridgeInv, NumbersFit
    <3>2. m.id <= bridgeCounts.messages
      BY <1>3 DEF BridgeInv, NumbersFit
    <3>3. \A c \in inProgram' : c \in inProgram \/ c = n
      BY <2>4
    <3>4. \A c \in inProgram' : /\ c.id <= bridgeCounts'.messages /\ c.id \in DOMAIN replies'
                                /\ \A k \in 1..Len(toHost') : toHost'[k].id # c.id
      BY <1>2, <1>3, <2>2, <2>7, <3>1, <3>2, <3>3 DEF BridgeInv, NumbersFit
    <3>5. \A c, d \in inProgram' : c.id = d.id => c = d
      BY <2>2, <2>3, <3>3 DEF BridgeInv, NumbersFit
    <3> QED
      BY <1>2, <1>3, <3>4, <3>5 DEF NumbersFit
  <2>10. BridgeTypes'
    BY <1>2, <1>3, <1>8 DEF BridgeInv, BridgeTypes
  <2>11. FramesFit' /\ PortIsKept'
    BY <1>2, <1>8 DEF BridgeInv, FramesFit, PortIsKept
  <2> QED
    BY <2>6, <2>8, <2>9, <2>10, <2>11 DEF BridgeInv
<1> QED
  BY <1>1, <1>6, <1>7, <1>8 DEF OnPortMessage

(* The host gives up on a request, whose call goes on.                      *)
LEMMA TimeoutKeeps == ASSUME BridgeInv, NEW c \in inProgram, RequestTimesOut(c) PROVE BridgeInv'
<1>1. PICK d : d = [c EXCEPT !.late = TRUE]
  OBVIOUS
<1>2. /\ ~c.late /\ replies' = [replies EXCEPT ![c.id] = @ + 1]
      /\ inProgram' = (inProgram \ {c}) \union {d} /\ slots' = slots
      /\ UNCHANGED <<pluginHost, bridge, frame, frameEvents, toHost, bridgeCounts>>
  BY <1>1 DEF RequestTimesOut, SlotsWhenLate
<1>3. c \in CallRecords
  BY DEF BridgeInv, SlotsCounted
<1>4. d \in CallRecords /\ d.late = TRUE /\ d.id = c.id /\ d.plugin = c.plugin
  BY <1>1, <1>3 DEF CallRecords
<1>5. d # c /\ d \notin inProgram
  BY <1>2, <1>4 DEF BridgeInv, NumbersFit
<1>6. SlotsCounted((inProgram \ {c}) \union {d}, slots)
  BY <1>4, <1>5, CallIsLate DEF BridgeInv
<1>7. SlotsCounted(inProgram, slots)'
  BY <1>2, <1>6 DEF SlotsCounted, OfPlugin
<1>8. \A x \in inProgram' : x = d \/ (x \in inProgram /\ x # c)
  BY <1>2
<1>9. /\ DOMAIN replies' = DOMAIN replies /\ c.id \in DOMAIN replies /\ replies[c.id] = 0
      /\ replies'[c.id] = 1
      /\ \A i \in DOMAIN replies : i # c.id => replies'[i] = replies[i]
  BY <1>2 DEF BridgeInv, NumbersFit, AnswersFit
<1>10. AnswersFit'
  <2>1. \A x \in inProgram' : x.id = c.id => x.late
    BY <1>4, <1>8 DEF BridgeInv, NumbersFit
  <2> QED
    BY <1>4, <1>8, <1>9, <2>1 DEF BridgeInv, AnswersFit
<1>11. NumbersFit'
  <2>1. \A x, y \in inProgram' : x.id = y.id => x = y
    BY <1>4, <1>8 DEF BridgeInv, NumbersFit
  <2>2. \A x \in inProgram' : \E y \in inProgram : x.id = y.id
    BY <1>4, <1>8
  <2> QED
    BY <1>2, <1>9, <2>1, <2>2 DEF BridgeInv, NumbersFit
<1>12. BridgeTypes' /\ FramesFit' /\ PortIsKept'
  BY <1>2 DEF BridgeInv, BridgeTypes, FramesFit, PortIsKept
<1> QED
  BY <1>7, <1>10, <1>11, <1>12 DEF BridgeInv

(* A call comes back: its outcome is sent unless it is late.                *)
LEMMA SettleKeeps == ASSUME BridgeInv, NEW c \in inProgram, CallSettles(c) PROVE BridgeInv'
<1>1. /\ inProgram' = inProgram \ {c} /\ slots' = Released(c.plugin)
      /\ UNCHANGED <<pluginHost, bridge, frame, frameEvents, toHost, bridgeCounts>>
      /\ (~c.late /\ replies' = [replies EXCEPT ![c.id] = @ + 1]) \/ replies' = replies
  BY DEF CallSettles, SaysOutcome
<1>2. SlotsCounted(inProgram \ {c}, slots')
  <2>1. PICK after : after = slots'
    OBVIOUS
  <2>2. after = [global |-> IF slots.global = 0 THEN 0 ELSE slots.global - 1,
                 plugin |-> [slots.plugin EXCEPT ![c.plugin] = IF @ = 0 THEN 0 ELSE @ - 1]]
    BY <1>1, <2>1 DEF Released
  <2> QED
    BY <2>1, <2>2, CallEnds DEF BridgeInv
<1>3. SlotsCounted(inProgram, slots)'
  BY <1>1, <1>2 DEF SlotsCounted, OfPlugin
<1>4. /\ DOMAIN replies' = DOMAIN replies /\ \A i \in DOMAIN replies : replies'[i] \in {0, 1}
      /\ \A i \in DOMAIN replies : i # c.id => replies'[i] = replies[i]
  BY <1>1 DEF BridgeInv, NumbersFit, AnswersFit
<1>5. \A x \in inProgram' : x \in inProgram /\ x # c /\ x.id # c.id
  BY <1>1 DEF BridgeInv, NumbersFit
<1>6. AnswersFit'
  BY <1>4, <1>5 DEF BridgeInv, AnswersFit
<1>7. NumbersFit'
  BY <1>1, <1>4, <1>5 DEF BridgeInv, NumbersFit
<1>8. BridgeTypes' /\ FramesFit' /\ PortIsKept'
  BY <1>1 DEF BridgeInv, BridgeTypes, FramesFit, PortIsKept
<1> QED
  BY <1>3, <1>6, <1>7, <1>8 DEF BridgeInv

(* The invariant of the bridge, for any number of loads, documents and      *)
(* requests, any limits and any plugins (pluginBridge.ts,                   *)
(* PluginHostView.vue).                                                     *)
THEOREM BridgeInvariance == BridgeSpec => []BridgeInv
<1>1. BridgeInit => BridgeInv
  <2> SUFFICES ASSUME BridgeInit PROVE BridgeInv
    OBVIOUS
  <2> USE BridgeAssumption
  <2>1. PICK p \in Plugins :
          /\ pluginHost = [plugin |-> p, load |-> 1, awaiting |-> TRUE, error |-> FALSE,
                           left |-> FALSE]
          /\ bridge = [plugin |-> p, load |-> 1, armed |-> FALSE, booted |-> FALSE, port |-> 0]
          /\ frame = [n |-> 1, plugin |-> p, load |-> 1, secret |-> 1,
                      loaded |-> FALSE, seen |-> FALSE, awaited |-> FALSE, client |-> "new"]
          /\ frameEvents = <<>> /\ toHost = <<>> /\ inProgram = {} /\ replies = <<>>
          /\ slots = [global |-> 0, plugin |-> [x \in Plugins |-> 0]]
          /\ bridgeCounts = [loads |-> 1, documents |-> 1, messages |-> 0]
    BY DEF BridgeInit, NewBridge, Document
  <2>2. pluginHost \in HostRecords /\ bridge \in Bridges /\ frame \in Documents
    BY <2>1 DEF HostRecords, Bridges, Documents
  <2>3. BridgeTypes
    BY <2>1, <2>2 DEF BridgeTypes
  <2>4. 1..Len(frameEvents) = {} /\ 1..Len(toHost) = {} /\ DOMAIN replies = {}
    BY <2>1
  <2>5. FramesFit
    <3>1. frame.n = 1 /\ bridge.port = 0 /\ bridgeCounts.documents = 1 /\ bridge # NoBridge
      BY <2>1, <2>2
    <3> QED
      BY <2>4, <3>1 DEF FramesFit
  <2>8. PortIsKept
    <3>1. /\ frame.n = 1 /\ bridge.port = 0 /\ bridge.plugin = p /\ frame.plugin = p
          /\ pluginHost.plugin = p
          /\ ~frame.seen
      BY <2>1
    <3> QED
      BY <3>1 DEF PortIsKept
  <2>6. NumbersFit /\ AnswersFit
    BY <2>1, <2>4 DEF NumbersFit, AnswersFit
  <2>7. SlotsCounted(inProgram, slots)
    <3>1. \A x \in Plugins : OfPlugin(inProgram, x) = {}
      BY <2>1 DEF OfPlugin
    <3>2. IsFiniteSet({}) /\ Cardinality({}) = 0
      BY FS_EmptySet
    <3>3. slots \in SlotRecords
      BY <2>1 DEF SlotRecords
    <3>4. slots.global = 0 /\ \A x \in Plugins : slots.plugin[x] = 0
      BY <2>1
    <3>5. 0 <= GlobalSlots /\ 0 <= PluginSlots
      OBVIOUS
    <3> QED
      BY <2>1, <3>1, <3>2, <3>3, <3>4, <3>5 DEF SlotsCounted
  <2> QED
    BY <2>3, <2>5, <2>6, <2>7, <2>8 DEF BridgeInv
<1>2. BridgeInv /\ [BridgeNext]_bridgeVars => BridgeInv'
  <2> SUFFICES ASSUME BridgeInv, [BridgeNext]_bridgeVars PROVE BridgeInv'
    OBVIOUS
  <2>1. CASE \E p \in Plugins : LoadPlugin(p)
    BY <2>1, LoadKeeps
  <2>2. CASE TakeFrameEvent
    BY <2>2, EventKeeps
  <2>3. CASE OnIframeError \/ LeavePlugin
    BY <2>3, ClosesKeep
  <2>4. CASE DocumentLoads \/ \E own \in BOOLEAN : AskForPort(own)
    BY <2>4, DocumentSteps
  <2>5. CASE BootstrapTimesOut \/ PluginHears
    BY <2>5, ClientSteps
  <2>6. CASE \E secret \in 0..MaxLoads : Navigate(secret)
    BY <2>6, NavigateKeeps
  <2>7. CASE \E kind \in {"known", "unknown", "huge"} : PluginCalls(kind)
    BY <2>7, RequestKeeps
  <2>8. CASE OnPortMessage
    BY <2>8, MessageKeeps
  <2>9. CASE \E c \in inProgram : RequestTimesOut(c) \/ CallSettles(c)
    BY <2>9, TimeoutKeeps, SettleKeeps
  <2>10. CASE UNCHANGED bridgeVars
    BY <2>10 DEF bridgeVars, BridgeInv, BridgeTypes, FramesFit, PortIsKept, NumbersFit, AnswersFit,
        SlotsCounted, OfPlugin
  <2> QED
    BY <2>1, <2>2, <2>3, <2>4, <2>5, <2>6, <2>7, <2>8, <2>9, <2>10 DEF BridgeNext
<1> QED
  BY <1>1, <1>2, PTL DEF BridgeSpec

(* What a plugin may ask of the program is bounded and answered once, and   *)
(* only a document that knows the secret may ask (pluginBridge.ts).         *)
THEOREM BridgeIsRight == BridgeSpec => []BridgeRight
<1>1. BridgeInv => BridgeRight
  <2> SUFFICES ASSUME BridgeInv PROVE BridgeRight
    OBVIOUS
  <2>1. SlotsAreCalls
    BY DEF BridgeInv, SlotsCounted, OfPlugin, SlotsAreCalls
  <2>2. OneAnswer
    <3>1. \A i \in DOMAIN replies : replies[i] <= 1
      BY DEF BridgeInv, AnswersFit
    <3> QED
      BY <3>1 DEF BridgeInv, AnswersFit, OneAnswer
  <2> QED
    BY <2>1, <2>2 DEF BridgeInv, BridgeRight
<1> QED
  BY <1>1, BridgeInvariance, PTL

-----------------------------------------------------------------------------
(* The video trimming view.                                                 *)

MaybeVideo == Videos \union {NoVideo}
Steps == {"ensure", "stop", "probe", "start", "load", "giveUp"}
Openings == [id : Nat, path : Videos, step : Steps]
Jobs == [id : Nat, input : MaybeVideo, suggested : MaybeVideo, from : Int, to : Int]
Marks == [head : Int, from : Int, to : Int]

TrimTypes ==
    /\ shownFile \in MaybeVideo /\ probed \in MaybeVideo /\ loaded \in MaybeVideo
    /\ marks \in Marks /\ thumbs \in [Slots -> MaybeVideo]
    /\ inflight \subseteq [slot : Slots, of : MaybeVideo]
    /\ player \in [active : BOOLEAN, playing : BOOLEAN, seeking : BOOLEAN]
    /\ openings \subseteq Openings /\ dialogs \subseteq [id : Nat, of : MaybeVideo]
    /\ starting \subseteq [job : Jobs, registered : BOOLEAN] /\ jobs \subseteq Jobs
    /\ exportTask \in Nat /\ doneEvents \subseteq Nat
    /\ gone \in BOOLEAN /\ crossed \in BOOLEAN
    /\ counts \in [openings : Nat, exports : Nat, gestures : Nat]

\* An export of the file its dialog was about, up to its end at most.
OfOneFile(j) == j.input \in Videos /\ j.input = j.suggested /\ j.to <= Lengths[j.input]

\* While no opening crosses anything, everything is about the file shown.
Uncrossed ==
    /\ \A o, p \in openings : o = p
    /\ gone => openings = {} /\ loaded = NoVideo
    /\ \A o \in openings : IF o.step \in {"ensure", "stop"} THEN inflight = {} /\ dialogs = {}
                           ELSE o.path = shownFile /\ preview # "direct"
    /\ probed \in {NoVideo, shownFile}
    /\ \A s \in Slots : thumbs[s] \in {NoVideo, shownFile}
    /\ \A r \in inflight : r.of = shownFile
    /\ \A d \in dialogs : d.of = shownFile /\ probed = shownFile /\ probed # NoVideo
    /\ \A s \in starting : OfOneFile(s.job)
    /\ \A j \in jobs : OfOneFile(j)
    /\ preview = "direct" => loaded = shownFile \/ gone
    /\ loaded # NoVideo /\ ~player.active => \E o \in openings : o.step = "giveUp"

\* Exports are numbered, and an export that was answered runs or has ended.
ExportsFit ==
    /\ exportTask <= counts.exports
    /\ \A i \in doneEvents : i <= counts.exports
    /\ \A d \in dialogs : /\ d.id >= 1 /\ d.id <= counts.exports
                          /\ d.id \notin doneEvents /\ d.id # exportTask
                          /\ \A s \in starting : s.job.id # d.id
                          /\ \A j \in jobs : j.id # d.id
                          /\ \A e \in dialogs : e.id = d.id => e = d
    /\ \A s \in starting : /\ s.job.id >= 1 /\ s.job.id <= counts.exports /\ s.job.id # exportTask
                           /\ \A t \in starting : t.job.id = s.job.id => t = s
                           /\ ~s.registered => s.job.id \notin doneEvents
                                /\ \A j \in jobs : j.id # s.job.id
                           /\ s.registered => \/ s.job.id \in doneEvents \/ s.job.id \in untracked
                                              \/ \E j \in jobs : j.id = s.job.id
    /\ \A j \in jobs : /\ j.id >= 1 /\ j.id <= counts.exports /\ j.id \notin doneEvents
                       /\ \A i \in jobs : i.id = j.id => i = j

TrimInv == TrimTypes /\ MarksInside /\ (~crossed => Uncrossed) /\ ExportsFit /\ ExportShown

(* The smaller and the larger of two integers.                              *)
LEMMA MinMax ==
  ASSUME NEW a \in Int, NEW b \in Int
  PROVE  /\ Min({a, b}) = IF a <= b THEN a ELSE b
         /\ Max({a, b}) = IF a <= b THEN b ELSE a
<1>1. CASE a <= b
  <2>1. \A x \in {a, b} : (\A y \in {a, b} : x <= y) <=> x = a
    BY <1>1
  <2>2. \A x \in {a, b} : (\A y \in {a, b} : x >= y) <=> x = b
    BY <1>1
  <2> QED
    BY <1>1, <2>1, <2>2 DEF Min, Max
<1>2. CASE ~(a <= b)
  <2>1. \A x \in {a, b} : (\A y \in {a, b} : x <= y) <=> x = b
    BY <1>2
  <2>2. \A x \in {a, b} : (\A y \in {a, b} : x >= y) <=> x = a
    BY <1>2
  <2> QED
    BY <1>2, <2>1, <2>2 DEF Min, Max
<1> QED
  BY <1>1, <1>2

(* A time is clamped into the file.                                         *)
LEMMA Clamped ==
  ASSUME NEW sec \in Int, NEW length \in Nat
  PROVE  ClampTime(sec, length) \in Int /\ 0 <= ClampTime(sec, length)
        /\ ClampTime(sec, length) <= length
<1>1. PICK m, z : z = 0 /\ m = Max({sec, z})
  OBVIOUS
<1>2. m \in Int /\ m >= 0
  <2>1. z \in Int
    BY <1>1
  <2>2. Max({sec, z}) = IF sec <= z THEN z ELSE sec
    BY <2>1, MinMax
  <2> QED
    BY <1>1, <2>1, <2>2
<1>3. Min({m, length}) = IF m <= length THEN m ELSE length
  BY <1>2, MinMax
<1> QED
  BY <1>1, <1>2, <1>3 DEF ClampTime

(* The length of a video.                                                   *)
LEMMA LengthType == ASSUME NEW v \in MaybeVideo PROVE Length(v) \in Nat
      /\ (v \in Videos => Length(v) = Lengths[v])
BY TrimAssumption DEF Length, MaybeVideo

(* Steps that have nothing to do with exports.                              *)
LEMMA ExportsKept ==
  ASSUME TrimInv, UNCHANGED <<dialogs, jobVars>>, counts'.exports = counts.exports
  PROVE  ExportsFit' /\ ExportShown'
BY DEF TrimInv, ExportsFit, ExportShown, jobVars

(* What the user does is counted.                                           *)
LEMMA Gestures ==
  ASSUME TrimInv, NEW kind \in {"openings", "exports", "gestures"}, Gesture(kind)
  PROVE  /\ ~gone /\ counts' \in [openings : Nat, exports : Nat, gestures : Nat]
         /\ counts'.exports = IF kind = "exports" THEN counts.exports + 1 ELSE counts.exports
<1>1. PICK c : c = counts
  OBVIOUS
<1>2. c \in [openings : Nat, exports : Nat, gestures : Nat]
  BY <1>1 DEF TrimInv, TrimTypes
<1>0. /\ c.openings \in Nat /\ c.exports \in Nat /\ c.gestures \in Nat
      /\ c.openings + 1 \in Nat /\ c.exports + 1 \in Nat /\ c.gestures + 1 \in Nat
  BY <1>2
<1>3. ~gone /\ counts' = [c EXCEPT ![kind] = @ + 1, !.gestures = c.gestures + 1]
  BY <1>1 DEF Gesture
<1>4. CASE kind = "exports"
  <2>1. counts' = [c EXCEPT !.exports = c.exports + 1, !.gestures = c.gestures + 1]
    BY <1>3, <1>4
  <2>2. counts' \in [openings : Nat, exports : Nat, gestures : Nat]
    BY <1>0, <1>2, <2>1
  <2>3. counts'.exports = c.exports + 1
    BY <1>2, <2>1
  <2> QED
    BY <1>1, <1>3, <1>4, <2>2, <2>3
<1>5. CASE kind = "openings"
  <2>1. counts' = [c EXCEPT !.openings = c.openings + 1, !.gestures = c.gestures + 1]
    BY <1>3, <1>5
  <2>2. counts' \in [openings : Nat, exports : Nat, gestures : Nat]
    BY <1>0, <1>2, <2>1
  <2>3. counts'.exports = c.exports
    BY <1>2, <2>1
  <2> QED
    BY <1>1, <1>3, <1>5, <2>2, <2>3
<1>6. CASE kind = "gestures"
  <2>1. counts' = [c EXCEPT !.gestures = c.gestures + 1, !.gestures = c.gestures + 1]
    BY <1>3, <1>6
  <2>2. counts' \in [openings : Nat, exports : Nat, gestures : Nat]
    BY <1>0, <1>2, <2>1
  <2>3. counts'.exports = c.exports
    BY <1>2, <2>1
  <2> QED
    BY <1>1, <1>3, <1>6, <2>2, <2>3
<1> QED
  BY <1>4, <1>5, <1>6

(* The marks stay inside the file when neither they nor the file change, or *)
(* when the file is no longer known.                                        *)
LEMMA MarksKept ==
  ASSUME TrimInv, marks' = marks, probed' = probed \/ probed' = NoVideo
  PROVE  MarksInside'
BY DEF TrimInv, MarksInside

(* From the answer about the runtime on.                                    *)
LEMMA ProceedKeeps ==
  ASSUME TrimInv, NEW o \in Openings, NEW found, Proceed(o, found), UNCHANGED <<dialogs, jobVars>>,
  gone' = gone,
         counts'.exports = counts.exports,
         counts' \in [openings : Nat, exports : Nat, gestures : Nat],
         crossed' \in BOOLEAN,
         ~crossed' => /\ ~crossed /\ ~gone /\ openings \subseteq {o} /\ inflight = {}
                      /\ dialogs = {}
                      /\ loaded # NoVideo => player.active
  PROVE  TrimInv'
<1>1. inflight' = inflight /\ loaded' = loaded /\ marks' = marks /\ player' = player
  BY DEF Proceed
<1>2. starting' = starting /\ jobs' = jobs /\ exportTask' = exportTask /\ doneEvents' = doneEvents
      /\ dialogs' = dialogs
  BY DEF jobVars
<1>3. PICK step \in {"over", "stop", "probe"} :
         /\ step = "over" => openings' = openings \ {o}
              /\ UNCHANGED <<shownFile, probed, preview, thumbs>>
         /\ step = "stop" => /\ openings' = (openings \ {o}) \union {[o EXCEPT !.step = "stop"]}
                             /\ UNCHANGED <<shownFile, probed, preview, thumbs>> /\ player.active
         /\ step = "probe" => /\ openings' = (openings \ {o}) \union {[o EXCEPT !.step = "probe"]}
                              /\ shownFile' = o.path /\ probed' = NoVideo /\ preview' = "idle"
                              /\ thumbs' = NoThumbs
                              /\ ~player.active
  BY DEF Proceed, Over, At, ShowPath
<1>4. PICK p, q : p = [o EXCEPT !.step = "probe"] /\ q = [o EXCEPT !.step = "stop"]
  OBVIOUS
<1>5. p \in Openings /\ q \in Openings /\ p.path = o.path /\ p.step = "probe" /\ q.step = "stop"
      /\ o.path \in MaybeVideo
  BY <1>4 DEF Openings, Steps, MaybeVideo
<1>6. NoThumbs \in [Slots -> MaybeVideo] /\ \A s \in Slots : NoThumbs[s] = NoVideo
  BY DEF NoThumbs, MaybeVideo
<1>7. TrimTypes'
  <2>1. openings' \subseteq Openings
    BY <1>3, <1>4, <1>5 DEF TrimInv, TrimTypes
  <2>2. shownFile' \in MaybeVideo /\ probed' \in MaybeVideo /\ thumbs' \in [Slots -> MaybeVideo]
    BY <1>3, <1>5, <1>6 DEF TrimInv, TrimTypes, MaybeVideo
  <2> QED
    BY <1>1, <1>2, <2>1, <2>2 DEF TrimInv, TrimTypes
<1>8. MarksInside'
  BY <1>1, <1>3, MarksKept
<1>9. ExportsFit' /\ ExportShown'
  BY ExportsKept
<1>10. ASSUME ~crossed' PROVE Uncrossed'
  <2>1. /\ Uncrossed /\ ~gone /\ openings \subseteq {o} /\ inflight = {} /\ dialogs = {}
        /\ loaded # NoVideo => player.active
    BY <1>10 DEF TrimInv
  <2>2. /\ gone' = FALSE /\ inflight' = {} /\ dialogs' = {} /\ loaded' = loaded /\ player' = player
        /\ starting' = starting /\ jobs' = jobs
        /\ loaded' # NoVideo => player'.active
    BY <1>1, <1>2, <2>1 DEF TrimInv, TrimTypes
  <2>3. (\A s \in starting' : OfOneFile(s.job)) /\ (\A j \in jobs' : OfOneFile(j))
    BY <2>1, <2>2 DEF Uncrossed
  <2>4. CASE step = "over"
    <3>1. openings' = {} /\ shownFile' = shownFile /\ probed' = probed /\ preview' = preview
          /\ thumbs' = thumbs
      BY <1>3, <2>1, <2>4
    <3> QED
      BY <2>1, <2>2, <2>3, <3>1 DEF Uncrossed
  <2>5. CASE step = "stop"
    <3>1. openings' = {q} /\ shownFile' = shownFile /\ probed' = probed /\ preview' = preview
          /\ thumbs' = thumbs
      BY <1>3, <1>4, <2>1, <2>5
    <3> QED
      BY <1>5, <2>1, <2>2, <2>3, <3>1 DEF Uncrossed
  <2>6. CASE step = "probe"
    <3>1. openings' = {p} /\ shownFile' = o.path /\ probed' = NoVideo /\ preview' = "idle"
          /\ thumbs' = NoThumbs
      BY <1>3, <1>4, <2>1, <2>6
    <3> QED
      BY <1>5, <1>6, <2>1, <2>2, <2>3, <3>1 DEF Uncrossed
  <2> QED
    BY <1>3, <2>4, <2>5, <2>6
<1> QED
  BY <1>7, <1>8, <1>9, <1>10 DEF TrimInv

(* Opening a file.                                                          *)
LEMMA OpenKeeps == ASSUME TrimInv, OpenVideo PROVE TrimInv'
<1>1. /\ ~gone /\ counts' \in [openings : Nat, exports : Nat, gestures : Nat]
      /\ counts'.exports = counts.exports
      /\ gone' = gone /\ UNCHANGED <<dialogs, jobVars>>
      /\ crossed' = (crossed \/ openings # {} \/ inflight # {} \/ dialogs # {})
  BY Gestures DEF OpenVideo, KeepJobs
<1>0. PICK path \in Videos : LET o == [id |-> counts.openings + 1, path |-> path,
                                       step |-> "ensure"] IN
         \/ openings' = openings \union {o}
            /\ UNCHANGED <<shownFile, probed, preview, thumbs, inflight, loaded, marks, player>>
         \/ Proceed(o, runtime)
  BY DEF OpenVideo
<1>2. PICK o :
         /\ o = [id |-> counts.openings + 1, path |-> path, step |-> "ensure"]
         /\ \/ openings' = openings \union {o}
               /\ UNCHANGED <<shownFile, probed, preview, thumbs, inflight, loaded, marks, player>>
            \/ Proceed(o, runtime)
  BY <1>0
<1>3. o \in Openings /\ o.step = "ensure"
  BY <1>2 DEF Openings, Steps, TrimInv, TrimTypes
<1>4. crossed' \in BOOLEAN
  BY <1>1 DEF TrimInv, TrimTypes
<1>5. ~crossed' => /\ ~crossed /\ ~gone /\ openings = {} /\ inflight = {} /\ dialogs = {}
                   /\ loaded # NoVideo => player.active
  BY <1>1 DEF TrimInv, Uncrossed
<1>6. CASE Proceed(o, runtime)
  BY <1>1, <1>3, <1>4, <1>5, <1>6, ProceedKeeps
<1>7. CASE /\ openings' = openings \union {o}
           /\ UNCHANGED <<shownFile, probed, preview, thumbs, inflight, loaded, marks, player>>
  <2>1. TrimTypes'
    BY <1>1, <1>3, <1>4, <1>7 DEF TrimInv, TrimTypes, jobVars
  <2>2. MarksInside'
    BY <1>7, MarksKept
  <2>3. ExportsFit' /\ ExportShown'
    BY <1>1, ExportsKept
  <2>4. ASSUME ~crossed' PROVE Uncrossed'
    <3>1. openings' = {o} /\ gone' = FALSE /\ inflight' = {} /\ dialogs' = {}
          /\ (loaded' # NoVideo => player'.active)
      BY <1>1, <1>5, <1>7, <2>4 DEF TrimInv, TrimTypes
    <3>2. Uncrossed /\ starting' = starting /\ jobs' = jobs
      BY <1>1, <1>5, <2>4 DEF TrimInv, jobVars
    <3>3. /\ shownFile' = shownFile /\ probed' = probed /\ preview' = preview /\ thumbs' = thumbs
          /\ loaded' = loaded /\ player' = player
      BY <1>7
    <3>4. (\A s \in starting' : OfOneFile(s.job)) /\ (\A j \in jobs' : OfOneFile(j))
      BY <3>2 DEF Uncrossed
    <3>5. /\ probed' \in {NoVideo, shownFile'}
          /\ \A s \in Slots : thumbs'[s] \in {NoVideo, shownFile'}
          /\ preview' = "direct" => loaded' = shownFile' \/ gone'
      BY <1>1, <3>2, <3>3 DEF Uncrossed
    <3>6. \A x \in openings' : x.step \in {"ensure", "stop"}
      BY <1>3, <3>1
    <3> QED
      BY <3>1, <3>4, <3>5, <3>6 DEF Uncrossed
  <2> QED
    BY <2>1, <2>2, <2>3, <2>4 DEF TrimInv
<1> QED
  BY <1>2, <1>6, <1>7

(* The sidecars are found, a file is left, and nothing else.                *)
LEMMA SidecarsKeep == ASSUME TrimInv, LoadSidecars PROVE TrimInv'
<1>1. /\ UNCHANGED <<shownFile, probed, thumbs, inflight, preview, loaded, openings, marks, player,
                     gone, crossed, counts>>
      /\ UNCHANGED <<dialogs, jobVars>>
  BY DEF LoadSidecars, KeepJobs
<1>2. TrimTypes' /\ MarksInside'
  BY <1>1 DEF TrimInv, TrimTypes, MarksInside, jobVars, Length
<1>3. ExportsFit' /\ ExportShown'
  BY <1>1, ExportsKept
<1>4. ~crossed' => Uncrossed'
  BY <1>1 DEF TrimInv, Uncrossed, jobVars
<1> QED
  BY <1>2, <1>3, <1>4 DEF TrimInv

(* The view is left.                                                        *)
LEMMA LeaveTrimKeeps == ASSUME TrimInv, LeaveTrim PROVE TrimInv'
<1>1. /\ UNCHANGED <<shownFile, probed, thumbs, inflight, preview, openings, marks, player, counts>>
      /\ UNCHANGED <<dialogs, jobVars>>
      /\ gone' = TRUE /\ crossed' = (crossed \/ openings # {})
      /\ loaded' = IF player.active THEN NoVideo ELSE loaded
  BY DEF LeaveTrim, KeepJobs
<1>2. TrimTypes' /\ MarksInside'
  BY <1>1 DEF TrimInv, TrimTypes, MarksInside, jobVars, Length, MaybeVideo
<1>3. ExportsFit' /\ ExportShown'
  BY <1>1, ExportsKept
<1>4. ASSUME ~crossed' PROVE Uncrossed'
  <2>1. Uncrossed /\ openings = {} /\ loaded' = NoVideo
    BY <1>1, <1>4 DEF TrimInv, Uncrossed
  <2> QED
    BY <1>1, <2>1 DEF Uncrossed, jobVars
<1> QED
  BY <1>2, <1>3, <1>4 DEF TrimInv

(* A step of an opening goes on.                                            *)
LEMMA OpeningKeeps == ASSUME TrimInv, OpeningGoesOn PROVE TrimInv'
<1>1. /\ UNCHANGED <<gone, crossed, counts>> /\ UNCHANGED <<dialogs, jobVars>>
  BY DEF OpeningGoesOn, KeepJobs
<1>2. PICK o \in openings : Ensured(o) \/ MpvStopped(o) \/ Probed(o) \/ MpvStarted(o)
      \/ MpvLoaded(o) \/ GaveUp(o)
  BY DEF OpeningGoesOn
<1>3. /\ o \in Openings /\ o.path \in Videos /\ o.path \in MaybeVideo
      /\ counts' \in [openings : Nat, exports : Nat, gestures : Nat]
      /\ counts'.exports = counts.exports
      /\ gone' = gone /\ crossed' = crossed /\ crossed' \in BOOLEAN
  BY <1>1 DEF TrimInv, TrimTypes, Openings, MaybeVideo
<1>4. ExportsFit' /\ ExportShown'
  BY <1>1, <1>3, ExportsKept
<1>5. dialogs' = dialogs /\ starting' = starting /\ jobs' = jobs /\ exportTask' = exportTask
      /\ doneEvents' = doneEvents
  BY <1>1 DEF jobVars
<1>6. ASSUME ~crossed
      PROVE  /\ Uncrossed /\ openings = {o} /\ gone = FALSE
             /\ (\A s \in starting : OfOneFile(s.job)) /\ (\A j \in jobs : OfOneFile(j))
  BY <1>2, <1>6 DEF TrimInv, TrimTypes, Uncrossed
<1>7. PICK oStop, oProbe, oStart, oLoad, oGiveUp :
         /\ oStop = [o EXCEPT !.step = "stop"] /\ oProbe = [o EXCEPT !.step = "probe"]
         /\ oStart = [o EXCEPT !.step = "start"] /\ oLoad = [o EXCEPT !.step = "load"]
         /\ oGiveUp = [o EXCEPT !.step = "giveUp"]
  OBVIOUS
<1>8. /\ oProbe \in Openings /\ oStart \in Openings /\ oLoad \in Openings /\ oGiveUp \in Openings
      /\ oProbe.path = o.path /\ oStart.path = o.path /\ oLoad.path = o.path
      /\ oGiveUp.path = o.path
      /\ oProbe.step = "probe" /\ oStart.step = "start" /\ oLoad.step = "load"
      /\ oGiveUp.step = "giveUp"
  BY <1>3, <1>7 DEF Openings, Steps
<1>9. NoThumbs \in [Slots -> MaybeVideo] /\ \A s \in Slots : NoThumbs[s] = NoVideo
  BY DEF NoThumbs, MaybeVideo
<1>10. player \in [active : BOOLEAN, playing : BOOLEAN, seeking : BOOLEAN]
  BY DEF TrimInv, TrimTypes
<1>11. CASE Ensured(o)
  <2>1. PICK found : Proceed(o, found)
    BY <1>11 DEF Ensured
  <2>2. ~crossed' => /\ ~crossed /\ ~gone /\ openings \subseteq {o} /\ inflight = {} /\ dialogs = {}
                     /\ loaded # NoVideo => player.active
    BY <1>3, <1>6, <1>11 DEF Ensured, Uncrossed
  <2> QED
    BY <1>1, <1>3, <2>1, <2>2, ProceedKeeps
<1>12. CASE MpvStopped(o)
  <2>1. /\ o.step = "stop" /\ loaded' = NoVideo /\ player' = [player EXCEPT !.active = FALSE]
        /\ shownFile' = o.path /\ probed' = NoVideo /\ preview' = "idle" /\ thumbs' = NoThumbs
        /\ openings' = (openings \ {o}) \union {oProbe} /\ inflight' = inflight /\ marks' = marks
    BY <1>7, <1>12 DEF MpvStopped, ShowPath, At
  <2>2. player' \in [active : BOOLEAN, playing : BOOLEAN, seeking : BOOLEAN]
    BY <1>10, <2>1
  <2>3. TrimTypes'
    <3>1. openings' \subseteq Openings
      BY <1>8, <2>1 DEF TrimInv, TrimTypes
    <3> QED
      BY <1>1, <1>3, <1>5, <1>9, <2>1, <2>2, <3>1 DEF TrimInv, TrimTypes, MaybeVideo
  <2>4. MarksInside'
    BY <2>1, MarksKept
  <2>5. ASSUME ~crossed' PROVE Uncrossed'
    <3>1. openings' = {oProbe} /\ gone' = FALSE /\ inflight' = {} /\ dialogs' = {}
      BY <1>3, <1>5, <1>6, <2>1, <2>5 DEF Uncrossed
    <3> QED
      BY <1>3, <1>5, <1>6, <1>8, <1>9, <2>1, <2>5, <3>1 DEF Uncrossed
  <2> QED
    BY <1>4, <2>3, <2>4, <2>5 DEF TrimInv
<1>13. CASE Probed(o)
  <2>1. /\ o.step = "probe"
        /\ shownFile' = shownFile /\ thumbs' = thumbs /\ inflight' = inflight /\ loaded' = loaded
        /\ player' = player
        /\ \/ openings' = openings \ {o} /\ probed' = probed /\ marks' = marks /\ preview' = preview
           \/ /\ probed' = o.path /\ marks' = [head |-> 0, from |-> 0, to |-> Lengths[o.path]]
              /\ preview' # "direct"
              /\ openings' = openings \ {o} \/ openings' = (openings \ {o}) \union {oStart}
    BY <1>7, <1>13 DEF Probed, Over, At, WholeFile
  <2>2. openings' \subseteq Openings /\ probed' \in MaybeVideo
    BY <1>3, <1>8, <2>1 DEF TrimInv, TrimTypes
  <2>3. marks' \in Marks
    <3>1. Lengths[o.path] \in Nat
      BY <1>3, TrimAssumption
    <3>2. marks' = marks \/ marks' = [head |-> 0, from |-> 0, to |-> Lengths[o.path]]
      BY <2>1
    <3>3. marks \in Marks
      BY DEF TrimInv, TrimTypes
    <3> QED
      BY <3>1, <3>2, <3>3 DEF Marks
  <2>4. TrimTypes'
    BY <1>1, <1>3, <1>5, <2>1, <2>2, <2>3 DEF TrimInv, TrimTypes
  <2>5. MarksInside'
    <3>1. CASE probed' = probed /\ marks' = marks
      BY <3>1, MarksKept
    <3>2. CASE probed' = o.path /\ marks' = [head |-> 0, from |-> 0, to |-> Lengths[o.path]]
      <4>1. Length(probed') \in Nat /\ Length(probed') = Lengths[o.path]
        BY <1>3, <3>2, LengthType
      <4>2. marks'.head = 0 /\ marks'.from = 0 /\ marks'.to = Length(probed')
        BY <3>2, <4>1
      <4> QED
        BY <4>1, <4>2 DEF MarksInside, Length
    <3> QED
      BY <2>1, <3>1, <3>2
  <2>6. ASSUME ~crossed' PROVE Uncrossed'
    <3>1. (openings' = {} \/ openings' = {oStart}) /\ gone' = FALSE /\ o.path = shownFile
          /\ preview # "direct"
          /\ preview' # "direct" /\ (loaded' # NoVideo => player'.active)
      BY <1>3, <1>6, <2>1, <2>6 DEF Uncrossed
    <3>2. probed' = probed \/ probed' = shownFile
      BY <2>1, <3>1
    <3>3. \A d \in dialogs' : d.of = shownFile /\ probed' = shownFile /\ probed' # NoVideo
      BY <1>3, <1>5, <1>6, <2>6, <3>1, <3>2, TrimAssumption DEF Uncrossed
    <3> QED
      BY <1>3, <1>5, <1>6, <1>8, <2>1, <2>6, <3>1, <3>2, <3>3 DEF Uncrossed
  <2> QED
    BY <1>4, <2>4, <2>5, <2>6 DEF TrimInv
<1>14. CASE MpvStarted(o) \/ MpvLoaded(o)
  <2>1. /\ o.step \in {"start", "load"}
        /\ shownFile' = shownFile /\ probed' = probed /\ thumbs' = thumbs /\ inflight' = inflight
        /\ marks' = marks
        /\ \/ /\ preview' = "failed" /\ player' = [player EXCEPT !.active = FALSE]
              /\ openings' = (openings \ {o}) \union {oGiveUp} /\ loaded' = loaded
           \/ openings' = (openings \ {o}) \union {oLoad} /\ preview' = preview /\ player' = player
                /\ loaded' = loaded
           \/ /\ loaded' = o.path /\ preview' = "direct" /\ openings' = openings \ {o}
              /\ player' = [player EXCEPT !.active = TRUE, !.playing = FALSE]
    BY <1>7, <1>14 DEF MpvStarted, MpvLoaded, PreviewFails, At, Over
  <2>2. openings' \subseteq Openings /\ loaded' \in MaybeVideo
    BY <1>3, <1>8, <2>1 DEF TrimInv, TrimTypes
  <2>3. player' \in [active : BOOLEAN, playing : BOOLEAN, seeking : BOOLEAN]
    BY <1>10, <2>1
  <2>4. TrimTypes'
    BY <1>1, <1>3, <1>5, <2>1, <2>2, <2>3 DEF TrimInv, TrimTypes
  <2>5. MarksInside'
    BY <2>1, MarksKept
  <2>6. ASSUME ~crossed' PROVE Uncrossed'
    <3>1. gone' = FALSE /\ o.path = shownFile /\ preview # "direct"
          /\ (loaded # NoVideo => player.active)
      BY <1>3, <1>6, <2>1, <2>6 DEF Uncrossed
    <3>2. \/ openings' = {oGiveUp} /\ preview' = "failed" /\ loaded' = loaded
          \/ openings' = {oLoad} /\ preview' = preview /\ player' = player /\ loaded' = loaded
          \/ openings' = {} /\ loaded' = shownFile /\ preview' = "direct" /\ player'.active
      BY <1>3, <1>6, <1>10, <2>1, <2>6, <3>1
    <3>3. Uncrossed /\ crossed = FALSE
      BY <1>3, <1>6, <2>6 DEF TrimInv, TrimTypes
    <3> QED
      BY <1>5, <1>8, <2>1, <3>1, <3>2, <3>3 DEF Uncrossed
  <2> QED
    BY <1>4, <2>4, <2>5, <2>6 DEF TrimInv
<1>15. CASE GaveUp(o)
  <2>1. /\ o.step = "giveUp" /\ loaded' = NoVideo /\ openings' = openings \ {o}
        /\ shownFile' = shownFile /\ probed' = probed /\ thumbs' = thumbs /\ inflight' = inflight
        /\ preview' = preview /\ marks' = marks /\ player' = player
    BY <1>15 DEF GaveUp, Over
  <2>2. TrimTypes'
    BY <1>1, <1>3, <1>5, <2>1 DEF TrimInv, TrimTypes, MaybeVideo
  <2>3. MarksInside'
    BY <2>1, MarksKept
  <2>4. ASSUME ~crossed' PROVE Uncrossed'
    <3>1. openings' = {} /\ gone' = FALSE /\ preview # "direct" /\ Uncrossed
      BY <1>3, <1>6, <2>1, <2>4 DEF Uncrossed
    <3> QED
      BY <1>5, <2>1, <3>1 DEF Uncrossed
  <2> QED
    BY <1>4, <2>2, <2>3, <2>4 DEF TrimInv
<1> QED
  BY <1>2, <1>11, <1>12, <1>13, <1>14, <1>15

(* The user plays, seeks and marks; the player reports.                     *)
LEMMA TouchKeeps == ASSUME TrimInv, Touch \/ PlayerReports PROVE TrimInv'
<1>1. /\ UNCHANGED fileVars /\ UNCHANGED <<gone, crossed>> /\ UNCHANGED <<dialogs, jobVars>>
      /\ counts' \in [openings : Nat, exports : Nat, gestures : Nat]
      /\ counts'.exports = counts.exports
  <2>1. CASE Touch
    <3>1. Gesture("gestures")
      BY <2>1 DEF Touch
    <3>2. counts' \in [openings : Nat, exports : Nat, gestures : Nat]
          /\ counts'.exports = counts.exports
      BY <3>1, Gestures
    <3> QED
      BY <2>1, <3>2 DEF Touch, KeepJobs
  <2>2. CASE PlayerReports
    BY <2>2 DEF PlayerReports, KeepJobs, TrimInv, TrimTypes
  <2> QED
    BY <2>1, <2>2
<1>2. /\ shownFile' = shownFile /\ probed' = probed /\ thumbs' = thumbs /\ inflight' = inflight
      /\ preview' = preview
      /\ loaded' = loaded /\ openings' = openings /\ gone' = gone /\ crossed' = crossed
      /\ dialogs' = dialogs /\ starting' = starting /\ jobs' = jobs /\ exportTask' = exportTask
      /\ doneEvents' = doneEvents
  BY <1>1 DEF fileVars, jobVars
<1>3. ExportsFit' /\ ExportShown'
  BY <1>1, ExportsKept
<1>4. PICK length : length = Length(probed)
  OBVIOUS
<1>5. length \in Nat /\ marks \in Marks /\ marks.head \in Int /\ marks.from \in Int
      /\ marks.to \in Int
  BY <1>4, LengthType DEF TrimInv, TrimTypes, Marks
<1>6. \/ marks' = marks
      \/ \E p \in SeekPlaces : marks' = [marks EXCEPT !.head = ClampTime(p, length)]
      \/ probed # NoVideo /\ marks' = [marks EXCEPT !.from = Min({ClampTime(marks.head, length),
                                                                  marks.to})]
      \/ probed # NoVideo /\ marks' = [marks EXCEPT !.to = Max({ClampTime(marks.head, length),
                                                                marks.from})]
  BY <1>4 DEF Touch, PlayerReports, SetInPoint, SetOutPoint
<1>7. /\ player' \in [active : BOOLEAN, playing : BOOLEAN, seeking : BOOLEAN]
      /\ player'.active = player.active
  <2>1. player \in [active : BOOLEAN, playing : BOOLEAN, seeking : BOOLEAN]
    BY DEF TrimInv, TrimTypes
  <2>2. \/ player' = player
        \/ player' = [player EXCEPT !.playing = ~player.playing]
        \/ player' = [player EXCEPT !.seeking = player.seeking \/ player.active]
        \/ player' = [player EXCEPT !.seeking = FALSE]
    BY DEF Touch, PlayerReports
  <2> QED
    BY <2>1, <2>2
<1>8. marks' \in Marks /\ MarksInside'
  <2>1. CASE marks' = marks
    BY <1>2, <1>5, <2>1, MarksKept
  <2>2. CASE \E p \in SeekPlaces : marks' = [marks EXCEPT !.head = ClampTime(p, length)]
    <3>1. PICK p \in SeekPlaces : marks' = [marks EXCEPT !.head = ClampTime(p, length)]
      BY <2>2
    <3>2. PICK c : c = ClampTime(p, length)
      OBVIOUS
    <3>3. c \in Int /\ 0 <= c /\ c <= length
      BY <1>5, <3>1, <3>2, Clamped, TrimAssumption
    <3>4. marks' \in Marks /\ marks'.head = c /\ marks'.from = marks.from /\ marks'.to = marks.to
      BY <1>5, <3>1, <3>2, <3>3 DEF Marks
    <3> QED
      BY <1>2, <1>4, <3>3, <3>4 DEF TrimInv, MarksInside, Length
  <2>3. CASE probed # NoVideo /\ marks' = [marks EXCEPT !.from = Min({ClampTime(marks.head,
                                                                                length), marks.to})]
    <3>1. PICK c, m : c = ClampTime(marks.head, length) /\ m = Min({c, marks.to})
      OBVIOUS
    <3>2. c \in Int /\ 0 <= c /\ c <= length
      BY <1>5, <3>1, Clamped
    <3>3. m = IF c <= marks.to THEN c ELSE marks.to
      BY <1>5, <3>1, <3>2, MinMax
    <3>4. marks' \in Marks /\ marks'.head = marks.head /\ marks'.from = m /\ marks'.to = marks.to
      BY <1>5, <2>3, <3>1, <3>2, <3>3 DEF Marks
    <3>5. 0 <= marks.from /\ marks.from <= marks.to /\ marks.to <= length /\ 0 <= marks.head
          /\ marks.head <= length
      BY <1>4, <2>3 DEF TrimInv, MarksInside
    <3>6. 0 <= m /\ m <= marks.to
      BY <1>5, <3>2, <3>3, <3>5
    <3> QED
      BY <1>2, <1>4, <3>4, <3>5, <3>6 DEF MarksInside, Length
  <2>4. CASE probed # NoVideo /\ marks' = [marks EXCEPT !.to = Max({ClampTime(marks.head, length),
                                                                    marks.from})]
    <3>1. PICK c, m : c = ClampTime(marks.head, length) /\ m = Max({c, marks.from})
      OBVIOUS
    <3>2. c \in Int /\ 0 <= c /\ c <= length
      BY <1>5, <3>1, Clamped
    <3>3. m = IF c <= marks.from THEN marks.from ELSE c
      BY <1>5, <3>1, <3>2, MinMax
    <3>4. marks' \in Marks /\ marks'.head = marks.head /\ marks'.from = marks.from /\ marks'.to = m
      BY <1>5, <2>4, <3>1, <3>2, <3>3 DEF Marks
    <3>5. 0 <= marks.from /\ marks.from <= marks.to /\ marks.to <= length /\ 0 <= marks.head
          /\ marks.head <= length
      BY <1>4, <2>4 DEF TrimInv, MarksInside
    <3>6. marks.from <= m /\ m <= length
      BY <1>5, <3>2, <3>3, <3>5
    <3> QED
      BY <1>2, <1>4, <3>4, <3>5, <3>6 DEF MarksInside, Length
  <2> QED
    BY <1>6, <2>1, <2>2, <2>3, <2>4
<1>9. TrimTypes'
  BY <1>1, <1>2, <1>7, <1>8 DEF TrimInv, TrimTypes
<1>10. ~crossed' => Uncrossed'
  BY <1>2, <1>7 DEF TrimInv, Uncrossed
<1> QED
  BY <1>3, <1>8, <1>9, <1>10 DEF TrimInv

(* Pictures are asked for and arrive.                                       *)
LEMMA ThumbnailsKeep == ASSUME TrimInv, Thumbnails PROVE TrimInv'
<1>1. /\ UNCHANGED <<shownFile, probed, preview, loaded, openings, marks, player, gone, counts>>
      /\ UNCHANGED <<dialogs, jobVars>>
  BY DEF Thumbnails, KeepJobs
<1>2. dialogs' = dialogs /\ starting' = starting /\ jobs' = jobs /\ exportTask' = exportTask
      /\ doneEvents' = doneEvents
  BY <1>1 DEF jobVars
<1>3. ExportsFit' /\ ExportShown' /\ MarksInside'
  BY <1>1, ExportsKept, MarksKept
<1>4. ASSUME NEW s \in Slots, RequestThumb(s) PROVE TrimInv'
  <2>1. PICK r : r = [slot |-> s, of |-> shownFile]
    OBVIOUS
  <2>2. /\ inflight' = inflight \union {r} /\ thumbs' = thumbs /\ crossed' = (crossed \/ Unsettled)
        /\ r \in [slot : Slots, of : MaybeVideo] /\ r.of = shownFile
    BY <1>4, <2>1 DEF RequestThumb, TrimInv, TrimTypes
  <2>3. TrimTypes'
    BY <1>1, <1>2, <2>2 DEF TrimInv, TrimTypes
  <2>4. ASSUME ~crossed' PROVE Uncrossed'
    <3>1. Uncrossed /\ \A o \in openings : o.step \notin {"ensure", "stop"}
      BY <2>2, <2>4 DEF TrimInv, Unsettled
    <3> QED
      BY <1>1, <1>2, <2>2, <3>1 DEF Uncrossed
  <2> QED
    BY <1>3, <2>3, <2>4 DEF TrimInv
<1>5. ASSUME NEW r \in inflight, ThumbArrives(r) PROVE TrimInv'
  <2>1. /\ inflight' = inflight \ {r} /\ crossed' = crossed /\ r \in [slot : Slots, of : MaybeVideo]
        /\ thumbs' = thumbs \/ thumbs' = [thumbs EXCEPT ![r.slot] = r.of]
    BY <1>5 DEF ThumbArrives, TrimInv, TrimTypes
  <2>2. thumbs' \in [Slots -> MaybeVideo] /\ \A s \in Slots : thumbs'[s] \in {thumbs[s], r.of}
    BY <2>1 DEF TrimInv, TrimTypes
  <2>3. TrimTypes'
    BY <1>1, <1>2, <2>1, <2>2 DEF TrimInv, TrimTypes
  <2>4. ASSUME ~crossed' PROVE Uncrossed'
    BY <1>1, <1>2, <2>1, <2>2, <2>4 DEF TrimInv, Uncrossed
  <2> QED
    BY <1>3, <2>3, <2>4 DEF TrimInv
<1> QED
  BY <1>4, <1>5 DEF Thumbnails

(* What no step of an export changes.                                       *)
ExportFrame ==
    /\ shownFile' = shownFile /\ probed' = probed /\ thumbs' = thumbs /\ inflight' = inflight
    /\ preview' = preview
    /\ loaded' = loaded /\ openings' = openings /\ marks' = marks /\ player' = player
    /\ gone' = gone

(* An export is begun: its dialog has a number of its own.                  *)
LEMMA StartKeeps == ASSUME TrimInv, ExportFrame, StartExport PROVE TrimInv'
<1>1. /\ counts' \in [openings : Nat, exports : Nat, gestures : Nat]
      /\ counts'.exports = counts.exports + 1
      /\ counts.exports \in Nat
  BY Gestures DEF StartExport, TrimInv, TrimTypes
<1>2. PICK d : d = [id |-> counts.exports + 1, of |-> shownFile]
  OBVIOUS
<1>3. /\ dialogs' = dialogs \union {d} /\ crossed' = (crossed \/ Unsettled) /\ probed # NoVideo
      /\ starting' = starting /\ jobs' = jobs /\ exportTask' = exportTask
      /\ doneEvents' = doneEvents
      /\ untracked' = untracked
  BY <1>2 DEF StartExport, jobVars
<1>4. d \in [id : Nat, of : MaybeVideo] /\ d.id = counts.exports + 1 /\ d.of = shownFile
  BY <1>1, <1>2 DEF TrimInv, TrimTypes
<1>5. TrimTypes'
  BY <1>1, <1>3, <1>4 DEF TrimInv, TrimTypes, ExportFrame
<1>6. MarksInside'
  BY MarksKept DEF ExportFrame
<1>7. ASSUME ~crossed' PROVE Uncrossed'
  <2>1. Uncrossed /\ \A o \in openings : o.step \notin {"ensure", "stop"}
    BY <1>3, <1>7 DEF TrimInv, Unsettled
  <2>2. \A e \in dialogs' : e.of = shownFile /\ probed = shownFile
    BY <1>3, <1>4, <2>1 DEF Uncrossed
  <2> QED
    BY <1>3, <2>1, <2>2 DEF Uncrossed, ExportFrame
<1>8. ExportsFit'
  <2>1. /\ \A i \in doneEvents : i \in Nat /\ i <= counts.exports
        /\ \A e \in dialogs : e.id \in Nat /\ e.id <= counts.exports
        /\ \A s \in starting : s.job.id \in Nat /\ s.job.id <= counts.exports
        /\ \A j \in jobs : j.id \in Nat /\ j.id <= counts.exports
        /\ exportTask \in Nat /\ exportTask <= counts.exports
    BY DEF TrimInv, TrimTypes, ExportsFit, Jobs
  <2>2. /\ \A i \in doneEvents : i # d.id /\ i <= counts'.exports
        /\ \A e \in dialogs : e.id # d.id /\ e.id <= counts'.exports
        /\ \A s \in starting : s.job.id # d.id /\ s.job.id <= counts'.exports
        /\ \A j \in jobs : j.id # d.id /\ j.id <= counts'.exports
        /\ exportTask # d.id /\ exportTask <= counts'.exports /\ d.id >= 1
        /\ d.id <= counts'.exports
    BY <1>1, <1>4, <2>1
  <2> QED
    BY <1>3, <2>2 DEF TrimInv, ExportsFit
<1>9. ExportShown'
  BY <1>3 DEF TrimInv, ExportShown
<1> QED
  BY <1>5, <1>6, <1>7, <1>8, <1>9 DEF TrimInv

(* The file is chosen: the export is of the file and the marks shown.       *)
LEMMA SaveKeeps == ASSUME TrimInv, ExportFrame, NEW d \in dialogs, SaveAnswered(d) PROVE TrimInv'
<1>1. /\ dialogs' = dialogs \ {d} /\ jobs' = jobs /\ exportTask' = exportTask
      /\ doneEvents' = doneEvents
      /\ untracked' = untracked /\ crossed' = crossed /\ counts' = counts
  BY DEF SaveAnswered
<1>2. PICK job, s : /\ job = [id |-> d.id, input |-> shownFile, suggested |-> d.of,
                              from |-> marks.from, to |-> marks.to]
                    /\ s = [job |-> job, registered |-> FALSE]
  OBVIOUS
<1>3. starting' = starting \/ starting' = starting \union {s}
  BY <1>2 DEF SaveAnswered
<1>4. d \in [id : Nat, of : MaybeVideo] /\ marks \in Marks /\ shownFile \in MaybeVideo
  BY DEF TrimInv, TrimTypes
<1>5. /\ job \in Jobs /\ job.id = d.id /\ job.input = shownFile /\ job.suggested = d.of
      /\ job.to = marks.to
      /\ s \in [job : Jobs, registered : BOOLEAN] /\ s.job = job /\ s.registered = FALSE
  BY <1>2, <1>4 DEF Jobs, Marks
<1>6. TrimTypes'
  BY <1>1, <1>3, <1>5 DEF TrimInv, TrimTypes, ExportFrame
<1>7. MarksInside'
  BY MarksKept DEF ExportFrame
<1>8. ASSUME ~crossed' PROVE Uncrossed'
  <2>1. Uncrossed /\ d.of = shownFile /\ probed = shownFile /\ probed # NoVideo
    BY <1>1, <1>8 DEF TrimInv, Uncrossed
  <2>2. OfOneFile(job)
    <3>1. shownFile \in Videos
      BY <1>4, <2>1 DEF MaybeVideo
    <3>2. marks.to <= Lengths[shownFile]
      BY <2>1, <3>1, LengthType DEF TrimInv, MarksInside, MaybeVideo
    <3> QED
      BY <1>5, <2>1, <3>1, <3>2 DEF OfOneFile
  <2>3. \A t \in starting' : OfOneFile(t.job)
    BY <1>3, <1>5, <2>1, <2>2 DEF Uncrossed
  <2> QED
    BY <1>1, <2>1, <2>3 DEF Uncrossed, ExportFrame
<1>9. ExportsFit'
  <2>1. /\ d.id >= 1 /\ d.id <= counts.exports /\ d.id \notin doneEvents /\ d.id # exportTask
        /\ (\A t \in starting : t.job.id # d.id) /\ (\A j \in jobs : j.id # d.id)
        /\ \A e \in dialogs' : e \in dialogs /\ e.id # d.id
    BY <1>1 DEF TrimInv, ExportsFit
  <2>2. CASE starting' = starting
    BY <1>1, <2>2 DEF TrimInv, ExportsFit
  <2>3. CASE starting' = starting \union {s}
    <3>1. ExportsFit
      BY DEF TrimInv
    <3>2. \A e \in dialogs' : \A t \in starting' : t.job.id # e.id
      BY <1>5, <2>1, <2>3, <3>1 DEF ExportsFit
    <3>3. \A t \in starting' : \A u \in starting' : u.job.id = t.job.id => u = t
      BY <1>5, <2>1, <2>3, <3>1 DEF ExportsFit
    <3>4. \A t \in starting' : /\ t.job.id >= 1 /\ t.job.id <= counts.exports
                               /\ t.job.id # exportTask
                               /\ ~t.registered => t.job.id \notin doneEvents
                                    /\ \A j \in jobs : j.id # t.job.id
                               /\ t.registered => \/ t.job.id \in doneEvents
                                                       \/ t.job.id \in untracked
                                                  \/ \E j \in jobs : j.id = t.job.id
      BY <1>5, <2>1, <2>3, <3>1 DEF ExportsFit
    <3> QED
      BY <1>1, <2>1, <3>1, <3>2, <3>3, <3>4 DEF ExportsFit
  <2> QED
    BY <1>3, <2>2, <2>3
<1>10. ExportShown'
  BY <1>1, <1>3 DEF TrimInv, ExportShown
<1> QED
  BY <1>6, <1>7, <1>8, <1>9, <1>10 DEF TrimInv

(* The export is registered, or refused.                                    *)
LEMMA RegisteredKeeps == ASSUME TrimInv, ExportFrame, NEW s \in starting, JobRegistered(s)
      PROVE TrimInv'
<1>1. /\ dialogs' = dialogs /\ exportTask' = exportTask /\ doneEvents' = doneEvents /\ ~s.registered
      /\ untracked' = untracked /\ crossed' = crossed /\ counts' = counts
  BY DEF JobRegistered
<1>2. PICK t : t = [s EXCEPT !.registered = TRUE]
  OBVIOUS
<1>3. \/ starting' = starting \ {s} /\ jobs' = jobs
      \/ starting' = (starting \ {s}) \union {t} /\ jobs' = jobs \union {s.job}
  BY <1>2 DEF JobRegistered
<1>4. s \in [job : Jobs, registered : BOOLEAN] /\ s.job \in Jobs
  BY DEF TrimInv, TrimTypes
<1>5. t \in [job : Jobs, registered : BOOLEAN] /\ t.job = s.job /\ t.registered
  BY <1>2, <1>4
<1>6. TrimTypes'
  BY <1>1, <1>3, <1>4, <1>5 DEF TrimInv, TrimTypes, ExportFrame
<1>7. MarksInside'
  BY MarksKept DEF ExportFrame
<1>8. ASSUME ~crossed' PROVE Uncrossed'
  <2>1. Uncrossed /\ OfOneFile(s.job)
    BY <1>1, <1>8 DEF TrimInv, Uncrossed
  <2>2. (\A u \in starting' : OfOneFile(u.job)) /\ (\A j \in jobs' : OfOneFile(j))
    BY <1>3, <1>5, <2>1 DEF Uncrossed
  <2> QED
    BY <1>1, <2>1, <2>2 DEF Uncrossed, ExportFrame
<1>9. /\ s.job.id >= 1 /\ s.job.id <= counts.exports /\ s.job.id # exportTask
      /\ s.job.id \notin doneEvents
      /\ (\A j \in jobs : j.id # s.job.id) /\ (\A u \in starting : u.job.id = s.job.id => u = s)
      /\ (\A e \in dialogs : e.id # s.job.id)
  BY <1>1 DEF TrimInv, ExportsFit
<1>10. ExportsFit /\ ExportShown
  BY DEF TrimInv
<1>11. CASE starting' = starting \ {s} /\ jobs' = jobs
  <2>1. ExportsFit'
    BY <1>1, <1>10, <1>11 DEF ExportsFit
  <2>2. ExportShown'
    BY <1>1, <1>9, <1>10, <1>11 DEF ExportShown
  <2> QED
    BY <1>6, <1>7, <1>8, <2>1, <2>2 DEF TrimInv
<1>12. CASE starting' = (starting \ {s}) \union {t} /\ jobs' = jobs \union {s.job}
  <2>1. \A e \in dialogs' : (\A u \in starting' : u.job.id # e.id) /\ (\A j \in jobs' : j.id # e.id)
    BY <1>1, <1>5, <1>9, <1>10, <1>12 DEF ExportsFit
  <2>2. \A u \in starting' : \A v \in starting' : v.job.id = u.job.id => v = u
    BY <1>5, <1>9, <1>10, <1>12 DEF ExportsFit
  <2>3. \A u \in starting' : /\ u.job.id >= 1 /\ u.job.id <= counts.exports /\ u.job.id # exportTask
                             /\ ~u.registered => u.job.id \notin doneEvents
                                  /\ \A j \in jobs' : j.id # u.job.id
                             /\ u.registered => \/ u.job.id \in doneEvents \/ u.job.id \in untracked
                                                \/ \E j \in jobs' : j.id = u.job.id
    <3>1. ASSUME NEW u \in starting, u # s
          PROVE  /\ u.job.id >= 1 /\ u.job.id <= counts.exports /\ u.job.id # exportTask
                 /\ u.job.id # s.job.id
                 /\ ~u.registered => u.job.id \notin doneEvents /\ \A j \in jobs : j.id # u.job.id
                 /\ u.registered => \/ u.job.id \in doneEvents \/ u.job.id \in untracked
                                    \/ \E j \in jobs : j.id = u.job.id
      BY <1>9, <1>10, <3>1 DEF ExportsFit
    <3>2. \E j \in jobs' : j.id = t.job.id
      BY <1>5, <1>12
    <3> QED
      BY <1>5, <1>9, <1>12, <3>1, <3>2
  <2>4. \A j \in jobs' : /\ j.id >= 1 /\ j.id <= counts.exports /\ j.id \notin doneEvents
                         /\ \A i \in jobs' : i.id = j.id => i = j
    BY <1>9, <1>10, <1>12 DEF ExportsFit
  <2>5. ExportsFit'
    <3>1. /\ exportTask' <= counts'.exports /\ \A i \in doneEvents' : i <= counts'.exports
          /\ \A e \in dialogs' : /\ e.id >= 1 /\ e.id <= counts'.exports
                                 /\ e.id \notin doneEvents' /\ e.id # exportTask'
                                 /\ \A f \in dialogs' : f.id = e.id => f = e
      BY <1>1, <1>10 DEF ExportsFit
    <3> QED
      BY <1>1, <2>1, <2>2, <2>3, <2>4, <3>1 DEF ExportsFit
  <2>6. ExportShown'
    <3>1. exportTask' # 0 /\ exportTask' \notin untracked' =>
             exportTask' \in doneEvents' \/ \E j \in jobs' : j.id = exportTask'
      BY <1>1, <1>10, <1>12 DEF ExportShown
    <3>2. \A j \in jobs' : j.id = exportTask' \/ j.id \in untracked'
          \/ \E u \in starting' : u.job = j
      <4>1. TAKE j \in jobs'
      <4>2. CASE j = s.job
        BY <1>5, <1>12, <4>2
      <4>3. CASE j \in jobs
        <5>1. j.id = exportTask \/ j.id \in untracked \/ \E u \in starting : u.job = j
          BY <1>10, <4>3 DEF ExportShown
        <5>2. \A u \in starting : u.job = j => u # s
          BY <1>9, <4>3
        <5> QED
          BY <1>1, <1>12, <5>1, <5>2
      <4> QED
        BY <1>12, <4>1, <4>2, <4>3
    <3> QED
      BY <3>1, <3>2 DEF ExportShown
  <2> QED
    BY <1>6, <1>7, <1>8, <2>5, <2>6 DEF TrimInv
<1> QED
  BY <1>3, <1>11, <1>12

(* The start is answered: the export is the one shown.                      *)
LEMMA AnsweredKeeps == ASSUME TrimInv, ExportFrame, NEW s \in starting, StartAnswered(s)
      PROVE TrimInv'
<1>1. /\ s.registered /\ starting' = starting \ {s} /\ exportTask' = s.job.id
      /\ untracked' = untracked \union ({exportTask} \ {0})
      /\ dialogs' = dialogs /\ jobs' = jobs /\ doneEvents' = doneEvents /\ crossed' = crossed
      /\ counts' = counts
  BY DEF StartAnswered, TaskOf
<1>2. s.job.id \in Nat
  BY DEF TrimInv, TrimTypes, Jobs
<1>3. TrimTypes'
  BY <1>1, <1>2 DEF TrimInv, TrimTypes, ExportFrame
<1>4. MarksInside'
  BY MarksKept DEF ExportFrame
<1>5. ~crossed' => Uncrossed'
  BY <1>1 DEF TrimInv, Uncrossed, ExportFrame
<1>6. ExportsFit /\ ExportShown
  BY DEF TrimInv
<1>7. ExportsFit'
  <2>1. s.job.id <= counts.exports /\ (\A e \in dialogs : e.id # s.job.id)
        /\ \A u \in starting' : u \in starting /\ u.job.id # s.job.id
    BY <1>1, <1>6 DEF ExportsFit
  <2>2. \A e \in dialogs' : /\ e.id >= 1 /\ e.id <= counts'.exports /\ e.id \notin doneEvents'
                            /\ e.id # exportTask'
                            /\ (\A u \in starting' : u.job.id # e.id)
                                 /\ (\A j \in jobs' : j.id # e.id)
                            /\ \A f \in dialogs' : f.id = e.id => f = e
    BY <1>1, <1>6, <2>1 DEF ExportsFit
  <2>3. \A u \in starting' :
           /\ u.job.id >= 1 /\ u.job.id <= counts'.exports /\ u.job.id # exportTask'
           /\ \A v \in starting' : v.job.id = u.job.id => v = u
           /\ ~u.registered => u.job.id \notin doneEvents' /\ \A j \in jobs' : j.id # u.job.id
           /\ u.registered => \/ u.job.id \in doneEvents' \/ u.job.id \in untracked'
                              \/ \E j \in jobs' : j.id = u.job.id
    BY <1>1, <1>6, <2>1 DEF ExportsFit
  <2>4. /\ exportTask' <= counts'.exports /\ \A i \in doneEvents' : i <= counts'.exports
        /\ \A j \in jobs' : /\ j.id >= 1 /\ j.id <= counts'.exports /\ j.id \notin doneEvents'
                            /\ \A i \in jobs' : i.id = j.id => i = j
    BY <1>1, <1>6, <2>1 DEF ExportsFit
  <2> QED
    BY <2>2, <2>3, <2>4 DEF ExportsFit
<1>8. ExportShown'
  <2>1. s.job.id \in doneEvents \/ s.job.id \in untracked \/ \E j \in jobs : j.id = s.job.id
    BY <1>1, <1>6 DEF ExportsFit
  <2>2. \A j \in jobs : j.id # 0 /\ (j.id = exportTask \/ j.id \in untracked
                                      \/ \E u \in starting : u.job = j)
    <3>1. \A j \in jobs : j.id \in Nat /\ j.id >= 1
      BY <1>6 DEF TrimInv, TrimTypes, Jobs, ExportsFit
    <3> QED
      BY <1>6, <3>1 DEF ExportShown
  <2>3. \A j \in jobs' : j.id = exportTask' \/ j.id \in untracked' \/ \E u \in starting' : u.job = j
    BY <1>1, <2>2
  <2> QED
    BY <1>1, <2>1, <2>3 DEF ExportShown
<1> QED
  BY <1>3, <1>4, <1>5, <1>7, <1>8 DEF TrimInv

(* An export ends.                                                          *)
LEMMA EndKeeps == ASSUME TrimInv, ExportFrame, NEW j \in jobs, JobEnds(j) PROVE TrimInv'
<1>1. /\ jobs' = jobs \ {j} /\ doneEvents' = doneEvents \union {j.id}
      /\ dialogs' = dialogs /\ starting' = starting /\ exportTask' = exportTask
      /\ untracked' = untracked
      /\ crossed' = crossed /\ counts' = counts
  BY DEF JobEnds
<1>2. TrimTypes'
  BY <1>1 DEF TrimInv, TrimTypes, ExportFrame, Jobs
<1>3. MarksInside'
  BY MarksKept DEF ExportFrame
<1>4. ~crossed' => Uncrossed'
  BY <1>1 DEF TrimInv, Uncrossed, ExportFrame
<1>5. ExportsFit /\ ExportShown
  BY DEF TrimInv
<1>6. ExportsFit'
  <2>1. j.id <= counts.exports /\ (\A e \in dialogs : e.id # j.id)
        /\ (\A i \in jobs' : i \in jobs /\ i.id # j.id)
        /\ \A u \in starting : ~u.registered => u.job.id # j.id
    BY <1>1, <1>5 DEF ExportsFit
  <2>2. \A e \in dialogs' : /\ e.id >= 1 /\ e.id <= counts'.exports /\ e.id \notin doneEvents'
                            /\ e.id # exportTask'
                            /\ (\A u \in starting' : u.job.id # e.id)
                                 /\ (\A i \in jobs' : i.id # e.id)
                            /\ \A f \in dialogs' : f.id = e.id => f = e
    BY <1>1, <1>5, <2>1 DEF ExportsFit
  <2>3. \A u \in starting' :
           /\ u.job.id >= 1 /\ u.job.id <= counts'.exports /\ u.job.id # exportTask'
           /\ \A v \in starting' : v.job.id = u.job.id => v = u
           /\ ~u.registered => u.job.id \notin doneEvents' /\ \A i \in jobs' : i.id # u.job.id
           /\ u.registered => \/ u.job.id \in doneEvents' \/ u.job.id \in untracked'
                              \/ \E i \in jobs' : i.id = u.job.id
    BY <1>1, <1>5, <2>1 DEF ExportsFit
  <2>4. /\ exportTask' <= counts'.exports /\ \A i \in doneEvents' : i <= counts'.exports
        /\ \A k \in jobs' : /\ k.id >= 1 /\ k.id <= counts'.exports /\ k.id \notin doneEvents'
                            /\ \A i \in jobs' : i.id = k.id => i = k
    BY <1>1, <1>5, <2>1 DEF ExportsFit
  <2> QED
    BY <2>2, <2>3, <2>4 DEF ExportsFit
<1>7. ExportShown'
  BY <1>1, <1>5 DEF ExportShown
<1> QED
  BY <1>2, <1>3, <1>4, <1>6, <1>7 DEF TrimInv

(* The end of an export arrives at the view.                                *)
LEMMA DoneKeeps == ASSUME TrimInv, ExportFrame, NEW id \in doneEvents, DoneArrives(id)
      PROVE TrimInv'
<1>1. /\ doneEvents' = doneEvents \ {id} /\ exportTask' = IF exportTask = id THEN 0 ELSE exportTask
      /\ untracked' = IF exportTask = id THEN untracked ELSE untracked \union {id}
      /\ dialogs' = dialogs /\ starting' = starting /\ jobs' = jobs /\ crossed' = crossed
      /\ counts' = counts
  BY DEF DoneArrives, IsCurrentExportTask
<1>2. TrimTypes'
  BY <1>1 DEF TrimInv, TrimTypes, ExportFrame
<1>3. MarksInside'
  BY MarksKept DEF ExportFrame
<1>4. ~crossed' => Uncrossed'
  BY <1>1 DEF TrimInv, Uncrossed, ExportFrame
<1>5. ExportsFit /\ ExportShown
  BY DEF TrimInv
<1>6. ExportsFit'
  <2>1. /\ \A e \in dialogs : e.id \in Nat /\ e.id # 0
        /\ \A u \in starting : u.job.id \in Nat /\ u.job.id # 0
        /\ counts.exports \in Nat /\ exportTask' \in {0, exportTask} /\ 0 <= counts.exports
    <3>1. /\ \A e \in dialogs : e.id \in Nat /\ e.id >= 1
          /\ \A u \in starting : u.job.id \in Nat /\ u.job.id >= 1
          /\ counts.exports \in Nat
      BY <1>5 DEF TrimInv, TrimTypes, ExportsFit, Jobs
    <3> QED
      BY <1>1, <3>1
  <2>2. \A e \in dialogs' : /\ e.id >= 1 /\ e.id <= counts'.exports /\ e.id \notin doneEvents'
                            /\ e.id # exportTask'
                            /\ (\A u \in starting' : u.job.id # e.id)
                                 /\ (\A i \in jobs' : i.id # e.id)
                            /\ \A f \in dialogs' : f.id = e.id => f = e
    BY <1>1, <1>5, <2>1 DEF ExportsFit
  <2>3. \A u \in starting' :
           /\ u.job.id >= 1 /\ u.job.id <= counts'.exports /\ u.job.id # exportTask'
           /\ \A v \in starting' : v.job.id = u.job.id => v = u
           /\ ~u.registered => u.job.id \notin doneEvents' /\ \A i \in jobs' : i.id # u.job.id
           /\ u.registered => \/ u.job.id \in doneEvents' \/ u.job.id \in untracked'
                              \/ \E i \in jobs' : i.id = u.job.id
    BY <1>1, <1>5, <2>1 DEF ExportsFit
  <2>4. /\ exportTask' <= counts'.exports /\ \A i \in doneEvents' : i <= counts'.exports
        /\ \A k \in jobs' : /\ k.id >= 1 /\ k.id <= counts'.exports /\ k.id \notin doneEvents'
                            /\ \A i \in jobs' : i.id = k.id => i = k
    BY <1>1, <1>5, <2>1 DEF ExportsFit
  <2> QED
    BY <2>2, <2>3, <2>4 DEF ExportsFit
<1>7. ExportShown'
  <2>1. \A j \in jobs : j.id # id
    BY <1>5 DEF ExportsFit
  <2> QED
    BY <1>1, <1>5, <2>1 DEF ExportShown
<1> QED
  BY <1>2, <1>3, <1>4, <1>6, <1>7 DEF TrimInv

(* A step of the view keeps the invariant.                                  *)
LEMMA TrimStep == ASSUME TrimInv, [TrimNext]_trimVars PROVE TrimInv'
<1>1. CASE Exporting
  <2>1. ExportFrame
    BY <1>1 DEF Exporting, ExportFrame, fileVars
  <2>2. CASE StartExport
    BY <2>1, <2>2, StartKeeps
  <2>3. ASSUME NEW d \in dialogs, SaveAnswered(d) PROVE TrimInv'
    BY <2>1, <2>3, SaveKeeps
  <2>4. ASSUME NEW s \in starting, JobRegistered(s) \/ StartAnswered(s) PROVE TrimInv'
    BY <2>1, <2>4, RegisteredKeeps, AnsweredKeeps
  <2>5. ASSUME NEW j \in jobs, JobEnds(j) PROVE TrimInv'
    BY <2>1, <2>5, EndKeeps
  <2>6. ASSUME NEW id \in doneEvents, DoneArrives(id) PROVE TrimInv'
    BY <2>1, <2>6, DoneKeeps
  <2> QED
    BY <1>1, <2>2, <2>3, <2>4, <2>5, <2>6 DEF Exporting
<1>2. CASE UNCHANGED trimVars
  <2>1. /\ UNCHANGED <<runtime, shownFile, probed, thumbs, inflight, preview, loaded, openings>>
        /\ UNCHANGED <<marks, player, dialogs, gone, crossed, counts>>
        /\ UNCHANGED <<starting, jobs, exportTask, doneEvents, untracked>>
    BY <1>2 DEF trimVars, fileVars, jobVars
  <2>2. TrimTypes' /\ MarksInside'
    BY <2>1 DEF TrimInv, TrimTypes, MarksInside, Length
  <2>3. ExportsFit' /\ ExportShown'
    BY <2>1 DEF TrimInv, ExportsFit, ExportShown
  <2>4. ~crossed' => Uncrossed'
    BY <2>1 DEF TrimInv, Uncrossed
  <2> QED
    BY <2>2, <2>3, <2>4 DEF TrimInv
<1> QED
  BY <1>1, <1>2, OpenKeeps, SidecarsKeep, OpeningKeeps, TouchKeeps, ThumbnailsKeep,
      LeaveTrimKeeps DEF TrimNext

(* The trimming view (VideoTrimView.vue:143-430) is typed, numbers its      *)
(* exports and, while no opening overlaps another, is about one file.       *)
THEOREM TrimInvariance == TrimSpec => []TrimInv
<1>1. TrimInit => TrimInv
  <2>1. ASSUME TrimInit PROVE TrimTypes
    <3>1. NoMarks \in Marks /\ NoThumbs \in [Slots -> MaybeVideo] /\ NoVideo \in MaybeVideo
      BY DEF NoThumbs, NoMarks, Marks, MaybeVideo
    <3>2. /\ player \in [active : BOOLEAN, playing : BOOLEAN, seeking : BOOLEAN]
          /\ counts \in [openings : Nat, exports : Nat, gestures : Nat]
      BY <2>1 DEF TrimInit
    <3> QED
      BY <2>1, <3>1, <3>2 DEF TrimInit, TrimTypes
  <2>2. ASSUME TrimInit PROVE MarksInside /\ Uncrossed /\ ExportsFit /\ ExportShown
    BY <2>2 DEF TrimInit, MarksInside, Uncrossed, ExportsFit, ExportShown, NoThumbs
  <2> QED
    BY <2>1, <2>2 DEF TrimInv
<1>2. TrimInv /\ [TrimNext]_trimVars => TrimInv'
  BY TrimStep
<1> QED
  BY <1>1, <1>2, PTL DEF TrimSpec

(* The marks stay inside the file, what is shown, played and exported is of *)
(* one file, and the export shown is one that runs or has ended             *)
(* (VideoTrimView.vue:143-430).                                             *)
THEOREM TrimIsRight == TrimSpec => []TrimRight
<1>1. ASSUME TrimInv PROVE TrimRight
  <2>1. MarksInside /\ ExportShown
    BY <1>1 DEF TrimInv
  <2>2. OneFile
    BY <1>1 DEF TrimInv, OneFile, Uncrossed, OfOneFile
  <2> QED
    BY <2>1, <2>2 DEF TrimRight
<1> QED
  BY <1>1, TrimInvariance, PTL

-----------------------------------------------------------------------------
(* The throttle between the pointer on the timeline and the player.         *)

\* While the pointer has not overtaken the timer, a second is pending just when
\* the timer runs, it is the last one asked for, and the last seek passed on is
\* the last call of the throttle.
ThrottleFits ==
    LET n == Len(sentSeeks) IN
    /\ clock \in Nat /\ throttle.last \in Nat /\ asked \in Seconds \union {Never}
    /\ throttle \in [last : Nat, pending : Seconds \union {Never}, due : Int]
    /\ \/ throttle.due = Never /\ throttle.pending = Never
       \/ throttle.due = throttle.last + Interval /\ throttle.pending = asked /\ asked # Never
    /\ sentSeeks \in Seq(Nat \X Seconds)
    /\ n > 0 => sentSeeks[n][1] = throttle.last
    /\ \A i \in 2 .. n : sentSeeks[i][1] - sentSeeks[i - 1][1] >= Interval
    /\ asked # Never /\ throttle.due = Never => n > 0 /\ sentSeeks[n][2] = asked
ThrottleInv == overdue \in BOOLEAN /\ (~overdue => ThrottleFits)

(* A seek passed on an interval after the last call.                        *)
LEMMA InvokeFits ==
  ASSUME ThrottleFits, NEW sec \in Seconds, Invoke(sec, Never, Never),
  clock - throttle.last >= Interval,
         clock' = clock, asked' = sec
  PROVE  ThrottleFits'
<1>1. /\ clock \in Nat /\ throttle.last \in Nat /\ sentSeeks \in Seq(Nat \X Seconds) /\ sec \in Nat
      /\ sec # Never
      /\ Interval \in Nat
  BY ThrottleAssumption DEF ThrottleFits, Never
<1>2. PICK n : n = Len(sentSeeks)
  OBVIOUS
<1>3. PICK e : e = <<clock, sec>>
  OBVIOUS
<1>4. n \in Nat /\ e \in Nat \X Seconds /\ e[1] = clock /\ e[2] = sec
  BY <1>1, <1>2, <1>3
<1>5. /\ throttle' = [last |-> clock, pending |-> Never, due |-> Never]
      /\ sentSeeks' = Append(sentSeeks, e)
  BY <1>3 DEF Invoke
<1>6. /\ throttle'.last = clock /\ throttle'.pending = Never /\ throttle'.due = Never
      /\ throttle' \in [last : Nat, pending : Seconds \union {Never}, due : Int]
  BY <1>1, <1>5 DEF Never
<1>7. /\ sentSeeks' \in Seq(Nat \X Seconds) /\ Len(sentSeeks') = n + 1 /\ sentSeeks'[n + 1] = e
      /\ \A i \in 1 .. n : sentSeeks'[i] = sentSeeks[i]
  BY <1>1, <1>2, <1>4, <1>5
<1>8. /\ n > 0 => sentSeeks[n][1] = throttle.last
      /\ \A i \in 2 .. n : sentSeeks[i][1] - sentSeeks[i - 1][1] >= Interval
  BY <1>2 DEF ThrottleFits
<1>9. \A i \in 2 .. n + 1 : sentSeeks'[i][1] - sentSeeks'[i - 1][1] >= Interval
  <2>1. TAKE i \in 2 .. n + 1
  <2>2. CASE i \in 2 .. n
    <3>1. sentSeeks'[i] = sentSeeks[i] /\ sentSeeks'[i - 1] = sentSeeks[i - 1]
      BY <1>4, <1>7, <2>2
    <3> QED
      BY <1>8, <2>2, <3>1
  <2>3. CASE i = n + 1
    <3>1. n > 0 /\ i - 1 = n /\ n \in 1 .. n
      BY <1>4, <2>1, <2>3
    <3>2. sentSeeks'[i][1] = clock /\ sentSeeks'[i - 1][1] = throttle.last
      BY <1>4, <1>7, <1>8, <2>3, <3>1
    <3> QED
      BY <3>2
  <2> QED
    BY <1>4, <2>1, <2>2, <2>3
<1> QED
  BY <1>1, <1>4, <1>6, <1>7, <1>9 DEF ThrottleFits

(* The pointer moves before the timer is due.                               *)
LEMMA PointerFits ==
  ASSUME ThrottleFits, NEW sec \in Seconds, Pointer(sec), throttle.due = Never
        \/ throttle.due > clock
  PROVE  ThrottleFits'
<1>1. /\ clock \in Nat /\ throttle.last \in Nat /\ sec \in Nat /\ sec # Never /\ Interval \in Nat
      /\ clock' = clock /\ asked' = sec
  BY ThrottleAssumption DEF ThrottleFits, Never, Pointer
<1>2. CASE clock - throttle.last >= Interval /\ Invoke(sec, throttle.pending, throttle.due)
  <2>1. throttle.due = Never /\ throttle.pending = Never
    <3>1. throttle.due = throttle.last + Interval => ~(throttle.due > clock)
      BY <1>1, <1>2
    <3>2. throttle.due = throttle.last + Interval => throttle.due # Never
      BY <1>1 DEF Never
    <3> QED
      BY <3>1, <3>2 DEF ThrottleFits
  <2>2. Invoke(sec, Never, Never)
    BY <1>2, <2>1 DEF Invoke
  <2> QED
    BY <1>1, <1>2, <2>2, InvokeFits
<1>3. CASE /\ clock - throttle.last < Interval /\ UNCHANGED sentSeeks
           /\ throttle' = [throttle EXCEPT !.pending = sec,
                           !.due = IF @ = Never THEN clock + Interval - (clock - throttle.last)
                                 ELSE @]
  <2>1. throttle \in [last : Nat, pending : Seconds \union {Never}, due : Int]
    BY DEF ThrottleFits
  <2>2. PICK d : d = IF throttle.due = Never THEN clock + Interval - (clock - throttle.last)
        ELSE throttle.due
    OBVIOUS
  <2>3. d = throttle.last + Interval /\ d \in Int /\ d # Never
    BY <1>1, <2>2 DEF ThrottleFits, Never
  <2>4. throttle' = [throttle EXCEPT !.pending = sec, !.due = d]
    BY <1>3, <2>2
  <2>5. /\ throttle'.last = throttle.last /\ throttle'.pending = sec
        /\ throttle'.due = throttle'.last + Interval
        /\ throttle' \in [last : Nat, pending : Seconds \union {Never}, due : Int]
        /\ throttle'.due # Never
    BY <2>1, <2>3, <2>4
  <2> QED
    BY <1>1, <1>3, <2>5 DEF ThrottleFits
<1> QED
  BY <1>2, <1>3 DEF Pointer, KeepLast

(* The timer fires when it is due.                                          *)
LEMMA TimerFits == ASSUME ThrottleFits, TimerFires PROVE ThrottleFits'
<1>1. /\ throttle.due # Never /\ throttle.due <= clock /\ clock' = clock /\ asked' = asked
      /\ throttle.due = throttle.last + Interval /\ throttle.pending = asked /\ asked # Never
  BY DEF TimerFires, ThrottleFits
<1>2. asked \in Seconds /\ Invoke(asked, Never, Never)
  BY <1>1 DEF TimerFires, ThrottleFits
<1>3. clock - throttle.last >= Interval
  BY <1>1, ThrottleAssumption DEF ThrottleFits
<1> QED
  BY <1>1, <1>2, <1>3, InvokeFits

(* Unless the pointer overtook the timer, the player is asked to seek an    *)
(* interval apart, and the last second asked for is never dropped           *)
(* (lib/videoTimeline.ts:138-174).                                          *)
THEOREM SeeksAreThrottled == ThrottleSpec => []SeeksThrottled
<1>1. ThrottleInit => ThrottleInv
  <2>1. ASSUME ThrottleInit PROVE ThrottleFits
    <3>1. /\ clock = Interval /\ throttle.last = 0 /\ throttle.pending = Never
          /\ throttle.due = Never
          /\ throttle \in [last : Nat, pending : Seconds \union {Never}, due : Int]
          /\ sentSeeks = <<>> /\ asked = Never
      BY <2>1 DEF ThrottleInit, Idle, Never
    <3>2. sentSeeks \in Seq(Nat \X Seconds) /\ Len(sentSeeks) = 0
      BY <3>1
    <3> QED
      BY <3>1, <3>2, ThrottleAssumption DEF ThrottleFits
  <2> QED
    BY <2>1 DEF ThrottleInv, ThrottleInit
<1>2. ASSUME ThrottleInv, [ThrottleNext]_throttleVars PROVE ThrottleInv'
  <2>1. ASSUME NEW sec \in Seconds, Pointer(sec) PROVE ThrottleInv'
    <3>1. overdue' = (overdue \/ (throttle.due # Never /\ throttle.due <= clock))
      BY <2>1 DEF Pointer
    <3>2. ASSUME ~overdue' PROVE ThrottleFits'
      <4>1. ThrottleFits /\ (throttle.due = Never \/ ~(throttle.due <= clock))
        BY <1>2, <3>1, <3>2 DEF ThrottleInv
      <4>2. throttle.due = Never \/ throttle.due > clock
        BY <4>1 DEF ThrottleFits
      <4> QED
        BY <2>1, <4>1, <4>2, PointerFits
    <3> QED
      BY <1>2, <3>1, <3>2 DEF ThrottleInv
  <2>2. CASE TimerFires
    BY <1>2, <2>2, TimerFits DEF ThrottleInv, TimerFires
  <2>3. CASE TimePasses
    <3>1. /\ clock' = clock + 1 /\ throttle' = throttle /\ sentSeeks' = sentSeeks /\ asked' = asked
          /\ overdue' = overdue
      BY <2>3 DEF TimePasses
    <3> QED
      BY <1>2, <3>1 DEF ThrottleInv, ThrottleFits
  <2>4. CASE UNCHANGED throttleVars
    <3>1. /\ clock' = clock /\ throttle' = throttle /\ sentSeeks' = sentSeeks /\ asked' = asked
          /\ overdue' = overdue
      BY <2>4 DEF throttleVars
    <3> QED
      BY <1>2, <3>1 DEF ThrottleInv, ThrottleFits
  <2> QED
    BY <1>2, <2>1, <2>2, <2>3, <2>4 DEF ThrottleNext
<1>3. ThrottleInv => SeeksThrottled
  BY DEF ThrottleInv, ThrottleFits, SeeksThrottled
<1> QED
  BY <1>1, <1>2, <1>3, PTL DEF ThrottleSpec
=============================================================================
