--------------------------- MODULE HostActions ---------------------------
(***************************************************************************)
(* The host actions (packages/host-actions/src/index.mjs): each runs one   *)
(* fixed program, under the caller's signal, and tells the caller once how *)
(* it went.  An export writes a file that must not exist yet, in a         *)
(* directory another program may redirect; a termination names a process   *)
(* by number and start time, as a snapshot showed it, and numbers are used *)
(* again.  The receipt of a command (useful-runtime.mjs:48-73) is a file   *)
(* that appears whole or not at all.                                       *)
(***************************************************************************)
EXTENDS Naturals, FiniteSets

CONSTANTS HostCalls,      \* calls under way
          HostPlans,      \* what is asked together, what other programs do meanwhile, and whether receipts are kept
          Targets, Pids,
          MaxListed,      \* process.maxProcesses
          MaxHostEvents,  \* what other programs do
          Nobody          \* no file, no process

VARIABLES
    hplan,     \* one of HostPlans
    hcalls,    \* the calls: argument, progress, child program, whether it was told to end, answer
    media,     \* the files, inside the write roots and outside
    redirected,\* the directory of the targets leads outside now
    procs,     \* the process with each number, by its start time
    seen,      \* identities snapshots have shown
    killed,    \* pairs: the identity asked for, the identity that ended
    lost,      \* calls that wrote over a file of the write roots: target, and what was there at their start
    hostEvents,
    receipt,   \* the receipt file and the temporary file of each writer
    signals    \* calls whose caller gave up
hostVars == <<hplan, hcalls, media, redirected, procs, seen, killed, lost, hostEvents, receipt, signals>>

Place == IF redirected THEN "outside" ELSE "inside"
NoMedia == [by |-> Nobody, whole |-> FALSE]

HostInit ==
    /\ hplan \in HostPlans
    /\ hcalls = [c \in HostCalls |-> [arg |-> hplan.args[c], pc |-> "asked", child |-> "none", stop |-> FALSE,
                                      told |-> "none", at |-> "none", old |-> {}]]
    /\ media = [p \in {"inside", "outside"} |-> [t \in Targets |-> NoMedia]]
    /\ redirected = FALSE /\ procs = [p \in Pids |-> 1] /\ seen = {} /\ killed = {} /\ lost = {}
    /\ hostEvents = 0 /\ signals = {}
    /\ receipt = [file |-> NoMedia, temp |-> [c \in HostCalls |-> "none"]]

Kind(c) == hcalls[c].arg.kind
Set(c, f) == hcalls' = [hcalls EXCEPT ![c] = f]
Running(c) == hcalls[c].pc = "run" /\ hcalls[c].child \in {"starting", "writing"}
Child(c, stage) == Set(c, [hcalls[c] EXCEPT !.child = stage])
filesSame == UNCHANGED <<media, redirected, lost>>
procsSame == UNCHANGED <<procs, seen, killed>>
restSame == UNCHANGED <<hplan, hostEvents, receipt, signals>>

WriteRefusal(arg) ==
    IF ~arg.readable THEN "READ_PATH_UNREADABLE"
    ELSE IF redirected THEN "WRITE_PATH_OUTSIDE_ALLOWED_ROOT"
    ELSE IF media["inside"][arg.target] # NoMedia THEN "OUTPUT_EXISTS" ELSE "none"

(* The handler up to the spawn.  A signal given before it stops the program *)
(* at once (onAbort); a termination names what a snapshot has shown.        *)
StartCommand(c) ==
    /\ hcalls[c].pc = "asked" /\ (Kind(c) = "terminate" => seen # {})
    /\ LET refusal == IF Kind(c) = "export" THEN WriteRefusal(hcalls[c].arg)
                      ELSE IF Kind(c) = "probe" /\ ~hcalls[c].arg.readable THEN "READ_PATH_UNREADABLE"
                      ELSE "none"
       IN  Set(c, IF refusal # "none" THEN [hcalls[c] EXCEPT !.pc = "over", !.told = refusal]
                  ELSE [hcalls[c] EXCEPT !.pc = "run", !.child = "starting", !.stop = c \in signals,
                                         !.told = IF c \in signals THEN "CANCELLED" ELSE "none",
                                         !.old = {t \in Targets : media["inside"][t] # NoMedia}])
    /\ filesSame /\ procsSame /\ restSame

(* stop and settle: the program is told to end, the caller is told why.     *)
\* Faulty variant: only the caller is told.
Abandoned(c, code) == Set(c, [hcalls[c] EXCEPT !.told = code])
Stopped(c, code) == Set(c, [hcalls[c] EXCEPT !.stop = TRUE, !.told = code])

Abort(c) ==
    /\ c \notin signals /\ signals' = signals \union {c}
    /\ IF hcalls[c].pc = "run" /\ hcalls[c].told = "none" THEN Stopped(c, "CANCELLED") ELSE UNCHANGED hcalls
    /\ filesSame /\ procsSame /\ UNCHANGED <<hplan, hostEvents, receipt>>

(* The program writes more than maxBytes.                                   *)
Flood(c) ==
    /\ Running(c) /\ hcalls[c].told = "none" /\ Stopped(c, "OUTPUT_TOO_LARGE")
    /\ filesSame /\ procsSame /\ restSame

(* A program told to end does so on SIGTERM, or on SIGKILL a quarter of a   *)
(* second later; until then it goes on.                                     *)
StoppedEnds(c) ==
    /\ Running(c) /\ hcalls[c].stop /\ Child(c, "failed")
    /\ filesSame /\ procsSame /\ restSame

(* ffmpeg -n looks whether the file is there, and only then opens it.       *)
FfmpegLooks(c) ==
    /\ Kind(c) = "export" /\ Running(c) /\ hcalls[c].child = "starting"
    /\ Child(c, IF media[Place][hcalls[c].arg.target] # NoMedia THEN "failed" ELSE "writing")
    /\ filesSame /\ procsSame /\ restSame

FfmpegOpens(c) ==
    /\ Running(c) /\ hcalls[c].child = "writing" /\ hcalls[c].at = "none"
    /\ LET t == hcalls[c].arg.target
       IN  /\ media' = [media EXCEPT ![Place][t] = [by |-> c, whole |-> FALSE]]
           /\ lost' = IF Place = "inside" /\ media[Place][t] # NoMedia
                      THEN lost \union {[call |-> c, target |-> t, old |-> hcalls[c].old]} ELSE lost
    /\ Set(c, [hcalls[c] EXCEPT !.at = Place])
    /\ procsSame /\ restSame /\ UNCHANGED redirected

FfmpegEnds(c) ==
    /\ Running(c) /\ hcalls[c].child = "writing"
    /\ \/ Child(c, "failed") /\ UNCHANGED media
       \/ /\ hcalls[c].at # "none" /\ Child(c, "ok")
          /\ LET t == hcalls[c].arg.target
             IN  media' = IF media[hcalls[c].at][t].by # c THEN media
                          ELSE [media EXCEPT ![hcalls[c].at][t].whole = TRUE]
    /\ procsSame /\ restSame /\ UNCHANGED <<redirected, lost>>

(* ffprobe reads; parseProbeOutput refuses what is not its JSON.            *)
FfprobeEnds(c) ==
    /\ Kind(c) = "probe" /\ Running(c)
    /\ \E stage \in {"ok", "garbled", "failed"} : Child(c, stage)
    /\ filesSame /\ procsSame /\ restSame

(* The script of processTerminate: the process with the number must have    *)
(* the start time asked for, else the exit code is 42.                      *)
\* Faulty variant: the number alone is compared.
SameNumber(id) == procs[id[1]] # 0
SameProcess(id) == procs[id[1]] = id[2]

TerminateProcess(c) ==
    /\ Kind(c) = "terminate" /\ Running(c)
    /\ \E id \in seen :
          IF SameProcess(id)
          THEN /\ killed' = killed \union {<<id, <<id[1], procs[id[1]]>>>>}
               /\ procs' = [procs EXCEPT ![id[1]] = 0] /\ Child(c, "ok")
          ELSE Child(c, "mismatch") /\ UNCHANGED <<killed, procs>>
    /\ filesSame /\ restSame /\ UNCHANGED seen

(* processSnapshot: the first processes by number, up to the limit.         *)
Listed == {p \in Pids : procs[p] # 0 /\ Cardinality({q \in Pids : q < p /\ procs[q] # 0}) < MaxListed}
TakeSnapshot(c) ==
    /\ Kind(c) = "snapshot" /\ Running(c) /\ Child(c, "ok")
    /\ seen' = seen \union {<<p, procs[p]>> : p \in Listed}
    /\ filesSame /\ restSame /\ UNCHANGED <<procs, killed>>

(* The close event, not heard when the caller was told already.             *)
ExitMeans(stage) ==
    CASE stage = "ok" -> "ok" [] stage = "garbled" -> "FFPROBE_OUTPUT_INVALID"
      [] stage = "mismatch" -> "PROCESS_IDENTITY_MISMATCH" [] stage = "failed" -> "HOST_COMMAND_FAILED"
Close(c) ==
    /\ hcalls[c].pc = "run" /\ ~Running(c)
    /\ Set(c, IF hcalls[c].told # "none" THEN [hcalls[c] EXCEPT !.pc = "over"]
              ELSE IF hcalls[c].child = "ok" /\ Kind(c) = "export" THEN [hcalls[c] EXCEPT !.pc = "verify"]
              ELSE [hcalls[c] EXCEPT !.pc = "over", !.told = ExitMeans(hcalls[c].child)])
    /\ filesSame /\ procsSame /\ restSame

(* realpath and stat of the target once ffmpeg succeeded.  A signal given   *)
(* now is the executor's to tell.                                           *)
VerifyExport(c) ==
    /\ hcalls[c].pc = "verify"
    /\ Set(c, [hcalls[c] EXCEPT !.pc = "over", !.at = Place,
                  !.told = IF media[Place][hcalls[c].arg.target] = NoMedia THEN "VIDEO_EXPORT_OUTPUT_MISSING"
                           ELSE IF Place = "outside" THEN "VIDEO_EXPORT_OUTPUT_OUTSIDE_ROOT" ELSE "ok"])
    /\ filesSame /\ procsSame /\ restSame

(* Other programs: the directory is redirected, a file appears, a number    *)
(* goes to another process.                                                 *)
OtherPrograms ==
    /\ hostEvents < MaxHostEvents /\ hostEvents' = hostEvents + 1
    /\ \/ "redirect" \in hplan.events /\ redirected' = ~redirected /\ UNCHANGED <<media, procs>>
       \/ \E t \in Targets : /\ "file" \in hplan.events /\ media["inside"][t] = NoMedia
                             /\ media' = [media EXCEPT !["inside"][t] = [by |-> Nobody, whole |-> TRUE]]
                             /\ UNCHANGED <<redirected, procs>>
       \/ \E p \in Pids : /\ "reuse" \in hplan.events
                          /\ procs' = [procs EXCEPT ![p] = @ + 1] /\ UNCHANGED <<redirected, media>>
    /\ UNCHANGED <<hplan, hcalls, seen, killed, lost, receipt, signals>>

(* writeReceiptFileAtomic after the call, when --receipt-out names one file *)
(* for all: a temporary file of its own, written and synced, then a link    *)
(* that fails when the file exists.  The process may end at any point.      *)
LinkReceipt(old, c) == IF old = NoMedia THEN [by |-> c, whole |-> receipt.temp[c] = "synced"] ELSE old

WriteReceipt(c) ==
    /\ hplan.receipts /\ hcalls[c].told # "none"
    /\ \/ receipt.temp[c] = "none" /\ receipt' = [receipt EXCEPT !.temp[c] = "open"]
       \/ receipt.temp[c] = "open" /\ \E next \in {"synced", "gone"} : receipt' = [receipt EXCEPT !.temp[c] = next]
       \/ /\ receipt.temp[c] = "synced"
          /\ receipt' = [receipt EXCEPT !.file = LinkReceipt(@, c), !.temp[c] = "gone"]
    /\ filesSame /\ procsSame /\ UNCHANGED <<hplan, hcalls, hostEvents, signals>>

CallNext(c) ==
    \/ StartCommand(c) \/ Abort(c) \/ Flood(c) \/ StoppedEnds(c)
    \/ FfmpegLooks(c) \/ FfmpegOpens(c) \/ FfmpegEnds(c) \/ FfprobeEnds(c)
    \/ TerminateProcess(c) \/ TakeSnapshot(c) \/ Close(c) \/ VerifyExport(c) \/ WriteReceipt(c)
HostNext == OtherPrograms \/ \E c \in HostCalls : CallNext(c)

(* The kill timer and the event loop.                                       *)
HostFairness == \A c \in HostCalls : WF_hostVars(StoppedEnds(c)) /\ WF_hostVars(Close(c)) /\ WF_hostVars(VerifyExport(c))

----------------------------------------------------------------------------
(* An export told as done names a file inside the roots and its program     *)
(* succeeded; a file that was there at its start was not written over; what *)
(* was terminated is what was asked for.                                    *)
HostAnswersTrue ==
    /\ \A c \in HostCalls : Kind(c) = "export" /\ hcalls[c].told = "ok" =>
           hcalls[c].at = "inside" /\ hcalls[c].child = "ok"
    /\ \A x \in lost : x.target \notin x.old
    /\ \A k \in killed : k[1] = k[2]

(* Host actions stay inside what was asked while other programs redirect    *)
(* directories, reuse process numbers and create files; a receipt file is   *)
(* seen whole and never replaced; and a program whose caller was told why   *)
(* it is stopped does end (host-actions/src/index.mjs:239-481,              *)
(* useful-runtime.mjs:48-73).                                               *)
HostActionsSafe ==
    /\ [](HostAnswersTrue /\ (receipt.file # NoMedia => receipt.file.whole))
    /\ [][receipt.file # NoMedia => receipt'.file = receipt.file]_hostVars
    /\ []<>(\A c \in HostCalls : hcalls[c].told # "none" => hcalls[c].pc = "over")
==========================================================================
