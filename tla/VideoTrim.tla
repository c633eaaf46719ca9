----------------------------- MODULE VideoTrim -----------------------------
(***************************************************************************)
(* The video trimming view (VideoTrimView.vue) with the player and the     *)
(* export jobs it drives (commands/media.rs).  Opening a file is a chain   *)
(* of awaited calls; thumbnails, the save dialog, the start of an export   *)
(* and its events are awaited besides, and nothing tells an answer for an  *)
(* earlier file from one for the file shown.  An answer is taken as the    *)
(* moment the command takes effect.                                        *)
(***************************************************************************)
EXTENDS Integers, FiniteSets, FiniteSetsExt

CONSTANTS
    Videos, NoVideo,
    Lengths,       \* [Videos -> Nat]: durationSec
    Slots,         \* the seconds a thumbnail is asked for
    SeekPlaces,    \* the seconds the user seeks to or the player reports
    MaxOpenings, MaxExports, MaxGestures  \* bounds on the user

ASSUME TrimAssumption == Lengths \in [Videos -> Nat] /\ NoVideo \notin Videos /\ SeekPlaces \subseteq Int

VARIABLES
    runtime,   \* what loadSidecars found: "unknown", "none", "ffmpeg" or "mpv" (both)
    shownFile, \* filePath
    probed,    \* info, as the video it describes
    marks,     \* [head, from, to]: playhead, inPoint and outPoint
    thumbs, inflight,
    preview,   \* previewState
    player,    \* [active, playing, seeking]: mpvActive, playing, seeking
    loaded,    \* the video in the mpv process, or NoVideo
    openings,  \* calls of openVideo under way: [id, path, step]
    dialogs,   \* save dialogs of startExport: [id, of], the file of the suggested name
    starting,  \* mediaExport calls not answered yet: [job, registered]
    jobs,      \* exports running: [id, input, suggested, from, to]
    exportTask,\* 0 for none
    doneEvents,
    gone,      \* the view was left
    crossed,   \* an opening overlapped another, a thumbnail, a save dialog or the leaving
    untracked, \* exports that ended before their start was answered, or whose id was replaced
    counts     \* [openings, exports, gestures]
fileVars == <<runtime, shownFile, probed, thumbs, inflight, preview, loaded, openings>>
jobVars == <<starting, jobs, exportTask, doneEvents, untracked>>
trimVars == <<fileVars, marks, player, dialogs, jobVars, gone, crossed, counts>>

Length(video) == IF video = NoVideo THEN 0 ELSE Lengths[video]
ClampTime(sec, length) == Min({Max({sec, 0}), length})
NoThumbs == [s \in Slots |-> NoVideo]
NoMarks == [head |-> 0, from |-> 0, to |-> 0]

TrimInit ==
    /\ runtime = "unknown" /\ shownFile = NoVideo /\ probed = NoVideo /\ marks = NoMarks
    /\ thumbs = NoThumbs /\ inflight = {} /\ preview = "idle" /\ loaded = NoVideo
    /\ player = [active |-> FALSE, playing |-> FALSE, seeking |-> FALSE]
    /\ openings = {} /\ dialogs = {} /\ starting = {} /\ jobs = {} /\ exportTask = 0 /\ doneEvents = {}
    /\ gone = FALSE /\ crossed = FALSE /\ untracked = {}
    /\ counts = [openings |-> 0, exports |-> 0, gestures |-> 0]

Gesture(kind) ==
    /\ ~gone /\ counts.gestures < MaxGestures
    /\ counts' = [counts EXCEPT ![kind] = @ + 1, !.gestures = counts.gestures + 1]

----------------------------------------------------------------------------
(* Opening a file.                                                          *)
At(o, step) == openings' = (openings \ {o}) \union {[o EXCEPT !.step = step]}
Over(o) == openings' = openings \ {o}
KeepJobs == UNCHANGED <<dialogs, jobVars>>

\* Faulty variant: the pictures of the last file stay.
ShowOnlyPath(path) ==
    /\ shownFile' = path /\ probed' = NoVideo /\ preview' = "idle" /\ UNCHANGED thumbs
ShowPath(path) ==
    /\ shownFile' = path /\ probed' = NoVideo /\ preview' = "idle" /\ thumbs' = NoThumbs

(* From the answer about the runtime to the next await.                     *)
Proceed(o, found) ==
    /\ UNCHANGED <<inflight, loaded, marks, player>>
    /\ \/ found = "none" /\ Over(o) /\ UNCHANGED <<shownFile, probed, preview, thumbs>>
       \/ found # "none" /\ player.active /\ At(o, "stop") /\ UNCHANGED <<shownFile, probed, preview, thumbs>>
       \/ found # "none" /\ ~player.active /\ At(o, "probe") /\ ShowPath(o.path)

OpenVideo ==
    /\ counts.openings < MaxOpenings /\ Gesture("openings")
    /\ crossed' = (crossed \/ openings # {} \/ inflight # {} \/ dialogs # {})
    /\ \E path \in Videos :
           LET o == [id |-> counts.openings + 1, path |-> path, step |-> "ensure"]
           IN  IF runtime = "unknown"
               THEN openings' = openings \union {o}
                    /\ UNCHANGED <<shownFile, probed, preview, thumbs, inflight, loaded, marks, player>>
               ELSE Proceed(o, runtime)
    /\ UNCHANGED <<runtime, gone>> /\ KeepJobs

LoadSidecars ==   \* of onMounted
    /\ runtime = "unknown" /\ runtime' \in {"none", "ffmpeg", "mpv"}
    /\ UNCHANGED <<shownFile, probed, thumbs, inflight, preview, loaded, openings, marks, player, gone, crossed, counts>>
    /\ KeepJobs
Ensured(o) ==
    /\ o.step = "ensure"
    /\ runtime' \in (IF runtime = "unknown" THEN {"none", "ffmpeg", "mpv"} ELSE {runtime})
    /\ Proceed(o, runtime')
MpvStopped(o) ==
    /\ o.step = "stop" /\ loaded' = NoVideo /\ player' = [player EXCEPT !.active = FALSE]
    /\ ShowPath(o.path) /\ At(o, "probe") /\ UNCHANGED <<runtime, inflight, marks>>

\* Faulty variant: the end mark of the last file stays.
WholeFileKeepsEnd(path) == [head |-> 0, from |-> 0, to |-> marks.to]
WholeFile(path) == [head |-> 0, from |-> 0, to |-> Lengths[path]]
(* The answer of the probe; the preview is begun unless there is no player  *)
(* or no room for it.                                                       *)
Probed(o) ==
    /\ o.step = "probe" /\ UNCHANGED <<runtime, shownFile, thumbs, inflight, loaded, player>>
    /\ \/ Over(o) /\ UNCHANGED <<probed, marks, preview>>   \* the probe failed
       \/ /\ probed' = o.path /\ marks' = WholeFile(o.path)
          /\ \/ preview' = "unavailable" /\ Over(o)
             \/ runtime = "mpv" /\ preview' = "loading" /\ At(o, "start")
PreviewFails(o) ==
    /\ preview' = "failed" /\ player' = [player EXCEPT !.active = FALSE] /\ At(o, "giveUp") /\ UNCHANGED loaded
MpvStarted(o) ==
    /\ o.step = "start" /\ UNCHANGED <<runtime, shownFile, probed, thumbs, inflight, marks>>
    /\ \/ PreviewFails(o)
       \/ At(o, "load") /\ UNCHANGED <<preview, player, loaded>>
MpvLoaded(o) ==
    /\ o.step = "load" /\ UNCHANGED <<runtime, shownFile, probed, thumbs, inflight, marks>>
    /\ \/ PreviewFails(o)
       \/ /\ loaded' = o.path /\ preview' = "direct" /\ Over(o)
          /\ player' = [player EXCEPT !.active = TRUE, !.playing = FALSE]
GaveUp(o) ==
    /\ o.step = "giveUp" /\ loaded' = NoVideo /\ Over(o)
    /\ UNCHANGED <<runtime, shownFile, probed, thumbs, inflight, preview, marks, player>>
OpeningGoesOn ==
    /\ \E o \in openings : Ensured(o) \/ MpvStopped(o) \/ Probed(o) \/ MpvStarted(o) \/ MpvLoaded(o) \/ GaveUp(o)
    /\ UNCHANGED <<gone, crossed, counts>> /\ KeepJobs

----------------------------------------------------------------------------
(* Playing and marking.                                                     *)
\* Faulty variant: the start may be put after the end.
SetInAnywhere(m) == [m EXCEPT !.from = ClampTime(m.head, Length(probed))]
SetInPoint(m) == [m EXCEPT !.from = Min({ClampTime(m.head, Length(probed)), m.to})]
SetOutPoint(m) == [m EXCEPT !.to = Max({ClampTime(m.head, Length(probed)), m.from})]

Touch ==
    /\ Gesture("gestures")
    /\ UNCHANGED <<fileVars, gone, crossed>> /\ KeepJobs
    /\ \/ preview = "direct" /\ player.active /\ player' = [player EXCEPT !.playing = ~@] /\ UNCHANGED marks
       \/ \E p \in SeekPlaces : /\ probed # NoVideo
                            /\ marks' = [marks EXCEPT !.head = ClampTime(p, Length(probed))]
                            /\ player' = [player EXCEPT !.seeking = @ \/ player.active]
       \/ probed # NoVideo /\ marks' \in {SetInPoint(marks), SetOutPoint(marks)} /\ UNCHANGED player
PlayerReports ==
    /\ ~gone /\ UNCHANGED <<fileVars, gone, crossed, counts>> /\ KeepJobs
    /\ \/ player.seeking /\ player' = [player EXCEPT !.seeking = FALSE] /\ UNCHANGED marks
       \/ /\ loaded # NoVideo /\ player.playing /\ ~player.seeking /\ UNCHANGED player
          /\ \E p \in SeekPlaces : marks' = [marks EXCEPT !.head = ClampTime(p, Length(probed))]

Unsettled == \E o \in openings : o.step \in {"ensure", "stop"}
RequestThumb(s) ==
    /\ probed # NoVideo /\ thumbs[s] = NoVideo /\ \A r \in inflight : r.slot # s
    /\ inflight' = inflight \union {[slot |-> s, of |-> shownFile]}
    /\ crossed' = (crossed \/ Unsettled) /\ UNCHANGED thumbs
ThumbArrives(r) ==
    /\ inflight' = inflight \ {r} /\ UNCHANGED crossed
    /\ thumbs' \in {thumbs, [thumbs EXCEPT ![r.slot] = r.of]}   \* a failure is ignored
Thumbnails ==
    /\ ~gone /\ ((\E s \in Slots : RequestThumb(s)) \/ (\E r \in inflight : ThumbArrives(r)))
    /\ UNCHANGED <<runtime, shownFile, probed, preview, loaded, openings, marks, player, gone, counts>> /\ KeepJobs

----------------------------------------------------------------------------
(* Exporting.                                                               *)
StartExport ==
    /\ exportTask = 0 /\ probed # NoVideo /\ counts.exports < MaxExports /\ Gesture("exports")
    /\ dialogs' = dialogs \union {[id |-> counts.exports + 1, of |-> shownFile]} /\ crossed' = (crossed \/ Unsettled) /\ UNCHANGED jobVars
(* The file and the marks are read when the dialog has been answered.       *)
SaveAnswered(d) ==
    /\ dialogs' = dialogs \ {d} /\ UNCHANGED <<jobs, exportTask, doneEvents, untracked, crossed, counts>>
    /\ \/ UNCHANGED starting
       \/ LET job == [id |-> d.id, input |-> shownFile, suggested |-> d.of,
                      from |-> marks.from, to |-> marks.to]
          IN  starting' = starting \union {[job |-> job, registered |-> FALSE]}
JobRegistered(s) ==
    /\ ~s.registered /\ UNCHANGED <<dialogs, exportTask, doneEvents, untracked, crossed, counts>>
    /\ \/ starting' = starting \ {s} /\ UNCHANGED jobs   \* refused
       \/ /\ starting' = (starting \ {s}) \union {[s EXCEPT !.registered = TRUE]}
          /\ jobs' = jobs \union {s.job}
\* Faulty variant: a start that was answered is not remembered.
ForgetTask(s) == exportTask
TaskOf(s) == s.job.id
StartAnswered(s) ==
    /\ s.registered /\ starting' = starting \ {s} /\ exportTask' = TaskOf(s)
    /\ untracked' = untracked \union ({exportTask} \ {0})
    /\ UNCHANGED <<dialogs, jobs, doneEvents, crossed, counts>>
JobEnds(j) ==
    /\ jobs' = jobs \ {j} /\ doneEvents' = doneEvents \union {j.id}
    /\ UNCHANGED <<dialogs, starting, exportTask, untracked, crossed, counts>>
\* Faulty variant: the end of any export ends the one shown.
AnyTaskEnds(id) == TRUE
IsCurrentExportTask(id) == exportTask = id
DoneArrives(id) ==
    /\ doneEvents' = doneEvents \ {id}
    /\ exportTask' = IF IsCurrentExportTask(id) THEN 0 ELSE exportTask
    /\ untracked' = IF exportTask = id THEN untracked ELSE untracked \union {id}
    /\ UNCHANGED <<dialogs, starting, jobs, crossed, counts>>
Exporting ==
    /\ ~gone /\ UNCHANGED <<fileVars, marks, player, gone>>
    /\ \/ StartExport
       \/ \E d \in dialogs : SaveAnswered(d)
       \/ \E s \in starting : JobRegistered(s) \/ StartAnswered(s)
       \/ \E j \in jobs : JobEnds(j)
       \/ \E id \in doneEvents : DoneArrives(id)

LeaveTrim ==
    /\ ~gone /\ gone' = TRUE /\ crossed' = (crossed \/ openings # {})
    /\ loaded' = IF player.active THEN NoVideo ELSE loaded
    /\ UNCHANGED <<runtime, shownFile, probed, thumbs, inflight, preview, openings, marks, player, counts>> /\ KeepJobs

TrimNext ==
    \/ OpenVideo \/ LoadSidecars \/ OpeningGoesOn \/ Touch \/ PlayerReports \/ Thumbnails \/ Exporting \/ LeaveTrim
TrimSpec == TrimInit /\ [][TrimNext]_trimVars

----------------------------------------------------------------------------
(* The marks and the playhead are inside the file they are shown on, in     *)
(* order, whatever overlaps (VideoTrimView.vue:143-171, 234-258).           *)
MarksInside ==
    probed # NoVideo =>
        /\ 0 <= marks.from /\ marks.from <= marks.to /\ marks.to <= Length(probed)
        /\ 0 <= marks.head /\ marks.head <= Length(probed)

(* Unless openings overlap, what the view shows, plays and exports is of    *)
(* one file, and what was left plays nothing.                               *)
OneFile ==
    ~crossed =>
        /\ probed \in {NoVideo, shownFile}
        /\ \A s \in Slots : thumbs[s] \in {NoVideo, shownFile}
        /\ preview = "direct" => loaded = shownFile \/ gone
        /\ \A j \in jobs : j.input = j.suggested /\ j.to <= Lengths[j.input]
        /\ gone => loaded = NoVideo

(* The export shown is one that runs or whose end is on its way, and an     *)
(* export that runs is shown once its start was answered, unless it ended   *)
(* before or another one took its place.                                    *)
ExportShown ==
    /\ exportTask # 0 /\ exportTask \notin untracked =>
           exportTask \in doneEvents \/ \E j \in jobs : j.id = exportTask
    /\ \A j \in jobs : j.id = exportTask \/ j.id \in untracked \/ \E s \in starting : s.job = j

(* The trimming view (VideoTrimView.vue) works on the file it shows.        *)
TrimRight == MarksInside /\ OneFile /\ ExportShown
=============================================================================
