-------------------------- MODULE ProcessMonitor --------------------------
(***************************************************************************)
(* The process monitor: the sampling thread of commands/procmon.rs with    *)
(* the differences of useful-procmon/src/diff.rs, the commands the program *)
(* runs one by one, and the view (ProcessMonitorView.vue) whose table      *)
(* (lib/procTable.ts) is kept up to date by differences alone.  A view     *)
(* that is left while its onMounted hook waits goes on with the hook.      *)
(***************************************************************************)
EXTENDS Integers, Sequences, FiniteSets, SequencesExt, FiniteSetsExt

CONSTANTS
    Pids,       \* process numbers, which the system reuses
    MaxChanges, \* bound on what happens to processes
    MaxVisits,  \* bound on how often the view is entered
    MaxLetters, \* bound on the differences a behaviour emits
    MaxClicks,  \* bound on the user's pauses and menus, and on polls
    MaxHappenings   \* bound on the changes and clicks and, twice each, the visits

VARIABLES
    procs,      \* [id : <<pid, start>>, load] of every process alive
    births,     \* how often each pid was given out
    sampler,    \* the thread: [phase, prev, generation, drained]
    flags,      \* what the commands and the thread share: [running, paused, reset]
    report,     \* ProcmonStats: [running, paused]
    listeners,  \* the views the event is sent to
    calls,      \* commands waiting for the main thread, in order
    answers,    \* answers on their way back, in any order
    letters,    \* events on their way to the views, in order
    visits,     \* the instances of the view, in the order they were mounted
    opened,     \* the last folder opened: <<row's id, id the path belongs to>>
    changes, clicks
monitorVars == <<procs, births, sampler, flags, report, listeners, calls, answers, letters, visits,
                 opened, changes, clicks>>
backendVars == <<procs, births, sampler, flags, report, listeners, letters, opened, changes>>
viewVars == <<calls, answers, visits, clicks, opened>>

\* Faulty variant: a process is known by its number alone.
KeyByPid(id) == id[1]
Key(id) == id

----------------------------------------------------------------------------
(* Differences between two snapshots, and what the table makes of them.     *)
Nothing == [added |-> {}, updated |-> {}, removed |-> {}]
\* Faulty variant: the first difference is taken against the first snapshot itself.
FirstAgainstItself(next) == Nothing
Diff(prev, next) ==
    LET old(s) == {o \in prev : Key(o.id) = Key(s.id)}
    IN  [added |-> {s \in next : old(s) = {}},
         updated |-> {s \in next : \E o \in old(s) : o.load # s.load},
         removed |-> {Key(o.id) : o \in {p \in prev : \A s \in next : Key(s.id) # Key(p.id)}}]
(* The difference a new sampler sends before any other.                     *)
Baseline(next) == Diff({}, next)

\* Faulty variant: what is removed is not taken out.
KeepRemoved(table, delta) ==
    {e \in table : \A s \in delta.added : s.id # e.id} \union delta.added
ApplyDelta(table, delta) ==
    LET with == {e \in table : \A s \in delta.added : Key(s.id) # Key(e.id)} \union delta.added
        load(e) == LET new == {u \in delta.updated : Key(u.id) = Key(e.id)}
                   IN  IF new = {} THEN e.load ELSE (CHOOSE u \in new : TRUE).load
    IN  {[e EXCEPT !.load = load(e)] : e \in {w \in with : Key(w.id) \notin delta.removed}}

----------------------------------------------------------------------------
(* What a behaviour may still hold, by the bounds.                          *)
HasRoom == changes + clicks + 2 * Len(visits) < MaxHappenings

Stopped == [phase |-> "off", prev |-> {}, generation |-> 0, drained |-> FALSE]
MonitorInit ==
    /\ procs = {[id |-> <<CHOOSE p \in Pids : TRUE, 1>>, load |-> 0]}
    /\ births = [p \in Pids |-> IF \E x \in procs : x.id[1] = p THEN 1 ELSE 0]
    /\ sampler = Stopped
    /\ flags = [running |-> FALSE, paused |-> FALSE, reset |-> FALSE]
    /\ report = [running |-> FALSE, paused |-> FALSE]
    /\ listeners = {} /\ calls = <<>> /\ answers = {} /\ letters = <<>> /\ visits = <<>>
    /\ opened = <<>> /\ changes = 0 /\ clicks = 0

(* Processes begin, end and work; what they do while nothing samples is the *)
(* same to the monitor as what they do before its first sample.             *)
ProcessChange ==
    /\ sampler.phase # "off" /\ changes < MaxChanges /\ HasRoom /\ changes' = changes + 1
    /\ \/ \E p \in Pids : /\ \A x \in procs : x.id[1] # p
                          /\ births' = [births EXCEPT ![p] = @ + 1]
                          /\ procs' = procs \union {[id |-> <<p, births[p] + 1>>, load |-> 0]}
       \/ \E x \in procs : /\ UNCHANGED births
                           /\ \/ procs' = procs \ {x}
                              \/ procs' = (procs \ {x}) \union {[x EXCEPT !.load = 1 - @]}
    /\ UNCHANGED <<sampler, flags, report, listeners, letters, viewVars>>

----------------------------------------------------------------------------
(* The sampling thread.                                                     *)
Post(delta, gen, first) ==
    letters' = Append(letters, [delta |-> delta, to |-> listeners, generation |-> gen, first |-> first])

FirstSample ==
    /\ sampler.phase = "born"
    /\ report' = [report EXCEPT !.running = TRUE]
    /\ sampler' = [sampler EXCEPT !.phase = "loop", !.prev = procs]
    /\ Post(Baseline(procs), sampler.generation, TRUE)
    /\ UNCHANGED <<procs, births, flags, listeners, changes, viewVars>>

(* One round, after a second: a stop, a change of the pause, a paused round *)
(* and the first one after it sample nothing.                               *)
SamplerRound ==
    /\ sampler.phase = "loop"
    /\ UNCHANGED <<procs, births, listeners, changes, viewVars>>
    /\ \/ ~flags.running
          /\ sampler' = [sampler EXCEPT !.phase = "off", !.drained = FALSE]
          /\ report' = [report EXCEPT !.running = FALSE]
          /\ UNCHANGED <<flags, letters>>
       \/ flags.running /\ flags.reset
          /\ flags' = [flags EXCEPT !.reset = FALSE]
          /\ sampler' = [sampler EXCEPT !.drained = flags.paused]
          /\ UNCHANGED <<report, letters>>
       \/ flags.running /\ ~flags.reset /\ (flags.paused \/ sampler.drained)
          /\ sampler' = [sampler EXCEPT !.drained = flags.paused]
          /\ UNCHANGED <<flags, report, letters>>
       \/ flags.running /\ ~flags.reset /\ ~flags.paused /\ ~sampler.drained
          /\ Len(letters) < MaxLetters
          /\ Post(Diff(sampler.prev, procs), sampler.generation, FALSE)
          /\ sampler' = [sampler EXCEPT !.prev = procs]
          /\ UNCHANGED <<flags, report>>

----------------------------------------------------------------------------
(* The commands, one at a time on the main thread.                          *)
Reply(call, value) ==
    answers' = answers \union {[visit |-> call.visit, kind |-> call.kind, value |-> value]}
Done(ok) == [running |-> ok, paused |-> FALSE]   \* as ProcmonStats, which "stats" answers

\* Faulty variant: a sampler that still winds down is replaced by another one at once.
ExecStopNoJoin(call) ==
    /\ flags' = [flags EXCEPT !.running = FALSE]
    /\ calls' = Tail(calls) /\ UNCHANGED <<answers, sampler, report, listeners>>
ExecStart(call) ==
    /\ calls' = Tail(calls) /\ UNCHANGED <<report, listeners>>
    /\ \/ flags.running /\ Reply(call, Done(TRUE)) /\ UNCHANGED <<flags, sampler>>
       \/ /\ ~flags.running
          /\ flags' = [running |-> TRUE, paused |-> FALSE, reset |-> FALSE]
          /\ sampler' = [phase |-> "born", prev |-> {}, generation |-> sampler.generation + 1,
                         drained |-> FALSE]
          /\ Reply(call, Done(TRUE))
       \/ /\ ~flags.running   \* the thread cannot be spawned
          /\ Reply(call, Done(FALSE)) /\ UNCHANGED <<flags, sampler>>
(* The flag is cleared, then the main thread waits until the thread ended;  *)
(* nobody reads the answer.                                                 *)
ExecStop(call) ==
    /\ UNCHANGED <<answers, sampler, report, listeners>>
    /\ \/ flags.running /\ flags' = [flags EXCEPT !.running = FALSE] /\ UNCHANGED calls
       \/ ~flags.running /\ sampler.phase = "off" /\ calls' = Tail(calls) /\ UNCHANGED flags

ExecCommand ==
    /\ calls # <<>>
    /\ UNCHANGED <<procs, births, letters, visits, opened, changes, clicks>>
    /\ LET call == Head(calls)
       IN  \/ call.kind = "start" /\ ExecStart(call)
           \/ call.kind = "stop" /\ ExecStop(call)
           \/ call.kind = "listen" /\ listeners' = listeners \union {call.visit}
              /\ Reply(call, Done(TRUE)) /\ calls' = Tail(calls) /\ UNCHANGED <<flags, sampler, report>>
           \/ call.kind = "unlisten" /\ listeners' = listeners \ {call.visit}
              /\ calls' = Tail(calls) /\ UNCHANGED <<answers, flags, sampler, report>>
           \/ call.kind = "elevation" /\ Reply(call, Done(TRUE)) /\ calls' = Tail(calls)
              /\ UNCHANGED <<flags, sampler, report, listeners>>
           \/ call.kind = "pause"
              /\ flags' = [flags EXCEPT !.paused = call.arg, !.reset = TRUE]
              /\ report' = [report EXCEPT !.paused = call.arg]
              /\ calls' = Tail(calls) /\ UNCHANGED <<answers, sampler, listeners>>
           \/ call.kind = "stats" /\ Reply(call, report) /\ calls' = Tail(calls)
              /\ UNCHANGED <<flags, sampler, report, listeners>>

----------------------------------------------------------------------------
(* The view.  `hook` is where its onMounted hook waits, `leftAt` where it   *)
(* was when the view was left.                                              *)
Call(v, kind, arg) == [visit |-> v, kind |-> kind, arg |-> arg]
Shown == IF visits # <<>> /\ visits[Len(visits)].leftAt = "shown" THEN {Len(visits)} ELSE {}

Mount ==
    /\ Shown = {} /\ Len(visits) < MaxVisits /\ HasRoom
    /\ visits' = Append(visits, [hook |-> "listen", leftAt |-> "shown", table |-> {}, polling |-> FALSE,
                                 running |-> FALSE, paused |-> FALSE, heard |-> 0])
    /\ calls' = Append(calls, Call(Len(visits) + 1, "listen", FALSE))
    /\ UNCHANGED <<backendVars, answers, clicks>>

HookGoesOn(v, answer) ==
    \/ /\ answer.kind = "listen"
       /\ calls' = Append(calls, Call(v, "elevation", FALSE))
       /\ visits' = [visits EXCEPT ![v].hook = "elevation"]
    \/ /\ answer.kind = "elevation"
       /\ calls' = Append(calls, Call(v, "start", FALSE))
       /\ visits' = [visits EXCEPT ![v].hook = "start"]
    \/ /\ answer.kind = "start"
       /\ visits' = [visits EXCEPT ![v].hook = "mounted", ![v].polling = TRUE,
                                   ![v].running = answer.value.running \/ @,
                                   ![v].paused = ~answer.value.running /\ @]
       /\ UNCHANGED calls

AnswerArrives ==
    \E answer \in answers :
        /\ answers' = answers \ {answer} /\ UNCHANGED <<backendVars, clicks>>
        /\ \/ HookGoesOn(answer.visit, answer)
           \/ /\ answer.kind = "stats"
              /\ visits' = [visits EXCEPT ![answer.visit].running = answer.value.running,
                                          ![answer.visit].paused = answer.value.paused]
              /\ UNCHANGED calls

\* Faulty variant: the timer of the left view goes on.
LeaveKeepsPolling(v) ==
    /\ visits' = [visits EXCEPT ![v].leftAt = visits[v].hook]
    /\ calls' = calls \o (IF visits[v].hook # "listen" THEN <<Call(v, "unlisten", FALSE)>> ELSE <<>>)
                      \o <<Call(v, "stop", FALSE)>>
Leave(v) ==
    /\ visits' = [visits EXCEPT ![v].leftAt = visits[v].hook, ![v].polling = FALSE]
    /\ calls' = calls \o (IF visits[v].hook # "listen" THEN <<Call(v, "unlisten", FALSE)>> ELSE <<>>)
                      \o <<Call(v, "stop", FALSE)>>

PollStats(v) ==
    /\ visits[v].polling /\ calls' = Append(calls, Call(v, "stats", FALSE)) /\ UNCHANGED visits
TogglePause(v) ==
    /\ visits[v].running
    /\ visits' = [visits EXCEPT ![v].paused = ~@]
    /\ calls' = Append(calls, Call(v, "pause", ~visits[v].paused))

Click ==
    /\ clicks < MaxClicks /\ HasRoom /\ clicks' = clicks + 1 /\ UNCHANGED <<backendVars, answers>>
    /\ \/ \E v \in DOMAIN visits : PollStats(v)
       \/ \E v \in Shown : TogglePause(v)
LeaveView == (\E v \in Shown : Leave(v)) /\ UNCHANGED <<backendVars, answers, clicks>>

(* A view left before `listen` was answered is never told to stop listening,*)
(* and its table is kept up to date.                                        *)
Hears(v) == visits[v].leftAt \in {"shown", "listen"}
DeltaArrives ==
    /\ letters # <<>> /\ letters' = Tail(letters)
    /\ visits' = [v \in DOMAIN visits |->
            IF v \notin Head(letters).to \/ ~Hears(v) THEN visits[v]
            ELSE [visits[v] EXCEPT !.table = ApplyDelta(@, Head(letters).delta),
                                   !.heard = IF Head(letters).first THEN Head(letters).generation ELSE @]]
    /\ UNCHANGED <<procs, births, sampler, flags, report, listeners, opened, changes, calls, answers, clicks>>

\* Faulty variant: the path is looked up by the number of the process.
PathByPid(table, id) == {e.id : e \in {x \in table : x.id[1] = id[1]}}
ExePathOf(table, id) == {e.id : e \in {x \in table : Key(x.id) = Key(id)}}
(* The context menu keeps the row it was opened on; its folder is looked up *)
(* when the entry is clicked, by then another process may have the number.  *)
OpenMenu ==
    /\ clicks < MaxClicks /\ HasRoom /\ clicks' = clicks + 1
    /\ \E v \in Shown : \E e \in visits[v].table : opened' = <<e.id>>
    /\ UNCHANGED <<procs, births, sampler, flags, report, listeners, letters, changes, calls, answers, visits>>
OpenFolder ==
    /\ Len(opened) = 1
    /\ \E v \in Shown : \E path \in ExePathOf(visits[v].table, opened[1]) : opened' = <<opened[1], path>>
    /\ UNCHANGED <<procs, births, sampler, flags, report, listeners, letters, changes, calls, answers, visits, clicks>>

MonitorNext ==
    \/ ProcessChange \/ FirstSample \/ SamplerRound \/ ExecCommand
    \/ Mount \/ AnswerArrives \/ Click \/ LeaveView \/ DeltaArrives \/ OpenMenu \/ OpenFolder

----------------------------------------------------------------------------
\* The snapshot as the table will hold it once every letter has arrived.
Coming(v) == SelectSeq(letters, LAMBDA l : v \in l.to)
Settled(v) == FoldLeft(LAMBDA table, l : ApplyDelta(table, l.delta), visits[v].table, Coming(v))
(* The table of a view that heard the first difference of the sampler is,   *)
(* with the differences on their way, its last snapshot: none is lost,      *)
(* applied twice or given to the wrong process (procTable.ts:36-47).        *)
TableFollows ==
    \A v \in Shown : visits[v].heard = sampler.generation /\ sampler.generation > 0
                             => Settled(v) = sampler.prev

\* Every view left so far had come to the end of its hook, or was about to.
CleanBefore(v) == \A u \in 1 .. v - 1 : visits[u].leftAt \in {"mounted", "start"}
(* A view entered after complete visits never shows a table without its     *)
(* baseline: it is told of every process at once (procmon.rs:87-91).        *)
BaselineIsHeard ==
    \A v \in Shown :
        CleanBefore(v) /\ visits[v].hook = "mounted" /\ sampler.phase = "loop"
        => visits[v].heard = sampler.generation
           \/ \E i \in DOMAIN letters : letters[i].first /\ v \in letters[i].to /\ letters[i].generation = sampler.generation

(* When every visit was complete before it was left and the commands are    *)
(* done, nothing of the monitor goes on.                                    *)
NothingGoesOn ==
    Shown = {} /\ calls = <<>> /\ (\A v \in DOMAIN visits : visits[v].leftAt = "mounted")
    => /\ sampler.phase = "off" /\ ~flags.running /\ listeners = {}
       /\ \A v \in DOMAIN visits : ~visits[v].polling /\ ~Hears(v)

(* The folder opened is the one of the process the menu was opened on.      *)
FolderOfTheRow == Len(opened) = 2 => opened[2] = opened[1]

(* What the monitor shows is what the sampler saw                           *)
(* (ProcessMonitorView.vue, commands/procmon.rs).                           *)
MonitorRight == TableFollows /\ BaselineIsHeard /\ NothingGoesOn /\ FolderOfTheRow
=============================================================================
