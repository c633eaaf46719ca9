--------------------------- MODULE VideoTimeline ---------------------------
(***************************************************************************)
(* The timeline of the trimming view (components/VideoTimeline.vue with    *)
(* lib/videoTimeline.ts): what is in sight after zooming, the marks and    *)
(* pictures drawn, and the throttle between the pointer and the player.    *)
(* Seconds, pixels and milliseconds are integers; the instances are such   *)
(* that the divisions of the code are whole.                               *)
(***************************************************************************)
EXTENDS Integers, Sequences, FiniteSets, FiniteSetsExt

CONSTANTS
    ClipLength,  \* durationSec
    Widths,      \* the widths in pixels the window gives the timeline
    MaxZoom,
    MinGap,      \* the least distance of two ticks in pixels
    ThumbWidth,  \* the width a picture should have
    NiceTicks, NiceThumbs,  \* the distances to choose from, in seconds
    Interval,    \* the throttle's intervalMs
    Seconds,     \* where the pointer may be
    MaxTime      \* bound on the clock

ASSUME ThrottleAssumption == Interval \in Nat /\ Seconds \subseteq Nat

VARIABLES
    width, zoom, pan,
    lastZoom,    \* the last zoom: [anchor, time], the pixel and the time that was there
    clock, throttle, \* [last, pending, due]: due is when the timer is due, Never without one
    sentSeeks,   \* the seeks passed on, with their time
    asked,       \* the last second the pointer asked for
    overdue      \* the pointer was handled when the timer was due already
panVars == <<width, zoom, pan, lastZoom>>
throttleVars == <<clock, throttle, sentSeeks, asked, overdue>>
Never == -1

----------------------------------------------------------------------------
(* A pixel is ClipLength / (width * zoom) seconds.                          *)
XToTime(w, z, p, x) == p + (x * ClipLength) \div (w * z)
VisibleEnd == Min({ClipLength, XToTime(width, zoom, pan, width)})
Atleast(n, set, otherwise) == LET fit == {k \in set : k >= n} IN IF fit = {} THEN otherwise ELSE Min(fit)
CeilDiv(a, b) == (a + b - 1) \div b

TickInterval ==
    LET raw == CeilDiv(MinGap * ClipLength, width * zoom)
    IN  Atleast(raw, NiceTicks, CeilDiv(raw, Max(NiceTicks)) * Max(NiceTicks))
VisibleTicks ==
    LET i == TickInterval
        first == CeilDiv(pan, i) * i
    IN  {first + k * i : k \in 0 .. ClipLength} \intersect 0 .. VisibleEnd
ThumbnailInterval ==
    LET raw == CeilDiv(ClipLength * ThumbWidth, Max({width * zoom, ThumbWidth}))
    IN  Atleast(raw, NiceThumbs, CeilDiv(raw, Max(NiceThumbs)) * Max(NiceThumbs))
\* Faulty variant: pictures begin inside the range in sight.
SlotsFromInside ==
    LET i == ThumbnailInterval
    IN  {s \in {CeilDiv(pan, i) * i + k * i : k \in 0 .. ClipLength} : s < VisibleEnd}
VisibleThumbnailSlots ==
    LET i == ThumbnailInterval
    IN  {s \in {(pan \div i) * i + k * i : k \in 0 .. ClipLength} : s < VisibleEnd}

\* Faulty variant: the right edge may go past the end.
PanAnywhere(z, p) == Max({p, 0})
ClampPan(z, p) == Min({Max({p, 0}), ClipLength - ClipLength \div z})
(* factor is 2 or, as <<1, 2>>, a half.                                     *)
ZoomAt(factor, x) ==
    /\ zoom' = Min({Max({(zoom * factor[1]) \div factor[2], 1}), MaxZoom})
    /\ lastZoom' = [anchor |-> x, time |-> XToTime(width, zoom, pan, x)]
    /\ pan' = ClampPan(zoom', lastZoom'.time - (x * ClipLength) \div (width * zoom'))
    /\ UNCHANGED width

PanInit == width \in Widths /\ zoom = 1 /\ pan = 0 /\ lastZoom = [anchor |-> 0, time |-> 0]
PanNext ==
    \/ \E factor \in {<<2, 1>>, <<1, 2>>}, x \in 0 .. width : ZoomAt(factor, x)
    \/ /\ width' \in Widths \ {width}          \* the window is resized
       /\ lastZoom' = [anchor |-> 0, time |-> pan] /\ UNCHANGED <<zoom, pan>>

----------------------------------------------------------------------------
(* The throttle.                                                            *)
Idle == [last |-> 0, pending |-> Never, due |-> Never]
ThrottleInit ==
    clock = Interval /\ throttle = Idle /\ sentSeeks = <<>> /\ asked = Never /\ overdue = FALSE

Invoke(sec, pending, due) ==
    /\ throttle' = [last |-> clock, pending |-> pending, due |-> due]
    /\ sentSeeks' = Append(sentSeeks, <<clock, sec>>)
\* Faulty variant: only the first second asked for while waiting is kept.
KeepFirst(sec) == IF throttle.pending = Never THEN sec ELSE throttle.pending
KeepLast(sec) == sec
Pointer(sec) ==
    /\ asked' = sec /\ UNCHANGED clock
    /\ overdue' = (overdue \/ (throttle.due # Never /\ throttle.due <= clock))
    /\ \/ clock - throttle.last >= Interval /\ Invoke(sec, throttle.pending, throttle.due)
       \/ /\ clock - throttle.last < Interval /\ UNCHANGED sentSeeks
          /\ throttle' = [throttle EXCEPT !.pending = KeepLast(sec),
                          !.due = IF @ = Never THEN clock + Interval - (clock - throttle.last) ELSE @]
TimerFires ==
    /\ throttle.due # Never /\ throttle.due <= clock /\ UNCHANGED <<clock, asked, overdue>>
    /\ IF throttle.pending # Never THEN Invoke(throttle.pending, Never, Never)
       ELSE throttle' = [throttle EXCEPT !.due = Never] /\ UNCHANGED sentSeeks
TimePasses == clock < MaxTime /\ clock' = clock + 1 /\ UNCHANGED <<throttle, sentSeeks, asked, overdue>>
ThrottleNext ==
    (\E sec \in Seconds : Len(sentSeeks) < MaxTime /\ Pointer(sec)) \/ TimerFires \/ TimePasses
ThrottleSpec == ThrottleInit /\ [][ThrottleNext]_throttleVars

----------------------------------------------------------------------------
(* The range in sight stays inside the clip, and zooming keeps the time     *)
(* under the pointer where it was unless an end of the clip is in the way   *)
(* (videoTimeline.ts:120-136).                                              *)
RangeInside ==
    /\ 0 <= pan /\ pan + ClipLength \div zoom <= ClipLength
    /\ pan \in {0, ClipLength - ClipLength \div zoom}
       \/ XToTime(width, zoom, pan, lastZoom.anchor) = lastZoom.time
(* Ticks are never nearer than the gap, every second in sight has its       *)
(* picture, and no picture is out of sight (videoTimeline.ts:37-98).        *)
DrawnInSight ==
    /\ \A s, t \in VisibleTicks : s < t => (t - s) * width * zoom >= MinGap * ClipLength
    /\ \A s \in VisibleTicks : pan <= s
    /\ \A s \in pan .. VisibleEnd - 1 :
           \E slot \in VisibleThumbnailSlots : slot <= s /\ s < slot + ThumbnailInterval
    /\ \A slot \in VisibleThumbnailSlots : pan < slot + ThumbnailInterval
(* Unless the pointer overtook the timer, seeks are an interval apart and   *)
(* the last one asked for is the last one passed on                         *)
(* (videoTimeline.ts:138-174).                                              *)
SeeksThrottled ==
    ~overdue =>
        /\ \A i \in 2 .. Len(sentSeeks) : sentSeeks[i][1] - sentSeeks[i - 1][1] >= Interval
        /\ asked # Never /\ throttle.due = Never => sentSeeks[Len(sentSeeks)][2] = asked

(* What the timeline draws is right after every zoom and resize.            *)
TimelineRight == RangeInside /\ DrawnInSight
============================================================================
