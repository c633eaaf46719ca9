---------------------------- MODULE MCAppUpdate ----------------------------
(***************************************************************************)
(* Model checking of what runs on a user's machine: the updater of the     *)
(* portable client, the computed utilities, the process monitor, the       *)
(* video trimming view and the bridge to web plugins.  They share no       *)
(* state; `focus` says which of them a behaviour is about.                 *)
(***************************************************************************)
EXTENDS AppUpdate, UtilityActions, ProcessMonitor, ProcessRows, VideoTrim, VideoTimeline, PluginBridge, TLC

CONSTANTS p1, p2, exe, lib, extra, va, vb, pa, pb

VARIABLE focus
mcVars == <<focus, vars, utilityVars, monitorVars, rowVars, trimVars, panVars, throttleVars, bridgeVars>>

TwoProcs == {p1, p2}
ThreeFiles == {exe, lib, extra}
\* Version 2 cannot be started; version 3 drops a library and adds a file, version 4 takes both back.
FourVersions == 1..4
SecondBroken == {2}
Packages == [v \in 1..4 |-> IF v = 3 THEN {exe, extra} ELSE {exe, lib}]
Symmetry == Permutations(TwoProcs) \union Permutations(Plugins)

----------------------------------------------------------------------------
(* The inputs of the utilities.                                             *)
UpTo(set, n) == UNION {[1 .. k -> set] : k \in 0 .. n}
DiffTexts == UpTo({"a", "b"}, 4)
SomeOctets == {f \in [1 .. 4 -> 0 .. OctetMax] : \A k \in 1 .. 4 : f[k] # 2}
Opt(set) == {<<>>} \union {<<x>> : x \in set}
SomeReceipts ==
    [sound : {TRUE}, version : {"1.0", "2.0", "3.0"}, created : Opt({1}), started : Opt({0, 1}),
     completed : Opt({2}), duration : Opt({-1, 1}), status : {"queued", "running", "success", "error", "cancelled"},
     error : Opt({"CANCELLED", "TIMEOUT"})]
MCExercises ==
    {<<"diff", b, a, c>> : b \in DiffTexts, a \in DiffTexts, c \in 0 .. 1}
    \union {<<"octet", d>> : d \in UpTo({0, 2, 5, 6}, 4)}
    \union {<<"ipv4", o, p>> : o \in SomeOctets, p \in 0 .. 8}
    \union {<<"class", <<a, b, 1, 1>>>> : a \in {9, 10, 11, 127, 128, 172, 192, 223, 224, 239, 240},
                                        b \in {0, 15, 16, 31, 32, 167, 168, 169}}
    \union {<<"luhn", d>> : d \in [1 .. 1 -> 0 .. 9] \union [1 .. 2 -> 0 .. 9] \union [1 .. 3 -> {0, 4, 5, 9}]}
    \union {<<"pick", n>> : n \in 1 .. 12} \union {<<"shuffle", n>> : n \in 1 .. 4}
    \union {<<"duration", s * d + r>> : s \in {-1, 1}, d \in {0, 59000, 60000, 3599000, 3600000, 86399000, 86400000, 90061000},
                                     r \in {-1, 0, 1, 999}}
    \union {<<"caesar", n, s>> : n \in {0, 12, 25}, s \in -30 .. 30}
    \union {<<"base64", x, n>> : x \in UpTo({0, 1, 15, 16, 48, 63}, 4), n \in 0 .. 3}
    \union {<<"jwt", x>> : x \in UpTo({0, 1, 15, 16, 48, 63}, 4)}
    \union {<<"pointer", x>> : x \in UpTo({"~", "/", "0", "1"}, 4)}
    \union {<<"html", x>> : x \in UpTo({"<", ">", "&", "lt;", "amp;", "#60;", "a", " "}, 3)
                               \union [1 .. 4 -> {"<", ">", "&", "lt;"}]}
    \union {<<"slug", x>> : x \in UpTo({"a", "b", " ", "-", "!"}, 4)}
    \union {<<"receipt", r, b>> : r \in SomeReceipts, b \in {1}}
    \union {<<"receipt", r, b>> : r \in {q \in SomeReceipts : ReceiptValid(q)}, b \in {2}}
    \union {<<"made", c, 1, d>> : c \in {"none", "CANCELLED", "TIMEOUT"}, d \in 0 .. 1}

----------------------------------------------------------------------------
(* Tables, searches and videos.                                             *)
TwoPids == 1..2
Metric(c, u, d, t) == [cpu |-> c, up |-> u, down |-> d, tcp |-> t, udp |-> 0]
MCMetrics == <<Metric(1, -1, -1, 3), Metric(0, 1, 0, 5), Metric(1, 0, 2, 0), Metric(0, 2, 2, 9)>>
MCTables == {[r \in 1..4 |-> [parent |-> par[r]] @@ MCMetrics[r]] :
                par \in {<<0, 1, 2, 3>>, <<0, 1, 1, 1>>, <<0, 1, 1, 2>>, <<9, 1, 0, 3>>,
                         <<0, 9, 2, 2>>, <<0, 0, 9, 3>>, <<0, 0, 2, 1>>, <<0, 1, 2, 2>>}}
MCSearches == {1..4, {4}, {1, 3}}
MCLengths == [v \in Videos |-> IF v = va THEN 2 ELSE 1]

Foci == {"updater", "utilities", "monitor", "rows", "trim", "pan", "throttle", "bridge"}
----------------------------------------------------------------------------
MachineInit ==
    /\ focus \in Foci
    /\ Init /\ MonitorInit /\ TrimInit /\ ThrottleInit /\ BridgeInit
    /\ focus # "bridge" => pluginHost.plugin = pa
    /\ IF focus = "utilities" THEN UtilityInit ELSE exercise = <<>> /\ result = <<>>
    /\ IF focus = "rows" THEN RowInit
       ELSE rowTable = <<>> /\ control = [mode |-> "none"] /\ storedRows = {} /\ scrollTop = 0
    /\ PanInit /\ (focus # "pan" => width = Max(Widths))
Only(name) ==
    /\ focus = name /\ UNCHANGED focus
    /\ name # "updater" => UNCHANGED vars
    /\ name # "utilities" => UNCHANGED utilityVars
    /\ name # "monitor" => UNCHANGED monitorVars
    /\ name # "rows" => UNCHANGED rowVars
    /\ name # "trim" => UNCHANGED trimVars
    /\ name # "pan" => UNCHANGED panVars
    /\ name # "throttle" => UNCHANGED throttleVars
    /\ name # "bridge" => UNCHANGED bridgeVars
MachineNext ==
    \/ Only("updater") /\ Next
    \/ Only("utilities") /\ UtilityNext
    \/ Only("monitor") /\ MonitorNext
    \/ Only("rows") /\ RowNext
    \/ Only("trim") /\ TrimNext
    \/ Only("pan") /\ PanNext
    \/ Only("throttle") /\ ThrottleNext
    \/ Only("bridge") /\ BridgeNext
    \/ focus # "updater" /\ UNCHANGED mcVars   \* answered, or the bounds are reached
MachineSpec == MachineInit /\ [][MachineNext]_mcVars

(* What the program shows and computes is right: the utilities              *)
(* (utility-actions.mjs), the process monitor's table and rows              *)
(* (ProcessMonitorView.vue), the trimming view and its timeline             *)
(* (VideoTrimView.vue), and what it grants to a plugin (pluginBridge.ts).   *)
DesktopRight ==
    /\ focus = "utilities" => UtilitiesRight
    /\ focus = "monitor" => MonitorRight
    /\ focus = "rows" => RowsRight
    /\ focus = "trim" => TrimRight
    /\ focus = "pan" => TimelineRight
    /\ focus = "throttle" => SeeksThrottled
    /\ focus = "bridge" => BridgeRight
=============================================================================
