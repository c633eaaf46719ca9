---------------------------- MODULE PluginBridge ----------------------------
(***************************************************************************)
(* A web plugin in its frame: PluginHostView loads a document and arms a   *)
(* bridge for it, the document's UsefulClient trades the secret of its     *)
(* address for a message port, and calls run over that port.               *)
(*                                                                         *)
(* The host is one thread that takes the frame's events in order.  What    *)
(* the two sides send each other, a call under way in the program and the  *)
(* timers are steps of their own.  A plugin may use its own client: it may *)
(* ask for the port before its load event, navigate or reload the frame    *)
(* and send messages the bridge refuses.  The secret of a load is the      *)
(* number of that load.                                                    *)
(***************************************************************************)
EXTENDS Integers, FiniteSets, Sequences

CONSTANTS
    Plugins,
    GlobalSlots, PluginSlots,   \* MAX_GLOBAL_IN_FLIGHT, MAX_PLUGIN_IN_FLIGHT
    MaxLoads,                   \* bound: loads by the host
    MaxDocuments,               \* bound: documents ever in a frame
    MaxMessages,                \* bound: requests ever sent
    NoBridge, NoDocument

Bridges == [plugin : Plugins, load : Nat, armed : BOOLEAN, booted : BOOLEAN, port : Nat]

ASSUME BridgeAssumption == GlobalSlots \in Nat /\ PluginSlots \in Nat /\ NoBridge \notin Bridges

VARIABLES
    pluginHost, \* the view: [plugin, load, awaiting, error, left]
    bridge,     \* its bridge: [plugin, load, armed, booted, port], port: the document at the other end
    frame,      \* the document in the frame
    frameEvents,\* load events and requests for a port that the host has yet to take
    toHost, toPlugin,   \* messages on the port
    inProgram,  \* plugin_bridge_call under way: [id, plugin, load, late]
    slots,      \* [global, plugin]
    replies,    \* how often the host has answered each request it took a slot for
    bridgeCounts    \* [loads, documents, messages]

bridgeVars == <<pluginHost, bridge, frame, frameEvents, toHost, toPlugin, inProgram, slots, replies, bridgeCounts>>

(* A document of a load, with the secret in its address.  The host has      *)
(* taken its load event when it is seen, and as the one it asked for when   *)
(* it is awaited.                                                           *)
Document(n, plugin, load, secret) ==
    [n |-> n, plugin |-> plugin, load |-> load, secret |-> secret,
     loaded |-> FALSE, seen |-> FALSE, awaited |-> FALSE, client |-> "new"]

NewBridge(plugin, load) == [plugin |-> plugin, load |-> load, armed |-> FALSE, booted |-> FALSE, port |-> 0]

BridgeInit ==
    \E p \in Plugins :
        /\ pluginHost = [plugin |-> p, load |-> 1, awaiting |-> TRUE, error |-> FALSE, left |-> FALSE]
        /\ bridge = NewBridge(p, 1)
        /\ frame = Document(1, p, 1, 1)
        /\ frameEvents = <<>> /\ toHost = <<>> /\ toPlugin = <<>>
        /\ inProgram = {} /\ replies = <<>>
        /\ slots = [global |-> 0, plugin |-> [x \in Plugins |-> 0]]
        /\ bridgeCounts = [loads |-> 1, documents |-> 1, messages |-> 0]

----------------------------------------------------------------------------
(* The view.                                                                *)

(* loadPlugin: the old bridge goes, a new frame gets a new secret and a     *)
(* bridge that is not armed; the ticks in between let no event in.          *)
LoadPlugin(p) ==
    /\ ~pluginHost.left
    /\ bridgeCounts.loads < MaxLoads /\ bridgeCounts.documents < MaxDocuments
    /\ p # pluginHost.plugin \/ pluginHost.error       \* another id, or retry
    /\ LET load == bridgeCounts.loads + 1  n == bridgeCounts.documents + 1 IN
       /\ pluginHost' = [pluginHost EXCEPT !.plugin = p, !.load = load, !.awaiting = TRUE, !.error = FALSE]
       /\ bridge' = NewBridge(p, load)
       /\ frame' = Document(n, p, load, load)
       /\ bridgeCounts' = [bridgeCounts EXCEPT !.loads = load, !.documents = n]
    /\ toHost' = <<>> /\ toPlugin' = <<>>
    /\ UNCHANGED <<frameEvents, inProgram, slots, replies>>

(* The error takes the frame out of the page.                               *)
ShowError ==
    /\ pluginHost' = [pluginHost EXCEPT !.error = TRUE]
    /\ frame' = NoDocument
    /\ toPlugin' = <<>>
    /\ UNCHANGED frameEvents

(* onIframeLoad: the first load event counts as the one the host asked for, *)
(* whatever document it is of; every other one closes the bridge.           *)
(* Faulty variant: a document that replaces the first keeps the bridge.     *)
LoadedAgainKept(event) == UNCHANGED bridge
LoadedAgain(event) == bridge' = NoBridge
OnIframeLoad(event) ==
    /\ frame' = IF frame.n = event.document THEN [frame EXCEPT !.seen = TRUE, !.awaited = pluginHost.awaiting] ELSE frame
    /\ IF pluginHost.awaiting
       THEN /\ pluginHost' = [pluginHost EXCEPT !.awaiting = FALSE]
            /\ bridge' = [bridge EXCEPT !.armed = TRUE]
            /\ UNCHANGED <<toHost, toPlugin>>
       ELSE /\ LoadedAgain(event)
            /\ toHost' = IF bridge' = NoBridge THEN <<>> ELSE toHost
            /\ toPlugin' = IF bridge' = NoBridge THEN <<>> ELSE toPlugin
            /\ UNCHANGED pluginHost

OnIframeError ==
    /\ frame # NoDocument /\ ~frame.loaded
    /\ bridge' = NoBridge
    /\ ShowError
    /\ toHost' = <<>>
    /\ UNCHANGED <<inProgram, slots, replies, bridgeCounts>>

LeavePlugin ==
    /\ ~pluginHost.left
    /\ pluginHost' = [pluginHost EXCEPT !.left = TRUE]
    /\ bridge' = NoBridge /\ frame' = NoDocument
    /\ frameEvents' = <<>> /\ toHost' = <<>> /\ toPlugin' = <<>>
    /\ UNCHANGED <<inProgram, slots, replies, bridgeCounts>>

----------------------------------------------------------------------------
(* The handshake.                                                           *)

(* onBootstrap: only from the window the bridge is armed for, once, and     *)
(* with the secret of this load.                                            *)
(* Faulty variant: any document of that window may have the port.           *)
MayHaveAnySecret(event) ==
    bridge # NoBridge /\ bridge.armed /\ ~bridge.booted /\ event.load = bridge.load
MayHave(event) ==
    bridge # NoBridge /\ bridge.armed /\ ~bridge.booted /\ event.load = bridge.load /\ event.secret = bridge.load

OnBootstrap(event) ==
    /\ IF MayHave(event)
       THEN /\ bridge' = [bridge EXCEPT !.armed = FALSE, !.booted = TRUE, !.port = event.document]
            /\ toPlugin' = IF frame # NoDocument /\ frame.n = event.document
                           THEN <<[id |-> 0, ok |-> TRUE]>> ELSE toPlugin
       ELSE UNCHANGED <<bridge, toPlugin>>
    /\ UNCHANGED <<pluginHost, frame, toHost>>

(* The load event of a frame that is out of the page is never dispatched.   *)
InPage(event) == frame # NoDocument /\ frame.load = event.load

TakeFrameEvent ==
    /\ frameEvents # <<>>
    /\ LET e == Head(frameEvents) IN
       IF e.kind = "bootstrap" THEN OnBootstrap(e)
       ELSE IF InPage(e) THEN OnIframeLoad(e)
       ELSE UNCHANGED <<pluginHost, bridge, frame, toHost, toPlugin>>
    /\ frameEvents' = Tail(frameEvents)
    /\ UNCHANGED <<inProgram, slots, replies, bridgeCounts>>

----------------------------------------------------------------------------
(* The document.                                                            *)

Send(kind) ==
    frameEvents' = Append(frameEvents, [kind |-> kind, document |-> frame.n, load |-> frame.load, secret |-> frame.secret])

DocumentLoads ==
    /\ frame # NoDocument /\ ~frame.loaded
    /\ frame' = [frame EXCEPT !.loaded = TRUE]
    /\ Send("load")
    /\ UNCHANGED <<pluginHost, bridge, toHost, toPlugin, inProgram, slots, replies, bridgeCounts>>

(* The frame shows another document: of the plugin's own choice, without    *)
(* the secret, or the same address again, where the secret still is when    *)
(* the client was not allowed to remove it or has not yet.                  *)
Navigate(secret) ==
    /\ frame # NoDocument
    /\ bridgeCounts.documents < MaxDocuments
    /\ secret \in {0, frame.secret}
    /\ frame' = Document(bridgeCounts.documents + 1, frame.plugin, frame.load, secret)
    /\ bridgeCounts' = [bridgeCounts EXCEPT !.documents = @ + 1]
    /\ toPlugin' = <<>>
    /\ UNCHANGED <<pluginHost, bridge, frameEvents, toHost, inProgram, slots, replies>>

(* UsefulClient.bootstrap waits for the load of its document; a client of   *)
(* the plugin's own need not, nor does it need the secret.                  *)
AskForPort(own) ==
    /\ frame # NoDocument /\ frame.client = "new"
    /\ own \/ (frame.loaded /\ frame.secret # 0)
    /\ frame' = [frame EXCEPT !.client = "asked"]
    /\ Send("bootstrap")
    /\ UNCHANGED <<pluginHost, bridge, toHost, toPlugin, inProgram, slots, replies, bridgeCounts>>

(* After BOOTSTRAP_TIMEOUT_MS the client closes its port and never asks     *)
(* again: portPromise keeps the rejection.                                  *)
BootstrapTimesOut ==
    /\ frame # NoDocument /\ frame.client = "asked"
    /\ frame' = [frame EXCEPT !.client = "failed"]
    /\ toPlugin' = <<>>
    /\ UNCHANGED <<pluginHost, bridge, frameEvents, toHost, inProgram, slots, replies, bridgeCounts>>

PluginHears ==
    /\ toPlugin # <<>> /\ frame # NoDocument
    /\ frame' = [frame EXCEPT !.client = IF Head(toPlugin).id = 0 /\ @ = "asked" THEN "open" ELSE @]
    /\ toPlugin' = Tail(toPlugin)
    /\ UNCHANGED <<pluginHost, bridge, frameEvents, toHost, inProgram, slots, replies, bridgeCounts>>

(* call: a request of a known method, of another one, or one too large.     *)
PluginCalls(kind) ==
    /\ frame # NoDocument /\ frame.client = "open"
    /\ bridgeCounts.messages < MaxMessages
    /\ bridgeCounts' = [bridgeCounts EXCEPT !.messages = @ + 1]
    /\ toHost' = IF bridge # NoBridge /\ bridge.port = frame.n
                 THEN Append(toHost, [id |-> bridgeCounts.messages + 1, kind |-> kind]) ELSE toHost
    /\ UNCHANGED <<pluginHost, bridge, frame, frameEvents, toPlugin, inProgram, slots, replies>>

----------------------------------------------------------------------------
(* The calls.                                                               *)

(* reply: only while the bridge lives; it is lost when its document is gone.*)
Answered(id, ok) ==
    IF frame # NoDocument /\ frame.n = bridge.port /\ frame.client = "open"
    THEN Append(toPlugin, [id |-> id, ok |-> ok]) ELSE toPlugin

(* reserve and release.                                                     *)
Free(p) == slots.global < GlobalSlots /\ slots.plugin[p] < PluginSlots
Reserved(p) == [global |-> slots.global + 1, plugin |-> [slots.plugin EXCEPT ![p] = @ + 1]]
Released(p) ==
    LET less(n) == IF n = 0 THEN 0 ELSE n - 1 IN
    [global |-> less(slots.global), plugin |-> [slots.plugin EXCEPT ![p] = less(@)]]

OnPortMessage ==
    /\ bridge # NoBridge /\ toHost # <<>>
    /\ toHost' = Tail(toHost)
    /\ LET m == Head(toHost) IN
       \/ /\ m.kind = "huge"
          /\ ShowError
          /\ UNCHANGED <<inProgram, slots, replies>>
       \/ /\ \/ m.kind = "unknown"
             \/ m.kind = "known" /\ ~Free(bridge.plugin)
          /\ toPlugin' = Answered(m.id, FALSE)
          /\ UNCHANGED <<pluginHost, frame, frameEvents, inProgram, slots, replies>>
       \/ /\ m.kind = "known" /\ Free(bridge.plugin)
          /\ slots' = Reserved(bridge.plugin)
          /\ inProgram' = inProgram \union {[id |-> m.id, plugin |-> bridge.plugin, load |-> bridge.load, late |-> FALSE]}
          /\ replies' = [i \in DOMAIN replies \union {m.id} |-> IF i = m.id THEN 0 ELSE replies[i]]
          /\ UNCHANGED <<pluginHost, frame, frameEvents, toPlugin>>
    /\ UNCHANGED <<bridge, bridgeCounts>>

OfBridge(c) == bridge # NoBridge /\ bridge.load = c.load

(* The timer answers; the call goes on and keeps its slot.                  *)
(* Faulty variant: the slot is given back with the answer.                  *)
SlotsWhenGivingUp(c) == Released(c.plugin)
SlotsWhenLate(c) == slots
RequestTimesOut(c) ==
    /\ c \in inProgram /\ ~c.late /\ OfBridge(c)
    /\ toPlugin' = Answered(c.id, FALSE)
    /\ replies' = [replies EXCEPT ![c.id] = @ + 1]
    /\ inProgram' = (inProgram \ {c}) \union {[c EXCEPT !.late = TRUE]}
    /\ slots' = SlotsWhenLate(c)
    /\ UNCHANGED <<pluginHost, bridge, frame, frameEvents, toHost, bridgeCounts>>

(* Faulty variant: a late result is sent after the timeout was.             *)
SaysOutcomeAlways(c) == OfBridge(c)
SaysOutcome(c) == OfBridge(c) /\ ~c.late
CallSettles(c) ==
    /\ c \in inProgram
    /\ IF SaysOutcome(c)
       THEN \E ok \in BOOLEAN : toPlugin' = Answered(c.id, ok) /\ replies' = [replies EXCEPT ![c.id] = @ + 1]
       ELSE UNCHANGED <<toPlugin, replies>>
    /\ inProgram' = inProgram \ {c}
    /\ slots' = Released(c.plugin)
    /\ UNCHANGED <<pluginHost, bridge, frame, frameEvents, toHost, bridgeCounts>>

BridgeNext ==
    \/ \E p \in Plugins : LoadPlugin(p)
    \/ TakeFrameEvent \/ OnIframeError \/ LeavePlugin
    \/ DocumentLoads \/ BootstrapTimesOut \/ PluginHears
    \/ \E secret \in 0..MaxLoads : Navigate(secret)
    \/ \E own \in BOOLEAN : AskForPort(own)
    \/ \E kind \in {"known", "unknown", "huge"} : PluginCalls(kind)
    \/ OnPortMessage
    \/ \E c \in inProgram : RequestTimesOut(c) \/ CallSettles(c)

BridgeSpec == BridgeInit /\ [][BridgeNext]_bridgeVars

----------------------------------------------------------------------------
(* The slots count the calls that run in the program, also those of bridges *)
(* that are gone and those given up on, and never more than the limits.     *)
SlotsAreCalls ==
    /\ slots.global = Cardinality(inProgram) /\ slots.global <= GlobalSlots
    /\ \A p \in Plugins : /\ slots.plugin[p] = Cardinality({c \in inProgram : c.plugin = p})
                          /\ slots.plugin[p] <= PluginSlots

(* A request that got a slot is answered once: not before its call settles  *)
(* or its time is up, never twice.                                          *)
OneAnswer ==
    \A i \in DOMAIN replies :
        /\ replies[i] <= 1
        /\ (\E c \in inProgram : c.id = i /\ ~c.late) => replies[i] = 0

(* The port is in the hands of a document of the plugin the view shows that *)
(* knew the secret of this load, and there is no bridge any more once the   *)
(* load of a second document of the frame has been noticed.                 *)
PortIsKept ==
    (bridge # NoBridge /\ frame # NoDocument) =>
        /\ bridge.plugin = frame.plugin /\ bridge.plugin = pluginHost.plugin
        /\ bridge.port = frame.n => frame.secret = bridge.load
        /\ frame.seen => frame.awaited

(* What a plugin may ask of the program is bounded and answered once, and   *)
(* only a document that knows the secret may ask.                           *)
BridgeRight == SlotsAreCalls /\ OneAnswer /\ PortIsKept
=============================================================================
