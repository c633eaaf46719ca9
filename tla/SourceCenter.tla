--------------------------- MODULE SourceCenter ---------------------------
(***************************************************************************)
(* The source centre of the desktop program                                *)
(* (apps/useful/src/views/SourceCenterView.vue with lib/sourceCenter.ts),  *)
(* the tool shop (views/ToolShopView.vue) and the list of downloads        *)
(* (views/DownloadsView.vue with lib/shop.ts).  A click calls the Rust     *)
(* side; the view goes on when the answer arrives, which may be after      *)
(* other clicks, other answers, or after the person has left the view.     *)
(* One tool is offered by every TRP source; what the Rust side does        *)
(* (src-tauri/src/commands/trp_sources.rs) is atomic and external.         *)
(***************************************************************************)
EXTENDS Naturals, FiniteSets, Sequences

CONSTANTS
  TrpSources, LegacySources,   \* TRP sources, legacy catalogues
  NoSource,
  Versions,                    \* 1..n: the versions a source may publish
  Malformed,                   \* <<source, version>>: candidate facts do not fit the entry
  MaxClicks, MaxCalls          \* bounds: clicks in a behaviour, calls in flight

ASSUME VersionsAssumption == Versions \subseteq Nat \ {0}

VARIABLES
  rows,        \* Rust side: what is known of each source
  published,   \* the version each source offers now
  catalogue,   \* the version the last sync of each source stored
  fingerprint, \* the root key each discovery address shows now
  pins,        \* the root key each added source was pinned to
  origin, granted,   \* the installed tool: where it came from, its permissions
  shortcuts,   \* is there a desktop shortcut of the tool
  view,        \* what the person sees
  calls, clicks,
  told,        \* what was shown: <<"permissions", source, version>>, <<"key", source, key>>
  download, dlView   \* one download and its row in the list

AllSources == TrpSources \union LegacySources
rustVars == <<rows, published, catalogue, fingerprint, pins, origin, granted, shortcuts>>
dlVars == <<download, dlView>>
viewVars == <<view, calls, clicks, told>>
centreVars == <<rustVars, viewVars, dlVars>>

Nothing == <<>>
PermissionsOf(v) == 1..v        \* every version asks for one permission more
Keys == 1..2                    \* the root key may be replaced once

----------------------------------------------------------------------------
(* Facts.  An entry of the directory and the candidate it names.            *)
Entry(s, v) ==
  [source |-> s, version |-> v, digest |-> <<s, v>>,
   candidate |-> IF <<s, v>> \in Malformed THEN v + 1 ELSE v, artifact |-> <<s, v>>, channel |-> "stable"]
DirectoryFacts(entry) ==
  IF entry.candidate = entry.version /\ entry.artifact = entry.digest /\ entry.channel = "stable"
  THEN [source |-> entry.source, version |-> entry.version, artifact |-> entry.artifact, channel |-> "stable"]
  ELSE Nothing
Local == [source |-> NoSource, version |-> 1, artifact |-> <<NoSource, 1>>, channel |-> "stable"]
OriginMatches(facts, found) == facts # Nothing /\ found = facts

(* The view.  Cards hold the version of each found entry, 0 without one;    *)
(* marks hold the origins that were read back after an installation.        *)
FreshView(name) ==
  [name |-> name, list |-> [s \in AllSources |-> "absent"], cards |-> [s \in TrpSources |-> 0],
   marks |-> [s \in TrpSources |-> Nothing], busy |-> FALSE, dialog |-> Nothing, preview |-> Nothing,
   disturbed |-> FALSE]
Marked(s) == view.cards[s] # 0 /\ OriginMatches(DirectoryFacts(Entry(s, view.cards[s])), view.marks[s])

(* Calls are sent, then served by the Rust side, then answered.             *)
Call(op, s) == [op |-> op, source |-> s, arg |-> Nothing, step |-> "first", served |-> FALSE,
                ok |-> TRUE, answer |-> Nothing, alive |-> TRUE]
BusyOps == {"sync", "install", "preview", "add", "login", "legacy refresh", "import"}
NoDialog == view.dialog = Nothing          \* the permission dialog is modal

CentreInit ==
  /\ rows \in [AllSources -> {"absent", "enabled"}]
  /\ published \in [TrpSources -> Versions]
  /\ catalogue = [s \in TrpSources |-> IF rows[s] = "enabled" THEN published[s] ELSE 0]
  /\ fingerprint \in [TrpSources -> Keys] /\ pins = [s \in TrpSources |-> 0]
  /\ origin \in {Nothing} \union {DirectoryFacts(Entry(s, published[s])) : s \in TrpSources}
  /\ granted = IF origin = Nothing THEN {} ELSE PermissionsOf(origin.version)
  /\ shortcuts \in BOOLEAN /\ (shortcuts => origin # Nothing)
  /\ \E name \in {"sources", "shop"} : view = [FreshView(name) EXCEPT !.list = rows, !.cards = catalogue]
  /\ calls = {} /\ clicks = 0 /\ told = {}
  /\ download = [status |-> "pending", events |-> <<>>]
  /\ dlView = [shown |-> "none", listening |-> FALSE, reading |-> "none", mounted |-> FALSE]

Send(call, newView) ==
  /\ Cardinality(calls) < MaxCalls /\ clicks < MaxClicks
  /\ call \notin calls
  /\ calls' = calls \union {call}
  /\ clicks' = clicks + 1
  /\ view' = newView
  /\ UNCHANGED <<told, rustVars, dlVars>>

(* Buttons disabled while busy set it themselves; the others leave it.      *)
Busy == [view EXCEPT !.busy = TRUE]
InCentre == view.name = "sources" /\ NoDialog
ClickSync(s) ==
  /\ InCentre /\ ~view.busy /\ view.list[s] = "enabled"
  /\ Send(Call("sync", s), Busy)
ClickLegacyRefresh(l) ==
  /\ InCentre /\ ~view.busy /\ view.list[l] # "absent"
  /\ Send(Call("legacy refresh", l), Busy)
ClickLogin(s) ==
  /\ InCentre /\ ~view.busy /\ view.list[s] # "absent"
  /\ Send(Call("login", s), Busy)
ClickToggle(s) ==
  /\ InCentre /\ view.list[s] # "absent"
  /\ Send([Call("toggle", s) EXCEPT !.arg = IF view.list[s] = "enabled" THEN "disabled" ELSE "enabled"], view)
ClickRemove(s) ==
  /\ InCentre /\ view.list[s] # "absent"
  /\ Send(Call("remove", s), view)
ClickSearch ==
  /\ InCentre
  /\ Send(Call("search", NoSource), view)
ClickPreview(s) ==
  /\ InCentre /\ ~view.busy
  /\ Send(Call("preview", s), Busy)
ClickAdd ==
  /\ InCentre /\ ~view.busy /\ view.preview # Nothing
  /\ Send([Call("add", view.preview.source) EXCEPT !.arg = view.preview.fingerprint], Busy)

(* The install button is there for entries whose facts fit.                 *)
InstallFrom(s, card, confirmed) ==
  Send([Call("install", s) EXCEPT !.arg = [card |-> card, confirmed |-> confirmed]],
       [Busy EXCEPT !.marks[s] = Nothing, !.dialog = Nothing])
ClickInstall(s) ==
  /\ InCentre /\ ~view.busy
  /\ view.cards[s] # 0 /\ DirectoryFacts(Entry(s, view.cards[s])) # Nothing
  /\ InstallFrom(s, view.cards[s], Nothing)
ConfirmPermissions ==
  /\ view.name = "sources" /\ ~NoDialog
  /\ InstallFrom(view.dialog.source, view.dialog.card, view.dialog.asked)
CancelDialog ==
  /\ ~NoDialog
  /\ view' = [view EXCEPT !.dialog = Nothing]
  /\ UNCHANGED <<calls, clicks, told, rustVars, dlVars>>

(* The shop: uninstalling; and leaving one view for the other.  The calls   *)
(* of a view that was left go on without changing what is seen.             *)
ClickUninstall ==
  /\ view.name = "shop" /\ origin # Nothing
  /\ Send([Call("uninstall", NoSource) EXCEPT !.step = "shortcuts"], view)
ClickImport ==
  /\ view.name = "shop" /\ ~view.busy
  /\ Send(Call("import", NoSource), Busy)
Leave ==
  /\ NoDialog /\ clicks < MaxClicks /\ Cardinality(calls) < MaxCalls
  /\ LET next == FreshView(IF view.name = "shop" THEN "sources" ELSE "shop")
         left == {[c EXCEPT !.alive = FALSE] : c \in calls} IN
       /\ view' = [next EXCEPT !.disturbed = \E c \in calls : c.op \in {"uninstall", "install"}]
       /\ calls' = left \union {[Call("reload", NoSource) EXCEPT !.step = "reload"]}
  /\ clicks' = clicks + 1
  /\ UNCHANGED <<told, rustVars, dlVars>>

----------------------------------------------------------------------------
(* The Rust side, one call at a time.                                       *)
Served(c, ok, answer) == calls' = (calls \ {c}) \union {[c EXCEPT !.served = TRUE, !.ok = ok, !.answer = answer]}
Found == [s \in TrpSources |-> IF rows[s] = "enabled" THEN catalogue[s] ELSE 0]

InstallRefused(c) ==
  \/ rows[c.source] # "enabled" \/ catalogue[c.source] = 0
  \/ origin # Nothing /\ (origin.source # c.source \/ catalogue[c.source] < origin.version)
Added(c) == PermissionsOf(catalogue[c.source]) \ granted
ServeInstall(c) ==
  /\ IF InstallRefused(c) THEN Served(c, FALSE, Nothing) /\ UNCHANGED <<origin, granted, shortcuts>>
     ELSE IF Added(c) # {} /\ c.arg.confirmed = Nothing
     THEN Served(c, FALSE, [asked |-> <<"permissions", c.source, catalogue[c.source]>>]) /\ UNCHANGED <<origin, granted, shortcuts>>
     ELSE /\ origin' = DirectoryFacts([Entry(c.source, catalogue[c.source]) EXCEPT !.candidate = catalogue[c.source]])
          /\ granted' = PermissionsOf(catalogue[c.source])
          /\ Served(c, TRUE, Nothing)
  /\ UNCHANGED <<rows, published, catalogue, fingerprint, pins, shortcuts>>

ServeFirst(c) ==
  CASE c.op = "install" -> ServeInstall(c)
    [] c.op = "sync" ->
         /\ \E ok \in BOOLEAN :
              /\ ok => rows[c.source] = "enabled"
              /\ catalogue' = IF ok THEN [catalogue EXCEPT ![c.source] = published[c.source]] ELSE catalogue
              /\ Served(c, ok, Nothing)
         /\ UNCHANGED <<rows, published, fingerprint, pins, origin, granted, shortcuts>>
    [] c.op \in {"toggle", "remove"} ->
         LET known == rows[c.source] # "absent" IN
           /\ rows' = IF ~known THEN rows
                      ELSE [rows EXCEPT ![c.source] = IF c.op = "toggle" THEN c.arg ELSE "absent"]
           /\ catalogue' = [s \in TrpSources |-> IF s = c.source /\ c.op = "remove" THEN 0 ELSE catalogue[s]]
           /\ Served(c, known, Nothing)
           /\ UNCHANGED <<published, fingerprint, pins, origin, granted, shortcuts>>
    [] c.op = "preview" ->
         /\ \E ok \in BOOLEAN : Served(c, ok, [source |-> c.source, fingerprint |-> fingerprint[c.source]])
         /\ UNCHANGED rustVars
    [] c.op = "add" ->
         LET ok == rows[c.source] = "absent" /\ fingerprint[c.source] = c.arg IN
           /\ rows' = IF ok THEN [rows EXCEPT ![c.source] = "enabled"] ELSE rows
           /\ pins' = IF ok THEN [pins EXCEPT ![c.source] = fingerprint[c.source]] ELSE pins
           /\ catalogue' = IF ok THEN [catalogue EXCEPT ![c.source] = published[c.source]] ELSE catalogue
           /\ Served(c, ok, Nothing)
           /\ UNCHANGED <<published, fingerprint, origin, granted, shortcuts>>
    [] c.op = "uninstall" ->
         /\ origin' = Nothing /\ granted' = {}
         /\ Served(c, TRUE, Nothing)
         /\ UNCHANGED <<rows, published, catalogue, fingerprint, pins, shortcuts>>
    [] c.op = "import" ->
         /\ \E ok \in BOOLEAN :
              /\ ok => origin = Nothing
              /\ origin' = IF ok THEN Local ELSE origin
              /\ Served(c, ok, Nothing)
         /\ UNCHANGED <<rows, published, catalogue, fingerprint, pins, granted, shortcuts>>
    [] c.op = "search" -> Served(c, TRUE, Found) /\ UNCHANGED rustVars
    [] OTHER -> (\E ok \in BOOLEAN : Served(c, ok, Nothing)) /\ UNCHANGED rustVars

(* The shortcuts of a tool go first, when the person agrees; one that       *)
(* cannot be deleted ends the uninstallation.                               *)
ServeShortcuts(c) ==
  /\ \E agreed, ok \in BOOLEAN :
       /\ shortcuts' = (shortcuts /\ ~(agreed /\ ok))
       /\ Served(c, shortcuts /\ agreed => ok, IF agreed THEN Nothing ELSE <<"kept">>)
  /\ UNCHANGED <<rows, published, catalogue, fingerprint, pins, origin, granted>>

Serve(c) ==
  /\ ~c.served
  /\ CASE c.step = "first" -> ServeFirst(c)
       [] c.step = "shortcuts" -> ServeShortcuts(c)
       [] c.step = "reload" -> Served(c, TRUE, rows) /\ UNCHANGED rustVars
       [] c.step = "origin" -> (\E ok \in BOOLEAN : Served(c, ok, origin)) /\ UNCHANGED rustVars
  /\ UNCHANGED <<view, clicks, told, dlVars>>

----------------------------------------------------------------------------
(* The view goes on with an answer.                                         *)
Ends(c) == calls' = calls \ {c}
Continues(c, step) == calls' = (calls \ {c}) \union {[c EXCEPT !.step = step, !.served = FALSE, !.answer = Nothing]}
(* Faulty variant: the flag is lowered only after a success, as without the *)
(* `finally` of the view.                                                   *)
DoneIfOk(v, c) == IF c.op \in BusyOps /\ c.ok THEN [v EXCEPT !.busy = FALSE] ELSE v
Done(v, c) == IF c.op \in BusyOps THEN [v EXCEPT !.busy = FALSE] ELSE v
Shows(c, v) == view' = IF c.alive THEN v ELSE view
ReloadAfter == {"sync", "legacy refresh", "toggle", "remove", "add", "uninstall", "import"}

AnswerInstall(c) ==
  CASE c.ok /\ DirectoryFacts(Entry(c.source, c.arg.card)) # Nothing ->
         Continues(c, "origin") /\ UNCHANGED view /\ UNCHANGED told
    [] ~c.ok /\ c.answer # Nothing ->
         /\ Ends(c)
         /\ Shows(c, [Done(view, c) EXCEPT !.dialog =
                        [source |-> c.source, card |-> c.arg.card, asked |-> c.answer.asked]])
         /\ told' = IF c.alive THEN told \union {c.answer.asked} ELSE told
    [] OTHER -> Ends(c) /\ Shows(c, Done(view, c)) /\ UNCHANGED told

MarkIfMatches(c) == [view EXCEPT !.marks[c.source] =
                       IF c.ok /\ OriginMatches(DirectoryFacts(Entry(c.source, c.arg.card)), c.answer)
                       THEN c.answer ELSE @]

Answer(c) ==
  /\ c.served
  /\ CASE c.step = "first" /\ c.op = "install" -> AnswerInstall(c)
       [] c.step = "first" /\ c.op = "preview" ->
            /\ Ends(c)
            /\ Shows(c, [Done(view, c) EXCEPT !.preview = IF c.ok THEN c.answer ELSE Nothing])
            /\ told' = IF c.ok /\ c.alive THEN told \union {<<"key", c.source, c.answer.fingerprint>>} ELSE told
       [] c.step = "shortcuts" ->
            /\ IF c.ok THEN Continues(c, "first") ELSE Ends(c)
            /\ UNCHANGED <<view, told>>
       [] c.step = "first" /\ c.op = "search" ->
            Ends(c) /\ Shows(c, [view EXCEPT !.cards = c.answer]) /\ UNCHANGED told
       [] c.step = "first" /\ c.op \in ReloadAfter ->
            /\ IF c.ok \/ c.op = "sync" THEN Continues(c, "reload") ELSE Ends(c)
            /\ Shows(c, IF c.op = "add" /\ c.ok THEN [view EXCEPT !.preview = Nothing]
                        ELSE IF c.ok \/ c.op = "sync" THEN view ELSE Done(view, c))
            /\ UNCHANGED told
       [] c.step = "first" /\ c.op = "login" -> Ends(c) /\ Shows(c, Done(view, c)) /\ UNCHANGED told
       [] c.step = "reload" ->
            Ends(c) /\ Shows(c, [Done(view, c) EXCEPT !.list = c.answer]) /\ UNCHANGED told
       [] c.step = "origin" -> Ends(c) /\ Shows(c, Done(MarkIfMatches(c), c)) /\ UNCHANGED told
  /\ UNCHANGED <<clicks, rustVars, dlVars>>

(* A source publishes, or another key appears at its address.               *)
PublishVersion(s) ==
  /\ published[s] + 1 \in Versions
  /\ published' = [published EXCEPT ![s] = @ + 1]
  /\ UNCHANGED <<rows, catalogue, fingerprint, pins, origin, granted, shortcuts, viewVars, dlVars>>
ReplaceKey(s) ==
  /\ fingerprint[s] = 1
  /\ fingerprint' = [fingerprint EXCEPT ![s] = 2]
  /\ UNCHANGED <<rows, published, catalogue, pins, origin, granted, shortcuts, viewVars, dlVars>>

Click == \/ \E s \in TrpSources : ClickSync(s) \/ ClickLogin(s) \/ ClickInstall(s) \/ ClickPreview(s)
         \/ \E l \in LegacySources : ClickLegacyRefresh(l)
         \/ \E s \in AllSources : ClickToggle(s) \/ ClickRemove(s)
         \/ ClickSearch \/ ClickAdd \/ ConfirmPermissions \/ CancelDialog \/ ClickUninstall \/ ClickImport \/ Leave
CentreNext == \/ Click \/ \E c \in calls : Serve(c) \/ Answer(c)
              \/ \E s \in TrpSources : PublishVersion(s) \/ ReplaceKey(s)

----------------------------------------------------------------------------
(* Downloads: the list is read first, then the events are listened to.      *)
DownloadSteps == [pending |-> "downloading", downloading |-> "verifying", verifying |-> "installing", installing |-> "done"]
Finished == {"done", "failed", "cancelled"}
Cancellable == {"pending", "downloading", "verifying"}
DownloadMoves ==
  /\ download.status \notin Finished
  /\ \E to \in {DownloadSteps[download.status], "failed"} :
       download' = [status |-> to, events |-> IF dlView.listening THEN Append(download.events, to) ELSE download.events]
  /\ UNCHANGED <<dlView, rustVars, viewVars>>
CancelDownload ==
  /\ dlView.shown \in Cancellable /\ download.status \in Cancellable
  /\ download' = [status |-> "cancelled",
                  events |-> IF dlView.listening THEN Append(download.events, "cancelled") ELSE download.events]
  /\ UNCHANGED <<dlView, rustVars, viewVars>>
ReadList ==
  /\ dlView.reading = "none"
  /\ dlView' = [dlView EXCEPT !.mounted = TRUE, !.reading = download.status]
  /\ UNCHANGED <<download, rustVars, viewVars>>
ShowList ==
  /\ dlView.reading # "none"
  /\ dlView' = [dlView EXCEPT !.shown = dlView.reading, !.reading = "none", !.listening = TRUE]
  /\ UNCHANGED <<download, rustVars, viewVars>>
ApplyEvent ==
  /\ download.events # <<>>
  /\ LET status == Head(download.events) IN
       dlView' = [dlView EXCEPT !.shown = IF @ = "none" /\ status \in Finished THEN @ ELSE status]
  /\ download' = [download EXCEPT !.events = Tail(@)]
  /\ UNCHANGED <<rustVars, viewVars>>
DownloadsNext == DownloadMoves \/ CancelDownload \/ ReadList \/ ShowList \/ ApplyEvent

CentreSpec == CentreInit /\ [][CentreNext \/ DownloadsNext]_centreVars

----------------------------------------------------------------------------
(* Permissions grow only by an installation confirmed from a dialog, which  *)
(* showed that very version unless the catalogue moved on in between.       *)
GrownAsShown ==
  granted' \ granted # {} =>
    \E c \in calls :
      /\ c.op = "install" /\ ~c.served
      /\ c.arg.confirmed \in told
      /\ c.arg.confirmed[2] = c.source
      /\ c.arg.confirmed[3] <= catalogue[c.source]
PinnedAsShown ==
  \A s \in TrpSources : pins'[s] # pins[s] => <<"key", s, pins'[s]>> \in told

(* The source centre (SourceCenterView.vue): busy says exactly that one of  *)
(* the exclusive calls is under way, so that it is never stuck nor cleared  *)
(* early; a card is marked as verified only while its tool is the installed *)
(* one, unless a call of a view left earlier changed that; permissions grow *)
(* and keys are pinned only as they were shown; and a download shown as     *)
(* finished is.                                                             *)
SourceCenterSafe ==
  /\ [](/\ view.busy <=> \E c \in calls : c.alive /\ c.op \in BusyOps
        /\ \A s \in TrpSources :
             Marked(s) /\ ~view.disturbed => OriginMatches(DirectoryFacts(Entry(s, view.cards[s])), origin)
        /\ dlView.shown \in Finished => download.status = dlView.shown)
  /\ [][GrownAsShown /\ PinnedAsShown]_centreVars
============================================================================
