------------------------ MODULE SourceCenterProof ------------------------
(***************************************************************************)
(* SourceCenterSafe holds for any number of sources, versions, clicks and  *)
(* calls under way: the view's flag, its marks, the permissions and keys   *)
(* it showed, and the list of downloads agree with the Rust side whatever  *)
(* order answers arrive in.  And the private keys of the update root the   *)
(* program trusts are not lost, wherever a command is killed.              *)
(***************************************************************************)
EXTENDS SourceCenter, UpdateTrust, FiniteSetTheorems, SequenceTheorems, TLAPS

----------------------------------------------------------------------------
(* The invariant.                                                           *)
CallFields == {"op", "source", "arg", "step", "served", "ok", "answer", "alive"}
ViewFields == {"name", "list", "cards", "marks", "busy", "dialog", "preview", "disturbed"}
Exclusive(c) == c.alive /\ c.op \in BusyOps

(* Shapes: records have their fields, functions their domains.              *)
CentreShape ==
    /\ catalogue \in [TrpSources -> Nat] /\ published \in [TrpSources -> Nat \ {0}]
    /\ \A s \in TrpSources : catalogue[s] <= published[s]
    /\ DOMAIN pins = TrpSources
    /\ DOMAIN view = ViewFields /\ view.name \in {"sources", "shop"}
    /\ view.busy \in BOOLEAN /\ view.disturbed \in BOOLEAN /\ DOMAIN view.marks = TrpSources
    /\ \A c \in calls : /\ DOMAIN c = CallFields /\ c.alive \in BOOLEAN /\ c.served \in BOOLEAN
                        /\ c.ok \in BOOLEAN

(* The flag is up while an exclusive call of this view is under way, and    *)
(* there is one at most.                                                    *)
FlagFits ==
    /\ view.busy <=> \E c \in calls : Exclusive(c)
    /\ \A c, d \in calls : Exclusive(c) /\ Exclusive(d) => c = d

(* Permissions that were asked for: of this source, and of a version it     *)
(* offers, unless it was removed.                                           *)
Asked(a, s) ==
    /\ a[2] = s /\ a[3] \in Nat /\ a[3] <= published[s]
    /\ catalogue[s] = 0 \/ a[3] <= catalogue[s]

(* What each call holds.                                                    *)
Ops == BusyOps \union {"toggle", "remove", "search", "uninstall"}
Holds(c) ==
    /\ c.step \in {"first", "shortcuts", "reload", "origin"}
    /\ c.op \in Ops \/ (c.op = "reload" /\ c.step = "reload")
    /\ c.step = "shortcuts" => c.op = "uninstall"
    /\ c.op \in {"install", "add", "preview", "sync"} => c.source \in TrpSources
    /\ c.op = "install" =>
         /\ c.step \in {"first", "origin"}
         /\ c.arg.confirmed # Nothing => c.arg.confirmed \in told
              /\ Asked(c.arg.confirmed, c.source)
         /\ c.step = "first" /\ c.served /\ ~c.ok /\ c.answer # Nothing
              => Asked(c.answer.asked, c.source)
    /\ c.op = "add" => <<"key", c.source, c.arg>> \in told
    /\ c.op = "preview" /\ c.step = "first" /\ c.served /\ c.ok => c.answer.source = c.source
    /\ c.op # "install" => c.step # "origin"
CallsHold == \A c \in calls : Holds(c)

(* What the view asks and shows was told, and no exclusive call runs behind *)
(* the dialog.                                                              *)
ViewTold ==
    /\ view.dialog # Nothing =>
         /\ ~view.busy /\ view.name = "sources" /\ view.dialog.source \in TrpSources
         /\ view.dialog.asked \in told /\ Asked(view.dialog.asked, view.dialog.source)
    /\ view.preview # Nothing =>
         /\ view.preview.source \in TrpSources
         /\ <<"key", view.preview.source, view.preview.fingerprint>> \in told

(* A call of this view is one this view makes; in a view that was not       *)
(* disturbed no installation of an earlier one is under way.                *)
CallsOfView ==
    \A c \in calls :
        /\ c.alive /\ c.op = "install" => view.name = "sources"
        /\ c.alive /\ c.op \in {"uninstall", "import"} => view.name = "shop"
        /\ view.name = "sources" /\ ~view.disturbed /\ c.op \in {"install", "uninstall"} => c.alive

(* A mark is the origin of the installed tool, and an installation clears   *)
(* the mark of its source until it has read the origin back.                *)
MarksFit ==
    /\ view.name = "shop" => \A s \in TrpSources : view.marks[s] = Nothing
    /\ ~view.disturbed => \A s \in TrpSources :
          view.marks[s] # Nothing => view.marks[s] = origin /\ origin.source = s
    /\ \A c \in calls : c.alive /\ c.op = "install" =>
          /\ view.marks[c.source] = Nothing
          /\ ~view.disturbed /\ c.step = "origin" /\ c.served /\ c.ok /\ c.answer # Nothing =>
                c.answer = origin

CentreInv ==
    CentreShape /\ FlagFits /\ CallsHold /\ ViewTold /\ CallsOfView /\ MarksFit

(* What a finished download is called anywhere is what it is.               *)
DownloadInv ==
    /\ download.status \in DOMAIN DownloadSteps \union Finished
    /\ DOMAIN download = {"status", "events"}
    /\ DOMAIN dlView = {"shown", "listening", "reading", "mounted"}
    /\ download.events \in Seq(DOMAIN DownloadSteps \union Finished)
    /\ \A k \in DOMAIN download.events : download.events[k] \in Finished
         => download.status = download.events[k]
    /\ dlView.shown \in Finished => download.status = dlView.shown
    /\ dlView.reading \in Finished => download.status = dlView.reading

(* The view and the Rust side begin apart from any call.                    *)
LEMMA CentreBegins == CentreInit => CentreInv /\ DownloadInv
<1> SUFFICES ASSUME CentreInit PROVE CentreInv /\ DownloadInv
  OBVIOUS
<1>1. calls = {} /\ told = {} /\ catalogue = [s \in TrpSources |-> IF rows[s] = "enabled"
                                              THEN published[s] ELSE 0]
      /\ published \in [TrpSources -> Versions] /\ pins = [s \in TrpSources |-> 0]
  BY DEF CentreInit
<1>2. \A s \in TrpSources : published[s] \in Nat \ {0}
  BY <1>1, VersionsAssumption
<1>3. /\ DOMAIN view = ViewFields /\ view.name \in {"sources", "shop"} /\ view.busy = FALSE
      /\ view.disturbed = FALSE /\ view.marks = [s \in TrpSources |-> Nothing]
      /\ view.dialog = Nothing /\ view.preview = Nothing
  <2>1. PICK name \in {"sources", "shop"} : view = [FreshView(name) EXCEPT !.list = rows,
                                                    !.cards = catalogue]
    BY DEF CentreInit
  <2> QED
    BY <2>1 DEF FreshView, ViewFields
<1>4. CentreShape
  <2>1. published \in [TrpSources -> Nat \ {0}]
    BY <1>1, <1>2
  <2>2. \A s \in TrpSources : catalogue[s] \in Nat /\ catalogue[s] <= published[s]
    BY <1>1, <1>2
  <2>3. catalogue \in [TrpSources -> Nat]
    BY <1>1, <2>2
  <2> QED
    BY <1>1, <1>3, <2>1, <2>2, <2>3 DEF CentreShape
<1>5. FlagFits /\ CallsHold /\ ViewTold /\ CallsOfView /\ MarksFit
  BY <1>1, <1>3 DEF FlagFits, CallsHold, ViewTold, CallsOfView, MarksFit
<1>6. DownloadInv
  BY DEF CentreInit, DownloadInv, DownloadSteps, Finished
<1> QED
  BY <1>4, <1>5, <1>6 DEF CentreInv

----------------------------------------------------------------------------
(* Clicks.                                                                  *)

(* A call that was not served holds what its click gave it.                 *)
LEMMA NewCallHolds ==
  ASSUME NEW c, c.op \in Ops, c.step \in {"first", "shortcuts"}, c.served = FALSE,
         c.step = "shortcuts" => c.op = "uninstall",
         c.op \in {"install", "add", "preview", "sync"} => c.source \in TrpSources,
         c.op = "install" => (c.arg.confirmed # Nothing =>
                                c.arg.confirmed \in told /\ Asked(c.arg.confirmed, c.source)),
         c.op = "add" => <<"key", c.source, c.arg>> \in told
  PROVE  Holds(c)
<1>1. ~c.served
  OBVIOUS
<1>2. c.op = "install" => c.step = "first"
  OBVIOUS
<1>3. c.step # "origin"
  OBVIOUS
<1>4. c.op \in {"install", "add", "preview", "sync"} => c.source \in TrpSources
  OBVIOUS
<1>5. c.op = "install" =>
         /\ c.step \in {"first", "origin"}
         /\ c.arg.confirmed # Nothing => c.arg.confirmed \in told
              /\ Asked(c.arg.confirmed, c.source)
         /\ c.step = "first" /\ c.served /\ ~c.ok /\ c.answer # Nothing
              => Asked(c.answer.asked, c.source)
  BY <1>1, <1>2
<1>6. c.op = "preview" /\ c.step = "first" /\ c.served /\ c.ok => c.answer.source = c.source
  BY <1>1
<1>7. c.step \in {"first", "shortcuts", "reload", "origin"}
  OBVIOUS
<1> QED
  BY <1>3, <1>4, <1>5, <1>6, <1>7 DEF Holds

(* A click that sends a call of its view, with nothing behind a dialog,     *)
(* keeps the invariant.                                                     *)
LEMMA Sends ==
  ASSUME CentreInv,
         NEW c, DOMAIN c = CallFields, c.alive = TRUE, c.served = FALSE, c.ok = TRUE, Holds(c),
         c.op = "install" => view.name = "sources" /\ c.step = "first",
         c.op \in {"uninstall", "import"} => view.name = "shop",
         NEW v, DOMAIN v = ViewFields, v.name = view.name, v.disturbed = view.disturbed,
         v.dialog = Nothing, v.preview = view.preview,
         c.op \in BusyOps => ~view.busy /\ v.busy = TRUE,
         c.op \notin BusyOps => v.busy = view.busy,
         DOMAIN v.marks = TrpSources, \A s \in TrpSources : v.marks[s] \in {view.marks[s], Nothing},
         c.op = "install" => v.marks[c.source] = Nothing,
         Send(c, v)
  PROVE  CentreInv'
<1>1. calls' = calls \union {c} /\ view' = v
  BY DEF Send
<1>2. UNCHANGED <<told, catalogue, published, pins, origin>>
  BY DEF Send, rustVars
<1>3. CentreShape /\ FlagFits /\ CallsHold /\ ViewTold /\ CallsOfView /\ MarksFit
  BY DEF CentreInv
<1>4. CentreShape'
  BY <1>1, <1>2, <1>3 DEF CentreShape
<1>5. FlagFits'
  <2>1. CASE c.op \in BusyOps
    <3>1. \A d \in calls : ~Exclusive(d)
      BY <1>3, <2>1 DEF FlagFits
    <3> QED
      BY <1>1, <2>1, <3>1 DEF FlagFits, Exclusive
  <2>2. CASE c.op \notin BusyOps
    BY <1>1, <1>3, <2>2 DEF FlagFits, Exclusive
  <2> QED
    BY <2>1, <2>2
<1>6. CallsHold'
  <2> SUFFICES ASSUME NEW e \in calls' PROVE Holds(e)'
    BY DEF CallsHold
  <2>1. Holds(e)
    BY <1>1, <1>3 DEF CallsHold
  <2> QED
    BY <1>2, <2>1 DEF Holds, Asked
<1>7. ViewTold'
  BY <1>1, <1>2, <1>3 DEF ViewTold
<1>8. CallsOfView'
  BY <1>1, <1>3 DEF CallsOfView
<1>9. MarksFit'
  <2>1. view'.name = "shop" => \A s \in TrpSources : view'.marks[s] = Nothing
    BY <1>1, <1>3 DEF MarksFit
  <2>2. ~view'.disturbed => \A s \in TrpSources :
           view'.marks[s] # Nothing => view'.marks[s] = origin' /\ origin'.source = s
    BY <1>1, <1>2, <1>3 DEF MarksFit
  <2>3. ASSUME NEW d \in calls', d.alive, d.op = "install"
        PROVE  /\ view'.marks[d.source] = Nothing
               /\ ~view'.disturbed /\ d.step = "origin" /\ d.served /\ d.ok /\ d.answer # Nothing =>
                     d.answer = origin'
    <3>1. CASE d = c
      BY <1>1, <2>3, <3>1
    <3>2. CASE d \in calls
      <4>1. view.marks[d.source] = Nothing /\ d.source \in TrpSources
        BY <1>3, <2>3, <3>2 DEF MarksFit, CallsHold, Holds
      <4> QED
        BY <1>1, <1>2, <1>3, <2>3, <3>2, <4>1 DEF MarksFit
    <3> QED
      BY <1>1, <2>3, <3>1, <3>2
  <2> QED
    BY <2>1, <2>2, <2>3 DEF MarksFit
<1> QED
  BY <1>4, <1>5, <1>6, <1>7, <1>8, <1>9 DEF CentreInv

(* Every click but leaving the view and cancelling the dialog sends such a  *)
(* call.                                                                    *)
LEMMA ClickSends ==
  ASSUME CentreInv, Click, ~CancelDialog, ~Leave
  PROVE  CentreInv'
<1>1. /\ DOMAIN view = ViewFields /\ DOMAIN view.marks = TrpSources
      /\ view.name \in {"sources", "shop"} /\ view.busy \in BOOLEAN /\ ViewTold /\ MarksFit
  BY DEF CentreInv, CentreShape
<1>2. NoDialog \/ view.name = "sources"
  BY <1>1 DEF ViewTold, NoDialog
<1>3. \A s \in TrpSources : view.marks[s] \in {view.marks[s], Nothing}
  OBVIOUS
<1>4. PICK b : b = Busy
  OBVIOUS
<1>5. /\ DOMAIN b = ViewFields /\ b.name = view.name /\ b.disturbed = view.disturbed
      /\ b.dialog = view.dialog
      /\ b.preview = view.preview /\ b.busy = TRUE /\ b.marks = view.marks
  BY <1>1, <1>4 DEF Busy, ViewFields
<1>6. ASSUME NEW op \in {"sync", "login", "preview", "legacy refresh"}, NEW s,
      op \in {"sync", "preview"} => s \in TrpSources,
             InCentre, ~view.busy, Send(Call(op, s), Busy)
      PROVE  CentreInv'
  <2>1. PICK c : c = Call(op, s)
    OBVIOUS
  <2>2. /\ DOMAIN c = CallFields /\ c.op = op /\ c.source = s /\ c.arg = Nothing /\ c.step = "first"
        /\ c.served = FALSE /\ c.ok = TRUE /\ c.answer = Nothing /\ c.alive = TRUE
    BY <2>1 DEF Call, CallFields
  <2>3. Holds(c) /\ c.op \in BusyOps /\ c.op \notin {"install", "uninstall", "import"}
    <3>1. c.op \in Ops /\ c.op \in BusyOps /\ c.op \notin {"install", "uninstall", "import"}
      BY <1>6, <2>2 DEF Ops, BusyOps
    <3> QED
      BY <1>6, <2>2, <3>1, NewCallHolds
  <2>4. Send(c, b) /\ b.dialog = Nothing
    BY <1>4, <1>5, <1>6, <2>1 DEF InCentre, NoDialog
  <2> QED
    BY <1>1, <1>3, <1>5, <1>6, <2>2, <2>3, <2>4, Sends
<1>7. ASSUME NEW op \in {"remove", "search"}, NEW s, InCentre, Send(Call(op, s), view)
      PROVE  CentreInv'
  <2>1. PICK c, v : c = Call(op, s) /\ v = view
    OBVIOUS
  <2>2. /\ DOMAIN c = CallFields /\ c.op = op /\ c.source = s /\ c.arg = Nothing /\ c.step = "first"
        /\ c.served = FALSE /\ c.ok = TRUE /\ c.answer = Nothing /\ c.alive = TRUE
    BY <2>1 DEF Call, CallFields
  <2>3. Holds(c) /\ c.op \notin BusyOps /\ c.op \notin {"install", "uninstall", "import"}
    <3>1. c.op \in Ops /\ c.op \notin BusyOps /\ c.op \notin {"install", "uninstall", "import"}
      BY <2>2 DEF Ops, BusyOps
    <3> QED
      BY <2>2, <3>1, NewCallHolds
  <2>4. Send(c, v) /\ v.dialog = Nothing
    BY <1>7, <2>1 DEF InCentre, NoDialog
  <2> QED
    BY <1>1, <1>3, <2>1, <2>2, <2>3, <2>4, Sends
<1>8. ASSUME NEW s \in AllSources, ClickToggle(s) PROVE CentreInv'
  <2>1. PICK c, v : c = [Call("toggle", s) EXCEPT !.arg = IF view.list[s] = "enabled"
                         THEN "disabled" ELSE "enabled"]
                    /\ v = view
    OBVIOUS
  <2>2. /\ DOMAIN c = CallFields /\ c.op = "toggle" /\ c.source = s /\ c.step = "first"
        /\ c.served = FALSE /\ c.ok = TRUE /\ c.answer = Nothing /\ c.alive = TRUE
    BY <2>1 DEF Call, CallFields
  <2>3. Holds(c) /\ c.op \notin BusyOps /\ c.op \notin {"install", "uninstall", "import"}
    <3>1. c.op \in Ops /\ c.op \notin BusyOps /\ c.op \notin {"install", "uninstall", "import"}
      BY <2>2 DEF Ops, BusyOps
    <3> QED
      BY <2>2, <3>1, NewCallHolds
  <2>4. Send(c, v) /\ v.dialog = Nothing
    BY <1>8, <2>1 DEF InCentre, NoDialog, ClickToggle
  <2> QED
    BY <1>1, <1>3, <2>1, <2>2, <2>3, <2>4, Sends
<1>9. ASSUME ClickAdd PROVE CentreInv'
  <2>1. PICK c : c = [Call("add", view.preview.source) EXCEPT !.arg = view.preview.fingerprint]
    OBVIOUS
  <2>2. /\ DOMAIN c = CallFields /\ c.op = "add" /\ c.source = view.preview.source
        /\ c.arg = view.preview.fingerprint /\ c.step = "first"
        /\ c.served = FALSE /\ c.ok = TRUE /\ c.answer = Nothing /\ c.alive = TRUE
    BY <2>1 DEF Call, CallFields
  <2>3. view.preview # Nothing /\ ~view.busy
    BY <1>9 DEF ClickAdd
  <2>4. Holds(c) /\ c.op \in BusyOps /\ c.op \notin {"install", "uninstall", "import"}
    <3>1. c.op \in Ops /\ c.op \in BusyOps /\ c.op \notin {"install", "uninstall", "import"}
      BY <1>1, <2>2, <2>3 DEF Ops, BusyOps
    <3> QED
      BY <1>1, <2>2, <2>3, <3>1, NewCallHolds DEF ViewTold
  <2>5. Send(c, b) /\ b.dialog = Nothing
    BY <1>4, <1>5, <1>9, <2>1 DEF InCentre, NoDialog, ClickAdd
  <2> QED
    BY <1>1, <1>3, <1>5, <2>2, <2>3, <2>4, <2>5, Sends
<1>10. ASSUME NEW s \in TrpSources, NEW card, NEW confirmed, view.name = "sources", ~view.busy,
              confirmed # Nothing => confirmed \in told /\ Asked(confirmed, s),
              InstallFrom(s, card, confirmed)
       PROVE  CentreInv'
  <2>1. PICK c, v : /\ c = [Call("install", s) EXCEPT !.arg = [card |-> card,
                                                               confirmed |-> confirmed]]
                    /\ v = [Busy EXCEPT !.marks[s] = Nothing, !.dialog = Nothing]
    OBVIOUS
  <2>2. /\ DOMAIN c = CallFields /\ c.op = "install" /\ c.source = s /\ c.arg.confirmed = confirmed
        /\ c.step = "first" /\ c.served = FALSE /\ c.ok = TRUE /\ c.answer = Nothing
        /\ c.alive = TRUE
    BY <2>1 DEF Call, CallFields
  <2>3. Holds(c) /\ c.op \in BusyOps /\ c.op \notin {"uninstall", "import"}
    <3>1. c.op \in Ops /\ c.op \in BusyOps /\ c.op \notin {"uninstall", "import"}
      BY <1>10, <2>2 DEF Ops, BusyOps
    <3> QED
      BY <1>10, <2>2, <3>1, NewCallHolds
  <2>4. /\ DOMAIN v = ViewFields /\ v.name = view.name /\ v.disturbed = view.disturbed
        /\ v.dialog = Nothing /\ v.preview = view.preview /\ v.busy = TRUE
        /\ v.marks = [view.marks EXCEPT ![s] = Nothing]
    BY <1>4, <1>5, <2>1 DEF ViewFields
  <2>5. /\ DOMAIN v.marks = TrpSources /\ v.marks[s] = Nothing
        /\ \A t \in TrpSources : v.marks[t] \in {view.marks[t], Nothing}
    BY <1>1, <1>10, <2>4
  <2>6. Send(c, v)
    BY <1>10, <2>1 DEF InstallFrom
  <2> QED
    BY <1>10, <2>2, <2>3, <2>4, <2>5, <2>6, Sends
<1>11. ASSUME NEW s \in TrpSources, ClickInstall(s) PROVE CentreInv'
  BY <1>10, <1>11 DEF ClickInstall, InCentre
<1>12. ASSUME ConfirmPermissions PROVE CentreInv'
  BY <1>1, <1>10, <1>12 DEF ConfirmPermissions, NoDialog, ViewTold
<1>13. ASSUME ClickUninstall PROVE CentreInv'
  <2>1. PICK c, v : c = [Call("uninstall", NoSource) EXCEPT !.step = "shortcuts"] /\ v = view
    OBVIOUS
  <2>2. /\ DOMAIN c = CallFields /\ c.op = "uninstall" /\ c.step = "shortcuts"
        /\ c.served = FALSE /\ c.ok = TRUE /\ c.answer = Nothing /\ c.alive = TRUE
    BY <2>1 DEF Call, CallFields
  <2>3. Holds(c) /\ c.op \notin BusyOps /\ c.op # "install"
    <3>1. c.op \in Ops /\ c.op \notin BusyOps /\ c.op # "install"
      BY <2>2 DEF Ops, BusyOps
    <3> QED
      BY <2>2, <3>1, NewCallHolds
  <2>4. Send(c, v) /\ v.dialog = Nothing /\ v.name = "shop"
    BY <1>2, <1>13, <2>1 DEF ClickUninstall, NoDialog
  <2> QED
    BY <1>1, <1>3, <2>1, <2>2, <2>3, <2>4, Sends
<1>14. ASSUME ClickImport PROVE CentreInv'
  <2>1. PICK c : c = Call("import", NoSource)
    OBVIOUS
  <2>2. /\ DOMAIN c = CallFields /\ c.op = "import" /\ c.arg = Nothing /\ c.step = "first"
        /\ c.served = FALSE /\ c.ok = TRUE /\ c.answer = Nothing /\ c.alive = TRUE
    BY <2>1 DEF Call, CallFields
  <2>3. Holds(c) /\ c.op \in BusyOps /\ c.op # "install"
    <3>1. c.op \in Ops /\ c.op \in BusyOps /\ c.op # "install"
      BY <2>2 DEF Ops, BusyOps
    <3> QED
      BY <2>2, <3>1, NewCallHolds
  <2>4. Send(c, b) /\ b.dialog = Nothing /\ view.name = "shop" /\ ~view.busy
    BY <1>2, <1>4, <1>5, <1>14, <2>1 DEF ClickImport, NoDialog
  <2> QED
    BY <1>1, <1>3, <1>5, <2>2, <2>3, <2>4, Sends
<1>15. ASSUME NEW s \in TrpSources, ClickSync(s) \/ ClickLogin(s) \/ ClickPreview(s)
      PROVE CentreInv'
  BY <1>6, <1>15 DEF ClickSync, ClickLogin, ClickPreview
<1>16. ASSUME NEW l \in LegacySources, ClickLegacyRefresh(l) PROVE CentreInv'
  BY <1>6, <1>16 DEF ClickLegacyRefresh
<1>17. ASSUME NEW s \in AllSources, ClickRemove(s) PROVE CentreInv'
  BY <1>7, <1>17 DEF ClickRemove
<1>18. ASSUME ClickSearch PROVE CentreInv'
  BY <1>7, <1>18 DEF ClickSearch
<1> QED
  BY <1>8, <1>9, <1>11, <1>12, <1>13, <1>14, <1>15, <1>16, <1>17, <1>18 DEF Click

(* Closing the permission dialog sends nothing.                             *)
LEMMA CancelKeeps ==
  ASSUME CentreInv, CancelDialog
  PROVE  CentreInv'
<1>1. view' = [view EXCEPT !.dialog = Nothing] /\ calls' = calls
      /\ UNCHANGED <<told, catalogue, published, pins, origin>>
  BY DEF CancelDialog, rustVars
<1>2. CentreShape /\ FlagFits /\ CallsHold /\ ViewTold /\ CallsOfView /\ MarksFit
  BY DEF CentreInv
<1>3. /\ DOMAIN view' = ViewFields /\ view'.name = view.name /\ view'.busy = view.busy
      /\ view'.disturbed = view.disturbed /\ view'.marks = view.marks
      /\ view'.preview = view.preview
      /\ view'.dialog = Nothing
  BY <1>1, <1>2 DEF CentreShape, ViewFields
<1>4. CentreShape' /\ FlagFits' /\ CallsOfView' /\ MarksFit'
  BY <1>1, <1>2, <1>3 DEF CentreShape, FlagFits, CallsOfView, MarksFit, Exclusive
<1>5. CallsHold'
  BY <1>1, <1>2 DEF CallsHold, Holds, Asked
<1>6. ViewTold'
  BY <1>1, <1>2, <1>3 DEF ViewTold
<1> QED
  BY <1>4, <1>5, <1>6 DEF CentreInv

(* A view that is left leaves its calls behind, which act no more on what   *)
(* is seen; the next view knows when one of them may change the tool.       *)
LEMMA LeaveKeeps ==
  ASSUME CentreInv, Leave
  PROVE  CentreInv'
<1>1. PICK n, r, moved :
         /\ n = FreshView(IF view.name = "shop" THEN "sources" ELSE "shop")
         /\ r = [Call("reload", NoSource) EXCEPT !.step = "reload"]
         /\ moved = (\E c \in calls : c.op \in {"uninstall", "install"})
  OBVIOUS
<1>2. /\ view' = [n EXCEPT !.disturbed = moved]
      /\ calls' = {[c EXCEPT !.alive = FALSE] : c \in calls} \union {r}
  BY <1>1 DEF Leave
<1>3. UNCHANGED <<told, catalogue, published, pins, origin>>
  BY DEF Leave, rustVars
<1>4. CentreShape /\ FlagFits /\ CallsHold /\ ViewTold /\ CallsOfView /\ MarksFit
  BY DEF CentreInv
<1>5. /\ DOMAIN view' = ViewFields /\ view'.name \in {"sources", "shop"} /\ view'.busy = FALSE
      /\ view'.disturbed = moved /\ view'.marks = [s \in TrpSources |-> Nothing]
      /\ view'.preview = Nothing /\ view'.dialog = Nothing /\ moved \in BOOLEAN
  BY <1>1, <1>2 DEF FreshView, ViewFields
<1>6. /\ DOMAIN r = CallFields /\ r.op = "reload" /\ r.step = "reload" /\ r.alive = TRUE
      /\ r.served = FALSE /\ r.ok = TRUE
  BY <1>1 DEF Call, CallFields
<1>7. ASSUME NEW d \in calls', d # r
      PROVE  \E c \in calls : /\ DOMAIN d = CallFields /\ d.op = c.op /\ d.source = c.source
                              /\ d.arg = c.arg
                              /\ d.step = c.step /\ d.served = c.served /\ d.ok = c.ok
                              /\ d.answer = c.answer /\ d.alive = FALSE
  <2>1. PICK c \in calls : d = [c EXCEPT !.alive = FALSE]
    BY <1>2, <1>7
  <2>2. DOMAIN c = CallFields
    BY <1>4 DEF CentreShape
  <2> QED
    BY <2>1, <2>2 DEF CallFields
<1>8. CentreShape'
  <2>1. \A d \in calls' : /\ DOMAIN d = CallFields /\ d.alive \in BOOLEAN /\ d.served \in BOOLEAN
                          /\ d.ok \in BOOLEAN
    <3> SUFFICES ASSUME NEW d \in calls'
                 PROVE  /\ DOMAIN d = CallFields /\ d.alive \in BOOLEAN /\ d.served \in BOOLEAN
                        /\ d.ok \in BOOLEAN
      OBVIOUS
    <3>1. CASE d = r
      BY <1>6, <3>1
    <3>2. CASE d # r
      BY <1>4, <1>7, <3>2 DEF CentreShape
    <3> QED
      BY <3>1, <3>2
  <2> QED
    BY <1>3, <1>4, <1>5, <2>1 DEF CentreShape
<1>9. \A d \in calls' : ~(d.alive /\ d.op \in {"install", "uninstall", "import"}) /\ ~Exclusive(d)
  <2> SUFFICES ASSUME NEW d \in calls'
               PROVE  ~(d.alive /\ d.op \in {"install", "uninstall", "import"}) /\ ~Exclusive(d)
    OBVIOUS
  <2>1. CASE d = r
    BY <1>6, <2>1 DEF Exclusive, BusyOps
  <2>2. CASE d # r
    BY <1>7, <2>2 DEF Exclusive
  <2> QED
    BY <2>1, <2>2
<1>10. FlagFits'
  BY <1>5, <1>9 DEF FlagFits, Exclusive
<1>11. CallsHold'
  <2> SUFFICES ASSUME NEW d \in calls' PROVE Holds(d)'
    BY DEF CallsHold
  <2>1. CASE d = r
    BY <1>6, <2>1 DEF Holds
  <2>2. CASE d # r
    <3>1. PICK c \in calls : /\ d.op = c.op /\ d.source = c.source /\ d.arg = c.arg
                             /\ d.step = c.step /\ d.served = c.served /\ d.ok = c.ok
                             /\ d.answer = c.answer
      BY <1>7, <2>2
    <3>2. Holds(c)
      BY <1>4 DEF CallsHold
    <3> QED
      BY <1>3, <3>1, <3>2 DEF Holds, Asked
  <2> QED
    BY <2>1, <2>2
<1>12. ViewTold'
  BY <1>5 DEF ViewTold
<1>13. CallsOfView'
  <2> SUFFICES ASSUME NEW d \in calls', ~view'.disturbed, d.op \in {"install", "uninstall"}
        PROVE FALSE
    BY <1>9 DEF CallsOfView
  <2>1. d # r
    BY <1>6
  <2>2. \E c \in calls : d.op = c.op
    BY <1>7, <2>1
  <2> QED
    BY <1>1, <1>5, <2>2
<1>14. MarksFit'
  BY <1>5, <1>9 DEF MarksFit
<1> QED
  BY <1>8, <1>10, <1>11, <1>12, <1>13, <1>14 DEF CentreInv

----------------------------------------------------------------------------
(* The Rust side.                                                           *)

(* Permissions that were asked for stay of a version that is offered, while *)
(* a catalogue changes only to what is published, or is emptied.            *)
CatalogueMoves ==
    /\ catalogue' \in [TrpSources -> Nat] /\ published' = published
    /\ \A s \in TrpSources : catalogue'[s] \in {0, catalogue[s], published[s]}

(* What was asked stays asked.                                              *)
LEMMA AskedStays ==
  ASSUME CentreShape, CatalogueMoves, NEW a, NEW s \in TrpSources, Asked(a, s)
  PROVE  Asked(a, s)'
BY DEF CentreShape, CatalogueMoves, Asked

(* A call that is served keeps who made it; the installed tool may change   *)
(* only when nothing is marked and nobody has read it to mark it.           *)
LEMMA Serves ==
  ASSUME CentreInv, NEW c \in calls, NEW d,
         DOMAIN d = CallFields, d.op = c.op, d.source = c.source, d.arg = c.arg, d.step = c.step,
         d.alive = c.alive, d.served = TRUE, d.ok \in BOOLEAN, ~c.served,
         calls' = (calls \ {c}) \union {d}, view' = view, told' = told,
         CatalogueMoves, DOMAIN pins' = TrpSources,
         c.op = "install" /\ c.step = "first" /\ ~d.ok /\ d.answer # Nothing
               => Asked(d.answer.asked, c.source)',
         c.op = "preview" /\ c.step = "first" /\ d.ok => d.answer.source = c.source,
         origin' # origin /\ ~view.disturbed =>
             /\ \A s \in TrpSources : view.marks[s] = Nothing
             /\ \A e \in calls : ~(e.alive /\ e.op = "install" /\ e.step = "origin" /\ e.served
                                    /\ e.ok
                                   /\ e.answer # Nothing),
         c.step = "origin" => origin' = origin /\ d.answer = origin
  PROVE  CentreInv'
<1>1. CentreShape /\ FlagFits /\ CallsHold /\ ViewTold /\ CallsOfView /\ MarksFit
  BY DEF CentreInv
<1>2. CentreShape'
  <2>1. \A s \in TrpSources : catalogue'[s] <= published'[s]
    BY <1>1 DEF CentreShape, CatalogueMoves
  <2>2. \A e \in calls' : /\ DOMAIN e = CallFields /\ e.alive \in BOOLEAN /\ e.served \in BOOLEAN
                          /\ e.ok \in BOOLEAN
    BY <1>1 DEF CentreShape
  <2> QED
    BY <1>1, <2>1, <2>2 DEF CentreShape, CatalogueMoves
<1>3. Exclusive(d) <=> Exclusive(c)
  BY DEF Exclusive
<1>4. FlagFits'
  <2>1. \A e \in calls' : e = d \/ e \in calls
    OBVIOUS
  <2>2. \A e, f \in calls' : Exclusive(e) /\ Exclusive(f) => e = f
    <3> SUFFICES ASSUME NEW e \in calls', NEW f \in calls', Exclusive(e), Exclusive(f) PROVE e = f
      OBVIOUS
    <3>1. CASE e = d /\ f # d
      BY <1>1, <1>3, <3>1 DEF FlagFits
    <3>2. CASE e # d /\ f = d
      BY <1>1, <1>3, <3>2 DEF FlagFits
    <3>3. CASE e # d /\ f # d
      BY <1>1, <3>3 DEF FlagFits
    <3> QED
      BY <3>1, <3>2, <3>3
  <2>3. (\E e \in calls' : Exclusive(e)) <=> \E e \in calls : Exclusive(e)
    BY <1>3
  <2> QED
    BY <1>1, <2>2, <2>3 DEF FlagFits, Exclusive
<1>5. CallsHold'
  <2> SUFFICES ASSUME NEW e \in calls' PROVE Holds(e)'
    BY DEF CallsHold
  <2>1. Holds(c)
    BY <1>1 DEF CallsHold
  <2>2. c.op = "install" /\ c.arg.confirmed # Nothing => Asked(c.arg.confirmed, c.source)'
    BY <1>1, <2>1, AskedStays DEF Holds
  <2>3. CASE e = d
    BY <2>1, <2>2, <2>3 DEF Holds
  <2>4. CASE e \in calls
    <3>1. Holds(e)
      BY <1>1, <2>4 DEF CallsHold
    <3>2. e.op = "install" /\ e.arg.confirmed # Nothing => Asked(e.arg.confirmed, e.source)'
      BY <1>1, <3>1, AskedStays DEF Holds
    <3>3. e.op = "install" /\ e.step = "first" /\ e.served /\ ~e.ok /\ e.answer # Nothing =>
             Asked(e.answer.asked, e.source)'
      BY <1>1, <3>1, AskedStays DEF Holds
    <3> QED
      BY <3>1, <3>2, <3>3 DEF Holds
  <2> QED
    BY <2>3, <2>4
<1>6. ViewTold'
  BY <1>1, AskedStays DEF ViewTold
<1>7. CallsOfView'
  BY <1>1 DEF CallsOfView
<1>8. MarksFit'
  <2>1. ~view'.disturbed => \A s \in TrpSources :
           view'.marks[s] # Nothing => view'.marks[s] = origin' /\ origin'.source = s
    BY <1>1 DEF MarksFit
  <2>2. ASSUME NEW e \in calls', e.alive, e.op = "install"
        PROVE  /\ view'.marks[e.source] = Nothing
               /\ ~view'.disturbed /\ e.step = "origin" /\ e.served /\ e.ok /\ e.answer # Nothing =>
                     e.answer = origin'
    <3>1. CASE e = d
      BY <1>1, <2>2, <3>1 DEF MarksFit
    <3>2. CASE e # d
      BY <1>1, <2>2, <3>2 DEF MarksFit
    <3> QED
      BY <3>1, <3>2
  <2> QED
    BY <1>1, <2>1, <2>2 DEF MarksFit
<1> QED
  BY <1>2, <1>4, <1>5, <1>6, <1>7, <1>8 DEF CentreInv

(* What the Rust side does with a call, refusing it, asking for permissions *)
(* or changing what it keeps, is one of those.                              *)
LEMMA ServeKeeps ==
  ASSUME CentreInv, NEW c \in calls, Serve(c)
  PROVE  CentreInv'
<1>1. /\ ~c.served /\ UNCHANGED <<view, told>>
      /\ CASE c.step = "first" -> ServeFirst(c)
           [] c.step = "shortcuts" -> ServeShortcuts(c)
           [] c.step = "reload" -> Served(c, TRUE, rows) /\ UNCHANGED rustVars
           [] c.step = "origin" -> (\E ok \in BOOLEAN : Served(c, ok, origin)) /\ UNCHANGED rustVars
  BY DEF Serve
<1>2. CentreShape /\ FlagFits /\ CallsHold /\ ViewTold /\ CallsOfView /\ MarksFit /\ Holds(c)
  BY DEF CentreInv, CallsHold
<1>3. /\ DOMAIN c = CallFields /\ catalogue \in [TrpSources -> Nat]
      /\ published \in [TrpSources -> Nat \ {0}]
      /\ DOMAIN pins = TrpSources
  BY <1>2 DEF CentreShape
<1>4. c.step \in {"first", "shortcuts", "reload", "origin"}
      /\ (c.op \in {"install", "add", "preview", "sync"} => c.source \in TrpSources)
  BY <1>2 DEF Holds
<1>5. ASSUME NEW ok \in BOOLEAN, NEW answer, Served(c, ok, answer),
             CatalogueMoves, DOMAIN pins' = TrpSources,
             c.op = "install" /\ c.step = "first" /\ ~ok /\ answer # Nothing
                   => Asked(answer.asked, c.source)',
             c.op = "preview" /\ c.step = "first" /\ ok => answer.source = c.source,
             origin' # origin /\ ~view.disturbed =>
                 /\ \A s \in TrpSources : view.marks[s] = Nothing
                 /\ \A e \in calls : ~(e.alive /\ e.op = "install" /\ e.step = "origin" /\ e.served
                                        /\ e.ok
                                       /\ e.answer # Nothing),
             c.step = "origin" => origin' = origin /\ answer = origin
      PROVE  CentreInv'
  <2>1. PICK d : d = [c EXCEPT !.served = TRUE, !.ok = ok, !.answer = answer]
    OBVIOUS
  <2>2. /\ DOMAIN d = CallFields /\ d.op = c.op /\ d.source = c.source /\ d.arg = c.arg
        /\ d.step = c.step
        /\ d.alive = c.alive /\ d.served = TRUE /\ d.ok = ok /\ d.answer = answer
    BY <1>3, <2>1 DEF CallFields
  <2>3. calls' = (calls \ {c}) \union {d}
    BY <1>5, <2>1 DEF Served
  <2> QED
    BY <1>1, <1>5, <2>2, <2>3, Serves
<1>6. ASSUME UNCHANGED <<published, catalogue>> PROVE CatalogueMoves
  BY <1>3, <1>6 DEF CatalogueMoves
<1>7. ASSUME NEW ok \in BOOLEAN, NEW answer, Served(c, ok, answer), c.step # "first",
             c.step = "origin" => answer = origin, UNCHANGED <<published, catalogue, pins, origin>>
      PROVE  CentreInv'
  BY <1>3, <1>5, <1>6, <1>7
<1>8. CASE c.step = "shortcuts"
  <2>1. ServeShortcuts(c)
    BY <1>1, <1>8
  <2>2. PICK agreed \in BOOLEAN, ok \in BOOLEAN :
           Served(c, shortcuts /\ agreed => ok, IF agreed THEN Nothing ELSE <<"kept">>)
    BY <2>1 DEF ServeShortcuts
  <2>3. PICK o, answer : o = (shortcuts /\ agreed => ok) /\ answer = IF agreed THEN Nothing
        ELSE <<"kept">>
    OBVIOUS
  <2>4. o \in BOOLEAN
    BY <2>3
  <2>5. Served(c, o, answer)
    BY <2>2, <2>3
  <2>6. UNCHANGED <<published, catalogue, pins, origin>>
    BY <2>1 DEF ServeShortcuts
  <2> QED
    BY <1>7, <1>8, <2>4, <2>5, <2>6
<1>9. CASE c.step = "reload"
  <2>1. PICK answer : answer = rows
    OBVIOUS
  <2>2. Served(c, TRUE, answer) /\ UNCHANGED <<published, catalogue, pins, origin>>
    BY <1>1, <1>9, <2>1 DEF rustVars
  <2> QED
    BY <1>7, <1>9, <2>2
<1>10. CASE c.step = "origin"
  <2>1. PICK answer : answer = origin
    OBVIOUS
  <2>2. PICK ok \in BOOLEAN : Served(c, ok, answer)
        /\ UNCHANGED <<published, catalogue, pins, origin>>
    BY <1>1, <1>10, <2>1 DEF rustVars
  <2> QED
    BY <1>7, <1>10, <2>1, <2>2
<1>11. CASE c.step = "first"
  <2>1. ServeFirst(c)
    BY <1>1, <1>11
  <2>2. CASE c.op = "install"
    <3>1. ServeInstall(c) /\ c.source \in TrpSources
      BY <1>4, <2>1, <2>2 DEF ServeFirst
    <3>2. UNCHANGED <<published, catalogue, pins>>
      BY <3>1 DEF ServeInstall
    <3>3. CASE InstallRefused(c)
      <4>1. Served(c, FALSE, Nothing) /\ UNCHANGED origin
        BY <3>1, <3>3 DEF ServeInstall
      <4> QED
        BY <1>3, <1>5, <1>6, <1>11, <2>2, <3>2, <4>1
    <3>4. CASE ~InstallRefused(c) /\ Added(c) # {} /\ c.arg.confirmed = Nothing
      <4>1. PICK answer : answer = [asked |-> <<"permissions", c.source, catalogue[c.source]>>]
        OBVIOUS
      <4>2. Served(c, FALSE, answer) /\ UNCHANGED origin
        BY <3>1, <3>4, <4>1 DEF ServeInstall
      <4>3. Asked(answer.asked, c.source)'
        BY <1>2, <1>3, <3>1, <3>2, <4>1 DEF Asked, CentreShape
      <4> QED
        BY <1>3, <1>5, <1>6, <1>11, <2>2, <3>2, <4>2, <4>3
    <3>5. CASE ~InstallRefused(c) /\ ~(Added(c) # {} /\ c.arg.confirmed = Nothing)
      <4>1. Served(c, TRUE, Nothing)
        BY <3>1, <3>5 DEF ServeInstall
      <4>2. origin = Nothing \/ origin.source = c.source
        BY <3>5 DEF InstallRefused
      <4>3. ASSUME ~view.disturbed, c.alive
            PROVE  /\ \A s \in TrpSources : view.marks[s] = Nothing
                   /\ \A e \in calls : ~(e.alive /\ e.op = "install" /\ e.step = "origin"
                                          /\ e.served /\ e.ok
                                         /\ e.answer # Nothing)
        <5>1. \A s \in TrpSources : view.marks[s] = Nothing
          BY <1>2, <2>2, <4>2, <4>3 DEF MarksFit
        <5>2. \A e \in calls : e.alive /\ e.op = "install" => e = c
          BY <1>2, <2>2, <4>3 DEF FlagFits, Exclusive, BusyOps
        <5> QED
          BY <1>1, <5>1, <5>2
      <4>4. ASSUME ~view.disturbed, ~c.alive
            PROVE  /\ \A s \in TrpSources : view.marks[s] = Nothing
                   /\ \A e \in calls : ~(e.alive /\ e.op = "install" /\ e.step = "origin"
                                          /\ e.served /\ e.ok
                                         /\ e.answer # Nothing)
        <5>1. view.name = "shop"
          BY <1>2, <2>2, <4>4 DEF CallsOfView, CentreShape
        <5> QED
          BY <1>2, <5>1 DEF CallsOfView, MarksFit
      <4> QED
        BY <1>3, <1>5, <1>6, <1>11, <2>2, <3>2, <4>1, <4>3, <4>4
    <3> QED
      BY <3>3, <3>4, <3>5
  <2>3. CASE c.op = "sync"
    <3>1. PICK ok \in BOOLEAN :
             /\ catalogue' = IF ok THEN [catalogue EXCEPT ![c.source] = published[c.source]]
                  ELSE catalogue
             /\ Served(c, ok, Nothing) /\ UNCHANGED <<published, pins, origin>>
      BY <2>1, <2>3 DEF ServeFirst
    <3>2. CatalogueMoves
      BY <1>3, <1>4, <2>3, <3>1 DEF CatalogueMoves
    <3> QED
      BY <1>3, <1>5, <1>11, <2>3, <3>1, <3>2
  <2>4. CASE c.op \in {"toggle", "remove"}
    <3>1. PICK known \in BOOLEAN :
             /\ catalogue' = [s \in TrpSources |-> IF s = c.source /\ c.op = "remove" THEN 0
                              ELSE catalogue[s]]
             /\ Served(c, known, Nothing) /\ UNCHANGED <<published, pins, origin>>
      BY <2>1, <2>4 DEF ServeFirst
    <3>2. CatalogueMoves
      BY <1>3, <3>1 DEF CatalogueMoves
    <3> QED
      BY <1>3, <1>5, <1>11, <2>4, <3>1, <3>2
  <2>5. CASE c.op = "preview"
    <3>1. PICK answer : answer = [source |-> c.source, fingerprint |-> fingerprint[c.source]]
      OBVIOUS
    <3>2. PICK ok \in BOOLEAN : Served(c, ok, answer)
          /\ UNCHANGED <<published, catalogue, pins, origin>>
      BY <2>1, <2>5, <3>1 DEF ServeFirst, rustVars
    <3> QED
      BY <1>3, <1>5, <1>6, <1>11, <2>5, <3>1, <3>2
  <2>6. CASE c.op = "add"
    <3>1. PICK ok \in BOOLEAN :
             /\ pins' = IF ok THEN [pins EXCEPT ![c.source] = fingerprint[c.source]] ELSE pins
             /\ catalogue' = IF ok THEN [catalogue EXCEPT ![c.source] = published[c.source]]
                  ELSE catalogue
             /\ Served(c, ok, Nothing) /\ UNCHANGED <<published, origin>>
      BY <2>1, <2>6 DEF ServeFirst
    <3>2. CatalogueMoves /\ DOMAIN pins' = TrpSources
      BY <1>3, <1>4, <2>6, <3>1 DEF CatalogueMoves
    <3> QED
      BY <1>5, <1>11, <2>6, <3>1, <3>2
  <2>7. CASE c.op = "uninstall"
    <3>1. Served(c, TRUE, Nothing) /\ UNCHANGED <<published, catalogue, pins>>
      BY <2>1, <2>7 DEF ServeFirst
    <3>2. ~view.disturbed => view.name = "shop"
      BY <1>2, <2>7 DEF CallsOfView, CentreShape
    <3>3. ~view.disturbed =>
             /\ \A s \in TrpSources : view.marks[s] = Nothing
             /\ \A e \in calls : ~(e.alive /\ e.op = "install" /\ e.step = "origin" /\ e.served
                                    /\ e.ok
                                   /\ e.answer # Nothing)
      BY <1>2, <3>2 DEF CallsOfView, MarksFit
    <3> QED
      BY <1>3, <1>5, <1>6, <1>11, <2>7, <3>1, <3>3
  <2>8. CASE c.op = "import"
    <3>1. PICK ok \in BOOLEAN :
             /\ ok => origin = Nothing
             /\ origin' = IF ok THEN Local ELSE origin
             /\ Served(c, ok, Nothing) /\ UNCHANGED <<published, catalogue, pins>>
      BY <2>1, <2>8 DEF ServeFirst
    <3>2. origin' # origin /\ ~view.disturbed =>
             /\ \A s \in TrpSources : view.marks[s] = Nothing
             /\ \A e \in calls : ~(e.alive /\ e.op = "install" /\ e.step = "origin" /\ e.served
                                    /\ e.ok
                                   /\ e.answer # Nothing)
      BY <1>2, <3>1 DEF MarksFit
    <3> QED
      BY <1>3, <1>5, <1>6, <1>11, <2>8, <3>1, <3>2
  <2>9. CASE c.op = "search"
    <3>1. PICK answer : answer = Found
      OBVIOUS
    <3>2. Served(c, TRUE, answer) /\ UNCHANGED <<published, catalogue, pins, origin>>
      BY <2>1, <2>9, <3>1 DEF ServeFirst, rustVars
    <3> QED
      BY <1>3, <1>5, <1>6, <1>11, <2>9, <3>2
  <2>10. CASE c.op \notin {"install", "sync", "toggle", "remove", "preview", "add", "uninstall",
                           "import", "search"}
    <3>1. PICK ok \in BOOLEAN : Served(c, ok, Nothing)
          /\ UNCHANGED <<published, catalogue, pins, origin>>
      BY <2>1, <2>10 DEF ServeFirst, rustVars
    <3> QED
      BY <1>3, <1>5, <1>6, <1>11, <2>10, <3>1
  <2> QED
    BY <2>2, <2>3, <2>4, <2>5, <2>6, <2>7, <2>8, <2>9, <2>10
<1> QED
  BY <1>4, <1>8, <1>9, <1>10, <1>11

----------------------------------------------------------------------------
(* Answers.                                                                 *)

(* The last answer to a call lowers the flag the call raised, and marks or  *)
(* asks only what fits.                                                     *)
LEMMA AnswerEnds ==
  ASSUME CentreInv, NEW c \in calls, Ends(c), told \subseteq told',
         UNCHANGED <<catalogue, published, pins, origin>>,
         NEW v, view' = (IF c.alive THEN v ELSE view),
         DOMAIN v = ViewFields, v.name = view.name, v.disturbed = view.disturbed,
         v.busy = (IF c.op \in BusyOps THEN FALSE ELSE view.busy),
         DOMAIN v.marks = TrpSources,
         \A s \in TrpSources : c.alive /\ v.marks[s] # view.marks[s] =>
             /\ c.op = "install" /\ s = c.source
             /\ ~view.disturbed => v.marks[s] = origin /\ origin.source = s,
         c.alive /\ v.dialog # view.dialog /\ v.dialog # Nothing =>
             /\ c.op = "install" /\ v.dialog.source \in TrpSources
             /\ v.dialog.asked \in told' /\ Asked(v.dialog.asked, v.dialog.source),
         c.alive /\ v.preview # view.preview /\ v.preview # Nothing =>
             /\ v.preview.source \in TrpSources
             /\ <<"key", v.preview.source, v.preview.fingerprint>> \in told'
  PROVE  CentreInv'
<1>1. CentreShape /\ FlagFits /\ CallsHold /\ ViewTold /\ CallsOfView /\ MarksFit
  BY DEF CentreInv
<1>2. calls' = calls \ {c}
  BY DEF Ends
<1>3. /\ DOMAIN view' = ViewFields /\ view'.name = view.name /\ view'.disturbed = view.disturbed
      /\ DOMAIN view'.marks = TrpSources
      /\ view'.busy = (IF Exclusive(c) THEN FALSE ELSE view.busy)
  BY <1>1 DEF CentreShape, Exclusive
<1>4. CentreShape'
  BY <1>1, <1>2, <1>3 DEF CentreShape
<1>5. FlagFits'
  <2>1. CASE Exclusive(c)
    <3>1. \A e \in calls' : ~Exclusive(e)
      BY <1>1, <1>2, <2>1 DEF FlagFits
    <3> QED
      BY <1>3, <2>1, <3>1 DEF FlagFits, Exclusive
  <2>2. CASE ~Exclusive(c)
    <3>1. (\E e \in calls' : Exclusive(e)) <=> \E e \in calls : Exclusive(e)
      BY <1>2, <2>2
    <3>2. \A e, f \in calls' : Exclusive(e) /\ Exclusive(f) => e = f
      BY <1>1, <1>2 DEF FlagFits
    <3> QED
      BY <1>1, <1>3, <2>2, <3>1, <3>2 DEF FlagFits, Exclusive
  <2> QED
    BY <2>1, <2>2
<1>7. CallsHold'
  <2> SUFFICES ASSUME NEW e \in calls' PROVE Holds(e)'
    BY DEF CallsHold
  <2>1. Holds(e)
    BY <1>1, <1>2 DEF CallsHold
  <2> QED
    BY <2>1 DEF Holds, Asked
<1>8. ViewTold'
  <2>1. ASSUME view'.dialog # Nothing
        PROVE  /\ ~view'.busy /\ view'.name = "sources" /\ view'.dialog.source \in TrpSources
               /\ view'.dialog.asked \in told' /\ Asked(view'.dialog.asked, view'.dialog.source)
    <3>1. CASE view'.dialog = view.dialog
      BY <1>1, <1>3, <2>1, <3>1 DEF ViewTold, CentreShape
    <3>2. CASE view'.dialog # view.dialog
      <4>1. c.alive /\ view' = v /\ c.op = "install"
        BY <2>1, <3>2
      <4>2. view.name = "sources" /\ Exclusive(c)
        BY <1>1, <4>1 DEF CallsOfView, Exclusive, BusyOps
      <4> QED
        BY <1>3, <2>1, <3>2, <4>1, <4>2
    <3> QED
      BY <3>1, <3>2
  <2>2. (view.dialog # Nothing => Asked(view.dialog.asked, view.dialog.source))'
    BY <2>1 DEF Asked
  <2>3. view'.preview # Nothing =>
          /\ view'.preview.source \in TrpSources
          /\ <<"key", view'.preview.source, view'.preview.fingerprint>> \in told'
    BY <1>1 DEF ViewTold
  <2> QED
    BY <2>1, <2>2, <2>3 DEF ViewTold
<1>9. CallsOfView'
  BY <1>1, <1>2, <1>3 DEF CallsOfView
<1>10. MarksFit'
  <2>1. ASSUME NEW s \in TrpSources, view'.marks[s] # view.marks[s]
        PROVE  /\ c.alive /\ c.op = "install" /\ s = c.source /\ view.name = "sources"
               /\ Exclusive(c)
               /\ ~view.disturbed => view'.marks[s] = origin /\ origin.source = s
    <3>1. c.alive /\ view' = v /\ v.marks[s] # view.marks[s]
      BY <2>1
    <3>2. c.op = "install"
      BY <3>1
    <3> QED
      BY <1>1, <2>1, <3>1, <3>2 DEF CallsOfView, Exclusive, BusyOps
  <2>2. view'.name = "shop" => \A s \in TrpSources : view'.marks[s] = Nothing
    BY <1>1, <1>3, <2>1 DEF MarksFit
  <2>3. ~view'.disturbed => \A s \in TrpSources :
           view'.marks[s] # Nothing => view'.marks[s] = origin' /\ origin'.source = s
    BY <1>1, <1>3, <2>1 DEF MarksFit
  <2>4. ASSUME NEW e \in calls', e.alive, e.op = "install"
        PROVE  /\ view'.marks[e.source] = Nothing
               /\ ~view'.disturbed /\ e.step = "origin" /\ e.served /\ e.ok /\ e.answer # Nothing =>
                     e.answer = origin'
    <3>1. e \in calls /\ e # c /\ Exclusive(e) /\ e.source \in TrpSources
      BY <1>1, <1>2, <2>4 DEF Exclusive, BusyOps, CallsHold, Holds
    <3>2. ~Exclusive(c)
      BY <1>1, <3>1 DEF FlagFits
    <3>3. view'.marks[e.source] = view.marks[e.source]
      BY <2>1, <3>1, <3>2
    <3> QED
      BY <1>1, <1>3, <2>4, <3>1, <3>3 DEF MarksFit
  <2> QED
    BY <2>2, <2>3, <2>4 DEF MarksFit
<1> QED
  BY <1>4, <1>5, <1>7, <1>8, <1>9, <1>10 DEF CentreInv

(* An answer after which the view calls again changes only the step.        *)
LEMMA AnswerContinues ==
  ASSUME CentreInv, NEW c \in calls, NEW d, calls' = (calls \ {c}) \union {d}, told' = told,
         DOMAIN d = CallFields, d.op = c.op, d.source = c.source, d.arg = c.arg,
         d.alive = c.alive, d.served = FALSE, d.ok = c.ok, d.step \in {"origin", "reload", "first"},
         d.step = "origin" <=> c.op = "install", d.step = "reload" => c.op \in Ops,
         d.step = "first" => c.op = "uninstall",
         UNCHANGED <<catalogue, published, pins, origin>>,
         NEW v, view' = (IF c.alive THEN v ELSE view),
         DOMAIN v = ViewFields, v.name = view.name, v.disturbed = view.disturbed,
         v.busy = view.busy,
         v.marks = view.marks, v.dialog = view.dialog, v.preview \in {view.preview, Nothing}
  PROVE  CentreInv'
<1>1. CentreShape /\ FlagFits /\ CallsHold /\ ViewTold /\ CallsOfView /\ MarksFit
  BY DEF CentreInv
<1>5. /\ DOMAIN view' = ViewFields /\ view'.name = view.name /\ view'.disturbed = view.disturbed
      /\ view'.busy = view.busy /\ view'.marks = view.marks /\ view'.dialog = view.dialog
      /\ view'.preview \in {view.preview, Nothing}
  BY <1>1 DEF CentreShape
<1>6. CentreShape'
  BY <1>1, <1>5 DEF CentreShape
<1>7. Exclusive(d) <=> Exclusive(c)
  BY DEF Exclusive
<1>8. FlagFits'
  <2>1. ASSUME NEW e \in calls', NEW f \in calls', Exclusive(e), Exclusive(f) PROVE e = f
    <3>1. CASE e = d /\ f # d
      BY <1>1, <1>7, <2>1, <3>1 DEF FlagFits
    <3>2. CASE e # d /\ f = d
      BY <1>1, <1>7, <2>1, <3>2 DEF FlagFits
    <3>3. CASE e # d /\ f # d
      BY <1>1, <2>1, <3>3 DEF FlagFits
    <3> QED
      BY <3>1, <3>2, <3>3
  <2>2. (\E e \in calls' : Exclusive(e)) <=> \E e \in calls : Exclusive(e)
    BY <1>7
  <2> QED
    BY <1>1, <1>5, <2>1, <2>2 DEF FlagFits, Exclusive
<1>9. CallsHold'
  <2> SUFFICES ASSUME NEW e \in calls' PROVE Holds(e)'
    BY DEF CallsHold
  <2>1. CASE e = d
    <3>1. Holds(c)
      BY <1>1 DEF CallsHold
    <3> QED
      BY <2>1, <3>1 DEF Holds, Asked, Ops
  <2>2. CASE e # d
    <3>1. Holds(e)
      BY <1>1, <2>2 DEF CallsHold
    <3> QED
      BY <3>1 DEF Holds, Asked
  <2> QED
    BY <2>1, <2>2
<1>10. ViewTold'
  BY <1>1, <1>5 DEF ViewTold, Asked
<1>11. CallsOfView'
  BY <1>1, <1>5 DEF CallsOfView
<1>12. MarksFit'
  <2>1. ASSUME NEW e \in calls', e.alive, e.op = "install"
        PROVE  /\ view'.marks[e.source] = Nothing
               /\ ~view'.disturbed /\ e.step = "origin" /\ e.served /\ e.ok /\ e.answer # Nothing =>
                     e.answer = origin'
    <3>1. CASE e = d
      BY <1>1, <1>5, <2>1, <3>1 DEF MarksFit
    <3>2. CASE e # d
      BY <1>1, <1>5, <2>1, <3>2 DEF MarksFit
    <3> QED
      BY <3>1, <3>2
  <2> QED
    BY <1>1, <1>5, <2>1 DEF MarksFit
<1> QED
  BY <1>6, <1>8, <1>9, <1>10, <1>11, <1>12 DEF CentreInv

(* What the view does with an answer, asking again, asking the person or    *)
(* showing what it read, is one of those.                                   *)
LEMMA AnswerKeeps ==
  ASSUME CentreInv, NEW c \in calls, Answer(c)
  PROVE  CentreInv'
<1>1. c.served /\ UNCHANGED <<catalogue, published, pins, origin>>
  BY DEF Answer, rustVars
<1>2. CentreShape /\ CallsHold /\ ViewTold /\ CallsOfView /\ MarksFit /\ Holds(c)
  BY DEF CentreInv, CallsHold
<1>3. DOMAIN view = ViewFields /\ DOMAIN view.marks = TrpSources
  BY <1>2 DEF CentreShape
<1>4. PICK lowered : lowered = Done(view, c)
  OBVIOUS
<1>5. /\ DOMAIN lowered = ViewFields /\ lowered.name = view.name
      /\ lowered.disturbed = view.disturbed
      /\ lowered.busy = (IF c.op \in BusyOps THEN FALSE ELSE view.busy)
      /\ lowered.marks = view.marks
      /\ lowered.dialog = view.dialog /\ lowered.preview = view.preview
  BY <1>3, <1>4 DEF Done, ViewFields
<1>6. ASSUME NEW v, Ends(c), Shows(c, v), told' = told,
             DOMAIN v = ViewFields, v.name = view.name, v.disturbed = view.disturbed,
             v.busy = lowered.busy,
             v.marks = view.marks, v.dialog = view.dialog, v.preview \in {view.preview, Nothing}
      PROVE  CentreInv'
  <2>1. view' = (IF c.alive THEN v ELSE view)
    BY <1>6 DEF Shows
  <2>2. v.busy = (IF c.op \in BusyOps THEN FALSE ELSE view.busy)
    BY <1>5, <1>6
  <2> QED
    BY <1>1, <1>3, <1>6, <2>1, <2>2, AnswerEnds
<1>7. PICK again : again = [s \in {"origin", "reload", "first"} |->
                              [c EXCEPT !.step = s, !.served = FALSE, !.answer = Nothing]]
  OBVIOUS
<1>7a. ASSUME NEW s \in {"origin", "reload", "first"}, calls' = (calls \ {c}) \union {again[s]},
      told' = told,
              s = "origin" <=> c.op = "install", s = "reload" => c.op \in Ops, s = "first"
                    => c.op = "uninstall",
              NEW v, view' = (IF c.alive THEN v ELSE view),
              DOMAIN v = ViewFields, v.name = view.name, v.disturbed = view.disturbed,
              v.busy = view.busy,
              v.marks = view.marks, v.dialog = view.dialog, v.preview \in {view.preview, Nothing}
       PROVE  CentreInv'
  <2>1. PICK d : d = [c EXCEPT !.step = s, !.served = FALSE, !.answer = Nothing]
    OBVIOUS
  <2>2. calls' = (calls \ {c}) \union {d}
    BY <1>7, <1>7a, <2>1
  <2>3. /\ DOMAIN d = CallFields /\ d.op = c.op /\ d.source = c.source /\ d.arg = c.arg
        /\ d.alive = c.alive /\ d.served = FALSE /\ d.ok = c.ok /\ d.step = s
    <3>1. DOMAIN c = CallFields
      BY <1>2 DEF CentreShape
    <3> QED
      BY <2>1, <3>1 DEF CallFields
  <2> QED
    BY <1>1, <1>7a, <2>2, <2>3, AnswerContinues
<1>8. CASE c.step = "first" /\ c.op = "install"
  <2>1. AnswerInstall(c)
    BY <1>8 DEF Answer, ReloadAfter
  <2>5. c.source \in TrpSources
    BY <1>2, <1>8 DEF Holds
  <2>2. CASE c.ok /\ DirectoryFacts(Entry(c.source, c.arg.card)) # Nothing
    <3>1. calls' = (calls \ {c}) \union {again["origin"]} /\ view' = view /\ told' = told
      BY <1>7, <2>1, <2>2 DEF AnswerInstall, Continues
    <3> QED
      BY <1>3, <1>8, <1>7a, <3>1
  <2>3. CASE ~c.ok /\ c.answer # Nothing
    <3>1. PICK v : v = [lowered EXCEPT !.dialog =
                          [source |-> c.source, card |-> c.arg.card, asked |-> c.answer.asked]]
      OBVIOUS
    <3>2. /\ DOMAIN v = ViewFields /\ v.name = view.name /\ v.disturbed = view.disturbed
          /\ v.busy = (IF c.op \in BusyOps THEN FALSE ELSE view.busy) /\ v.marks = view.marks
          /\ v.preview = view.preview /\ v.dialog.source = c.source
          /\ v.dialog.asked = c.answer.asked
      BY <1>5, <3>1 DEF ViewFields
    <3>3. /\ Ends(c) /\ Shows(c, v)
          /\ told' = (IF c.alive THEN told \union {c.answer.asked} ELSE told)
      BY <1>4, <2>1, <2>3, <3>1 DEF AnswerInstall
    <3>4. view' = (IF c.alive THEN v ELSE view) /\ told \subseteq told'
      BY <3>3 DEF Shows
    <3>5. Asked(c.answer.asked, c.source)
      BY <1>1, <1>2, <1>8, <2>3 DEF Holds
    <3>6. c.alive => v.dialog.asked \in told' /\ Asked(v.dialog.asked, v.dialog.source)
      BY <3>2, <3>3, <3>5
    <3> QED
      BY <1>1, <1>3, <1>8, <2>5, <3>2, <3>3, <3>4, <3>6, AnswerEnds
  <2>4. CASE ~(c.ok /\ DirectoryFacts(Entry(c.source, c.arg.card)) # Nothing)
        /\ ~(~c.ok /\ c.answer # Nothing)
    <3>1. Ends(c) /\ Shows(c, lowered) /\ told' = told
      BY <1>4, <2>1, <2>4 DEF AnswerInstall
    <3> QED
      BY <1>5, <1>6, <3>1
  <2> QED
    BY <2>2, <2>3, <2>4
<1>9. CASE c.step = "first" /\ c.op = "preview"
  <2>1. PICK v : v = [lowered EXCEPT !.preview = IF c.ok THEN c.answer ELSE Nothing]
    OBVIOUS
  <2>2. /\ DOMAIN v = ViewFields /\ v.name = view.name /\ v.disturbed = view.disturbed
        /\ v.busy = (IF c.op \in BusyOps THEN FALSE ELSE view.busy) /\ v.marks = view.marks
        /\ v.dialog = view.dialog /\ v.preview = (IF c.ok THEN c.answer ELSE Nothing)
    BY <1>5, <2>1 DEF ViewFields
  <2>3. /\ Ends(c) /\ Shows(c, v)
        /\ told' = (IF c.ok /\ c.alive THEN told \union {<<"key", c.source, c.answer.fingerprint>>}
                    ELSE told)
    BY <1>4, <1>9, <2>1 DEF Answer, Shows, ReloadAfter
  <2>4. view' = (IF c.alive THEN v ELSE view) /\ told \subseteq told'
    BY <2>3 DEF Shows
  <2>5. c.source \in TrpSources /\ (c.ok => c.answer.source = c.source)
    BY <1>1, <1>2, <1>9 DEF Holds
  <2>6. c.alive /\ v.preview # Nothing =>
           /\ v.preview.source \in TrpSources
           /\ <<"key", v.preview.source, v.preview.fingerprint>> \in told'
    BY <2>2, <2>3, <2>5
  <2> QED
    BY <1>1, <1>3, <2>2, <2>3, <2>4, <2>6, AnswerEnds
<1>10. CASE c.step = "shortcuts"
  <2>1. /\ view' = view /\ told' = told
        /\ IF c.ok THEN calls' = (calls \ {c}) \union {again["first"]} ELSE Ends(c)
    BY <1>7, <1>10 DEF Answer, Continues
  <2>2. c.op = "uninstall" /\ c.op \notin BusyOps
    BY <1>2, <1>10 DEF Holds, BusyOps
  <2>3. CASE c.ok
    BY <1>3, <1>7a, <2>1, <2>2, <2>3 DEF BusyOps
  <2>4. CASE ~c.ok
    <3>1. Ends(c) /\ Shows(c, lowered)
      BY <1>4, <2>1, <2>2, <2>4 DEF Shows, Done
    <3> QED
      BY <1>5, <1>6, <2>1, <3>1
  <2> QED
    BY <2>3, <2>4
<1>11. CASE c.step = "first" /\ c.op = "search"
  <2>1. PICK v : v = [view EXCEPT !.cards = c.answer]
    OBVIOUS
  <2>2. /\ DOMAIN v = ViewFields /\ v.name = view.name /\ v.disturbed = view.disturbed
        /\ v.busy = view.busy /\ v.marks = view.marks /\ v.dialog = view.dialog
        /\ v.preview = view.preview
    BY <1>3, <2>1 DEF ViewFields
  <2>3. Ends(c) /\ Shows(c, v) /\ told' = told
    BY <1>11, <2>1 DEF Answer, Shows, ReloadAfter
  <2>4. lowered.busy = view.busy
    BY <1>5, <1>11 DEF BusyOps
  <2> QED
    BY <1>6, <2>2, <2>3, <2>4
<1>12. CASE c.step = "first" /\ c.op \in ReloadAfter
  <2>1. /\ IF c.ok \/ c.op = "sync" THEN calls' = (calls \ {c}) \union {again["reload"]}
           ELSE Ends(c)
        /\ Shows(c, IF c.op = "add" /\ c.ok THEN [view EXCEPT !.preview = Nothing]
                    ELSE IF c.ok \/ c.op = "sync" THEN view ELSE lowered)
        /\ told' = told
    <3>1. c.op \notin {"install", "preview", "search"}
      BY <1>12 DEF ReloadAfter
    <3> QED
      BY <1>4, <1>7, <1>12, <3>1 DEF Answer, Shows, Continues, ReloadAfter
  <2>2. c.op \in Ops /\ c.op # "install"
    BY <1>12 DEF ReloadAfter, Ops, BusyOps
  <2>3. CASE c.op = "add" /\ c.ok
    <3>1. PICK v : v = [view EXCEPT !.preview = Nothing]
      OBVIOUS
    <3>2. /\ DOMAIN v = ViewFields /\ v.name = view.name /\ v.disturbed = view.disturbed
          /\ v.busy = view.busy /\ v.marks = view.marks /\ v.dialog = view.dialog
          /\ v.preview = Nothing
      BY <1>3, <3>1 DEF ViewFields
    <3>3. calls' = (calls \ {c}) \union {again["reload"]} /\ view' = (IF c.alive THEN v ELSE view)
      BY <2>1, <2>3, <3>1 DEF Shows
    <3> QED
      BY <1>7a, <2>1, <2>2, <3>2, <3>3
  <2>4. CASE ~(c.op = "add" /\ c.ok) /\ (c.ok \/ c.op = "sync")
    <3>1. calls' = (calls \ {c}) \union {again["reload"]} /\ view' = view
      BY <2>1, <2>4 DEF Shows
    <3> QED
      BY <1>3, <1>7a, <2>1, <2>2, <3>1
  <2>5. CASE ~(c.ok \/ c.op = "sync")
    BY <1>5, <1>6, <2>1, <2>5
  <2> QED
    BY <2>3, <2>4, <2>5
<1>13. CASE c.step = "first" /\ c.op = "login"
  <2>1. Ends(c) /\ Shows(c, lowered) /\ told' = told
    BY <1>4, <1>13 DEF Answer, ReloadAfter, Shows
  <2> QED
    BY <1>5, <1>6, <2>1
<1>14. CASE c.step = "reload"
  <2>1. PICK v : v = [lowered EXCEPT !.list = c.answer]
    OBVIOUS
  <2>2. /\ DOMAIN v = ViewFields /\ v.name = view.name /\ v.disturbed = view.disturbed
        /\ v.busy = lowered.busy /\ v.marks = view.marks /\ v.dialog = view.dialog
        /\ v.preview = view.preview
    BY <1>5, <2>1 DEF ViewFields
  <2>3. Ends(c) /\ Shows(c, v) /\ told' = told
    BY <1>4, <1>14, <2>1 DEF Answer, Shows
  <2> QED
    BY <1>6, <2>2, <2>3
<1>15. CASE c.step = "origin"
  <2>1. c.op = "install" /\ c.op \in BusyOps /\ c.source \in TrpSources
    BY <1>2, <1>15 DEF Holds, BusyOps
  <2>2. PICK fits \in BOOLEAN : fits = (c.ok
                                         /\ OriginMatches(DirectoryFacts(Entry(c.source,
                                                                               c.arg.card)),
                                                                               c.answer))
    BY DEF OriginMatches
  <2>3. PICK marked : marked = MarkIfMatches(c)
    OBVIOUS
  <2>4. /\ DOMAIN marked = ViewFields /\ marked.name = view.name
        /\ marked.disturbed = view.disturbed
        /\ marked.marks = [view.marks EXCEPT ![c.source] = IF fits THEN c.answer ELSE @]
        /\ marked.dialog = view.dialog /\ marked.preview = view.preview
    BY <1>3, <2>2, <2>3 DEF MarkIfMatches, ViewFields
  <2>5. PICK v : v = [marked EXCEPT !.busy = FALSE]
    OBVIOUS
  <2>6. /\ DOMAIN v = ViewFields /\ v.name = view.name /\ v.disturbed = view.disturbed
        /\ v.busy = FALSE
        /\ v.marks = marked.marks /\ v.dialog = view.dialog /\ v.preview = view.preview
    BY <2>4, <2>5 DEF ViewFields
  <2>7. DOMAIN v.marks = TrpSources
    BY <1>3, <2>4, <2>6
  <2>8. ASSUME NEW s \in TrpSources, c.alive, v.marks[s] # view.marks[s]
        PROVE  s = c.source /\ (~view.disturbed => v.marks[s] = origin /\ origin.source = s)
    <3>1. s = c.source /\ fits /\ v.marks[s] = c.answer
      BY <1>3, <2>4, <2>6, <2>8
    <3>2. /\ DirectoryFacts(Entry(c.source, c.arg.card)) # Nothing
          /\ c.answer = DirectoryFacts(Entry(c.source, c.arg.card)) /\ c.ok
      BY <2>2, <3>1 DEF OriginMatches
    <3>3. c.answer.source = c.source
      BY <3>2 DEF DirectoryFacts, Entry
    <3>4. ~view.disturbed => c.answer = origin
      BY <1>1, <1>2, <1>15, <2>1, <2>8, <3>2 DEF MarksFit
    <3> QED
      BY <3>1, <3>3, <3>4
  <2>9. Ends(c) /\ Shows(c, v) /\ told' = told
    BY <1>15, <2>1, <2>3, <2>5 DEF Answer, Done
  <2>10. view' = (IF c.alive THEN v ELSE view)
    BY <2>9 DEF Shows
  <2>11. \A s \in TrpSources : c.alive /\ v.marks[s] # view.marks[s] =>
            /\ c.op = "install" /\ s = c.source
            /\ ~view.disturbed => v.marks[s] = origin /\ origin.source = s
    BY <2>1, <2>8
  <2>12. v.busy = (IF c.op \in BusyOps THEN FALSE ELSE view.busy) /\ told \subseteq told'
    BY <2>1, <2>6, <2>9
  <2> QED
    BY <1>1, <2>6, <2>7, <2>9, <2>10, <2>11, <2>12, AnswerEnds
<1>16. /\ c.step \in {"first", "shortcuts", "reload", "origin"}
       /\ c.op \in Ops \/ c.step = "reload"
  BY <1>2 DEF Holds
<1> QED
  BY <1>8, <1>9, <1>10, <1>11, <1>12, <1>13, <1>14, <1>15, <1>16 DEF Ops, BusyOps, ReloadAfter

----------------------------------------------------------------------------
(* Sources and downloads.                                                   *)

(* A source that publishes or replaces its key takes nothing back.          *)
LEMMA SourcesKeep ==
  ASSUME CentreInv, NEW s \in TrpSources, PublishVersion(s) \/ ReplaceKey(s)
  PROVE  CentreInv'
<1>1. UNCHANGED <<view, calls, told, catalogue, pins, origin>>
  BY DEF PublishVersion, ReplaceKey, viewVars
<1>2. CentreShape /\ FlagFits /\ CallsHold /\ ViewTold /\ CallsOfView /\ MarksFit
  BY DEF CentreInv
<1>3. /\ published' \in [TrpSources -> Nat \ {0}]
      /\ \A t \in TrpSources : published[t] \in Nat /\ published'[t] \in Nat
           /\ published[t] <= published'[t]
  <2>1. CASE published' = published
    BY <1>2, <2>1 DEF CentreShape
  <2>2. CASE PublishVersion(s)
    BY <1>2, <2>2 DEF CentreShape, PublishVersion
  <2> QED
    BY <2>1, <2>2 DEF ReplaceKey
<1>4. \A t \in TrpSources : catalogue[t] \in Nat /\ catalogue[t] <= published'[t]
  <2> SUFFICES ASSUME NEW t \in TrpSources PROVE catalogue[t] \in Nat
        /\ catalogue[t] <= published'[t]
    OBVIOUS
  <2>1. catalogue[t] \in Nat /\ catalogue[t] <= published[t]
    BY <1>2 DEF CentreShape
  <2> QED
    BY <1>3, <2>1
<1>5. CentreShape'
  BY <1>1, <1>2, <1>3, <1>4 DEF CentreShape
<1>6. ASSUME NEW a, NEW t \in TrpSources, Asked(a, t) PROVE Asked(a, t)'
  BY <1>1, <1>3, <1>6 DEF Asked
<1>7. CallsHold'
  <2> SUFFICES ASSUME NEW e \in calls PROVE Holds(e)'
    BY <1>1 DEF CallsHold
  <2>1. Holds(e)
    BY <1>2 DEF CallsHold
  <2>2. e.op = "install" /\ e.arg.confirmed # Nothing => Asked(e.arg.confirmed, e.source)'
    BY <1>6, <2>1 DEF Holds
  <2>3. e.op = "install" /\ e.step = "first" /\ e.served /\ ~e.ok /\ e.answer # Nothing =>
           Asked(e.answer.asked, e.source)'
    BY <1>6, <2>1 DEF Holds
  <2> QED
    BY <1>1, <2>1, <2>2, <2>3 DEF Holds
<1>8. ViewTold'
  BY <1>1, <1>2, <1>6 DEF ViewTold
<1>9. FlagFits' /\ CallsOfView' /\ MarksFit'
  BY <1>1, <1>2 DEF FlagFits, CallsOfView, MarksFit, Exclusive
<1> QED
  BY <1>5, <1>7, <1>8, <1>9 DEF CentreInv

(* Steps of the list of downloads leave the rest alone.                     *)
LEMMA DownloadsKeepCentre ==
  ASSUME CentreInv, DownloadsNext \/ UNCHANGED centreVars
  PROVE  CentreInv'
<1>1. UNCHANGED <<view, calls, told, catalogue, published, pins, origin>>
  BY DEF DownloadsNext, DownloadMoves, CancelDownload, ReadList, ShowList, ApplyEvent, centreVars,
         rustVars, viewVars
<1>2. UNCHANGED CentreShape
  BY <1>1 DEF CentreShape
<1>3. UNCHANGED FlagFits /\ UNCHANGED CallsOfView /\ UNCHANGED MarksFit
  BY <1>1 DEF FlagFits, CallsOfView, MarksFit, Exclusive
<1>4. UNCHANGED CallsHold /\ UNCHANGED ViewTold
  BY <1>1 DEF CallsHold, Holds, ViewTold, Asked
<1> QED
  BY <1>2, <1>3, <1>4 DEF CentreInv

(* The list of downloads: what is read, told or shown as finished is so.    *)
LEMMA DownloadsKeepList ==
  ASSUME DownloadInv, DownloadsNext
  PROVE  DownloadInv'
<1>1. PICK st, events, v : st = download.status /\ events = download.events /\ v = dlView
  OBVIOUS
<1> DEFINE Named == DOMAIN DownloadSteps \union Finished
<1>2. /\ st \in Named /\ events \in Seq(Named) /\ DOMAIN download = {"status", "events"}
      /\ DOMAIN v = {"shown", "listening", "reading", "mounted"}
      /\ \A k \in DOMAIN events : events[k] \in Finished => st = events[k]
      /\ v.shown \in Finished => st = v.shown
      /\ v.reading \in Finished => st = v.reading
  BY <1>1 DEF DownloadInv
<1>3. ASSUME NEW to \in Named, st \notin Finished, dlView' = dlView,
             download' = [status |-> to, events |-> IF v.listening THEN Append(events, to)
                          ELSE events]
      PROVE  DownloadInv'
  <2>1. PICK after : after = (IF v.listening THEN Append(events, to) ELSE events)
    OBVIOUS
  <2>2. after \in Seq(Named) /\ \A k \in DOMAIN after : after[k] \in Finished => to = after[k]
    <3>1. \A k \in DOMAIN events : events[k] \notin Finished
      BY <1>2, <1>3
    <3>2. CASE v.listening
      <4>1. /\ after = Append(events, to) /\ after \in Seq(Named)
            /\ \A k \in DOMAIN after : (k \in DOMAIN events /\ after[k] = events[k])
                 \/ after[k] = to
        BY <1>2, <1>3, <2>1, <3>2
      <4> QED
        BY <3>1, <4>1
    <3>3. CASE ~v.listening
      BY <1>2, <2>1, <3>1, <3>3
    <3> QED
      BY <3>2, <3>3
  <2>3. download' = [status |-> to, events |-> after]
    BY <1>3, <2>1
  <2>4. v.shown \notin Finished /\ v.reading \notin Finished
    BY <1>2, <1>3
  <2> QED
    BY <1>1, <1>2, <1>3, <2>2, <2>3, <2>4 DEF DownloadInv
<1>4. ASSUME DownloadMoves PROVE DownloadInv'
  <2>1. st \notin Finished /\ dlView' = dlView
    BY <1>1, <1>4 DEF DownloadMoves
  <2>2. PICK to \in {DownloadSteps[st], "failed"} :
           download' = [status |-> to, events |-> IF v.listening THEN Append(events, to)
                        ELSE events]
    BY <1>1, <1>4 DEF DownloadMoves
  <2>3. to \in Named
    BY <1>2, <2>1, <2>2 DEF DownloadSteps, Finished
  <2> QED
    BY <1>3, <2>1, <2>2, <2>3
<1>5. ASSUME CancelDownload PROVE DownloadInv'
  <2>1. /\ st \in Cancellable /\ dlView' = dlView
        /\ download' = [status |-> "cancelled",
                        events |-> IF v.listening THEN Append(events, "cancelled") ELSE events]
    BY <1>1, <1>5 DEF CancelDownload
  <2>2. st \notin Finished /\ "cancelled" \in Named
    BY <2>1 DEF Cancellable, Finished
  <2> QED
    BY <1>3, <2>1, <2>2
<1>6. ASSUME ReadList PROVE DownloadInv'
  <2>1. PICK w : w = [v EXCEPT !.mounted = TRUE, !.reading = st]
    OBVIOUS
  <2>2. DOMAIN w = {"shown", "listening", "reading", "mounted"} /\ w.shown = v.shown
        /\ w.reading = st
    BY <1>2, <2>1
  <2>3. dlView' = w /\ download' = download
    BY <1>1, <1>6, <2>1 DEF ReadList
  <2> QED
    BY <1>1, <1>2, <2>2, <2>3 DEF DownloadInv
<1>7. ASSUME ShowList PROVE DownloadInv'
  <2>1. PICK w : w = [v EXCEPT !.shown = v.reading, !.reading = "none", !.listening = TRUE]
    OBVIOUS
  <2>2. DOMAIN w = {"shown", "listening", "reading", "mounted"} /\ w.shown = v.reading
        /\ w.reading = "none"
    BY <1>2, <2>1
  <2>3. dlView' = w /\ download' = download
    BY <1>1, <1>7, <2>1 DEF ShowList
  <2> QED
    BY <1>1, <1>2, <2>2, <2>3 DEF DownloadInv, Finished
<1>8. ASSUME ApplyEvent PROVE DownloadInv'
  <2>1. PICK w : w = [v EXCEPT !.shown = IF @ = "none" /\ Head(events) \in Finished THEN @
                      ELSE Head(events)]
    OBVIOUS
  <2>2. /\ DOMAIN w = {"shown", "listening", "reading", "mounted"} /\ w.reading = v.reading
        /\ w.shown \in {v.shown, Head(events)}
    BY <1>2, <2>1
  <2>3. PICK d : d = [download EXCEPT !.events = Tail(@)]
    OBVIOUS
  <2>4. DOMAIN d = {"status", "events"} /\ d.status = st /\ d.events = Tail(events)
    BY <1>1, <1>2, <2>3
  <2>5. events # <<>> /\ dlView' = w /\ download' = d
    BY <1>1, <1>8, <2>1, <2>3 DEF ApplyEvent
  <2>6. Head(events) \in Finished => st = Head(events)
    BY <1>2, <2>5
  <2>7. /\ Tail(events) \in Seq(Named)
        /\ \A k \in DOMAIN Tail(events) : k + 1 \in DOMAIN events /\ Tail(events)[k] = events[k + 1]
    BY <1>2, <2>5
  <2>8. \A k \in DOMAIN Tail(events) : Tail(events)[k] \in Finished => st = Tail(events)[k]
    BY <1>2, <2>7
  <2> QED
    BY <1>2, <2>2, <2>4, <2>5, <2>6, <2>7, <2>8 DEF DownloadInv
<1> QED
  BY <1>4, <1>5, <1>6, <1>7, <1>8 DEF DownloadsNext

(* Permissions grow only where an installation was confirmed: what it was   *)
(* asked was shown, of this source, and of a version no later than the one  *)
(* that is offered.                                                         *)
LEMMA PermissionsGrowAsShown ==
  ASSUME CentreInv, NEW c \in calls, Serve(c), granted' \ granted # {}
  PROVE  GrownAsShown
<1>1. ~c.served /\ c.step \in {"first", "shortcuts", "reload", "origin"} /\ Holds(c)
  BY DEF CentreInv, CallsHold, Holds, Serve
<1>2. c.step = "first" /\ ServeFirst(c)
  <2>1. c.step = "first" => ServeFirst(c)
    BY DEF Serve
  <2>2. c.step = "shortcuts" => granted' = granted
    BY DEF Serve, ServeShortcuts
  <2>3. c.step = "reload" => granted' = granted
    BY DEF Serve, rustVars
  <2>4. c.step = "origin" => granted' = granted
    BY DEF Serve, rustVars
  <2> QED
    BY <1>1, <2>1, <2>2, <2>3, <2>4
<1>3. c.op = "install" /\ ServeInstall(c)
  <2>1. c.op = "install" => ServeInstall(c)
    BY <1>2 DEF ServeFirst
  <2>2. c.op # "install" => granted' \in {granted, {}}
    BY <1>2 DEF ServeFirst, rustVars
  <2> QED
    BY <2>1, <2>2
<1>4. ~InstallRefused(c) /\ granted' = PermissionsOf(catalogue[c.source])
  BY <1>3 DEF ServeInstall
<1>5. ~(Added(c) # {} /\ c.arg.confirmed = Nothing) /\ Added(c) = granted' \ granted
  <2>1. Added(c) = granted' \ granted
    BY <1>4 DEF Added
  <2> QED
    BY <1>3, <1>4, <2>1 DEF ServeInstall
<1>6. c.arg.confirmed \in told /\ Asked(c.arg.confirmed, c.source)
  BY <1>1, <1>3, <1>5 DEF Holds
<1>7. c.arg.confirmed[2] = c.source /\ c.arg.confirmed[3] <= catalogue[c.source]
  BY <1>4, <1>6 DEF Asked, InstallRefused
<1> QED
  BY <1>1, <1>3, <1>6, <1>7 DEF GrownAsShown

(* A key is pinned only by adding a source whose key was shown.             *)
LEMMA KeysPinnedAsShown ==
  ASSUME CentreInv, NEW c \in calls, Serve(c), pins' # pins
  PROVE  PinnedAsShown
<1>1. c.step \in {"first", "shortcuts", "reload", "origin"} /\ Holds(c) /\ DOMAIN pins = TrpSources
  BY DEF CentreInv, CallsHold, Holds, CentreShape
<1>2. c.step = "first" /\ ServeFirst(c)
  <2>1. c.step = "first" => ServeFirst(c)
    BY DEF Serve
  <2>2. c.step = "shortcuts" => pins' = pins
    BY DEF Serve, ServeShortcuts
  <2>3. c.step = "reload" => pins' = pins
    BY DEF Serve, rustVars
  <2>4. c.step = "origin" => pins' = pins
    BY DEF Serve, rustVars
  <2> QED
    BY <1>1, <2>1, <2>2, <2>3, <2>4
<1>3. c.op = "add"
  <2>1. c.op = "install" => pins' = pins
    BY <1>2 DEF ServeFirst, ServeInstall
  <2>2. c.op \notin {"install", "add"} => pins' = pins
    BY <1>2 DEF ServeFirst, rustVars
  <2> QED
    BY <2>1, <2>2
<1>4. fingerprint[c.source] = c.arg /\ pins' = [pins EXCEPT ![c.source] = fingerprint[c.source]]
  BY <1>2, <1>3 DEF ServeFirst
<1>5. <<"key", c.source, c.arg>> \in told
  BY <1>1, <1>3 DEF Holds
<1> QED
  BY <1>1, <1>4, <1>5 DEF PinnedAsShown

(* Busy says exactly that an exclusive call is under way, a card is marked  *)
(* only while its tool is the installed one, permissions grow and keys are  *)
(* pinned only as they were shown, and a finished download is, for any      *)
(* number of sources, versions, clicks and calls.                           *)
THEOREM SourceCenterRight == CentreSpec => SourceCenterSafe
<1> DEFINE Inv == CentreInv /\ DownloadInv
<1>1. CentreInit => Inv
  BY CentreBegins
<1>2. Inv /\ [CentreNext \/ DownloadsNext]_centreVars => Inv'
  <2> SUFFICES ASSUME CentreInv, DownloadInv, [CentreNext \/ DownloadsNext]_centreVars
               PROVE  CentreInv' /\ DownloadInv'
    OBVIOUS
  <2>1. ASSUME dlVars' = dlVars PROVE DownloadInv'
    BY <2>1 DEF DownloadInv, dlVars
  <2>2. CASE Click
    <3>1. CentreInv'
      BY <2>2, ClickSends, CancelKeeps, LeaveKeeps
    <3>2. dlVars' = dlVars
      BY <2>2 DEF Click, ClickSync, ClickLogin, ClickInstall, ClickPreview, ClickLegacyRefresh,
          ClickToggle,
                  ClickRemove, ClickSearch, ClickAdd, ConfirmPermissions, CancelDialog,
                      ClickUninstall,
                  ClickImport, Leave, InstallFrom, Send
    <3> QED
      BY <2>1, <3>1, <3>2
  <2>3. ASSUME NEW c \in calls, Serve(c) PROVE CentreInv' /\ DownloadInv'
    <3>1. dlVars' = dlVars
      BY <2>3 DEF Serve
    <3> QED
      BY <2>1, <2>3, <3>1, ServeKeeps
  <2>4. ASSUME NEW c \in calls, Answer(c) PROVE CentreInv' /\ DownloadInv'
    <3>1. dlVars' = dlVars
      BY <2>4 DEF Answer
    <3> QED
      BY <2>1, <2>4, <3>1, AnswerKeeps
  <2>5. ASSUME NEW s \in TrpSources, PublishVersion(s) \/ ReplaceKey(s) PROVE CentreInv'
        /\ DownloadInv'
    <3>1. dlVars' = dlVars
      BY <2>5 DEF PublishVersion, ReplaceKey
    <3> QED
      BY <2>1, <2>5, <3>1, SourcesKeep
  <2>6. CASE DownloadsNext
    BY <2>6, DownloadsKeepCentre, DownloadsKeepList
  <2>7. CASE UNCHANGED centreVars
    BY <2>1, <2>7, DownloadsKeepCentre DEF centreVars
  <2> QED
    BY <2>2, <2>3, <2>4, <2>5, <2>6, <2>7 DEF CentreNext
<1>3. Inv => /\ view.busy <=> \E c \in calls : c.alive /\ c.op \in BusyOps
             /\ \A s \in TrpSources :
                  Marked(s) /\ ~view.disturbed
                        => OriginMatches(DirectoryFacts(Entry(s, view.cards[s])), origin)
             /\ dlView.shown \in Finished => download.status = dlView.shown
  <2> SUFFICES ASSUME CentreInv, DownloadInv
               PROVE  /\ view.busy <=> \E c \in calls : c.alive /\ c.op \in BusyOps
                      /\ \A s \in TrpSources :
                           Marked(s) /\ ~view.disturbed
                                 => OriginMatches(DirectoryFacts(Entry(s, view.cards[s])), origin)
                      /\ dlView.shown \in Finished => download.status = dlView.shown
    OBVIOUS
  <2>1. view.busy <=> \E c \in calls : c.alive /\ c.op \in BusyOps
    BY DEF CentreInv, FlagFits, Exclusive
  <2>2. \A s \in TrpSources :
           Marked(s) /\ ~view.disturbed
                 => OriginMatches(DirectoryFacts(Entry(s, view.cards[s])), origin)
    BY DEF CentreInv, MarksFit, Marked, OriginMatches
  <2> QED
    BY <2>1, <2>2 DEF DownloadInv
<1>4. Inv /\ [CentreNext \/ DownloadsNext]_centreVars => [GrownAsShown /\ PinnedAsShown]_centreVars
  <2> SUFFICES ASSUME CentreInv, CentreNext \/ DownloadsNext PROVE GrownAsShown /\ PinnedAsShown
    OBVIOUS
  <2>1. ASSUME granted' = granted PROVE GrownAsShown
    BY <2>1 DEF GrownAsShown
  <2>2. ASSUME pins' = pins PROVE PinnedAsShown
    BY <2>2 DEF PinnedAsShown
  <2>3. CASE Click
    <3>1. rustVars' = rustVars
      BY <2>3 DEF Click, ClickSync, ClickLogin, ClickInstall, ClickPreview, ClickLegacyRefresh,
          ClickToggle,
                  ClickRemove, ClickSearch, ClickAdd, ConfirmPermissions, CancelDialog,
                      ClickUninstall,
                  ClickImport, Leave, InstallFrom, Send
    <3> QED
      BY <2>1, <2>2, <3>1 DEF rustVars
  <2>4. ASSUME NEW c \in calls, Serve(c) PROVE GrownAsShown /\ PinnedAsShown
    <3>1. GrownAsShown
      <4>1. CASE granted' \ granted # {}
        BY <2>4, <4>1, PermissionsGrowAsShown
      <4>2. CASE granted' \ granted = {}
        BY <4>2 DEF GrownAsShown
      <4> QED
        BY <4>1, <4>2
    <3>2. PinnedAsShown
      BY <2>2, <2>4, KeysPinnedAsShown
    <3> QED
      BY <3>1, <3>2
  <2>5. ASSUME NEW c \in calls, Answer(c) PROVE GrownAsShown /\ PinnedAsShown
    BY <2>1, <2>2, <2>5 DEF Answer, rustVars
  <2>6. ASSUME NEW s \in TrpSources, PublishVersion(s) \/ ReplaceKey(s) PROVE GrownAsShown
        /\ PinnedAsShown
    BY <2>1, <2>2, <2>6 DEF PublishVersion, ReplaceKey
  <2>7. CASE DownloadsNext
    BY <2>1, <2>2, <2>7 DEF DownloadsNext, DownloadMoves, CancelDownload, ReadList, ShowList,
        ApplyEvent, rustVars
  <2> QED
    BY <2>3, <2>4, <2>5, <2>6, <2>7 DEF CentreNext
<1> QED
  BY <1>1, <1>2, <1>3, <1>4, PTL DEF CentreSpec, SourceCenterSafe

-----------------------------------------------------------------------------
(***************************************************************************)
(* The keys of the update root.  The key of every member of a role is in a *)
(* file no command that is yet to come writes over, or will be in one when *)
(* the command under way has made its last write.                          *)
(***************************************************************************)

(* The files beside root.json.                                              *)
ReleaseFile == <<"release">>
RoleFile(role, k) == <<role, k>>
TrustFiles == {RootFile(v, n) : v \in Nat, n \in Nat} \union {ReleaseFile}
              \union {RoleFile(role, k) : role \in TrustRoles, k \in Nat}

(* A file no rotation that is yet to come writes over.                      *)
SafeName(name, version) ==
    \/ name = ReleaseFile
    \/ \E v \in 1..version, n \in Nat : name = RootFile(v, n)
    \/ \E role \in TrustRoles, k \in 1..Len(keysMade) : name = RoleFile(role, k)

(* A root has its fields.                                                   *)
RootShape(r) ==
    /\ r = [environment |-> r.environment, version |-> r.version, threshold |-> r.threshold,
            keyids |-> r.keyids,
            keys |-> r.keys, revoked |-> r.revoked, signatures |-> r.signatures]
    /\ r.environment \in Environments
    /\ r.version \in Nat \ {0}
    /\ r.keyids \in [TrustRoles -> SUBSET Nat]
    /\ IsFiniteSet(r.keyids["root"])

(* A command under way, and the files it has yet to write over.             *)
Writing == trustCommand # AtRest
PendingNames == {trustCommand.writes[i][1] : i \in DOMAIN trustCommand.writes}
Overwritten == IF Writing THEN PendingNames ELSE {}

(* The private key is in a file that stays, or is yet to be written.        *)
KeptFor(k, version) ==
    \E name \in DOMAIN keyFiles : keyFiles[name] = k /\ name \notin Overwritten
          /\ SafeName(name, version)
ToBeWritten(k, version) ==
    \E i \in DOMAIN trustCommand.writes :
        trustCommand.writes[i][2] = k /\ SafeName(trustCommand.writes[i][1], version)

(* Records have their fields; a command writes no file twice.               *)
TrustShape ==
    /\ keysMade \in Seq(Environments)
    /\ trustRoot # NoTrustRoot => RootShape(trustRoot)
    /\ Writing => /\ trustCommand = [is |-> trustCommand.is, writes |-> trustCommand.writes,
                                     root |-> trustCommand.root]
                  /\ RootShape(trustCommand.root)
                  /\ trustCommand.writes \in Seq(TrustFiles \X Nat)
                  /\ \A i, j \in DOMAIN trustCommand.writes :
                        trustCommand.writes[i][1] = trustCommand.writes[j][1] => i = j

(* While a command is under way the keys of the root on the disk are kept,  *)
(* except by init-root.                                                     *)
OldKeysKept ==
    trustRoot # NoTrustRoot /\ ~keysTorn /\ (Writing => trustCommand.is # "init-root") =>
        \A role \in TrustRoles : \A k \in trustRoot.keyids[role] : KeptFor(k, trustRoot.version)

(* The keys of the root a command is about to write are kept or will be     *)
(* written.                                                                 *)
NewKeysKept ==
    Writing /\ (keysTorn => trustCommand.is = "init-root") =>
        \A role \in TrustRoles : \A k \in trustCommand.root.keyids[role] :
            ToBeWritten(k, trustCommand.root.version) \/ KeptFor(k, trustCommand.root.version)

(* The invariant of the keys.                                               *)
TrustInv == TrustShape /\ OldKeysKept /\ NewKeysKept

(* The names of key files differ as their parts do.                         *)
LEMMA FileNames ==
    /\ \A v, n, w, m : RootFile(v, n) = RootFile(w, m) <=> v = w /\ n = m
    /\ \A v, n : RootFile(v, n) # ReleaseFile
    /\ \A v, n, role, k : RootFile(v, n) # RoleFile(role, k)
    /\ \A role, k : RoleFile(role, k) # ReleaseFile
    /\ \A role, k, r, m : RoleFile(role, k) = RoleFile(r, m) <=> role = r /\ k = m
  BY DEF RootFile, RoleFile, ReleaseFile

(* Before the first command there are no keys.                              *)
LEMMA TrustStarts == TrustInit => TrustInv
  BY DEF TrustInit, TrustInv, TrustShape, OldKeysKept, NewKeysKept, Writing, AtRest

(* A function on 1..m is a sequence of length m.                            *)
LEMMA TuplesAreSequences ==
    ASSUME NEW S, NEW m \in Nat, NEW f \in [1..m -> S]
    PROVE  f \in Seq(S) /\ Len(f) = m /\ DOMAIN f = 1..m
  OBVIOUS

(* A file that is safe stays safe as keys and versions are made.            *)
LEMMA SafeNamesStay ==
    ASSUME Len(keysMade) \in Nat, Len(keysMade)' \in Nat, Len(keysMade) <= Len(keysMade)',
           NEW v \in Nat, NEW w \in Nat, v <= w, NEW name, SafeName(name, v)
    PROVE  SafeName(name, w)'
  BY DEF SafeName

(* A command begins: what it will write are new files, or it is init-root;  *)
(* a key of its root is an old one or will be written.                      *)
LEMMA CommandBegins ==
    ASSUME TrustInv, NEW what, NEW environment \in Environments,
    NEW writes \in Seq(TrustFiles \X Nat), NEW root,
           Begin(what, environment, writes, root), what # "none", RootShape(root),
           \A i, j \in DOMAIN writes : writes[i][1] = writes[j][1] => i = j,
           \A i \in DOMAIN writes : SafeName(writes[i][1], root.version)',
           what = "init-root" =>
             \A role \in TrustRoles : \A k \in root.keyids[role] :
                \E i \in DOMAIN writes : writes[i][2] = k,
           what # "init-root" =>
             /\ trustRoot # NoTrustRoot /\ trustRoot.version <= root.version
             /\ \A i \in DOMAIN writes : ~SafeName(writes[i][1], trustRoot.version)
             /\ \A role \in TrustRoles : \A k \in root.keyids[role] :
                   k \in trustRoot.keyids[role] \/ \E i \in DOMAIN writes : writes[i][2] = k
    PROVE  TrustInv'
<1>1. /\ keysMade' = keysMade \o [n \in 1..Len(writes) |-> environment]
      /\ keysMade \in Seq(Environments)
      /\ Len(writes) \in Nat /\ trustCommand = AtRest
      /\ UNCHANGED <<trustRoot, keyFiles, keysTorn>>
  BY DEF Begin, TrustInv, TrustShape
<1>2. keysMade' \in Seq(Environments) /\ Len(keysMade') = Len(keysMade) + Len(writes)
      /\ Len(keysMade) \in Nat
  <2>1. PICK more : more = [n \in 1..Len(writes) |-> environment]
    OBVIOUS
  <2>2. more \in Seq(Environments) /\ Len(more) = Len(writes)
    BY <1>1, <2>1, TuplesAreSequences
  <2> QED
    BY <1>1, <2>1, <2>2, ConcatProperties
<1>3. /\ trustCommand' = [is |-> what, writes |-> writes, root |-> root]
      /\ trustCommand'.is = what /\ trustCommand'.writes = writes /\ trustCommand'.root = root
      /\ Writing'
  BY DEF Begin, Writing, AtRest
<1>4. TrustShape'
  BY <1>1, <1>2, <1>3 DEF TrustInv, TrustShape
<1>5. ASSUME what # "init-root", NEW k, NEW w \in Nat, KeptFor(k, trustRoot.version),
      trustRoot.version <= w
      PROVE  KeptFor(k, w)'
  <2>1. PICK name \in DOMAIN keyFiles : keyFiles[name] = k /\ SafeName(name, trustRoot.version)
    BY <1>5 DEF KeptFor
  <2>2. name \notin Overwritten'
    BY <1>3, <1>5, <2>1 DEF Overwritten, PendingNames
  <2>3. trustRoot.version \in Nat
    BY <1>5 DEF TrustInv, TrustShape, RootShape
  <2>4. SafeName(name, w)'
    BY <1>2, <1>5, <2>1, <2>3, SafeNamesStay
  <2> QED
    BY <1>1, <2>1, <2>2, <2>4 DEF KeptFor
<1>6. what # "init-root" /\ ~keysTorn =>
        \A role \in TrustRoles : \A k \in trustRoot.keyids[role] : KeptFor(k, trustRoot.version)
  BY <1>1 DEF TrustInv, OldKeysKept, Writing
<1>7. OldKeysKept'
  <2>1. what # "init-root" => trustRoot.version \in Nat /\ trustRoot.version <= trustRoot.version
    BY DEF TrustInv, TrustShape, RootShape
  <2> QED
    BY <1>1, <1>3, <1>5, <1>6, <2>1 DEF OldKeysKept
<1>8. NewKeysKept'
  <2>1. root.version \in Nat /\ root.keyids \in [TrustRoles -> SUBSET Nat]
    BY DEF RootShape
  <2>2. ASSUME NEW k, NEW i \in DOMAIN writes, writes[i][2] = k PROVE ToBeWritten(k, root.version)'
    BY <1>3, <2>2 DEF ToBeWritten
  <2>3. ASSUME keysTorn => what = "init-root", NEW role \in TrustRoles, NEW k \in root.keyids[role]
        PROVE  ToBeWritten(k, root.version)' \/ KeptFor(k, root.version)'
    <3>1. CASE what = "init-root"
      BY <2>2, <2>3, <3>1
    <3>2. CASE what # "init-root"
      BY <1>5, <1>6, <2>1, <2>2, <2>3, <3>2
    <3> QED
      BY <3>1, <3>2
  <2> QED
    BY <1>1, <1>3, <2>3 DEF NewKeysKept
<1> QED
  BY <1>4, <1>7, <1>8 DEF TrustInv

(* The keys of a command are the numbers after the last key made.           *)
LEMMA FreshKeysAreAnInterval ==
    ASSUME Len(keysMade) \in Nat, NEW count \in Nat
    PROVE  /\ FreshKeys(count) = (Len(keysMade) + 1)..(Len(keysMade) + count)
           /\ FreshKeys(count) \subseteq Nat /\ IsFiniteSet(FreshKeys(count))
<1>1. FreshKeys(count) = (Len(keysMade) + 1)..(Len(keysMade) + count)
  <2>1. ASSUME NEW x \in (Len(keysMade) + 1)..(Len(keysMade) + count) PROVE x \in FreshKeys(count)
    <3>1. x - Len(keysMade) \in 1..count /\ x = Len(keysMade) + (x - Len(keysMade))
      OBVIOUS
    <3> QED
      BY <3>1 DEF FreshKeys
  <2>2. ASSUME NEW x \in FreshKeys(count) PROVE x \in (Len(keysMade) + 1)..(Len(keysMade) + count)
    BY DEF FreshKeys
  <2> QED
    BY <2>1, <2>2
<1> QED
  BY <1>1, FS_Interval

(* What the invariant says of the root on the disk.                         *)
LEMMA AtRestFacts ==
    ASSUME TrustInv
    PROVE  /\ keysMade \in Seq(Environments) /\ Len(keysMade) \in Nat
           /\ trustRoot # NoTrustRoot => RootShape(trustRoot)
  BY DEF TrustInv, TrustShape

(* A command that begins makes as many keys as it writes.                   *)
LEMMA MadeLonger ==
    ASSUME TrustInv, NEW what, NEW environment \in Environments, NEW writes, NEW root,
           Begin(what, environment, writes, root), Len(writes) \in Nat
    PROVE  Len(keysMade)' = Len(keysMade) + Len(writes)
<1>1. PICK more : more = [n \in 1..Len(writes) |-> environment]
  OBVIOUS
<1>2. more \in Seq(Environments) /\ Len(more) = Len(writes)
  BY <1>1, TuplesAreSequences
<1> QED
  BY <1>1, <1>2, AtRestFacts, ConcatProperties DEF Begin

(* init-root: every key of its root is written.                             *)
LEMMA RootMade ==
    ASSUME TrustInv, NEW environment \in Environments, NEW threshold, NEW acknowledged,
           KeyInitRoot(environment, threshold, acknowledged)
    PROVE  TrustInv'
<1> DEFINE made == Fresh(RootCount + 1)
           releaseKey == made[RootCount + 1]
           file(n) == IF n <= RootCount THEN RootFile(1, n) ELSE <<"release">>
<1>1. PICK writes : writes = [n \in 1..(RootCount + 1) |-> <<file(n), made[n]>>]
  OBVIOUS
<1>2. PICK root : root = [environment |-> environment, version |-> 1, threshold |-> threshold,
          keyids |-> [r \in TrustRoles |-> IF r = "root" THEN {made[n] : n \in 1..RootCount}
                      ELSE {releaseKey}],
          keys |-> [k \in FreshKeys(RootCount + 1) |->
                      IF k = releaseKey THEN "release" ELSE "root"],
          revoked |-> {}, signatures |-> <<>>]
  OBVIOUS
<1>3. Begin("init-root", environment, writes, root)
  BY <1>1, <1>2, Zenon DEF KeyInitRoot
<1>4. RootCount \in Nat \ {0} /\ RootCount + 1 \in Nat /\ keysMade \in Seq(Environments)
      /\ Len(keysMade) \in Nat
  BY TrustAssumption, AtRestFacts
<1>5. \A n \in 1..(RootCount + 1) : made[n] = Len(keysMade) + n /\ made[n] \in Nat
  BY <1>4 DEF Fresh
<1>6. \A n \in 1..(RootCount + 1) : file(n) \in TrustFiles
  BY <1>4 DEF TrustFiles, ReleaseFile
<1> HIDE DEF made, releaseKey, file
<1>7. /\ writes \in Seq(TrustFiles \X Nat) /\ Len(writes) = RootCount + 1
      /\ DOMAIN writes = 1..(RootCount + 1)
      /\ \A n \in 1..(RootCount + 1) : writes[n] = <<file(n), made[n]>>
  <2>1. writes \in [1..(RootCount + 1) -> TrustFiles \X Nat]
    BY <1>1, <1>5, <1>6
  <2> QED
    BY <1>1, <1>4, <2>1, TuplesAreSequences
<1>8. RootShape(root)
  <2>1. {made[n] : n \in 1..RootCount} = FreshKeys(RootCount)
    <3>1. \A n \in 1..RootCount : made[n] = Len(keysMade) + n
      BY <1>4, <1>5
    <3> QED
      BY <3>1, Zenon DEF FreshKeys
  <2>2. IsFiniteSet(FreshKeys(RootCount)) /\ FreshKeys(RootCount) \subseteq Nat
    BY <1>4, FreshKeysAreAnInterval
  <2>3. releaseKey \in Nat
    BY <1>4, <1>5 DEF releaseKey
  <2>4. /\ root.keyids = [r \in TrustRoles |-> IF r = "root" THEN FreshKeys(RootCount)
                          ELSE {releaseKey}]
        /\ root.version = 1 /\ root.environment = environment
        /\ root = [environment |-> root.environment, version |-> root.version,
                   threshold |-> root.threshold,
                   keyids |-> root.keyids, keys |-> root.keys, revoked |-> root.revoked,
                   signatures |-> root.signatures]
    BY <1>2, <2>1
  <2>5. root.keyids \in [TrustRoles -> SUBSET Nat] /\ IsFiniteSet(root.keyids["root"])
    BY <2>2, <2>3, <2>4 DEF TrustRoles
  <2> QED
    BY <2>4, <2>5 DEF RootShape
<1>9. \A i, j \in DOMAIN writes : writes[i][1] = writes[j][1] => i = j
  <2>1. \A i, j \in 1..(RootCount + 1) : file(i) = file(j) => i = j
    BY <1>4, FileNames DEF file, ReleaseFile
  <2> QED
    BY <1>7, <2>1
<1>10. \A i \in DOMAIN writes : SafeName(writes[i][1], root.version)'
  <2>1. root.version = 1
    BY <1>2
  <2>2. \A i \in 1..(RootCount + 1) : \/ writes[i][1] = ReleaseFile
                                      \/ i \in Nat /\ writes[i][1] = RootFile(1, i)
    BY <1>4, <1>7 DEF file, ReleaseFile
  <2>3. SafeName(ReleaseFile, 1)'
    BY DEF SafeName
  <2>4. \A i \in Nat : SafeName(RootFile(1, i), 1)'
    BY DEF SafeName
  <2> QED
    BY <1>7, <2>1, <2>2, <2>3, <2>4
<1>11. \A role \in TrustRoles : \A k \in root.keyids[role] :
          \E i \in DOMAIN writes : writes[i][2] = k
  <2>1. ASSUME NEW role \in TrustRoles, NEW k \in root.keyids[role]
        PROVE \E i \in 1..(RootCount + 1) : made[i] = k
    BY <1>2, <1>4, <2>1 DEF releaseKey
  <2>2. ASSUME NEW i \in 1..(RootCount + 1) PROVE i \in DOMAIN writes /\ writes[i][2] = made[i]
    BY <1>7
  <2> QED
    BY <2>1, <2>2
<1> QED
  BY <1>3, <1>7, <1>8, <1>9, <1>10, <1>11, CommandBegins

(* generate-role: the new key has a file named for it.                      *)
LEMMA RoleKeyMade ==
    ASSUME TrustInv, NEW role \in TrustRoles, KeyGenerateRole(role)
    PROVE  TrustInv'
<1> DEFINE k == Len(keysMade) + 1
<1>1. PICK writes, root : writes = << <<<<role, k>>, k>> >> /\ root = WithRole(trustRoot, role, k)
  OBVIOUS
<1>2. trustRoot # NoTrustRoot /\ Begin("generate-role", trustRoot.environment, writes, root)
  BY <1>1 DEF KeyGenerateRole
<1>3. RootShape(trustRoot) /\ Len(keysMade) \in Nat /\ k \in Nat
  BY <1>2, AtRestFacts
<1>4. /\ writes \in Seq(TrustFiles \X Nat) /\ Len(writes) = 1 /\ DOMAIN writes = {1}
      /\ writes[1][1] = RoleFile(role, k) /\ writes[1][2] = k
  <2>1. <<role, k>> \in TrustFiles
    BY <1>3 DEF TrustFiles, RoleFile
  <2>2. writes = <<<<RoleFile(role, k), k>>>> /\ RoleFile(role, k) \in TrustFiles
    BY <1>1, <2>1 DEF RoleFile
  <2> QED
    BY <1>3, <2>2
<1>5. /\ RootShape(root) /\ root.version = trustRoot.version
      /\ \A r \in TrustRoles : \A x \in root.keyids[r] : x \in trustRoot.keyids[r] \/ x = k
  <2>1. PICK keyids, old : keyids = [old EXCEPT ![role] = @ \union {k}] /\ old = trustRoot.keyids
    OBVIOUS
  <2>2. root.keyids = keyids /\ root.version = trustRoot.version
        /\ root.environment = trustRoot.environment
        /\ root = [environment |-> root.environment, version |-> root.version,
                   threshold |-> root.threshold,
                   keyids |-> root.keyids, keys |-> root.keys, revoked |-> root.revoked,
                   signatures |-> root.signatures]
    BY <1>1, <1>3, <2>1 DEF RootShape, WithRole
  <2>3. old \in [TrustRoles -> SUBSET Nat] /\ IsFiniteSet(old["root"])
    BY <1>3, <2>1 DEF RootShape
  <2>4. keyids \in [TrustRoles -> SUBSET Nat]
        /\ \A r \in TrustRoles : keyids[r] = IF r = role THEN old[r] \union {k} ELSE old[r]
    BY <1>3, <2>1, <2>3
  <2>5. IsFiniteSet(keyids["root"])
    <3>1. IsFiniteSet(old["root"] \union {k})
      BY <2>3, FS_AddElement
    <3>2. keyids["root"] = old["root"] \/ keyids["root"] = old["root"] \union {k}
      BY <2>4 DEF TrustRoles
    <3> QED
      BY <2>3, <3>1, <3>2
  <2> QED
    BY <1>3, <2>1, <2>2, <2>4, <2>5 DEF RootShape
<1>6. Len(keysMade)' = k
  <2>1. PICK environment : environment = trustRoot.environment /\ environment \in Environments
    BY <1>3 DEF RootShape
  <2>2. Begin("generate-role", environment, writes, root)
    BY <1>2, <2>1
  <2>3. Len(keysMade)' = Len(keysMade) + Len(writes)
    <3>1. Len(writes) \in Nat
      BY <1>4
    <3> QED
      BY <2>1, <2>2, <3>1, MadeLonger, Zenon
  <2> QED
    BY <1>4, <2>3
<1>7. \A i \in DOMAIN writes : SafeName(writes[i][1], root.version)'
  BY <1>3, <1>4, <1>6 DEF SafeName
<1>8. \A i \in DOMAIN writes : ~SafeName(writes[i][1], trustRoot.version)
  BY <1>3, <1>4, FileNames DEF SafeName
<1>9. trustRoot.environment \in Environments /\ trustRoot.version <= root.version
  BY <1>3, <1>5 DEF RootShape
<1>10. \A r \in TrustRoles : \A x \in root.keyids[r] :
          x \in trustRoot.keyids[r] \/ \E i \in DOMAIN writes : writes[i][2] = x
  BY <1>4, <1>5
<1>11. \A i, j \in DOMAIN writes : writes[i][1] = writes[j][1] => i = j
  BY <1>4
<1> HIDE DEF k
<1> QED
  BY <1>2, <1>4, <1>5, <1>7, <1>8, <1>9, <1>10, <1>11, CommandBegins

(* A command may write no key.                                              *)
LEMMA NothingWritten ==
    <<>> \in Seq(TrustFiles \X Nat) /\ DOMAIN <<>> = {}
  OBVIOUS

(* sign-root changes no key.                                                *)
LEMMA RootSigned ==
    ASSUME TrustInv, NEW k, KeySignRoot(k)
    PROVE  TrustInv'
<1>1. PICK root : root = SignedBy(trustRoot, k, RootSignedPortion(trustRoot))
  OBVIOUS
<1>2. trustRoot # NoTrustRoot /\ RootShape(trustRoot)
      /\ Begin("sign-root", trustRoot.environment, <<>>, root)
  BY <1>1, AtRestFacts DEF KeySignRoot
<1>3. PICK signatures : root = [trustRoot EXCEPT !.signatures = signatures]
  BY <1>1 DEF SignedBy
<1>4. RootShape(root) /\ root.version = trustRoot.version /\ root.keyids = trustRoot.keyids
  BY <1>2, <1>3 DEF RootShape
<1>5. trustRoot.environment \in Environments /\ trustRoot.version <= root.version
  BY <1>2, <1>4 DEF RootShape
<1> QED
  BY <1>2, <1>4, <1>5, NothingWritten, CommandBegins

(* revoke takes keys away.                                                  *)
LEMMA KeyRevoked ==
    ASSUME TrustInv, NEW k, KeyRevoke(k)
    PROVE  TrustInv'
<1>1. PICK root : root = [trustRoot EXCEPT !.revoked = @ \union {k},
                           !.keyids = [r \in TrustRoles |-> @[r] \ {k}], !.signatures = <<>>]
  OBVIOUS
<1>2. trustRoot # NoTrustRoot /\ RootShape(trustRoot)
      /\ Begin("revoke", trustRoot.environment, <<>>, root)
  BY <1>1, AtRestFacts DEF KeyRevoke
<1>3. PICK keyids : keyids = [r \in TrustRoles |-> trustRoot.keyids[r] \ {k}]
  OBVIOUS
<1>4. PICK old : old = trustRoot.keyids /\ old \in [TrustRoles -> SUBSET Nat]
      /\ IsFiniteSet(old["root"])
  BY <1>2 DEF RootShape
<1>5. /\ keyids \in [TrustRoles -> SUBSET Nat] /\ IsFiniteSet(keyids["root"])
      /\ \A r \in TrustRoles : keyids[r] \subseteq old[r]
  <2>1. IsFiniteSet(old["root"] \ {k})
    BY <1>4, FS_RemoveElement
  <2>2. keyids["root"] = old["root"] \ {k}
    BY <1>3, <1>4 DEF TrustRoles
  <2> QED
    BY <1>3, <1>4, <2>1, <2>2
<1>6. root = [trustRoot EXCEPT !.revoked = @ \union {k}, !.keyids = keyids, !.signatures = <<>>]
  BY <1>1, <1>2, <1>3 DEF RootShape
<1>7. RootShape(root) /\ root.version = trustRoot.version /\ root.keyids = keyids
  BY <1>2, <1>5, <1>6 DEF RootShape
<1>8. trustRoot.environment \in Environments /\ trustRoot.version <= root.version
  BY <1>2, <1>7 DEF RootShape
<1>9. \A r \in TrustRoles : \A x \in root.keyids[r] : x \in trustRoot.keyids[r]
  BY <1>4, <1>5, <1>7
<1> QED
  BY <1>2, <1>7, <1>8, <1>9, NothingWritten, CommandBegins

(* rotate-root: the files are named for a version no root has had.          *)
LEMMA RootRotated ==
    ASSUME TrustInv, KeyRotateRoot
    PROVE  TrustInv'
<1>1. trustRoot # NoTrustRoot /\ RootShape(trustRoot) /\ Len(keysMade) \in Nat
  BY AtRestFacts DEF KeyRotateRoot
<1>2. PICK count : count = Cardinality(trustRoot.keyids["root"]) /\ count \in Nat
  BY <1>1, FS_CardinalityType DEF RootShape
<1> DEFINE made == Fresh(count)
<1>3. PICK writes : writes = [n \in DOMAIN made |-> <<RotatedFile(trustRoot, n), made[n]>>]
  OBVIOUS
<1>4. PICK root : root = [trustRoot EXCEPT
          !.keys = [x \in DOMAIN @ \union FreshKeys(count) |-> IF x \in FreshKeys(count)
                    THEN "root" ELSE @[x]],
          !.revoked = @ \union trustRoot.keyids["root"], !.keyids["root"] = FreshKeys(count),
          !.version = @ + 1, !.signatures = <<>>]
  OBVIOUS
<1>5. Begin("rotate-root", trustRoot.environment, writes, root)
  BY <1>2, <1>3, <1>4, Zenon DEF KeyRotateRoot
<1>6. DOMAIN made = 1..count /\ \A n \in 1..count : made[n] = Len(keysMade) + n /\ made[n] \in Nat
  BY <1>1, <1>2 DEF Fresh
<1>7. trustRoot.version \in Nat /\ trustRoot.version + 1 \in Nat
      /\ trustRoot.environment \in Environments
  BY <1>1 DEF RootShape
<1> HIDE DEF made
<1>8. /\ writes \in Seq(TrustFiles \X Nat) /\ Len(writes) = count /\ DOMAIN writes = 1..count
      /\ \A n \in 1..count : writes[n][1] = RootFile(trustRoot.version + 1, n)
           /\ writes[n][2] = made[n]
  <2>1. \A n \in 1..count : RotatedFile(trustRoot, n) = RootFile(trustRoot.version + 1, n)
                           /\ RootFile(trustRoot.version + 1, n) \in TrustFiles
    BY <1>2, <1>7 DEF RotatedFile, TrustFiles
  <2>2. writes \in [1..count -> TrustFiles \X Nat]
    BY <1>3, <1>6, <2>1
  <2>3. \A n \in 1..count : writes[n] = <<RotatedFile(trustRoot, n), made[n]>>
    BY <1>3, <1>6
  <2>4. writes \in Seq(TrustFiles \X Nat) /\ Len(writes) = count /\ DOMAIN writes = 1..count
    BY <1>2, <2>2, TuplesAreSequences, Zenon
  <2>5. ASSUME NEW n \in 1..count
        PROVE  writes[n][1] = RootFile(trustRoot.version + 1, n) /\ writes[n][2] = made[n]
    BY <2>1, <2>3
  <2> QED
    BY <2>4, <2>5
<1>9. FreshKeys(count) \subseteq Nat /\ IsFiniteSet(FreshKeys(count))
  BY <1>1, <1>2, FreshKeysAreAnInterval
<1>10. PICK keyids, old : old = trustRoot.keyids
      /\ keyids = [old EXCEPT !["root"] = FreshKeys(count)]
  OBVIOUS
<1>11. /\ keyids \in [TrustRoles -> SUBSET Nat] /\ IsFiniteSet(keyids["root"])
       /\ keyids["root"] = FreshKeys(count) /\ keyids["release"] = old["release"]
  BY <1>1, <1>9, <1>10 DEF RootShape, TrustRoles
<1>12. RootShape(root) /\ root.version = trustRoot.version + 1 /\ root.keyids = keyids
  <2>1. /\ root.keyids = keyids /\ root.version = trustRoot.version + 1
        /\ root.environment = trustRoot.environment
        /\ root = [environment |-> root.environment, version |-> root.version,
                   threshold |-> root.threshold,
                   keyids |-> root.keyids, keys |-> root.keys, revoked |-> root.revoked,
                   signatures |-> root.signatures]
    BY <1>1, <1>4, <1>10 DEF RootShape
  <2> QED
    BY <1>7, <1>11, <2>1 DEF RootShape
<1>13. \A i, j \in DOMAIN writes : writes[i][1] = writes[j][1] => i = j
  BY <1>8, FileNames
<1>14. \A i \in DOMAIN writes : SafeName(writes[i][1], root.version)'
  <2>1. PICK version : version = trustRoot.version + 1
    OBVIOUS
  <2>2. version \in 1..version
    BY <1>7, <2>1
  <2>3. ASSUME NEW n \in 1..count PROVE SafeName(RootFile(version, n), version)'
    BY <1>2, <2>2, <2>3 DEF SafeName
  <2> QED
    BY <1>8, <1>12, <2>1, <2>3
<1>15. \A i \in DOMAIN writes : ~SafeName(writes[i][1], trustRoot.version)
  <2>1. PICK version : version = trustRoot.version /\ version \in Nat
    BY <1>7
  <2>2. \A n : ~SafeName(RootFile(version + 1, n), version)
    BY <2>1, FileNames DEF SafeName
  <2> QED
    BY <1>8, <2>1, <2>2
<1>16. \A r \in TrustRoles : \A x \in root.keyids[r] :
          x \in trustRoot.keyids[r] \/ \E i \in DOMAIN writes : writes[i][2] = x
  <2>1. ASSUME NEW x \in FreshKeys(count) PROVE \E i \in DOMAIN writes : writes[i][2] = x
    BY <1>6, <1>8, <2>1 DEF FreshKeys
  <2> QED
    BY <1>10, <1>11, <1>12, <2>1 DEF TrustRoles
<1>17. trustRoot.version <= root.version
  BY <1>7, <1>12
<1> QED
  BY <1>1, <1>5, <1>7, <1>8, <1>12, <1>13, <1>14, <1>15, <1>16, <1>17, CommandBegins

(* A private key is written to a file of its own.                           *)
LEMMA KeyWritten ==
    ASSUME TrustInv, WritePrivateKey
    PROVE  TrustInv'
<1>1. PICK writes, root, is, w :
        /\ writes = trustCommand.writes /\ root = trustCommand.root /\ is = trustCommand.is
        /\ w = Head(writes)
  OBVIOUS
<1>2. /\ Writing /\ writes # <<>> /\ trustCommand = [is |-> is, writes |-> writes, root |-> root]
      /\ RootShape(root) /\ writes \in Seq(TrustFiles \X Nat)
      /\ \A i, j \in DOMAIN writes : writes[i][1] = writes[j][1] => i = j
  BY <1>1 DEF TrustInv, TrustShape, WritePrivateKey, Writing
<1>3. /\ keyFiles' = [x \in DOMAIN keyFiles \union {w[1]} |-> IF x = w[1] THEN w[2]
                      ELSE keyFiles[x]]
      /\ trustCommand' = [trustCommand EXCEPT !.writes = Tail(@)]
      /\ UNCHANGED <<trustRoot, keysMade, keysTorn>>
  BY <1>1 DEF WritePrivateKey
<1>4. PICK rest : rest = Tail(writes)
  OBVIOUS
<1>5. /\ rest \in Seq(TrustFiles \X Nat) /\ Len(writes) \in Nat \ {0} /\ Len(rest) = Len(writes) - 1
      /\ DOMAIN rest = 1..(Len(writes) - 1) /\ DOMAIN writes = 1..Len(writes)
      /\ \A i \in DOMAIN rest : rest[i] = writes[i + 1] /\ w = writes[1]
  BY <1>1, <1>2, <1>4
<1>6. w = writes[1]
  BY <1>1, <1>2
<1>7. /\ trustCommand' = [is |-> is, writes |-> rest, root |-> root]
      /\ trustCommand'.is = is /\ trustCommand'.writes = rest /\ trustCommand'.root = root
      /\ Writing'
  <2>1. is # "none" \/ TRUE
    OBVIOUS
  <2>2. trustCommand' = [is |-> is, writes |-> rest, root |-> root]
    BY <1>1, <1>2, <1>3, <1>4
  <2>3. [is |-> is, writes |-> rest, root |-> root] # [is |-> "none"]
    OBVIOUS
  <2> QED
    BY <2>2, <2>3 DEF Writing, AtRest
<1>5a. 1 \in DOMAIN writes
  BY <1>5
<1>5b. ASSUME NEW i \in DOMAIN rest
       PROVE  i \in Nat \ {0} /\ i + 1 \in DOMAIN writes /\ i + 1 # 1 /\ rest[i] = writes[i + 1]
  <2>1. PICK n : n = Len(writes)
    OBVIOUS
  <2>2. n \in Nat \ {0} /\ i \in 1..(n - 1) /\ DOMAIN writes = 1..n
    BY <1>5, <2>1
  <2>3. i \in Nat \ {0} /\ i + 1 \in 1..n /\ i + 1 # 1
    BY <2>2
  <2>4. rest[i] = writes[i + 1]
    BY <1>5
  <2> QED
    BY <2>2, <2>3, <2>4
<1>8. ASSUME NEW i \in DOMAIN rest, NEW j \in DOMAIN rest, rest[i][1] = rest[j][1] PROVE i = j
  <2>1. /\ i \in Nat \ {0} /\ j \in Nat \ {0}
        /\ i + 1 \in DOMAIN writes /\ j + 1 \in DOMAIN writes
        /\ writes[i + 1][1] = writes[j + 1][1]
    BY <1>5b, <1>8
  <2>2. i + 1 = j + 1
    BY <1>2, <2>1
  <2> QED
    BY <2>1, <2>2
<1>9. TrustShape'
  BY <1>2, <1>3, <1>5, <1>7, <1>8 DEF TrustInv, TrustShape
<1>10. Overwritten = {writes[i][1] : i \in DOMAIN writes}
      /\ Overwritten' = {rest[i][1] : i \in DOMAIN rest}
  BY <1>1, <1>2, <1>7 DEF Overwritten, PendingNames
<1>11. Overwritten' \subseteq Overwritten /\ w[1] \in Overwritten /\ w[1] \notin Overwritten'
  <2>1. ASSUME NEW i \in DOMAIN rest
        PROVE  i + 1 \in DOMAIN writes /\ rest[i][1] = writes[i + 1][1] /\ rest[i][1] # w[1]
    <3>1. i + 1 \in DOMAIN writes /\ i + 1 # 1 /\ rest[i] = writes[i + 1]
      BY <1>5b
    <3>2. writes[i + 1][1] # writes[1][1]
      BY <1>2, <1>5a, <3>1
    <3> QED
      BY <1>6, <3>1, <3>2
  <2> QED
    BY <1>5a, <1>6, <1>10, <2>1
<1>12. \A name, version : SafeName(name, version) => SafeName(name, version)'
  BY <1>3 DEF SafeName
<1>13. ASSUME NEW k, NEW version, KeptFor(k, version) PROVE KeptFor(k, version)'
  <2>1. PICK name \in DOMAIN keyFiles : keyFiles[name] = k /\ name \notin Overwritten
        /\ SafeName(name, version)
    BY <1>13 DEF KeptFor
  <2>2. name \in DOMAIN keyFiles' /\ keyFiles'[name] = k
    BY <1>3, <1>11, <2>1
  <2> QED
    BY <1>11, <1>12, <2>1, <2>2 DEF KeptFor
<1>14. ASSUME NEW k, NEW version, ToBeWritten(k, version) PROVE ToBeWritten(k, version)'
      \/ KeptFor(k, version)'
  <2>1. PICK i \in DOMAIN writes : writes[i][2] = k /\ SafeName(writes[i][1], version)
    BY <1>1, <1>14 DEF ToBeWritten
  <2>2. CASE i = 1
    <3>1. w[1] \in DOMAIN keyFiles' /\ keyFiles'[w[1]] = k
      BY <1>3, <1>6, <2>1, <2>2
    <3> QED
      BY <1>6, <1>11, <1>12, <2>1, <2>2, <3>1 DEF KeptFor
  <2>3. CASE i # 1
    <3>1. i - 1 \in DOMAIN rest /\ rest[i - 1] = writes[i]
      <4>1. PICK n : n = Len(writes)
        OBVIOUS
      <4>2. n \in Nat \ {0} /\ i \in 1..n /\ DOMAIN rest = 1..(n - 1)
        BY <1>5, <4>1
      <4>3. i - 1 \in 1..(n - 1) /\ (i - 1) + 1 = i
        BY <2>3, <4>2
      <4>4. PICK j : j = i - 1
        OBVIOUS
      <4>5. j \in DOMAIN rest /\ j + 1 = i
        BY <4>2, <4>3, <4>4
      <4>6. rest[j] = writes[j + 1]
        BY <1>5b, <4>5
      <4> QED
        BY <4>4, <4>5, <4>6
    <3> QED
      BY <1>7, <1>12, <2>1, <3>1 DEF ToBeWritten
  <2> QED
    BY <2>2, <2>3
<1>15. OldKeysKept'
  BY <1>1, <1>2, <1>3, <1>7, <1>13 DEF TrustInv, OldKeysKept
<1>16. NewKeysKept'
  BY <1>1, <1>2, <1>3, <1>7, <1>13, <1>14 DEF TrustInv, NewKeysKept
<1> QED
  BY <1>9, <1>15, <1>16 DEF TrustInv

(* When all keys are written the new root replaces the old one.             *)
LEMMA RootWritten ==
    ASSUME TrustInv, WriteRoot
    PROVE  TrustInv'
<1>1. /\ Writing /\ trustCommand.writes = <<>> /\ RootShape(trustCommand.root)
      /\ trustRoot' = trustCommand.root
      /\ keysTorn' = (keysTorn /\ trustCommand.is # "init-root") /\ trustCommand' = AtRest
      /\ UNCHANGED <<keyFiles, keysMade>> /\ ~Writing'
  BY DEF WriteRoot, TrustInv, TrustShape, Writing
<1>2. TrustShape' /\ NewKeysKept'
  BY <1>1 DEF TrustInv, TrustShape, NewKeysKept
<1>3. Overwritten' = {}
  BY <1>1 DEF Overwritten
<1>4. \A name, version : SafeName(name, version) => SafeName(name, version)'
  BY <1>1 DEF SafeName
<1>5. ASSUME NEW k, NEW version, KeptFor(k, version) PROVE KeptFor(k, version)'
  BY <1>1, <1>3, <1>4, <1>5 DEF KeptFor
<1>6. \A k, version : ~ToBeWritten(k, version)
  BY <1>1 DEF ToBeWritten
<1>7. PICK root : root = trustCommand.root
  OBVIOUS
<1>8. ~keysTorn' => \A role \in TrustRoles : \A k \in root.keyids[role] : KeptFor(k, root.version)
  BY <1>1, <1>6, <1>7 DEF TrustInv, NewKeysKept
<1>9. ~keysTorn' => \A role \in TrustRoles : \A k \in root.keyids[role] : KeptFor(k, root.version)'
  BY <1>5, <1>8
<1>10. OldKeysKept'
  BY <1>1, <1>7, <1>9 DEF OldKeysKept
<1> QED
  BY <1>2, <1>10 DEF TrustInv

(* A command that is killed leaves the old root with its keys, except init- *)
(* root over another root.                                                  *)
LEMMA CommandKilled ==
    ASSUME TrustInv, KillCommand
    PROVE  TrustInv'
<1>1. /\ Writing /\ keysTorn' = (keysTorn
                                  \/ (trustCommand.is = "init-root" /\ trustRoot # NoTrustRoot))
      /\ UNCHANGED <<trustRoot, keyFiles, keysMade>> /\ ~Writing'
  BY DEF KillCommand, Writing
<1>2. TrustShape' /\ NewKeysKept'
  BY <1>1 DEF TrustInv, TrustShape, NewKeysKept
<1>3. ASSUME NEW k, NEW version, KeptFor(k, version) PROVE KeptFor(k, version)'
  BY <1>1, <1>3 DEF KeptFor, SafeName, Overwritten
<1>4. OldKeysKept'
  BY <1>1, <1>3 DEF TrustInv, OldKeysKept
<1> QED
  BY <1>2, <1>4 DEF TrustInv

(* A step that changes neither root, keys nor command.                      *)
LEMMA TrustAsItWas ==
    ASSUME TrustInv, UNCHANGED <<trustRoot, keyFiles, trustCommand, keysMade, keysTorn>>
    PROVE  TrustInv'
<1>1. TrustShape'
  BY DEF TrustInv, TrustShape, Writing
<1>2. \A k, version : /\ KeptFor(k, version) => KeptFor(k, version)'
                      /\ ToBeWritten(k, version) => ToBeWritten(k, version)'
  BY DEF KeptFor, ToBeWritten, SafeName, Overwritten, Writing, PendingNames
<1>3. Writing' = Writing
  BY DEF Writing
<1>4. OldKeysKept' /\ NewKeysKept'
  BY <1>2, <1>3 DEF TrustInv, OldKeysKept, NewKeysKept
<1> QED
  BY <1>1, <1>4 DEF TrustInv

(* TrustInv is an invariant of the update keys, for any number of root      *)
(* keys, commands and kills.                                                *)
THEOREM TrustInvariance == TrustSpec => []TrustInv
<1>1. ASSUME TrustInv, [TrustNext]_trustVars PROVE TrustInv'
  <2>1. CASE \E environment, artifact : AppUpdateCreate(environment, artifact)
    BY <1>1, <2>1, TrustAsItWas DEF AppUpdateCreate
  <2>2. CASE \E k : AppUpdateSign(k)
    BY <1>1, <2>2, TrustAsItWas DEF AppUpdateSign
  <2>3. CASE UNCHANGED trustVars
    BY <1>1, <2>3, TrustAsItWas DEF trustVars
  <2> QED
    BY <1>1, <2>1, <2>2, <2>3, RootMade, RoleKeyMade, RootSigned, KeyRevoked, RootRotated,
        KeyWritten, RootWritten,
       CommandKilled, Zenon DEF TrustNext
<1> QED
  BY <1>1, TrustStarts, PTL DEF TrustSpec

(* Wherever a command of `useful key` is killed, the private key of every   *)
(* member of a role is on the disk, except after init-root was killed over  *)
(* another root (KeysAtHand).                                               *)
THEOREM KeysStayAtHand == TrustSpec => []KeysAtHand
<1>1. ASSUME TrustInv PROVE KeysAtHand
  BY <1>1 DEF TrustInv, OldKeysKept, KeptFor, KeysAtHand, KeysOnDisk, Writing, AtRest
<1> QED
  BY <1>1, TrustInvariance, PTL

=============================================================================
