---------------------------- MODULE MonitorPane ----------------------------
(***************************************************************************)
(* The traffic monitor of the administrator's page: the overview, the      *)
(* detail of one model, both refreshed every 30 s while their tab is       *)
(* shown.                                                                  *)
(***************************************************************************)
EXTENDS Browser

CONSTANTS
  MonitorModels, \* models with traffic
  MaxDetails,    \* bound: details asked for
  HighError, HighLatency, \* models with a high error rate, with high latency
  Foci           \* filters tried, of "all", "high_error", "high_latency", "offline"

ASSUME MonitorAssumption ==
  Nil \notin MonitorModels /\ HighError \subseteq MonitorModels /\ HighLatency \subseteq MonitorModels

VARIABLES
  offline,      \* server: models whose account is offline
  monitorTab,   \* its tab is the one shown
  pollHeld, pollStray,  \* the interval that the handle names runs; intervals without a handle
  monitorCurrentModelID, monitorTitle, \* Nil, or the model looked at; the title
  monitorView,  \* "overview" or "model"
  monitorFocusFilter,
  overviewAsked, \* the tab has been shown
  monitorLastAccounts,  \* accounts of the detail drawn last, as answered
  accountTable, \* those of them the table shows
  overviewGrid, \* models in the grid
  detailAsked, detailDrawn  \* number of the detail asked for last, drawn last

monitorVars == <<offline, monitorTab, pollHeld, pollStray, monitorCurrentModelID, monitorTitle, monitorView,
                 monitorFocusFilter, overviewAsked, monitorLastAccounts, accountTable, overviewGrid,
                 detailAsked, detailDrawn>>

NoAccounts == [of |-> Nil, off |-> FALSE]

MonitorInit ==
  /\ offline = {} /\ monitorTab = FALSE /\ pollHeld = FALSE /\ pollStray = 0
  /\ monitorCurrentModelID = Nil /\ monitorTitle = Nil /\ monitorView = "overview"
  /\ monitorFocusFilter = "all" /\ overviewAsked = FALSE /\ monitorLastAccounts = NoAccounts
  /\ accountTable = {} /\ overviewGrid = {} /\ detailAsked = 0 /\ detailDrawn = 0

\* The focus keeps a model, or an account, by its own numbers.
Focused(focus, off) ==
  CASE focus = "high_error" -> HighError
    [] focus = "high_latency" -> HighLatency
    [] focus = "offline" -> off
    [] OTHER -> MonitorModels

\* Each model has one account here, with the model's numbers.
RenderAccountTable(focus, accounts) ==
  {accounts.of} \cap Focused(focus, IF accounts.off THEN {accounts.of} ELSE {})

UnchangedPlace == UNCHANGED <<overviewAsked, monitorTab, pollHeld, pollStray, monitorCurrentModelID, monitorTitle, monitorView>>
UnchangedDetail == UNCHANGED <<monitorLastAccounts, accountTable, detailDrawn>>

\* The fetches, sent by a gesture or by the interval.  Overviews are asked for
\* without a limit from the first showing of the tab on, and an answer reads
\* nothing of the moment it was asked for: one may come at any time.
LoadMonitorOverview == Local /\ UNCHANGED detailAsked

LoadMonitorModelDetail(m) ==
  IF m = Nil THEN Local /\ UNCHANGED detailAsked
  ELSE /\ detailAsked < MaxDetails /\ detailAsked' = detailAsked + 1
       /\ Look(<<Call("detail", [model |-> m, number |-> detailAsked + 1])>>)

RenderOverviewGrid ==
  /\ overviewAsked /\ Local
  /\ overviewGrid' = Focused(monitorFocusFilter, offline)
  /\ UnchangedPlace /\ UnchangedDetail
  /\ UNCHANGED <<offline, monitorFocusFilter, detailAsked>>

\* The title is that of the model drilled into last; the answer may be another's.
DrawMonitorDetail(n) ==
  /\ Asked(n, "detail") /\ Resume(n, <<>>)
  /\ monitorLastAccounts' = [of |-> calls[n].arg.model, off |-> calls[n].arg.model \in offline]
  /\ accountTable' = RenderAccountTable(monitorFocusFilter, monitorLastAccounts')
  /\ detailDrawn' = calls[n].arg.number
  /\ UnchangedPlace /\ UNCHANGED <<offline, monitorFocusFilter, overviewGrid, detailAsked>>

MonitorFails(n) ==
  /\ Asked(n, "detail") \/ Asked(n, "account")
  /\ Resume(n, <<>>) /\ UNCHANGED monitorVars

-----------------------------------------------------------------------------
\* The tab.  Bootstrap fires "shown" for a tab that was not, "hidden" for the
\* one that was.

MonitorTabShown ==
  /\ ~monitorTab /\ LoadMonitorOverview
  /\ overviewAsked' = TRUE /\ monitorTab' = TRUE /\ pollHeld' = TRUE
  /\ pollStray' = IF pollHeld THEN pollStray + 1 ELSE pollStray
  /\ UnchangedDetail
  /\ UNCHANGED <<offline, monitorCurrentModelID, monitorTitle, monitorView, monitorFocusFilter, overviewGrid>>

\* (Mutant: the interval goes on.)
MonitorTabHiddenPolling ==
  /\ monitorTab /\ Local
  /\ monitorTab' = FALSE
  /\ UNCHANGED <<overviewAsked, pollHeld, pollStray, detailAsked>> /\ UnchangedDetail
  /\ UNCHANGED <<offline, monitorCurrentModelID, monitorTitle, monitorView, monitorFocusFilter, overviewGrid>>

MonitorTabHidden ==
  /\ monitorTab /\ Local
  /\ monitorTab' = FALSE /\ pollHeld' = FALSE
  /\ UNCHANGED <<overviewAsked, pollStray, detailAsked>> /\ UnchangedDetail
  /\ UNCHANGED <<offline, monitorCurrentModelID, monitorTitle, monitorView, monitorFocusFilter, overviewGrid>>

Reload ==
  IF monitorCurrentModelID # Nil THEN LoadMonitorModelDetail(monitorCurrentModelID) ELSE LoadMonitorOverview

\* The interval, and the refresh buttons and selects of the view that is shown.
MonitorRefresh ==
  /\ pollHeld \/ pollStray > 0 \/ monitorTab
  /\ Reload
  /\ UnchangedPlace /\ UnchangedDetail /\ UNCHANGED <<offline, monitorFocusFilter, overviewGrid>>

MonitorDrillModel ==
  /\ monitorTab /\ monitorView = "overview"
  /\ \E m \in overviewGrid :
       /\ monitorCurrentModelID' = m /\ monitorTitle' = m /\ monitorView' = "model"
       /\ LoadMonitorModelDetail(m)
  /\ UnchangedDetail
  /\ UNCHANGED <<offline, overviewAsked, monitorTab, pollHeld, pollStray, monitorFocusFilter, overviewGrid>>

MonitorBack ==
  /\ monitorTab /\ monitorView = "model" /\ Local
  /\ monitorCurrentModelID' = Nil /\ monitorView' = "overview"
  /\ UNCHANGED <<overviewAsked, monitorTab, pollHeld, pollStray, monitorTitle, detailAsked>> /\ UnchangedDetail
  /\ UNCHANGED <<offline, monitorFocusFilter, overviewGrid>>

\* (Mutant: the table keeps the accounts of the focus before.)
ChooseFocusUndrawn ==
  /\ monitorTab /\ LoadMonitorOverview
  /\ monitorFocusFilter' \in Foci \ {monitorFocusFilter}
  /\ UnchangedPlace /\ UnchangedDetail /\ UNCHANGED <<offline, overviewGrid>>

ChooseFocus ==
  /\ monitorTab /\ LoadMonitorOverview
  /\ monitorFocusFilter' \in Foci \ {monitorFocusFilter}
  /\ accountTable' = RenderAccountTable(monitorFocusFilter', monitorLastAccounts)
  /\ UnchangedPlace /\ UNCHANGED <<offline, monitorLastAccounts, detailDrawn, overviewGrid>>

\* The buttons of a row of the table: weight, online or offline.  Both load the
\* detail of the model looked at by then.
PatchMonitorAccount ==
  /\ monitorTab /\ monitorView = "model"
  /\ \E m \in accountTable :
       \E to \in {"weight", IF monitorLastAccounts.off THEN "online" ELSE "offline"} :
         Gesture(<<Call("account", [model |-> m, to |-> to])>>)
  /\ UNCHANGED monitorVars

MonitorAccountPatched(n) ==
  /\ Asked(n, "account")
  /\ LET m == calls[n].arg.model
     IN offline' = CASE calls[n].arg.to = "online" -> offline \ {m}
                     [] calls[n].arg.to = "offline" -> offline \cup {m}
                     [] OTHER -> offline
  /\ IF monitorCurrentModelID = Nil THEN Resume(n, <<>>) /\ UNCHANGED detailAsked
     ELSE /\ Resume(n, <<Call("detail", [model |-> monitorCurrentModelID, number |-> detailAsked + 1])>>)
          /\ detailAsked' = detailAsked + 1
  /\ UnchangedPlace /\ UnchangedDetail /\ UNCHANGED <<monitorFocusFilter, overviewGrid>>

MonitorNext ==
  \/ MonitorTabShown \/ MonitorTabHidden \/ MonitorRefresh \/ MonitorDrillModel \/ MonitorBack
  \/ ChooseFocus \/ PatchMonitorAccount \/ RenderOverviewGrid
  \/ \E n \in DOMAIN calls :
       DrawMonitorDetail(n) \/ MonitorAccountPatched(n) \/ MonitorFails(n)

\* The pane on its own page; any fetch may end the session.
MonitorStep ==
  \/ MonitorNext
  \/ (\E n \in DOMAIN calls : Denied(n)) /\ UNCHANGED monitorVars
MonitorSpec == BrowserInit({"admin"}) /\ MonitorInit /\ [][MonitorStep]_<<browserVars, monitorVars>>

-----------------------------------------------------------------------------

\* The monitor polls while its tab is shown and never otherwise, with one
\* interval, however often tabs are changed (the handle of an interval that is
\* set over another would be lost).
OnePoll == pollStray = 0 /\ (pollHeld <=> monitorTab)

\* Under the title of a model are that model's accounts, filtered by the focus
\* that is chosen, whenever the answer drawn last is the one asked for last:
\* drilling, going back and into another model, polling and patching included.
DetailOfTitle ==
  session = "in" =>
    /\ monitorView = "model" => monitorTitle = monitorCurrentModelID
    /\ monitorView = "model" /\ detailDrawn = detailAsked => monitorLastAccounts.of = monitorTitle
    /\ accountTable = RenderAccountTable(monitorFocusFilter, monitorLastAccounts)
=============================================================================
