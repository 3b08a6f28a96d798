--------------------------- MODULE AdminPageProofs ---------------------------
(***************************************************************************)
(* What holds of the administrator's page for any models, users, groups,   *)
(* routes, filters and fetches, one pane after the other.                  *)
(***************************************************************************)
EXTENDS MonitorPane, ModelDialogs, AdminPage, GroupPane, RoutePane, ModelTable, BrowserLemmas,
        FiniteSetTheorems

-----------------------------------------------------------------------------
\* The monitor.

\* The accounts drawn are those of a model.
AccountsOf == {NoAccounts} \cup [of : MonitorModels, off : BOOLEAN]

\* Only the detail asked for last may be of another moment than this one, and
\* it is of the model looked at, if one is.
MonitorCall(asked, current) ==
  {c \in [op : {"detail", "account"},
          arg : [model : MonitorModels, number : Nat]
                \cup [model : MonitorModels, to : {"weight", "online", "offline"}],
          st : {"sent"}, val : {Nil}] :
     /\ c.arg.model \in MonitorModels
     /\ c.op = "detail" => /\ c.arg.number \in 1 .. asked
                           /\ c.arg.number = asked /\ current # Nil => c.arg.model = current}

MonitorType ==
  /\ offline \subseteq MonitorModels /\ overviewGrid \subseteq MonitorModels
  /\ monitorCurrentModelID \in MonitorModels \cup {Nil}
  /\ monitorView = "model" <=> monitorCurrentModelID # Nil
  /\ monitorLastAccounts \in AccountsOf
  /\ detailAsked \in Nat /\ detailDrawn \in 0 .. detailAsked
  /\ calls \in Seq(MonitorCall(detailAsked, monitorCurrentModelID))

\* Under the title of a model are its accounts, filtered, signed out or not.
Titled ==
  /\ monitorView = "model" => monitorTitle = monitorCurrentModelID
  /\ monitorView = "model" /\ detailDrawn = detailAsked => monitorLastAccounts.of = monitorTitle
  /\ accountTable = RenderAccountTable(monitorFocusFilter, monitorLastAccounts)

MonitorInv == MonitorType /\ OnePoll /\ Titled

\* What a filter keeps are models, and what the table shows is an account drawn.
LEMMA FocusedModels ==
  ASSUME NEW focus, NEW off \in SUBSET MonitorModels
  PROVE  Focused(focus, off) \subseteq MonitorModels
BY MonitorAssumption DEF Focused

\* The table of accounts, whatever the focus, shows accounts that exist.
LEMMA AccountsShown ==
  ASSUME NEW focus, NEW accounts \in AccountsOf
  PROVE  RenderAccountTable(focus, accounts) \subseteq MonitorModels
<1>1. CASE accounts = NoAccounts
  BY <1>1, FocusedModels, MonitorAssumption DEF RenderAccountTable, NoAccounts
<1>2. CASE accounts \in [of : MonitorModels, off : BOOLEAN]
  BY <1>2 DEF RenderAccountTable
<1>3. QED
  BY <1>1, <1>2 DEF AccountsOf

\* One more detail asked for: those before it are no longer the last.
LEMMA MoreAsked ==
  ASSUME NEW asked \in Nat, NEW current, NEW later
  PROVE  MonitorCall(asked, current) \subseteq MonitorCall(asked + 1, later)
BY DEF MonitorCall

\* The model left: nothing is claimed of the last one.
LEMMA ModelLeft ==
  ASSUME NEW asked, NEW current
  PROVE  MonitorCall(asked, current) \subseteq MonitorCall(asked, Nil)
BY DEF MonitorCall

\* The monitor starts with no poll and no detail.
LEMMA MonitorInvInit == BrowserInit({"admin"}) /\ MonitorInit => MonitorInv
<1> SUFFICES ASSUME BrowserInit({"admin"}), MonitorInit PROVE MonitorInv
  OBVIOUS
<1>1. calls \in Seq(MonitorCall(detailAsked, monitorCurrentModelID))
  BY DEF BrowserInit
<1>2. MonitorType
  BY <1>1 DEF MonitorInit, MonitorType, AccountsOf
<1>3. accountTable = RenderAccountTable(monitorFocusFilter, monitorLastAccounts)
  <2>1. monitorFocusFilter = "all" /\ monitorLastAccounts.of = Nil /\ accountTable = {}
    BY DEF MonitorInit, NoAccounts
  <2>2. QED
    BY <2>1, MonitorAssumption DEF RenderAccountTable, Focused
<1>4. QED
  BY <1>2, <1>3 DEF MonitorInit, MonitorInv, OnePoll, Titled

\* A detail asked for is the last one, and of the model given.
LEMMA DetailAskedFor ==
  ASSUME MonitorType, NEW m \in MonitorModels, LoadMonitorModelDetail(m)
  PROVE  /\ detailAsked' = detailAsked + 1
         /\ calls' \in Seq(MonitorCall(detailAsked', m))
<1>1. m # Nil
  BY MonitorAssumption
<1>2. detailAsked' = detailAsked + 1
      /\ Look(<<Call("detail", [model |-> m, number |-> detailAsked + 1])>>)
  BY <1>1 DEF LoadMonitorModelDetail
<1> DEFINE S == MonitorCall(detailAsked + 1, m)
<1>3. calls \in Seq(S)
  BY MoreAsked, SeqMonotone DEF MonitorType
<1>4. <<Call("detail", [model |-> m, number |-> detailAsked + 1])>> \in Seq(S)
  BY DEF MonitorCall, Call, MonitorType
<1>5. calls' \in Seq(S)
  BY <1>2, <1>3, <1>4, LookKeeps
<1>6. QED
  BY <1>2, <1>5

\* Every step but the answers keeps the tab, the view and the fetches in order.
LEMMA MonitorGestures ==
  ASSUME MonitorInv,
         \/ MonitorTabShown \/ MonitorTabHidden \/ MonitorRefresh \/ MonitorDrillModel \/ MonitorBack
         \/ ChooseFocus \/ PatchMonitorAccount \/ RenderOverviewGrid
  PROVE  MonitorInv'
<1> USE DEF MonitorInv, MonitorType, OnePoll, Titled
<1>1. CASE MonitorTabShown
  BY <1>1 DEF MonitorTabShown, LoadMonitorOverview, Local, browserVars, UnchangedDetail
<1>2. CASE MonitorTabHidden
  BY <1>2 DEF MonitorTabHidden, Local, browserVars, UnchangedDetail
<1>3. CASE MonitorRefresh
  <2>1. CASE monitorCurrentModelID # Nil
    <3>1. detailAsked' = detailAsked + 1 /\ calls' \in Seq(MonitorCall(detailAsked', monitorCurrentModelID))
      BY <1>3, <2>1, DetailAskedFor DEF MonitorRefresh, Reload
    <3>2. QED
      BY <1>3, <3>1 DEF MonitorRefresh, UnchangedPlace, UnchangedDetail
  <2>2. CASE monitorCurrentModelID = Nil
    BY <1>3, <2>2 DEF MonitorRefresh, Reload, LoadMonitorOverview, Local, browserVars, UnchangedPlace, UnchangedDetail
  <2>3. QED
    BY <2>1, <2>2
<1>4. CASE MonitorDrillModel
  <2>1. PICK m \in overviewGrid : /\ monitorCurrentModelID' = m /\ monitorTitle' = m /\ monitorView' = "model"
                                  /\ LoadMonitorModelDetail(m)
    BY <1>4 DEF MonitorDrillModel
  <2>2. detailAsked' = detailAsked + 1 /\ calls' \in Seq(MonitorCall(detailAsked', m))
    BY <2>1, DetailAskedFor
  <2>3. QED
    BY <1>4, <2>1, <2>2, MonitorAssumption DEF MonitorDrillModel, UnchangedDetail
<1>5. CASE MonitorBack
  <2>1. calls \in Seq(MonitorCall(detailAsked, Nil))
    BY ModelLeft, SeqMonotone
  <2>2. QED
    BY <1>5, <2>1 DEF MonitorBack, Local, browserVars, UnchangedDetail
<1>6. CASE ChooseFocus
  BY <1>6 DEF ChooseFocus, LoadMonitorOverview, Local, browserVars, UnchangedPlace
<1>7. CASE PatchMonitorAccount
  <2>1. PICK m \in accountTable, to \in {"weight", IF monitorLastAccounts.off THEN "online" ELSE "offline"} :
          Gesture(<<Call("account", [model |-> m, to |-> to])>>)
    BY <1>7 DEF PatchMonitorAccount
  <2>2. m \in MonitorModels
    BY AccountsShown
  <2>3. <<Call("account", [model |-> m, to |-> to])>> \in Seq(MonitorCall(detailAsked, monitorCurrentModelID))
    BY <2>2 DEF MonitorCall, Call
  <2>4. calls' \in Seq(MonitorCall(detailAsked, monitorCurrentModelID))
    BY <2>1, <2>3, GestureKeeps
  <2>5. QED
    BY <1>7, <2>4 DEF PatchMonitorAccount, monitorVars
<1>8. CASE RenderOverviewGrid
  BY <1>8, FocusedModels DEF RenderOverviewGrid, Local, browserVars, UnchangedPlace, UnchangedDetail
<1>9. QED
  BY <1>1, <1>2, <1>3, <1>4, <1>5, <1>6, <1>7, <1>8

\* So do the answers.
LEMMA MonitorAnswers ==
  ASSUME MonitorInv, NEW n \in DOMAIN calls,
         DrawMonitorDetail(n) \/ MonitorAccountPatched(n) \/ MonitorFails(n)
  PROVE  MonitorInv'
<1> USE DEF MonitorInv, MonitorType, OnePoll, Titled
<1> DEFINE S == MonitorCall(detailAsked, monitorCurrentModelID)
<1>0. calls[n] \in S
  OBVIOUS
<1>1. CASE DrawMonitorDetail(n)
  <2>1. calls' \in Seq(S)
    BY <1>1, ResumeEnds DEF DrawMonitorDetail
  <2>2. /\ calls[n].arg.number \in 1 .. detailAsked /\ calls[n].arg.model \in MonitorModels
        /\ calls[n].arg.number = detailAsked /\ monitorCurrentModelID # Nil
              => calls[n].arg.model = monitorCurrentModelID
    BY <1>0, <1>1 DEF DrawMonitorDetail, Asked, MonitorCall
  <2>3. monitorLastAccounts' \in AccountsOf /\ monitorLastAccounts'.of = calls[n].arg.model
    BY <1>1, <2>2 DEF DrawMonitorDetail, AccountsOf
  <2>4. monitorView = "model" /\ detailDrawn' = detailAsked => monitorLastAccounts'.of = monitorTitle
    BY <1>1, <2>2, <2>3 DEF DrawMonitorDetail
  <2>5. QED
    BY <1>1, <2>1, <2>2, <2>3, <2>4 DEF DrawMonitorDetail, UnchangedPlace
<1>2. CASE MonitorAccountPatched(n)
  <2>1. offline' \subseteq MonitorModels
    BY <1>0, <1>2 DEF MonitorAccountPatched, MonitorCall
  <2>2. CASE monitorCurrentModelID = Nil
    <3>1. calls' \in Seq(S)
      BY <1>2, <2>2, ResumeEnds DEF MonitorAccountPatched
    <3>2. QED
      BY <1>2, <2>1, <2>2, <3>1 DEF MonitorAccountPatched, UnchangedPlace, UnchangedDetail
  <2>3. CASE monitorCurrentModelID # Nil
    <3> DEFINE T == MonitorCall(detailAsked + 1, monitorCurrentModelID)
               sent == <<Call("detail", [model |-> monitorCurrentModelID, number |-> detailAsked + 1])>>
    <3>1. Resume(n, sent) /\ detailAsked' = detailAsked + 1
      BY <1>2, <2>3 DEF MonitorAccountPatched
    <3>2. calls \in Seq(T)
      BY MoreAsked, SeqMonotone
    <3>3. sent \in Seq(T)
      BY <2>3 DEF MonitorCall, Call
    <3>4. calls' \in Seq(T)
      BY <3>1, <3>2, <3>3, ResumeKeeps
    <3>5. QED
      BY <1>2, <2>1, <3>1, <3>4 DEF MonitorAccountPatched, UnchangedPlace, UnchangedDetail
  <2>4. QED
    BY <2>2, <2>3
<1>3. CASE MonitorFails(n)
  <2>1. calls' \in Seq(S)
    BY <1>3, ResumeEnds DEF MonitorFails
  <2>2. QED
    BY <1>3, <2>1 DEF MonitorFails, monitorVars
<1>4. QED
  BY <1>1, <1>2, <1>3

\* Every step of the monitor, an answer or a gesture, keeps MonitorInv.
LEMMA MonitorInvStep ==
  ASSUME MonitorInv, [MonitorStep]_<<browserVars, monitorVars>>
  PROVE  MonitorInv'
<1>1. CASE UNCHANGED <<calls, monitorVars>>
  BY <1>1 DEF monitorVars, MonitorInv, MonitorType, OnePoll, Titled
<1>2. CASE MonitorNext
  BY <1>2, MonitorGestures, MonitorAnswers DEF MonitorNext
<1>3. QED
  BY <1>1, <1>2 DEF MonitorStep, Denied, browserVars

\* MonitorInv is the invariant from which the two theorems follow.
LEMMA MonitorInvHolds == MonitorSpec => []MonitorInv
BY MonitorInvInit, MonitorInvStep, PTL DEF MonitorSpec

\* One interval polls while the monitor's tab is shown, none otherwise.
THEOREM PollsOnce == MonitorSpec => []OnePoll
<1>1. MonitorInv => OnePoll
  BY DEF MonitorInv
<1>2. QED
  BY <1>1, MonitorInvHolds, PTL

\* The table under the title of a model is that model's, for any number of
\* models and of details asked for and answered in any order.
THEOREM TitleAndTable == MonitorSpec => []DetailOfTitle
<1>1. MonitorInv => DetailOfTitle
  BY DEF MonitorInv, Titled, DetailOfTitle
<1>2. QED
  BY <1>1, MonitorInvHolds, PTL

-----------------------------------------------------------------------------
\* The dialogs of the models.

\* What is staged is announced, signed out or not.
Announced == batchStagedModels # {} => stagedBadge /\ nameLocked /\ pickLocked /\ modelEditId = Nil

\* No step of the dialogs leaves the staged models unannounced.
LEMMA StagedStep ==
  ASSUME Announced, [DialogStep]_<<browserVars, dialogVars>>
  PROVE  Announced'
<1> USE DEF Announced
<1>1. CASE UNCHANGED <<modelEditId, nameVars, discoverVars, stageVars>>
  BY <1>1 DEF nameVars, discoverVars, stageVars
<1>2. CASE ModelDialog
  BY <1>2 DEF ModelDialog, EditModel, AddModel, HideModelModal, SaveModel, VendorsCome, ModelSaved,
              Unstage, stageVars, nameVars, discoverVars, dialogVars
<1>3. CASE Discovery
  BY <1>3 DEF Discovery, TypeCredential, RunDiscoverModels, SyncDiscoverPickToModelName,
              DiscoverBatchAdd, Discovered, Adding, stageVars, nameVars
<1>4. CASE OnProviderCatalogChange \/ OAuthPopup
  BY <1>4 DEF OnProviderCatalogChange, OAuthPopup, OAuthStart, OAuthMessage, stageVars, nameVars,
              discoverVars, dialogVars
<1>5. CASE UpstreamDialog
  BY <1>1, <1>5 DEF UpstreamDialog, AddUpstream, EditModelAccount, HideUpstreamModal, SaveUpstream,
                    ModelAccountFound, UpstreamSaved, NoModelDialog
<1>6. CASE \E n \in DOMAIN calls : DialogFails(n)
  BY <1>1, <1>6 DEF DialogFails, dialogVars
<1>7. CASE UNCHANGED dialogVars
  BY <1>1, <1>7 DEF dialogVars
<1>8. QED
  BY <1>2, <1>3, <1>4, <1>5, <1>6, <1>7 DEF DialogStep, DialogNext

\* What a batch would create is announced, and never belongs to a model that
\* is edited, for any vendors, names and models.
THEOREM BatchAnnounced == DialogSpec => []StagedIsAnnounced
<1>1. DialogInit => Announced
  BY DEF DialogInit, Announced
<1>2. Announced => StagedIsAnnounced
  BY DEF Announced, StagedIsAnnounced
<1>3. QED
  BY <1>1, <1>2, StagedStep, PTL DEF DialogSpec

-----------------------------------------------------------------------------
\* The users.

RoleList == {"", "default", "admin", "super_admin"}
Loads == {"catalogue", "models", "tokenGroups", "autoRoutes", "rateLimits", "usageLogs",
          "users", "redeem", "balanceLogs"}
UserRow == [role : PageRoles, active : BOOLEAN]
RoleChange == [user : PageUsers, role : PageRoles, back : PageRoles, rows : Nat]
StateChange == [user : PageUsers, active : BOOLEAN]

\* A change of role under way is another's and a super administrator's, a
\* change of state is another's.
OthersOnly(op, arg, mine) ==
  /\ op = "patchUser" => arg \in RoleChange /\ arg.user # Me /\ mine = "super_admin"
  /\ op = "toggleUser" => arg \in StateChange /\ arg.user # Me
  /\ op = "refresh" => arg \in Seq(Loads)

PageOps == {"gate", "providers", "refresh", "leave", "patchUser", "toggleUser", "loadUsers",
            "charge", "playground"}
PageArgs == {Nil} \cup Seq(Loads) \cup RoleChange \cup StateChange \cup PlaygroundKinds
PageCall(mine) ==
  {c \in [op : PageOps, arg : PageArgs, st : {"sent"}, val : {Nil}] : OthersOnly(c.op, c.arg, mine)}

\* A fetch a handler sends is well formed, and touches another user's row.
LEMMA SentIsPageCall ==
  ASSUME NEW op \in PageOps, NEW arg \in PageArgs, NEW mine, OthersOnly(op, arg, mine)
  PROVE  <<Call(op, arg)>> \in Seq(PageCall(mine))
<1>1. Call(op, arg) \in PageCall(mine)
  BY DEF PageCall, Call
<1>2. QED
  BY <1>1

PageType ==
  /\ roleDb \in [PageUsers -> PageRoles] /\ activeDb \subseteq PageUsers
  /\ currentRole \in {"", roleDb[Me]}
  /\ userRows \in {Nil} \cup [PageUsers -> UserRow]
  /\ prevRole \in [PageUsers -> PageRoles] /\ userLoads \in Nat
  /\ playgroundKind \in PlaygroundKinds
  /\ calls \in Seq(PageCall(roleDb[Me]))

PageInv == PageType /\ Me \in activeDb

\* The page starts with its gate open, nothing loaded and nothing sent.
LEMMA PageInvInit == BrowserInit({"admin"}) /\ PageInit => PageInv
<1> SUFFICES ASSUME BrowserInit({"admin"}), PageInit PROVE PageInv
  OBVIOUS
<1>1. roleDb \in [PageUsers -> PageRoles] /\ prevRole = roleDb
  BY PageAssumption DEF PageInit
<1>2. calls \in Seq(PageCall(roleDb[Me]))
  BY DEF BrowserInit
<1>3. QED
  BY <1>1, <1>2 DEF PageInit, PageInv, PageType, PageUsers, PlaygroundKinds

\* A load of the users draws rows of users with roles of the server's.
LEMMA DrawnUsers ==
  ASSUME PageType, DrawUsers
  PROVE  /\ userRows' \in [PageUsers -> UserRow] /\ prevRole' \in [PageUsers -> PageRoles]
         /\ userLoads' \in Nat
<1>1. roleDb \in [PageUsers -> PageRoles] /\ userLoads \in Nat
  BY DEF PageType
<1>2. \A u \in PageUsers : [role |-> roleDb[u], active |-> u \in activeDb] \in UserRow
  BY <1>1 DEF UserRow
<1>3. userRows' \in [PageUsers -> UserRow]
  BY <1>2 DEF DrawUsers
<1>4. QED
  BY <1>1, <1>3 DEF DrawUsers

\* What is under way in order.
LEMMA UnderWay ==
  ASSUME PageType, NEW n \in DOMAIN calls
  PROVE  /\ calls[n] \in PageCall(roleDb[Me])
         /\ calls[n].arg \in PageArgs /\ OthersOnly(calls[n].op, calls[n].arg, roleDb[Me])
<1>1. calls[n] \in PageCall(roleDb[Me])
  BY CallTyped DEF PageType
<1>2. QED
  BY <1>1 DEF PageCall

\* Whatever the role, refreshAll runs loads the page knows.
LEMMA RefreshOrderTyped ==
  ASSUME NEW role
  PROVE  RefreshOrder(role) \in Seq(Loads)
<1>1. <<"users", "redeem", "balanceLogs">> \in Seq(Loads) /\ <<>> \in Seq(Loads)
  BY DEF Loads
<1>2. <<"catalogue", "models", "tokenGroups", "autoRoutes", "rateLimits", "usageLogs">> \in Seq(Loads)
  BY DEF Loads
<1>3. \A a, b \in Seq(Loads) : a \o b \in Seq(Loads)
  OBVIOUS
<1>4. QED
  BY <1>1, <1>2, <1>3 DEF RefreshOrder

\* What refreshAll has yet to run is again a sequence of loads.
LEMMA TailTyped ==
  ASSUME NEW S, NEW s \in Seq(S), Len(s) > 1
  PROVE  Tail(s) \in Seq(S)
<1>1. s # <<>>
  OBVIOUS
<1>2. QED
  BY <1>1

\* Loading the page, and its tabs.
LEMMA LoadingKeeps ==
  ASSUME PageInv,
         \/ Entrance \/ ShowTab \/ AdminLogout
         \/ \E n \in DOMAIN calls : RefreshAll(n)
  PROVE  PageInv'
<1> USE DEF PageInv, PageType
<1> DEFINE S == PageCall(roleDb[Me])
<1>1. \A role : RefreshOrder(role) \in Seq(Loads)
  BY RefreshOrderTyped
<1>2. \A role : <<Call("refresh", RefreshOrder(role))>> \in Seq(S)
  <2>1. SUFFICES ASSUME NEW role PROVE <<Call("refresh", RefreshOrder(role))>> \in Seq(S)
    OBVIOUS
  <2>2. RefreshOrder(role) \in PageArgs
    BY <1>1 DEF PageArgs
  <2>3. OthersOnly("refresh", RefreshOrder(role), roleDb[Me]) /\ "refresh" \in PageOps
    BY <1>1 DEF OthersOnly, PageOps
  <2>4. QED
    BY <2>2, <2>3, SentIsPageCall
<1>3. /\ <<Call("gate", Nil)>> \in Seq(S) /\ <<Call("providers", Nil)>> \in Seq(S)
      /\ <<Call("leave", Nil)>> \in Seq(S)
  BY SentIsPageCall DEF PageOps, PageArgs, OthersOnly
<1>4. CASE Gate
  <2>1. calls' \in Seq(S)
    BY <1>3, <1>4, LookKeeps DEF Gate
  <2>2. QED
    BY <1>4, <2>1 DEF Gate, pageVars, userServer, gateVars, userVars, playVars
<1>5. CASE \E n \in DOMAIN calls : GateAnswered(n)
  <2>1. PICK n \in DOMAIN calls : GateAnswered(n)
    BY <1>5
  <2>2. \E sent \in Seq(S) : Resume(n, sent)
    BY <1>2, <1>3, <2>1 DEF GateAnswered
  <2>3. calls' \in Seq(S)
    BY <2>2, ResumeKeeps
  <2>4. QED
    BY <2>1, <2>3 DEF GateAnswered, userServer, userVars, playVars
<1>6. CASE \E n \in DOMAIN calls : EnsureProviderCatalogLoaded(n)
  <2>1. PICK n \in DOMAIN calls : EnsureProviderCatalogLoaded(n)
    BY <1>6
  <2>2. calls' \in Seq(S)
    BY <1>2, <2>1, ResumeKeeps DEF EnsureProviderCatalogLoaded
  <2>3. QED
    BY <2>1, <2>2 DEF EnsureProviderCatalogLoaded, pageVars, userServer, gateVars, userVars, playVars
<1>7. CASE AdminLogout \/ \E n \in DOMAIN calls : LeaveForUserConsole(n)
  BY <1>7 DEF AdminLogout, LeaveForUserConsole, pageVars, userServer, gateVars, userVars, playVars
<1>8. CASE \E n \in DOMAIN calls : GateFails(n)
  <2>1. PICK n \in DOMAIN calls : GateFails(n)
    BY <1>8
  <2>2. calls' \in Seq(S)
    BY <2>1, ResumeEnds DEF GateFails
  <2>3. QED
    BY <2>1, <2>2 DEF GateFails, userServer, userVars, playVars
<1>9. CASE ShowTab
  BY <1>9 DEF ShowTab, Local, browserVars, userServer, gateVars, userVars, playVars
<1>10. CASE \E n \in DOMAIN calls : RefreshAll(n)
  <2>1. PICK n \in DOMAIN calls : RefreshAll(n)
    BY <1>10
  <2>2. calls[n].arg \in Seq(Loads)
    BY <2>1, UnderWay DEF RefreshAll, Asked, OthersOnly
  <2>3. calls' \in Seq(S)
    <3>1. CASE Len(calls[n].arg) > 1
      <4>1. Tail(calls[n].arg) \in Seq(Loads)
        BY <2>2, <3>1, TailTyped
      <4>2. <<Call("refresh", Tail(calls[n].arg))>> \in Seq(S)
        BY <4>1, SentIsPageCall DEF PageOps, PageArgs, OthersOnly
      <4>3. QED
        BY <2>1, <3>1, <4>2, ResumeKeeps DEF RefreshAll
    <3>2. CASE ~(Len(calls[n].arg) > 1)
      BY <2>1, <3>2, ResumeEnds DEF RefreshAll
    <3>3. QED
      BY <3>1, <3>2
  <2>4. UNCHANGED userVars \/ DrawUsers
    BY <2>1 DEF RefreshAll
  <2>5. QED
    BY <2>1, <2>3, <2>4, DrawnUsers DEF RefreshAll, userServer, gateVars, playVars, userVars
<1>11. QED
  BY <1>4, <1>5, <1>6, <1>7, <1>8, <1>9, <1>10 DEF Entrance

\* The users' table: nothing it sends or does is about one's own row.
LEMMA UserTableKeeps ==
  ASSUME PageInv, UserTable
  PROVE  PageInv'
<1> USE DEF PageInv, PageType
<1> DEFINE S == PageCall(roleDb[Me])
<1>1. CASE ChangeUserRole
  <2>1. PICK u \in PageUsers, r \in PageRoles :
          /\ CanManageUserRole(u)
          /\ Gesture(<<Call("patchUser", [user |-> u, role |-> r, back |-> prevRole[u], rows |-> userLoads])>>)
          /\ prevRole' = [prevRole EXCEPT ![u] = r]
    BY <1>1 DEF ChangeUserRole
  <2>2. u # Me /\ roleDb[Me] = "super_admin"
    BY <2>1 DEF CanManageUserRole
  <2>3. [user |-> u, role |-> r, back |-> prevRole[u], rows |-> userLoads] \in RoleChange
    BY DEF RoleChange
  <2>4. <<Call("patchUser", [user |-> u, role |-> r, back |-> prevRole[u], rows |-> userLoads])>> \in Seq(S)
    BY <2>2, <2>3, SentIsPageCall DEF PageOps, PageArgs, OthersOnly
  <2>5. calls' \in Seq(S)
    BY <2>1, <2>4, GestureKeeps
  <2>6. QED
    BY <1>1, <2>1, <2>5 DEF ChangeUserRole, userServer, gateVars, playVars
<1>2. CASE ToggleUser
  <2>1. PICK u \in PageUsers :
          /\ CanManageUserStatus(u)
          /\ Gesture(<<Call("toggleUser", [user |-> u, active |-> ~userRows[u].active])>>)
    BY <1>2 DEF ToggleUser
  <2>2. u # Me /\ [user |-> u, active |-> ~userRows[u].active] \in StateChange
    BY <2>1 DEF CanManageUserStatus, StateChange
  <2>3. <<Call("toggleUser", [user |-> u, active |-> ~userRows[u].active])>> \in Seq(S)
    BY <2>2, SentIsPageCall DEF PageOps, PageArgs, OthersOnly
  <2>4. calls' \in Seq(S)
    BY <2>1, <2>3, GestureKeeps
  <2>5. QED
    BY <1>2, <2>4 DEF ToggleUser, pageVars, userServer, gateVars, userVars, playVars
<1>3. ASSUME NEW n \in DOMAIN calls, Asked(n, "patchUser") \/ Asked(n, "toggleUser"), UserEffect(n)
      PROVE  /\ roleDb' \in [PageUsers -> PageRoles] /\ roleDb'[Me] = roleDb[Me]
             /\ activeDb' \subseteq PageUsers /\ Me \in activeDb'
  <2>1. OthersOnly(calls[n].op, calls[n].arg, roleDb[Me])
    BY UnderWay
  <2>2. CASE calls[n].op = "patchUser"
    <3>1. calls[n].arg \in RoleChange /\ calls[n].arg.user # Me
      BY <2>1, <2>2 DEF OthersOnly
    <3>2. QED
      BY <1>3, <2>2, <3>1 DEF UserEffect, RoleChange
  <2>3. CASE calls[n].op = "toggleUser"
    <3>1. calls[n].arg \in StateChange /\ calls[n].arg.user # Me
      BY <2>1, <2>3 DEF OthersOnly
    <3>2. QED
      BY <1>3, <2>3, <3>1 DEF UserEffect, StateChange
  <2>4. QED
    BY <1>3, <2>2, <2>3 DEF Asked
<1>4. CASE \E n \in DOMAIN calls : PatchUser(n)
  <2>1. PICK n \in DOMAIN calls : PatchUser(n)
    BY <1>4
  <2>2. \E sent \in Seq(S) : Resume(n, sent)
    <3>2. <<Call("loadUsers", IF calls[n].op = "patchUser" THEN calls[n].arg ELSE Nil)>> \in Seq(S)
      <4>1. calls[n].arg \in PageArgs /\ Nil \in PageArgs
        BY UnderWay DEF PageArgs
      <4>2. QED
        BY <4>1, SentIsPageCall DEF PageOps, OthersOnly
    <3>3. QED
      BY <2>1, <3>2 DEF PatchUser
  <2>3. calls' \in Seq(S)
    BY <2>2, ResumeKeeps
  <2>4. QED
    BY <1>3, <2>1, <2>3 DEF PatchUser, gateVars, userVars, playVars
<1>5. CASE \E n \in DOMAIN calls : UsersLoaded(n)
  <2>1. PICK n \in DOMAIN calls : UsersLoaded(n)
    BY <1>5
  <2>2. calls' \in Seq(S)
    BY <2>1, ResumeEnds DEF UsersLoaded
  <2>3. QED
    BY <2>1, <2>2, DrawnUsers DEF UsersLoaded, userServer, gateVars, playVars
<1>6. CASE \E n \in DOMAIN calls : PatchFails(n)
  <2>1. PICK n \in DOMAIN calls : PatchFails(n)
    BY <1>6
  <2>2. calls' \in Seq(S)
    BY <2>1, ResumeEnds DEF PatchFails
  <2>3. UNCHANGED userServer \/ (UserEffect(n) /\ (Asked(n, "patchUser") \/ Asked(n, "toggleUser")))
    BY <2>1 DEF PatchFails
  <2>4. /\ roleDb' \in [PageUsers -> PageRoles] /\ roleDb'[Me] = roleDb[Me]
        /\ activeDb' \subseteq PageUsers /\ Me \in activeDb'
    BY <1>3, <2>1, <2>3 DEF userServer
  <2>5. QED
    BY <2>1, <2>2, <2>4 DEF PatchFails, gateVars, playVars
<1>7. QED
  BY <1>1, <1>2, <1>4, <1>5, <1>6 DEF UserTable

\* Charging and the playground leave the users alone.
LEMMA RestKeeps ==
  ASSUME PageInv,
         \/ DoCharge \/ SyncPlaygroundForm \/ RunPlayground
         \/ \E n \in DOMAIN calls : Charged(n) \/ PlaygroundAnswered(n)
  PROVE  PageInv'
<1> USE DEF PageInv, PageType
<1> DEFINE S == PageCall(roleDb[Me])
<1>1. <<Call("charge", Nil)>> \in Seq(S) /\ <<Call("playground", playgroundKind)>> \in Seq(S)
  BY SentIsPageCall DEF PageOps, PageArgs, OthersOnly
<1>2. CASE DoCharge
  <2>1. calls' \in Seq(S)
    BY <1>1, <1>2, GestureKeeps DEF DoCharge, Local, browserVars
  <2>2. QED
    BY <1>2, <2>1 DEF DoCharge, userServer, gateVars, userVars
<1>3. CASE SyncPlaygroundForm
  BY <1>3 DEF SyncPlaygroundForm, Local, browserVars, userServer, gateVars, userVars
<1>4. CASE RunPlayground
  <2>1. calls' \in Seq(S)
    BY <1>1, <1>4, GestureKeeps DEF RunPlayground
  <2>2. QED
    BY <1>4, <2>1 DEF RunPlayground, userServer, gateVars, userVars
<1>5. CASE \E n \in DOMAIN calls : Charged(n) \/ PlaygroundAnswered(n)
  <2>1. PICK n \in DOMAIN calls : Charged(n) \/ PlaygroundAnswered(n)
    BY <1>5
  <2>2. calls' \in Seq(S)
    BY <2>1, ResumeEnds DEF Charged, PlaygroundAnswered
  <2>3. QED
    BY <2>1, <2>2 DEF Charged, PlaygroundAnswered, userServer, gateVars, userVars
<1>6. QED
  BY <1>2, <1>3, <1>4, <1>5

\* Every step of the page keeps PageInv: its gate and tabs, its users, the rest.
LEMMA PageInvStep ==
  ASSUME PageInv, [PageStep]_<<browserVars, pageVars>>
  PROVE  PageInv'
<1>1. CASE UNCHANGED <<calls, pageVars>>
  BY <1>1 DEF pageVars, userServer, gateVars, userVars, playVars, PageInv, PageType
<1>2. CASE PageNext
  BY <1>2, LoadingKeeps, UserTableKeeps, RestKeeps DEF PageNext
<1>3. QED
  BY <1>1, <1>2 DEF PageStep, Denied, browserVars

\* Nobody changes their own role or state from the table, and a plain
\* administrator nobody's role, for any users and roles.
THEOREM OwnRow == PageSpec => []OwnRowKept
<1>1. PageInv => OwnRowKept
  <2>1. SUFFICES ASSUME PageInv PROVE OwnRowKept
    OBVIOUS
  <2>2. \A n \in DOMAIN calls : calls[n].op = "patchUser" => roleDb[Me] = "super_admin"
    BY <2>1, UnderWay DEF PageInv, OthersOnly
  <2>3. QED
    BY <2>1, <2>2 DEF PageInv, PageType, OwnRowKept
<1>2. QED
  BY <1>1, PageInvInit, PageInvStep, PTL DEF PageSpec

-----------------------------------------------------------------------------
\* The token groups.

\* An opening was begun, and the one begun last is of the group in the dialog's
\* hidden field.
Begun(opening, opened, group) ==
  opening.number \in 1 .. opened /\ (opening.number = opened => opening.group = group)

\* The opening that a fetch belongs to, if it does to one, was begun.
OpeningsBegun(c, opened, group) ==
  /\ c.op = "catalogue" => Begun(c.arg.opening, opened, group)
  /\ c.op = "links" => Begun(c.arg, opened, group)

\* A row of the table of groups, and how many handlers its button has.
GroupRowOf(row) ==
  /\ row = [group |-> row.group, count |-> row.count, handlers |-> row.handlers]
  /\ row.handlers \in Nat

\* What the dialog shows is of the group in the hidden field once the last
\* opening is drawn, and nothing it offers is in its table.
DialogTells ==
  /\ linksOpened \in Nat /\ linksDrawn \in 0 .. linksOpened
  /\ linksDrawn = linksOpened => tgLinksTable.group = tgLinksGroupId
  /\ tgLinksSelect \cap tgLinksTable.ids = {}

GroupInv ==
  /\ Queue(calls) /\ \A k \in DOMAIN calls : OpeningsBegun(calls[k], linksOpened, tgLinksGroupId)
  /\ Queue(groupTable) /\ \A k \in DOMAIN groupTable : GroupRowOf(groupTable[k])
  /\ DialogTells

\* The page starts with no opening.
LEMMA GroupInvInit == BrowserInit({"admin"}) /\ GroupInit => GroupInv
<1> SUFFICES ASSUME BrowserInit({"admin"}), GroupInit PROVE GroupInv
  OBVIOUS
<1>1. Queue(calls) /\ DOMAIN calls = {}
  <2>1. calls \in Seq({}) /\ DOMAIN calls = {}
    BY DEF BrowserInit
  <2> QED
    BY <2>1, QueueOver
<1>2. Queue(groupTable) /\ \A k \in DOMAIN groupTable : GroupRowOf(groupTable[k])
  <2>1. groupTable = [k \in 1 .. 2 |-> [group |-> 3 - k, count |-> 0, handlers |-> 1]]
    BY DEF GroupInit
  <2>2. groupTable \in Seq([group : Nat, count : {0}, handlers : Nat])
    <3>1. {1, 2} = 1 .. 2 /\ \A k \in 1 .. 2 : 3 - k \in Nat
      OBVIOUS
    <3> QED
      BY <2>1, <3>1
  <2> QED
    BY <2>1, <2>2, QueueOver DEF GroupRowOf
<1> QED
  BY <1>1, <1>2 DEF GroupInit, GroupInv, DialogTells

\* An opening begun in place of the last: those before it are no longer the last.
LEMMA AnotherOpening ==
  ASSUME NEW opened \in Nat, NEW g, NEW h, NEW c, OpeningsBegun(c, opened, g)
  PROVE  OpeningsBegun(c, opened + 1, h)
BY DEF Begun, OpeningsBegun

\* A fetch with which an opening begins.
LEMMA FirstOfOpening ==
  ASSUME GroupInv, NEW g, NEW then, OpenTgLinksModal(g)
  PROVE  OpeningsBegun(Rebuild(Opening(g, then)), linksOpened', tgLinksGroupId')
<1>1. linksOpened' = linksOpened + 1 /\ linksOpened \in Nat /\ tgLinksGroupId' = g
  BY DEF GroupInv, DialogTells, OpenTgLinksModal
<1> QED
  BY <1>1 DEF OpeningsBegun, Begun, Rebuild, Opening, Call

\* A group is opened, by a click that may send several fetches, or after a
\* change.
LEMMA OpeningKeeps ==
  ASSUME GroupInv, NEW g, NEW then, OpenTgLinksModal(g), Queue(calls'),
         \A k \in DOMAIN calls' : \/ \E m \in DOMAIN calls : calls'[k] = calls[m]
                                  \/ calls'[k] = Rebuild(Opening(g, then)),
         UNCHANGED <<groupTable, tgLinksTable, tgLinksSelect, linksDrawn>>
  PROVE  GroupInv'
<1>1. linksOpened' = linksOpened + 1 /\ linksOpened \in Nat /\ tgLinksGroupId' = g
  BY DEF GroupInv, DialogTells, OpenTgLinksModal
<1>2. \A k \in DOMAIN calls' : OpeningsBegun(calls'[k], linksOpened', tgLinksGroupId')
  <2> TAKE k \in DOMAIN calls'
  <2>1. CASE \E m \in DOMAIN calls : calls'[k] = calls[m]
    <3>1. PICK m \in DOMAIN calls : calls'[k] = calls[m]
      BY <2>1
    <3>2. OpeningsBegun(calls[m], linksOpened, tgLinksGroupId)
      BY DEF GroupInv
    <3> QED
      BY <1>1, <3>1, <3>2, AnotherOpening
  <2>2. CASE calls'[k] = Rebuild(Opening(g, then))
    BY <2>2, FirstOfOpening
  <2> QED
    BY <2>1, <2>2
<1>3. DialogTells'
  BY <1>1 DEF GroupInv, DialogTells
<1> QED
  BY <1>2, <1>3 DEF GroupInv

\* The dialog.
LEMMA LinksDialogKeeps ==
  ASSUME GroupInv, LinksDialog
  PROVE  GroupInv'
<1>0. Queue(calls)
  BY DEF GroupInv
<1>1. CASE ClickLinks
  <2>1. PICK k \in DOMAIN groupTable :
          /\ OpenTgLinksModal(groupTable[k].group)
          /\ Gesture([h \in 1 .. groupTable[k].handlers |-> Rebuild(Opening(groupTable[k].group, FALSE))])
    BY <1>1 DEF ClickLinks
  <2> DEFINE c == Rebuild(Opening(groupTable[k].group, FALSE))
             sent == [h \in 1 .. groupTable[k].handlers |-> c]
  <2>2. Queue(sent) /\ \A j \in DOMAIN sent : sent[j] = c
    BY QueueOf DEF GroupInv, GroupRowOf
  <2>3. Gesture(sent)
    BY <2>1
  <2> HIDE DEF sent, c
  <2>4. /\ Queue(calls')
        /\ \A i \in DOMAIN calls' : (\E m \in DOMAIN calls : calls'[i] = calls[m]) \/ calls'[i] = c
    BY <1>0, <2>2, <2>3, Sending
  <2>5. UNCHANGED <<groupTable, tgLinksTable, tgLinksSelect, linksDrawn>>
    BY <1>1 DEF ClickLinks
  <2> QED
    BY <2>1, <2>4, <2>5, OpeningKeeps DEF c
<1>2. CASE HideLinks
  BY <1>2 DEF HideLinks, Local, browserVars, GroupInv, DialogTells
<1>3. CASE AddTgUpstream
  <2>1. PICK u : Gesture(<<Call("link", [group |-> tgLinksGroupId, account |-> u])>>)
    BY <1>3 DEF AddTgUpstream
  <2>2. OpeningsBegun(Call("link", [group |-> tgLinksGroupId, account |-> u]), linksOpened, tgLinksGroupId)
    BY DEF OpeningsBegun, Call
  <2>3. /\ Queue(calls') /\ UNCHANGED groupVars
        /\ \A k \in DOMAIN calls' : OpeningsBegun(calls'[k], linksOpened, tgLinksGroupId)
    BY <1>0, <1>3, <2>1, <2>2, SendingOne DEF AddTgUpstream, GroupInv
  <2> QED
    BY <2>3 DEF GroupInv, DialogTells, groupVars
<1>4. CASE RemoveTgUpstream
  <2>1. PICK u : Gesture(<<Call("unlink", [group |-> tgLinksTable.group, account |-> u])>>)
    BY <1>4 DEF RemoveTgUpstream
  <2>2. OpeningsBegun(Call("unlink", [group |-> tgLinksTable.group, account |-> u]), linksOpened, tgLinksGroupId)
    BY DEF OpeningsBegun, Call
  <2>3. /\ Queue(calls') /\ UNCHANGED groupVars
        /\ \A k \in DOMAIN calls' : OpeningsBegun(calls'[k], linksOpened, tgLinksGroupId)
    BY <1>0, <1>4, <2>1, <2>2, SendingOne DEF RemoveTgUpstream, GroupInv
  <2> QED
    BY <2>3 DEF GroupInv, DialogTells, groupVars
<1>5. ASSUME NEW n \in DOMAIN calls, CatalogueAccount(n)
      PROVE  GroupInv'
  <2> DEFINE opening == calls[n].arg.opening
             todo == calls[n].arg.todo
             c == IF Len(todo) > 1 THEN Call("catalogue", [opening |-> opening, todo |-> Tail(todo)])
                  ELSE Call("links", opening)
  <2>1. calls[n].op = "catalogue" /\ Resume(n, <<c>>) /\ UNCHANGED <<groupTable, linkDialog>>
    BY <1>5 DEF CatalogueAccount, Asked, linkDialog
  <2>2. Begun(opening, linksOpened, tgLinksGroupId)
    BY <2>1 DEF GroupInv, OpeningsBegun
  <2>3. OpeningsBegun(c, linksOpened, tgLinksGroupId)
    BY <2>2 DEF OpeningsBegun, Call
  <2> HIDE DEF c
  <2>4. Queue(calls') /\ \A k \in DOMAIN calls' : OpeningsBegun(calls'[k], linksOpened, tgLinksGroupId)
    BY <1>0, <2>1, <2>3, ResumingOne DEF GroupInv
  <2> QED
    BY <2>1, <2>4 DEF GroupInv, DialogTells, linkDialog
<1>6. ASSUME NEW n \in DOMAIN calls, LinksDrawn(n)
      PROVE  GroupInv'
  <2> DEFINE sent == AllGroups(calls[n].arg.then)
  <2>1. /\ calls[n].op = "links" /\ Resume(n, sent)
        /\ UNCHANGED <<groupTable, tgLinksGroupId, linksOpened>>
        /\ tgLinksTable' = [group |-> calls[n].arg.group, ids |-> links[calls[n].arg.group]]
        /\ tgLinksSelect' = SyncTgLinksSelect(tgLinksTable'.ids)
        /\ linksDrawn' = calls[n].arg.number
    BY <1>6 DEF LinksDrawn, Asked
  <2>2. Begun(calls[n].arg, linksOpened, tgLinksGroupId)
    BY <2>1 DEF GroupInv, OpeningsBegun
  <2>3. DialogTells'
    <3>1. linksOpened \in Nat
      BY DEF GroupInv, DialogTells
    <3> QED
      BY <2>1, <2>2, <3>1 DEF DialogTells, Begun, SyncTgLinksSelect
  <2>4. Queue(sent) /\ \A j \in DOMAIN sent : OpeningsBegun(sent[j], linksOpened, tgLinksGroupId)
    <3>1. CASE calls[n].arg.then
      <4> DEFINE c == Call("groups", Nil)
      <4>1. sent = <<c>>
        BY <3>1 DEF AllGroups
      <4>2. OpeningsBegun(c, linksOpened, tgLinksGroupId)
        BY DEF OpeningsBegun, Call
      <4> HIDE DEF c
      <4> QED
        BY <4>1, <4>2, QueueOne
    <3>2. CASE ~calls[n].arg.then
      <4>1. sent = <<>>
        BY <3>2 DEF AllGroups
      <4> QED
        BY <4>1, QueueNone
    <3> QED
      BY <3>1, <3>2
  <2> HIDE DEF sent
  <2>5. Queue(calls') /\ \A k \in DOMAIN calls' : OpeningsBegun(calls'[k], linksOpened, tgLinksGroupId)
    BY <1>0, <2>1, <2>4, Resuming DEF GroupInv
  <2> QED
    BY <2>1, <2>3, <2>5 DEF GroupInv
<1>7. ASSUME NEW n \in DOMAIN calls, LinkChanged(n)
      PROVE  GroupInv'
  <2> DEFINE g == calls[n].arg.group
             c == Rebuild(Opening(g, TRUE))
  <2>1. /\ OpenTgLinksModal(g) /\ Resume(n, <<c>>)
        /\ UNCHANGED <<groupTable, tgLinksTable, tgLinksSelect, linksDrawn>>
    BY <1>7 DEF LinkChanged
  <2> HIDE DEF c
  <2>2. /\ Queue(calls')
        /\ \A i \in DOMAIN calls' : (\E m \in DOMAIN calls : calls'[i] = calls[m]) \/ calls'[i] = c
    BY <1>0, <2>1, ResumingOne
  <2> QED
    BY <2>1, <2>2, OpeningKeeps DEF c
<1> QED
  BY <1>1, <1>2, <1>3, <1>4, <1>5, <1>6, <1>7 DEF LinksDialog

\* The rows of the table, once a load has given them their handlers.
LEMMA RowsHandled ==
  ASSUME NEW rows, Queue(rows), \A k \in DOMAIN rows : GroupRowOf(rows[k]), NEW last
  PROVE  /\ Queue(WithHandlers(rows, last))
         /\ \A k \in DOMAIN WithHandlers(rows, last) : GroupRowOf(WithHandlers(rows, last)[k])
<1> DEFINE t == WithHandlers(rows, last)
<1>1. CASE last
  <2>1. t = [k \in DOMAIN rows |-> [rows[k] EXCEPT !.handlers = @ + 1]]
    BY <1>1 DEF WithHandlers
  <2>2. Queue(t) /\ DOMAIN t = DOMAIN rows
    BY <2>1, QueueMap
  <2>3. \A k \in DOMAIN rows : GroupRowOf([rows[k] EXCEPT !.handlers = @ + 1])
    BY DEF GroupRowOf
  <2> QED
    BY <2>1, <2>2, <2>3
<1>2. CASE ~last
  BY <1>2 DEF WithHandlers
<1> QED
  BY <1>1, <1>2

\* Handlers that leave the dialog alone, and send what belongs to no opening.
LEMMA BesideDialog ==
  ASSUME GroupInv, UNCHANGED <<tgLinksGroupId, tgLinksTable, tgLinksSelect, linksOpened, linksDrawn>>,
         Queue(groupTable'), \A k \in DOMAIN groupTable' : GroupRowOf(groupTable'[k]),
         Queue(calls'),
         \A k \in DOMAIN calls' : \/ \E m \in DOMAIN calls : calls'[k] = calls[m]
                                  \/ calls'[k].op \notin {"catalogue", "links"}
  PROVE  GroupInv'
<1>1. \A k \in DOMAIN calls' : OpeningsBegun(calls'[k], linksOpened, tgLinksGroupId)
  BY DEF GroupInv, OpeningsBegun
<1> QED
  BY <1>1 DEF GroupInv, DialogTells

\* The table of groups and the dialog that creates one.
LEMMA TokenGroupsKeep ==
  ASSUME GroupInv, TokenGroups \/ \E n \in DOMAIN calls : GroupFails(n)
  PROVE  GroupInv'
<1>0. /\ Queue(calls) /\ Queue(groupTable) /\ \A k \in DOMAIN groupTable : GroupRowOf(groupTable[k])
  BY DEF GroupInv
<1>1. CASE AddTokenGroup
  BY <1>1 DEF AddTokenGroup, Local, browserVars, linkDialog, GroupInv, DialogTells
<1>2. CASE SaveTokenGroup
  <2>1. Gesture(<<Call("newGroup", Nil)>>) /\ UNCHANGED groupVars
    BY <1>2 DEF SaveTokenGroup
  <2>2. Call("newGroup", Nil).op = "newGroup"
    BY DEF Call
  <2> QED
    BY <1>0, <2>1, <2>2, SendingOne, BesideDialog DEF groupVars
<1>3. ASSUME NEW n \in DOMAIN calls, LoadTokenGroups(n)
      PROVE  GroupInv'
  <2> DEFINE c == Call("count", Descending(madeGroups))
  <2>1. /\ groupTable' = <<>> /\ Resume(n, IF madeGroups = {} THEN <<>> ELSE <<c>>)
        /\ UNCHANGED linkDialog
    BY <1>3 DEF LoadTokenGroups
  <2>2. c.op = "count"
    BY DEF Call
  <2> HIDE DEF c
  <2>3. /\ Queue(calls')
        /\ \A k \in DOMAIN calls' : (\E m \in DOMAIN calls : calls'[k] = calls[m]) \/ calls'[k] = c
    BY <1>0, <2>1, ResumingOne, ResumingNone
  <2>4. Queue(groupTable') /\ DOMAIN groupTable' = {}
    BY <2>1, QueueNone
  <2> QED
    BY <2>1, <2>2, <2>3, <2>4, BesideDialog DEF linkDialog
<1>4. ASSUME NEW n \in DOMAIN calls, GroupRow(n)
      PROVE  GroupInv'
  <2> DEFINE g == Head(calls[n].arg)
             c == Call("count", Tail(calls[n].arg))
             last == Len(calls[n].arg) = 1
  <2>1. PICK count : groupTable' = WithHandlers(Append(groupTable, [group |-> g, count |-> count, handlers |-> 0]), last)
    BY <1>4 DEF GroupRow
  <2>2. /\ Resume(n, IF Len(calls[n].arg) > 1 THEN <<c>> ELSE <<>>)
        /\ UNCHANGED linkDialog
    BY <1>4 DEF GroupRow
  <2>3. c.op = "count"
    BY DEF Call
  <2> DEFINE rows == Append(groupTable, [group |-> g, count |-> count, handlers |-> 0])
  <2>4. GroupRowOf([group |-> g, count |-> count, handlers |-> 0])
    BY DEF GroupRowOf
  <2>5. Queue(rows) /\ \A k \in DOMAIN rows : GroupRowOf(rows[k])
    BY <1>0, <2>4, QueueAppend
  <2> HIDE DEF c, rows, last
  <2>6. /\ Queue(calls')
        /\ \A k \in DOMAIN calls' : (\E m \in DOMAIN calls : calls'[k] = calls[m]) \/ calls'[k] = c
    BY <1>0, <2>2, ResumingOne, ResumingNone
  <2>7. groupTable' = WithHandlers(rows, last)
    BY <2>1 DEF rows
  <2>8. Queue(groupTable') /\ \A k \in DOMAIN groupTable' : GroupRowOf(groupTable'[k])
    BY <2>5, <2>7, RowsHandled
  <2> QED
    BY <2>2, <2>3, <2>6, <2>8, BesideDialog DEF linkDialog
<1>5. ASSUME NEW n \in DOMAIN calls, TokenGroupSaved(n)
      PROVE  GroupInv'
  <2>1. Resume(n, <<Call("groups", Nil)>>) /\ UNCHANGED <<groupTable, linkDialog>>
    BY <1>5 DEF TokenGroupSaved, linkDialog
  <2>2. Call("groups", Nil).op = "groups"
    BY DEF Call
  <2> QED
    BY <1>0, <2>1, <2>2, ResumingOne, BesideDialog DEF linkDialog
<1>6. ASSUME NEW n \in DOMAIN calls, GroupFails(n)
      PROVE  GroupInv'
  <2>1. Resume(n, <<>>) /\ UNCHANGED <<groupTable, linkDialog>>
    BY <1>6 DEF GroupFails, linkDialog
  <2> QED
    BY <1>0, <2>1, ResumingNone, BesideDialog DEF linkDialog
<1> QED
  BY <1>1, <1>2, <1>3, <1>4, <1>5, <1>6 DEF TokenGroups

\* So the invariant holds through every step of the pane.
LEMMA GroupInvStep == GroupInv /\ [GroupStep]_<<browserVars, groupVars>> => GroupInv'
<1> SUFFICES ASSUME GroupInv, [GroupStep]_<<browserVars, groupVars>> PROVE GroupInv'
  OBVIOUS
<1>1. CASE UNCHANGED <<calls, groupVars>>
  BY <1>1 DEF groupVars, GroupInv, DialogTells
<1>2. CASE GroupNext
  BY <1>2, LinksDialogKeeps, TokenGroupsKeep DEF GroupNext
<1> QED
  BY <1>1, <1>2 DEF GroupStep, Denied, browserVars, groupVars

\* Once every answer is in and the opening drawn last is the one begun last,
\* table, offers and the group that "add" links to belong together, for any
\* groups and accounts, openings, changes and fetches under way
\* (openTgLinksModal, addTgUpstream, admin.js).
THEOREM DialogOfOneGroup == GroupSpec => []LinksDialogTells
<1>1. GroupInv => LinksDialogTells
  BY DEF GroupInv, DialogTells, LinksDialogTells
<1> QED
  BY <1>1, GroupInvInit, GroupInvStep, PTL DEF GroupSpec

-----------------------------------------------------------------------------
\* The auto routes.

\* The route whose creation a fetch belongs to, 0 for none.
Subject(c) ==
  IF c.op \in {"routeModel", "routePolicy"} THEN c.arg
  ELSE IF c.op = "routeCandidate" THEN c.arg.route ELSE 0

\* A route's creation is in one place at most.
OneCreation(s) == \A m, k \in DOMAIN s : m # k /\ Subject(s[m]) # 0 => Subject(s[m]) # Subject(s[k])

\* How far the creation has come that a fetch belongs to: what was done before
\* it is on the server, unless the administrator deleted the policy since.
CreationCall(c) ==
  /\ c.op \in {"routeModel", "routePolicy"} => c.arg \in 1 .. routesBegun
  /\ c.op = "routePolicy" => c.arg \in virtualModels
  /\ c.op = "routeCandidate" =>
       LET r == c.arg.route
       IN /\ r \in 1 .. routesBegun /\ r \in virtualModels
          /\ \/ r \in droppedRoutes
             \/ r \in DOMAIN policies /\ chosenOf[r] \ c.arg.todo \subseteq policies[r]
  /\ Subject(c) \notin savedRoutes

\* A row of the table of routes, and how many handlers its buttons have.
RouteRowOf(row) ==
  /\ row = [route |-> row.route, ids |-> row.ids, handlers |-> row.handlers]
  /\ row.handlers \in Nat

RouteRows(rows) == Queue(rows) /\ \A k \in DOMAIN rows : RouteRowOf(rows[k])

\* The routes saved have their models, their policies and their candidates.
SavedWhole ==
  \A r \in savedRoutes \ droppedRoutes :
    r \in virtualModels /\ r \in DOMAIN policies /\ chosenOf[r] \subseteq policies[r]

RouteInv ==
  /\ Queue(calls) /\ OneCreation(calls) /\ \A k \in DOMAIN calls : CreationCall(calls[k])
  /\ RouteRows(routeTable)
  /\ routesBegun \in Nat /\ savedRoutes \subseteq 1 .. routesBegun
  /\ SavedWhole

\* The page starts with no creation.
LEMMA RouteInvInit == BrowserInit({"admin"}) /\ RouteInit => RouteInv
<1> SUFFICES ASSUME BrowserInit({"admin"}), RouteInit PROVE RouteInv
  OBVIOUS
<1>1. Queue(calls) /\ DOMAIN calls = {} /\ Queue(routeTable) /\ DOMAIN routeTable = {}
  BY QueueNone DEF BrowserInit, RouteInit
<1> QED
  BY <1>1 DEF RouteInit, RouteInv, OneCreation, RouteRows, SavedWhole

\* A creation moves on by one fetch, in the place of its own; so do the others.
LEMMA CreationMoves ==
  ASSUME Queue(calls), OneCreation(calls), NEW n \in DOMAIN calls, NEW c, Resume(n, <<c>>),
         Subject(c) \in {0, Subject(calls[n])}
  PROVE  OneCreation(calls')
<1> DEFINE S == {calls[k] : k \in DOMAIN calls} \cup {c}
           K == [x \in S |-> Subject(x)]
<1>1. calls \in Seq(S) /\ c \in S
  BY SeqMonotone DEF Queue
<1>2. \A k \in DOMAIN calls : K[calls[k]] = Subject(calls[k])
  OBVIOUS
<1>3. K[c] = Subject(c)
  OBVIOUS
<1>4. Apart(K, calls)
  BY <1>2 DEF Apart, OneCreation
<1>5. calls' \in Seq(S) /\ \A k \in DOMAIN calls' : calls'[k] \in S
  <2>1. <<c>> \in Seq(S)
    BY <1>1
  <2>2. calls' \in Seq(S)
    BY <1>1, <2>1, ResumeKeeps
  <2> QED
    BY <2>2
<1>6. K[c] = 0 \/ \A m \in DOMAIN calls \ {n} : K[calls[m]] # K[c]
  BY <1>2, <1>3 DEF OneCreation
<1> HIDE DEF S, K
<1>7. Apart(K, calls')
  BY <1>1, <1>4, <1>6, ResumeApart
<1>8. \A k \in DOMAIN calls' : K[calls'[k]] = Subject(calls'[k])
  BY <1>5 DEF K
<1> QED
  BY <1>7, <1>8 DEF Apart, OneCreation

\* A creation ends.
LEMMA CreationEnds ==
  ASSUME Queue(calls), OneCreation(calls), NEW n \in DOMAIN calls, Resume(n, <<>>)
  PROVE  OneCreation(calls')
<1> DEFINE S == {calls[k] : k \in DOMAIN calls}
           K == [x \in S |-> Subject(x)]
<1>1. calls \in Seq(S)
  BY DEF Queue
<1>2. \A k \in DOMAIN calls : K[calls[k]] = Subject(calls[k])
  OBVIOUS
<1>3. Apart(K, calls)
  BY <1>2 DEF Apart, OneCreation
<1>4. calls' \in Seq(S) /\ \A k \in DOMAIN calls' : calls'[k] \in S
  <2>1. calls' \in Seq(S)
    BY <1>1, ResumeEnds
  <2> QED
    BY <2>1
<1> HIDE DEF S, K
<1>5. Apart(K, calls')
  BY <1>1, <1>3, EndApart
<1>6. \A k \in DOMAIN calls' : K[calls'[k]] = Subject(calls'[k])
  BY <1>4 DEF K
<1> QED
  BY <1>5, <1>6 DEF Apart, OneCreation

\* What a gesture sends, and no creation before.
LEMMA CreationsBegin ==
  ASSUME Queue(calls), OneCreation(calls), NEW sent, Queue(sent), Gesture(sent),
         OneCreation(sent),
         \A j \in DOMAIN sent, k \in DOMAIN calls : Subject(sent[j]) # 0 => Subject(sent[j]) # Subject(calls[k])
  PROVE  OneCreation(calls')
<1>1. calls' = calls \o sent /\ Len(calls) \in Nat /\ Len(sent) \in Nat
  BY DEF Gesture, Queue
<1>2. DOMAIN calls = 1 .. Len(calls) /\ DOMAIN sent = 1 .. Len(sent)
  BY DEF Queue
<1>3. Len(calls') = Len(calls) + Len(sent) /\ Queue(calls')
  BY Sending
<1>4. DOMAIN calls' = 1 .. (Len(calls) + Len(sent))
  BY <1>3 DEF Queue
<1>5. /\ \A k \in 1 .. Len(calls) : calls'[k] = calls[k]
      /\ \A k \in 1 .. Len(sent) : calls'[Len(calls) + k] = sent[k]
  <2> DEFINE S == {calls[k] : k \in DOMAIN calls} \cup {sent[k] : k \in DOMAIN sent}
  <2>1. calls \in Seq(S) /\ sent \in Seq(S)
    BY SeqMonotone DEF Queue
  <2> HIDE DEF S
  <2>2. \A k \in 1 .. Len(calls) : calls'[k] = calls[k]
    BY <1>1, <2>1
  <2>3. ASSUME NEW k \in 1 .. Len(sent) PROVE calls'[Len(calls) + k] = sent[k]
    BY <1>1, <2>1
  <2> QED
    BY <2>2, <2>3
<1>6. \A k \in DOMAIN calls' : k > Len(calls) => k - Len(calls) \in DOMAIN sent /\ calls'[k] = sent[k - Len(calls)]
  <2> SUFFICES ASSUME NEW k \in DOMAIN calls', k > Len(calls)
               PROVE  k - Len(calls) \in DOMAIN sent /\ calls'[k] = sent[k - Len(calls)]
    OBVIOUS
  <2>1. k - Len(calls) \in 1 .. Len(sent) /\ Len(calls) + (k - Len(calls)) = k
    BY <1>1, <1>4
  <2> QED
    BY <1>2, <1>5, <2>1
<1>7. \A k \in DOMAIN calls' : k <= Len(calls) => k \in DOMAIN calls /\ calls'[k] = calls[k]
  BY <1>1, <1>2, <1>4, <1>5
<1> SUFFICES ASSUME NEW m \in DOMAIN calls', NEW k \in DOMAIN calls', m # k, Subject(calls'[m]) # 0
             PROVE  Subject(calls'[m]) # Subject(calls'[k])
  BY DEF OneCreation
<1>8. m \in Int /\ k \in Int /\ Len(calls) \in Int
  BY <1>1, <1>4
<1>9. CASE m <= Len(calls) /\ k <= Len(calls)
  BY <1>7, <1>9 DEF OneCreation
<1>10. CASE m <= Len(calls) /\ k > Len(calls)
  BY <1>6, <1>7, <1>10
<1>11. CASE m > Len(calls) /\ k <= Len(calls)
  BY <1>6, <1>7, <1>11
<1>12. CASE m > Len(calls) /\ k > Len(calls)
  <2>1. m - Len(calls) # k - Len(calls)
    BY <1>8
  <2> QED
    BY <1>6, <1>12, <2>1 DEF OneCreation
<1> QED
  BY <1>8, <1>9, <1>10, <1>11, <1>12

\* The server's routes only grow, but for one that is made and those deleted.
RoutesGrow(made) ==
  /\ virtualModels \subseteq virtualModels' /\ droppedRoutes \subseteq droppedRoutes'
  /\ routesBegun' \in Nat /\ routesBegun <= routesBegun'
  /\ \A r \in 1 .. routesBegun : chosenOf'[r] = chosenOf[r]
  /\ \A r \in DOMAIN policies : r = made \/ r \in droppedRoutes' \/ (r \in DOMAIN policies' /\ policies[r] \subseteq policies'[r])

\* So the other creations are where they were,
LEMMA CreationStays ==
  ASSUME NEW made, RoutesGrow(made), routesBegun \in Nat,
         NEW c, CreationCall(c), Subject(c) # made \/ Subject(c) = 0, Subject(c) \notin savedRoutes'
  PROVE  CreationCall(c)'
<1> USE DEF CreationCall, RoutesGrow, Subject
<1>1. c.op \in {"routeModel", "routePolicy"} => c.arg \in 1 .. routesBegun'
  OBVIOUS
<1>2. c.op = "routePolicy" => c.arg \in virtualModels'
  OBVIOUS
<1>3. ASSUME c.op = "routeCandidate", NEW r, r = c.arg.route
      PROVE  /\ r \in 1 .. routesBegun' /\ r \in virtualModels'
             /\ \/ r \in droppedRoutes'
                \/ r \in DOMAIN policies' /\ chosenOf'[r] \ c.arg.todo \subseteq policies'[r]
  <2>1. r \in 1 .. routesBegun /\ r \in virtualModels /\ r # 0 /\ r # made
    BY <1>3
  <2> QED
    BY <1>3, <2>1
<1> QED
  BY <1>1, <1>2, <1>3

\* and the routes saved are whole.
LEMMA SavedStay ==
  ASSUME RouteInv, NEW made, RoutesGrow(made), made \notin savedRoutes,
         \A r \in savedRoutes' \ savedRoutes :
           r \in droppedRoutes' \/ (r \in virtualModels' /\ r \in DOMAIN policies' /\ chosenOf'[r] \subseteq policies'[r])
  PROVE  SavedWhole'
BY DEF RouteInv, RoutesGrow, SavedWhole

\* A handler, or a gesture, that saves no route.
LEMMA NothingSaved ==
  ASSUME RouteInv, NEW made, RoutesGrow(made), made \notin savedRoutes,
         savedRoutes' = savedRoutes, RouteRows(routeTable'), Queue(calls'), OneCreation(calls'),
         \A k \in DOMAIN calls' :
           \/ \E m \in DOMAIN calls : calls'[k] = calls[m] /\ (Subject(calls[m]) = 0 \/ Subject(calls[m]) # made)
           \/ \E c : calls'[k] = c /\ CreationCall(c)'
  PROVE  RouteInv'
<1>1. \A c : CreationCall(c) /\ (Subject(c) = 0 \/ Subject(c) # made) => CreationCall(c)'
  <2> SUFFICES ASSUME NEW c, CreationCall(c), Subject(c) = 0 \/ Subject(c) # made PROVE CreationCall(c)'
    OBVIOUS
  <2>1. Subject(c) \notin savedRoutes' /\ routesBegun \in Nat
    BY DEF CreationCall, RouteInv
  <2> QED
    BY <2>1, CreationStays
<1>2. \A k \in DOMAIN calls' : CreationCall(calls[k])'
  BY <1>1 DEF RouteInv
<1>3. SavedWhole'
  BY SavedStay
<1>4. routesBegun' \in Nat /\ savedRoutes' \subseteq 1 .. routesBegun'
  BY DEF RouteInv, RoutesGrow
<1> QED
  BY <1>2, <1>3, <1>4 DEF RouteInv

\* No route is called 0.
LEMMA NoRouteZero == RouteInv => 0 \notin savedRoutes
BY DEF RouteInv

\* A handler that saves no route.
LEMMA ResumesBeside ==
  ASSUME RouteInv, NEW n \in DOMAIN calls, NEW made, RoutesGrow(made), made \notin savedRoutes,
         \A m \in DOMAIN calls \ {n} : Subject(calls[m]) = 0 \/ Subject(calls[m]) # made,
         savedRoutes' = savedRoutes, RouteRows(routeTable'),
         Resume(n, <<>>) \/ \E c : Resume(n, <<c>>) /\ CreationCall(c)' /\ Subject(c) \in {0, Subject(calls[n])}
  PROVE  RouteInv'
<1>0. Queue(calls) /\ OneCreation(calls)
  BY DEF RouteInv
<1>1. CASE Resume(n, <<>>)
  <2>1. /\ Queue(calls') /\ OneCreation(calls')
        /\ \A k \in DOMAIN calls' : \E m \in DOMAIN calls : m # n /\ calls'[k] = calls[m]
    BY <1>0, <1>1, CreationEnds, ResumingNone
  <2> QED
    BY <2>1, NothingSaved
<1>2. ASSUME NEW c, Resume(n, <<c>>), CreationCall(c)', Subject(c) \in {0, Subject(calls[n])}
      PROVE  RouteInv'
  <2>1. OneCreation(calls')
    BY <1>0, <1>2, CreationMoves
  <2>2. /\ Queue(calls')
        /\ \A k \in DOMAIN calls' : calls'[k] = c \/ \E m \in DOMAIN calls : m # n /\ calls'[k] = calls[m]
    BY <1>0, <1>2, ResumingOne
  <2>3. \A k \in DOMAIN calls' :
           \/ \E m \in DOMAIN calls : calls'[k] = calls[m] /\ (Subject(calls[m]) = 0 \/ Subject(calls[m]) # made)
           \/ \E x : calls'[k] = x /\ CreationCall(x)'
    BY <1>2, <2>2
  <2> QED
    BY <2>1, <2>2, <2>3, NothingSaved
<1> QED
  BY <1>1, <1>2

\* A fetch that belongs to no creation.
LEMMA NoCreation ==
  ASSUME NEW op, NEW arg, op \notin {"routeModel", "routePolicy", "routeCandidate"}, 0 \notin savedRoutes
  PROVE  CreationCall(Call(op, arg)) /\ Subject(Call(op, arg)) = 0
BY DEF CreationCall, Subject, Call

\* A gesture beside the creations.
LEMMA SendsBeside ==
  ASSUME RouteInv, UNCHANGED <<routeServer, routesBegun, chosenOf, savedRoutes>>, RouteRows(routeTable'),
         NEW sent, Queue(sent), Gesture(sent),
         \A j \in DOMAIN sent : CreationCall(sent[j]) /\ Subject(sent[j]) = 0
  PROVE  RouteInv'
<1>1. Queue(calls) /\ OneCreation(calls) /\ OneCreation(sent)
  BY DEF RouteInv, OneCreation
<1>2. OneCreation(calls')
  BY <1>1, CreationsBegin
<1>3. /\ Queue(calls')
      /\ \A k \in DOMAIN calls' : \/ \E m \in DOMAIN calls : calls'[k] = calls[m]
                                  \/ \E j \in DOMAIN sent : calls'[k] = sent[j]
  BY <1>1, Sending
<1>4. \A k \in DOMAIN calls' : CreationCall(calls'[k])
  BY <1>3 DEF RouteInv
<1>5. \A k \in DOMAIN calls' : CreationCall(calls[k])'
  BY <1>4 DEF CreationCall, routeServer
<1> QED
  BY <1>2, <1>3, <1>5 DEF RouteInv, SavedWhole, routeServer

\* A route is saved by the last fetch of its creation.
LEMMA RouteSaved ==
  ASSUME RouteInv, NEW n \in DOMAIN calls, NEW r, r = Subject(calls[n]), r # 0, RoutesGrow(r),
         savedRoutes' = savedRoutes \cup {r}, r \in 1 .. routesBegun, RouteRows(routeTable'),
         Resume(n, <<Call("candidateModels", TRUE)>>),
         r \in droppedRoutes' \/ (r \in virtualModels' /\ r \in DOMAIN policies' /\ chosenOf'[r] \subseteq policies'[r])
  PROVE  RouteInv'
<1> DEFINE c == Call("candidateModels", TRUE)
<1>0. /\ Queue(calls) /\ OneCreation(calls) /\ routesBegun \in Nat /\ 0 \notin savedRoutes
      /\ r \notin savedRoutes /\ routesBegun' \in Nat /\ routesBegun <= routesBegun'
      /\ savedRoutes \subseteq 1 .. routesBegun
  BY NoRouteZero DEF RouteInv, CreationCall, RoutesGrow
<1>1. Subject(c) = 0 /\ CreationCall(c)'
  BY <1>0 DEF Subject, CreationCall, Call
<1>2. Resume(n, <<c>>)
  OBVIOUS
<1> HIDE DEF c
<1>3. OneCreation(calls')
  BY <1>0, <1>1, <1>2, CreationMoves
<1>4. /\ Queue(calls')
      /\ \A k \in DOMAIN calls' : calls'[k] = c \/ \E m \in DOMAIN calls : m # n /\ calls'[k] = calls[m]
  BY <1>0, <1>2, ResumingOne
<1>5. \A m \in DOMAIN calls \ {n} : CreationCall(calls[m]) /\ Subject(calls[m]) # r
  BY <1>0 DEF RouteInv, OneCreation
<1>6. \A x : CreationCall(x) /\ Subject(x) # r => CreationCall(x)'
  <2> SUFFICES ASSUME NEW x, CreationCall(x), Subject(x) # r PROVE CreationCall(x)'
    OBVIOUS
  <2>1. Subject(x) \notin savedRoutes'
    BY DEF CreationCall
  <2> QED
    BY <1>0, <2>1, CreationStays
<1>7. \A k \in DOMAIN calls' : CreationCall(calls[k])'
  BY <1>1, <1>4, <1>5, <1>6
<1>8. SavedWhole'
  BY <1>0, SavedStay
<1>9. savedRoutes' \subseteq 1 .. routesBegun'
  <2>1. savedRoutes \cup {r} \subseteq 1 .. routesBegun
    BY <1>0
  <2>2. 1 .. routesBegun \subseteq 1 .. routesBegun'
    BY <1>0
  <2> QED
    BY <2>1, <2>2
<1> QED
  BY <1>0, <1>3, <1>4, <1>7, <1>8, <1>9 DEF RouteInv

\* What is left to post, or the route saved.
LEMMA ProceedKeeps ==
  ASSUME RouteInv, NEW n \in DOMAIN calls, NEW r, NEW todo, Proceed(n, r, todo), r = Subject(calls[n]),
         RoutesGrow(r), r \in 1 .. routesBegun, r \in virtualModels',
         UNCHANGED routeTable, r \in droppedRoutes' \/ (r \in DOMAIN policies' /\ chosenOf'[r] \ todo \subseteq policies'[r])
  PROVE  RouteInv'
<1>0. /\ OneCreation(calls) /\ routesBegun \in Nat /\ r # 0 /\ 0 \notin savedRoutes /\ r \notin savedRoutes
      /\ RouteRows(routeTable')
  BY NoRouteZero DEF RouteInv, CreationCall
<1>1. CASE todo # {}
  <2> DEFINE c == Call("routeCandidate", [route |-> r, todo |-> todo])
  <2>1. Resume(n, <<c>>) /\ savedRoutes' = savedRoutes
    BY <1>1 DEF Proceed
  <2>2. CreationCall(c)' /\ Subject(c) = r
    BY <1>0, <2>1 DEF CreationCall, Subject, Call, RoutesGrow
  <2>3. \A m \in DOMAIN calls \ {n} : Subject(calls[m]) = 0 \/ Subject(calls[m]) # r
    BY <1>0 DEF OneCreation
  <2> HIDE DEF c
  <2> QED
    BY <1>0, <2>1, <2>2, <2>3, ResumesBeside
<1>2. CASE todo = {}
  <2>1. savedRoutes' = savedRoutes \cup {r} /\ Resume(n, <<Call("candidateModels", TRUE)>>)
    BY <1>2 DEF Proceed
  <2> QED
    BY <1>0, <1>2, <2>1, RouteSaved
<1> QED
  BY <1>1, <1>2

\* The creation of a route.
LEMMA RouteCreationKeeps ==
  ASSUME RouteInv, RouteCreation
  PROVE  RouteInv'
<1>0. /\ Queue(calls) /\ OneCreation(calls) /\ routesBegun \in Nat /\ 0 \notin savedRoutes
      /\ \A k \in DOMAIN calls : CreationCall(calls[k])
      /\ RouteRows(routeTable) /\ savedRoutes \subseteq 1 .. routesBegun
  BY NoRouteZero DEF RouteInv
<1>1. CASE CreateAutoRoute
  <2>1. CASE /\ UNCHANGED <<calls, routeServer, routesBegun, chosenOf, savedRoutes, routeTable>>
    BY <2>1 DEF RouteInv, CreationCall, SavedWhole, routeServer
  <2>2. ASSUME NEW chosen,
               chosenOf' = [r \in 1 .. routesBegun + 1 |-> IF r > routesBegun THEN chosen ELSE chosenOf[r]],
               Gesture(<<Call("routeModel", routesBegun + 1)>>), routesBegun' = routesBegun + 1,
               UNCHANGED <<routeServer, savedRoutes, routeTable>>
        PROVE  RouteInv'
    <3>0. PICK c : c = Call("routeModel", routesBegun + 1)
      OBVIOUS
    <3>1. RoutesGrow(0)
      BY <1>0, <2>2 DEF RoutesGrow, routeServer
    <3>2. CreationCall(c)' /\ Subject(c) = routesBegun + 1 /\ Gesture(<<c>>)
      BY <1>0, <2>2, <3>0 DEF CreationCall, Subject, Call
    <3>3. \A k \in DOMAIN calls : Subject(calls[k]) # Subject(c)
      BY <1>0, <3>2 DEF CreationCall, Subject
    <3>4. /\ Queue(calls')
          /\ \A k \in DOMAIN calls' : calls'[k] = c \/ \E m \in DOMAIN calls : calls'[k] = calls[m]
      BY <1>0, <3>2, SendingOne
    <3>5. OneCreation(calls')
      <4> DEFINE sent == <<c>>
      <4>1. Queue(sent) /\ \A j \in DOMAIN sent : sent[j] = c
        BY QueueOne
      <4>2. OneCreation(sent)
        <5>1. DOMAIN sent = {1}
          OBVIOUS
        <5> QED
          BY <5>1 DEF OneCreation
      <4>3. Gesture(sent)
        BY <3>2
      <4> HIDE DEF sent
      <4> QED
        BY <1>0, <3>3, <4>1, <4>2, <4>3, CreationsBegin
    <3>6. \A k \in DOMAIN calls' :
           \/ \E m \in DOMAIN calls : calls'[k] = calls[m] /\ (Subject(calls[m]) = 0 \/ Subject(calls[m]) # 0)
           \/ \E x : calls'[k] = x /\ CreationCall(x)'
      BY <3>2, <3>4
    <3> QED
      BY <1>0, <2>2, <3>1, <3>4, <3>5, <3>6, NothingSaved
  <2> QED
    BY <1>1, <2>1, <2>2 DEF CreateAutoRoute, Local, browserVars
<1>2. ASSUME NEW n \in DOMAIN calls, VirtualModelCreated(n)
      PROVE  RouteInv'
  <2>0. PICK r, c : r = calls[n].arg /\ c = Call("routePolicy", r)
    OBVIOUS
  <2>1. /\ calls[n].op = "routeModel" /\ virtualModels' = virtualModels \cup {r}
        /\ Resume(n, <<c>>)
        /\ UNCHANGED <<policies, droppedRoutes, routesBegun, chosenOf, savedRoutes, routeTable>>
    BY <1>2, <2>0 DEF VirtualModelCreated, Asked
  <2>2. r \in 1 .. routesBegun /\ Subject(calls[n]) = r /\ r \notin savedRoutes
    BY <1>0, <2>0, <2>1 DEF CreationCall, Subject
  <2>3. CreationCall(c)' /\ Subject(c) = r
    BY <2>0, <2>1, <2>2 DEF CreationCall, Subject, Call
  <2>4. RoutesGrow(0)
    BY <1>0, <2>1 DEF RoutesGrow
  <2> QED
    BY <1>0, <2>1, <2>2, <2>3, <2>4, ResumesBeside
<1>3. ASSUME NEW n \in DOMAIN calls, PolicyCreated(n)
      PROVE  RouteInv'
  <2> DEFINE r == calls[n].arg
  <2>1. /\ calls[n].op = "routePolicy" /\ policies' = WithCandidates(r, {})
        /\ Proceed(n, r, chosenOf[r])
        /\ UNCHANGED <<virtualModels, droppedRoutes, routesBegun, chosenOf, routeTable>>
    BY <1>3 DEF PolicyCreated, Asked
  <2>2. r \in 1 .. routesBegun /\ r \in virtualModels /\ Subject(calls[n]) = r
    BY <1>0, <2>1 DEF CreationCall, Subject
  <2>3. RoutesGrow(r) /\ r \in DOMAIN policies' /\ policies'[r] = {}
    BY <1>0, <2>1 DEF RoutesGrow, WithCandidates
  <2>4. chosenOf'[r] \ chosenOf[r] \subseteq policies'[r]
    BY <2>1
  <2> QED
    BY <2>1, <2>2, <2>3, <2>4, ProceedKeeps
<1>4. ASSUME NEW n \in DOMAIN calls, CandidateAdded(n)
      PROVE  RouteInv'
  <2> DEFINE r == calls[n].arg.route
             todo == calls[n].arg.todo
  <2>1. PICK c : /\ policies' = WithCandidates(r, policies[r] \cup {c})
                 /\ Proceed(n, r, todo \ {c})
    BY <1>4 DEF CandidateAdded
  <2>2. /\ calls[n].op = "routeCandidate" /\ r \in DOMAIN policies
        /\ UNCHANGED <<virtualModels, droppedRoutes, routesBegun, chosenOf, routeTable>>
    BY <1>4 DEF CandidateAdded, Asked
  <2>3. /\ r \in 1 .. routesBegun /\ r \in virtualModels /\ Subject(calls[n]) = r
        /\ r \in droppedRoutes \/ chosenOf[r] \ todo \subseteq policies[r]
    BY <1>0, <2>2 DEF CreationCall, Subject
  <2>4. RoutesGrow(r) /\ r \in DOMAIN policies' /\ policies'[r] = policies[r] \cup {c}
    BY <1>0, <2>1, <2>2 DEF RoutesGrow, WithCandidates
  <2>5. r \in droppedRoutes' \/ chosenOf'[r] \ (todo \ {c}) \subseteq policies'[r]
    BY <2>2, <2>3, <2>4
  <2> QED
    BY <2>1, <2>2, <2>3, <2>4, <2>5, ProceedKeeps
<1>5. ASSUME NEW n \in DOMAIN calls, RouteCreationFails(n)
      PROVE  RouteInv'
  <2>1. Resume(n, <<>>) /\ UNCHANGED <<droppedRoutes, routesBegun, chosenOf, savedRoutes, routeTable>>
    BY <1>5 DEF RouteCreationFails
  <2>2. CASE policies' = policies
    <3>1. RoutesGrow(0)
      BY <1>0, <1>5, <2>1, <2>2 DEF RouteCreationFails, RoutesGrow
    <3> QED
      BY <1>0, <2>1, <3>1, ResumesBeside
  <2>3. CASE policies' # policies
    <3> DEFINE r == calls[n].arg
    <3>1. calls[n].op = "routePolicy" /\ policies' = WithCandidates(r, {}) /\ UNCHANGED virtualModels
      BY <1>5, <2>3 DEF RouteCreationFails, Asked
    <3>2. Subject(calls[n]) = r /\ r # 0 /\ r \notin savedRoutes
      BY <1>0, <3>1 DEF CreationCall, Subject
    <3>3. RoutesGrow(r)
      BY <1>0, <2>1, <3>1 DEF RoutesGrow, WithCandidates
    <3>4. \A m \in DOMAIN calls \ {n} : Subject(calls[m]) # r
      BY <1>0, <3>2 DEF OneCreation
    <3> QED
      BY <1>0, <2>1, <3>2, <3>3, <3>4, ResumesBeside
  <2> QED
    BY <2>2, <2>3
<1> QED
  BY <1>1, <1>2, <1>3, <1>4, <1>5 DEF RouteCreation

\* The rows of the table, once a load has given them their handlers.
LEMMA RoutesInstalled ==
  ASSUME NEW rows, RouteRows(rows), NEW last
  PROVE  RouteRows(Installed(rows, last))
<1> DEFINE t == Installed(rows, last)
<1>1. CASE last
  <2>1. t = [k \in DOMAIN rows |-> [rows[k] EXCEPT !.handlers = @ + 1]]
    BY <1>1 DEF Installed
  <2>2. Queue(t) /\ DOMAIN t = DOMAIN rows
    BY <2>1, QueueMap DEF RouteRows
  <2>3. \A k \in DOMAIN rows : RouteRowOf([rows[k] EXCEPT !.handlers = @ + 1])
    BY DEF RouteRows, RouteRowOf
  <2> QED
    BY <2>1, <2>2, <2>3 DEF RouteRows
<1>2. CASE ~last
  BY <1>2 DEF Installed
<1> QED
  BY <1>1, <1>2

\* A handler of the table resumes, and sends nothing or what belongs to no
\* creation.
LEMMA TableResumes ==
  ASSUME RouteInv, NEW n \in DOMAIN calls, UNCHANGED <<virtualModels, routesBegun, chosenOf, savedRoutes>>,
         RoutesGrow(0), RouteRows(routeTable'),
         Resume(n, <<>>)
         \/ \E op, arg : op \notin {"routeModel", "routePolicy", "routeCandidate"} /\ Resume(n, <<Call(op, arg)>>)
  PROVE  RouteInv'
<1>0. 0 \notin savedRoutes /\ 0 \notin savedRoutes'
  BY NoRouteZero
<1>1. CASE Resume(n, <<>>)
  BY <1>0, <1>1, ResumesBeside
<1>2. ASSUME NEW op, NEW arg, op \notin {"routeModel", "routePolicy", "routeCandidate"},
             Resume(n, <<Call(op, arg)>>)
      PROVE  RouteInv'
  <2> DEFINE c == Call(op, arg)
  <2>1. Subject(c) = 0 /\ CreationCall(c)' /\ Resume(n, <<c>>)
    BY <1>0, <1>2 DEF Subject, CreationCall, Call
  <2> HIDE DEF c
  <2> QED
    BY <1>0, <2>1, ResumesBeside
<1> QED
  BY <1>1, <1>2

\* A button sends so many fetches of one kind.
LEMMA ButtonSends ==
  ASSUME RouteInv, UNCHANGED routeVars, NEW k \in DOMAIN routeTable, NEW op, NEW arg,
         op \notin {"routeModel", "routePolicy", "routeCandidate"}, Sent(routeTable[k], op, arg)
  PROVE  RouteInv'
<1> DEFINE c == Call(op, arg)
           sent == [h \in 1 .. routeTable[k].handlers |-> c]
<1>1. Gesture(sent) /\ routeTable[k].handlers \in Nat
  BY DEF Sent, RouteInv, RouteRows, RouteRowOf
<1>2. Queue(sent) /\ \A j \in DOMAIN sent : sent[j] = c
  BY <1>1, QueueOf
<1>3. CreationCall(c) /\ Subject(c) = 0
  BY NoRouteZero, NoCreation
<1>4. UNCHANGED <<routeServer, routesBegun, chosenOf, savedRoutes>> /\ RouteRows(routeTable')
  BY DEF routeVars, RouteInv
<1> HIDE DEF c, sent
<1> QED
  BY <1>1, <1>2, <1>3, <1>4, SendsBeside

\* The table of routes.
LEMMA RouteTableKeeps ==
  ASSUME RouteInv, AutoRouteTable
  PROVE  RouteInv'
<1>0. RouteRows(routeTable) /\ routesBegun \in Nat
  BY DEF RouteInv
<1>1. CASE DeleteRoute
  <2>1. PICK k \in DOMAIN routeTable : Sent(routeTable[k], "dropRoute", routeTable[k].route)
    BY <1>1 DEF DeleteRoute
  <2> QED
    BY <1>1, <2>1, ButtonSends DEF DeleteRoute
<1>2. CASE AddCandidate
  <2>1. PICK k \in DOMAIN routeTable, c \in Candidates :
          Sent(routeTable[k], "oneMore", [route |-> routeTable[k].route, candidate |-> c])
    BY <1>2 DEF AddCandidate
  <2> QED
    BY <1>2, <2>1, ButtonSends DEF AddCandidate
<1>3. CASE DryRun
  BY <1>3 DEF DryRun, Local, browserVars, RouteInv, CreationCall, SavedWhole, routeServer
<1>4. ASSUME NEW n \in DOMAIN calls, PopulateAutoRouteCandidateSelect(n)
      PROVE  RouteInv'
  <2>1. Resume(n, <<Call("routes", calls[n].arg)>>) /\ UNCHANGED routeVars
    BY <1>4 DEF PopulateAutoRouteCandidateSelect
  <2>2. RoutesGrow(0)
    BY <1>0, <2>1 DEF RoutesGrow, routeVars, routeServer
  <2> QED
    BY <1>0, <2>1, <2>2, TableResumes DEF routeVars, routeServer
<1>5. ASSUME NEW n \in DOMAIN calls, LoadAutoRoutes(n)
      PROVE  RouteInv'
  <2>1. /\ routeTable' = <<>> /\ UNCHANGED <<routeServer, routesBegun, chosenOf, savedRoutes>>
        /\ Resume(n, <<>>) \/ Resume(n, <<Call("routeRow", RoutesInOrder)>>)
    BY <1>5 DEF LoadAutoRoutes
  <2>2. RoutesGrow(0) /\ RouteRows(routeTable')
    BY <1>0, <2>1, QueueNone DEF RoutesGrow, routeServer, RouteRows
  <2> QED
    BY <2>1, <2>2, TableResumes DEF routeServer
<1>6. ASSUME NEW n \in DOMAIN calls, RouteRow(n)
      PROVE  RouteInv'
  <2> DEFINE r == Head(calls[n].arg)
             rows(ids) == Append(routeTable, [route |-> r, ids |-> ids, handlers |-> 0])
  <2>1. PICK ids : routeTable' = Installed(rows(ids), Len(calls[n].arg) = 1)
    BY <1>6 DEF RouteRow
  <2>2. /\ UNCHANGED <<routeServer, routesBegun, chosenOf, savedRoutes>>
        /\ Resume(n, <<>>) \/ Resume(n, <<Call("routeRow", Tail(calls[n].arg))>>)
    BY <1>6 DEF RouteRow
  <2>3. RouteRowOf([route |-> r, ids |-> ids, handlers |-> 0])
    BY DEF RouteRowOf
  <2>4. RouteRows(rows(ids))
    BY <1>0, <2>3, QueueAppend DEF RouteRows
  <2> HIDE DEF rows
  <2>5. RouteRows(routeTable')
    BY <2>1, <2>4, RoutesInstalled
  <2>6. RoutesGrow(0)
    BY <1>0, <2>2 DEF RoutesGrow, routeServer
  <2> QED
    BY <2>2, <2>5, <2>6, TableResumes DEF routeServer
<1>7. ASSUME NEW n \in DOMAIN calls, RouteChanged(n)
      PROVE  RouteInv'
  <2>1. /\ UNCHANGED <<virtualModels, routesBegun, chosenOf, savedRoutes, routeTable>>
        /\ Resume(n, <<Call("candidateModels", FALSE)>>)
    BY <1>7 DEF RouteChanged
  <2>2. RoutesGrow(0)
    BY <1>0, <1>7, <2>1 DEF RouteChanged, RoutesGrow, WithCandidates
  <2> QED
    BY <1>0, <2>1, <2>2, TableResumes
<1>8. ASSUME NEW n \in DOMAIN calls, RouteNotChanged(n)
      PROVE  RouteInv'
  <2>1. Resume(n, <<>>) /\ UNCHANGED routeVars
    BY <1>8 DEF RouteNotChanged
  <2>2. RoutesGrow(0)
    BY <1>0, <2>1 DEF RoutesGrow, routeVars, routeServer
  <2> QED
    BY <1>0, <2>1, <2>2, TableResumes DEF routeVars, routeServer
<1> QED
  BY <1>1, <1>2, <1>3, <1>4, <1>5, <1>6, <1>7, <1>8 DEF AutoRouteTable

\* The rate limit rules leave the routes alone.
LEMMA RulesKeep ==
  ASSUME RouteInv, RateLimitRules
  PROVE  RouteInv'
<1>0. /\ RouteRows(routeTable) /\ routesBegun \in Nat /\ Queue(calls)
      /\ UNCHANGED <<routeServer, routesBegun, chosenOf, savedRoutes, routeTable>>
  BY DEF RouteInv, RateLimitRules, AddRule, ClickRule, SaveRateLimit, HideRule, RuleAnswered,
         LoadRateLimits, RuleFails, NoRoute
<1>1. RoutesGrow(0) /\ UNCHANGED <<virtualModels, routesBegun, chosenOf, savedRoutes>>
  BY <1>0 DEF RoutesGrow, routeServer
<1>2. CASE UNCHANGED calls
  BY <1>0, <1>2 DEF RouteInv, CreationCall, SavedWhole, routeServer
<1>3. ASSUME NEW op \in {"editRule", "dropRule", "saveRule"}, NEW arg, Gesture(<<Call(op, arg)>>)
      PROVE  RouteInv'
  <2> DEFINE c == Call(op, arg)
             sent == <<c>>
  <2>1. Queue(sent) /\ \A j \in DOMAIN sent : sent[j] = c
    BY QueueOne
  <2>2. CreationCall(c) /\ Subject(c) = 0
    BY <1>3, NoRouteZero, NoCreation
  <2>3. Gesture(sent)
    BY <1>3
  <2> HIDE DEF c, sent
  <2> QED
    BY <1>0, <2>1, <2>2, <2>3, SendsBeside
<1>4. ASSUME NEW n \in DOMAIN calls, Resume(n, <<>>) \/ Resume(n, <<Call("rules", Nil)>>)
      PROVE  RouteInv'
  BY <1>0, <1>1, <1>4, TableResumes
<1>5. \/ UNCHANGED calls
      \/ \E op \in {"editRule", "dropRule", "saveRule"} : \E arg : Gesture(<<Call(op, arg)>>)
      \/ \E n \in DOMAIN calls : Resume(n, <<>>) \/ Resume(n, <<Call("rules", Nil)>>)
  BY DEF RateLimitRules, AddRule, ClickRule, SaveRateLimit, HideRule, RuleAnswered,
         LoadRateLimits, RuleFails, Local, browserVars
<1> QED
  BY <1>2, <1>3, <1>4, <1>5

\* So the invariant holds while the session does.
LEMMA RouteInvStep ==
  ASSUME RouteInv, RouteNext
  PROVE  RouteInv'
BY RouteCreationKeeps, RouteTableKeeps, RulesKeep DEF RouteNext

\* Every handler of the pane needs the session, and none passes a candidate over.
LEMMA HandlersSignedIn ==
  ASSUME RouteNext
  PROVE  session = "in" /\ UNCHANGED <<session, passedOver>>
<1>1. CASE RouteCreation
  <2>1. CASE CreateAutoRoute
    BY <2>1 DEF CreateAutoRoute, Gesture, Local, browserVars
  <2>2. ASSUME NEW n \in DOMAIN calls, VirtualModelCreated(n) \/ RouteCreationFails(n)
        PROVE  session = "in" /\ UNCHANGED <<session, passedOver>>
    BY <2>2 DEF VirtualModelCreated, RouteCreationFails, Asked, Resume
  <2>3. ASSUME NEW n \in DOMAIN calls, PolicyCreated(n) \/ CandidateAdded(n)
        PROVE  session = "in" /\ UNCHANGED <<session, passedOver>>
    BY <2>3 DEF PolicyCreated, CandidateAdded, Proceed, Asked, Resume
  <2> QED
    BY <1>1, <2>1, <2>2, <2>3 DEF RouteCreation
<1>2. CASE AutoRouteTable
  <2>1. CASE DeleteRoute \/ AddCandidate \/ DryRun
    BY <2>1 DEF DeleteRoute, AddCandidate, DryRun, Sent, Gesture, Local, browserVars, routeVars
  <2>2. ASSUME NEW n \in DOMAIN calls,
               \/ PopulateAutoRouteCandidateSelect(n) \/ LoadAutoRoutes(n) \/ RouteRow(n)
               \/ RouteChanged(n) \/ RouteNotChanged(n)
        PROVE  session = "in" /\ UNCHANGED <<session, passedOver>>
    BY <2>2 DEF PopulateAutoRouteCandidateSelect, LoadAutoRoutes, RouteRow, RouteChanged, RouteNotChanged,
                Asked, Resume, routeVars
  <2> QED
    BY <1>2, <2>1, <2>2 DEF AutoRouteTable
<1>3. CASE RateLimitRules
  BY <1>3 DEF RateLimitRules, AddRule, ClickRule, SaveRateLimit, HideRule, RuleAnswered, LoadRateLimits,
              RuleFails, NoRoute, Gesture, Local, Asked, Resume, browserVars
<1> QED
  BY <1>1, <1>2, <1>3 DEF RouteNext

\* While the session lasts the whole invariant holds, and no candidate was
\* passed over; once it is over, what a creation under way had done is done.
RouteHolds ==
  \/ RouteInv /\ passedOver = {}
  \/ /\ session = "out" /\ SavedRouteIsWhole
     /\ \A k \in DOMAIN calls : calls[k].op = "routeCandidate" =>
          LET r == calls[k].arg.route
          IN r \in virtualModels /\ (r \in droppedRoutes \/ r \in DOMAIN policies)

\* The first says what the second does.
LEMMA RouteInvTells ==
  ASSUME RouteInv, passedOver = {}
  PROVE  /\ SavedRouteIsWhole
         /\ \A k \in DOMAIN calls : calls[k].op = "routeCandidate" =>
              LET r == calls[k].arg.route
              IN r \in virtualModels /\ (r \in droppedRoutes \/ r \in DOMAIN policies)
BY DEF RouteInv, SavedWhole, SavedRouteIsWhole, CreationCall

\* A 401 reports a route that has its model and its policy.
LEMMA DeniedKeeps ==
  ASSUME RouteHolds, NEW n \in DOMAIN calls, CreationDenied(n) \/ OtherDenied(n)
  PROVE  RouteHolds'
<1>1. /\ SavedRouteIsWhole
      /\ \A k \in DOMAIN calls : calls[k].op = "routeCandidate" =>
           LET r == calls[k].arg.route
           IN r \in virtualModels /\ (r \in droppedRoutes \/ r \in DOMAIN policies)
  BY RouteInvTells DEF RouteHolds
<1>2. session' = "out" /\ UNCHANGED <<calls, routeServer, chosenOf>>
  BY DEF CreationDenied, OtherDenied, Denied, routeVars
<1>3. SavedRouteIsWhole'
  <2>1. CASE UNCHANGED <<savedRoutes, passedOver>>
    BY <1>1, <1>2, <2>1 DEF SavedRouteIsWhole, routeServer
  <2>2. CASE /\ calls[n].op = "routeCandidate"
             /\ savedRoutes' = savedRoutes \cup {calls[n].arg.route}
             /\ passedOver' = passedOver \cup {calls[n].arg.route}
    BY <1>1, <1>2, <2>2 DEF SavedRouteIsWhole, routeServer
  <2> QED
    BY <2>1, <2>2 DEF CreationDenied, OtherDenied, routeVars
<1> QED
  BY <1>1, <1>2, <1>3 DEF RouteHolds, routeServer

\* So it holds through every step of the pane.
LEMMA RouteHoldsStep == RouteHolds /\ [RouteStep]_<<browserVars, routeVars>> => RouteHolds'
<1> SUFFICES ASSUME RouteHolds, [RouteStep]_<<browserVars, routeVars>> PROVE RouteHolds'
  OBVIOUS
<1>1. CASE UNCHANGED <<browserVars, routeVars>>
  BY <1>1 DEF browserVars, routeVars, routeServer, RouteHolds, RouteInv, CreationCall, SavedWhole, SavedRouteIsWhole
<1>2. CASE RouteNext
  <2>1. session = "in" /\ passedOver' = passedOver
    BY <1>2, HandlersSignedIn
  <2>2. RouteInv /\ passedOver = {}
    BY <2>1 DEF RouteHolds
  <2> QED
    BY <1>2, <2>1, <2>2, RouteInvStep DEF RouteHolds
<1>3. CASE \E n \in DOMAIN calls : CreationDenied(n) \/ OtherDenied(n)
  BY <1>3, DeniedKeeps
<1> QED
  BY <1>1, <1>2, <1>3 DEF RouteStep

\* A route reported as saved is whole on the server, its policy with every
\* candidate chosen, unless the administrator deleted it since or the session
\* ended while its candidates were posted, when it has its model and its policy:
\* for any candidates, any number of creations that overlap, and requests that
\* fail, are carried out without an answer or are refused (createAutoRoute,
\* admin.js).
THEOREM SavedRoutesWhole == RouteSpec => []SavedRouteIsWhole
<1>1. BrowserInit({"admin"}) /\ RouteInit => RouteHolds
  BY RouteInvInit DEF RouteHolds, RouteInit
<1>2. RouteHolds => SavedRouteIsWhole
  BY RouteInvTells DEF RouteHolds
<1> QED
  BY <1>1, <1>2, RouteHoldsStep, PTL DEF RouteSpec

-----------------------------------------------------------------------------
\* The model table.

\* Numbers one below the other.
Falling(s) == \A i, j \in DOMAIN s : i < j => s[i] > s[j]

\* How many of ids are not below m.
Rank(ids, m) == Cardinality({i \in ids : i >= m})

\* The smaller of two numbers has the higher rank.
LEMMA RankRises ==
  ASSUME NEW ids, ids \subseteq Nat, IsFiniteSet(ids), NEW a \in ids, NEW b \in ids
  PROVE  /\ Rank(ids, a) \in 1 .. Cardinality(ids)
         /\ a > b => Rank(ids, a) < Rank(ids, b)
         /\ a >= b => Rank(ids, a) <= Rank(ids, b)
<1> DEFINE A == {i \in ids : i >= a}
           B == {i \in ids : i >= b}
<1>1. /\ IsFiniteSet(A) /\ IsFiniteSet(B) /\ A \subseteq ids /\ B \subseteq ids /\ a \in A /\ b \in B
      /\ Cardinality(A) <= Cardinality(ids)
  BY FS_Subset
<1>2. Cardinality(A) \in Nat /\ Cardinality(B) \in Nat /\ Cardinality(A) # 0 /\ Cardinality(ids) \in Nat
  BY <1>1, FS_CardinalityType, FS_EmptySet
<1>3. ASSUME a >= b PROVE A \subseteq B
  <2> SUFFICES ASSUME NEW i \in ids, i >= a PROVE i >= b
    OBVIOUS
  <2>1. a \in Nat /\ b \in Nat /\ i \in Nat
    OBVIOUS
  <2> QED
    BY <1>3, <2>1
<1>4. a >= b => Cardinality(A) <= Cardinality(B)
  BY <1>1, <1>3, FS_Subset
<1>5. a > b => Cardinality(A) # Cardinality(B)
  <2> SUFFICES ASSUME a > b PROVE Cardinality(A) # Cardinality(B)
    OBVIOUS
  <2>1. A \subseteq B /\ b \notin A
    BY <1>3
  <2> QED
    BY <1>1, <2>1, FS_Subset
<1> QED
  BY <1>1, <1>2, <1>4, <1>5 DEF Rank

\* So the ranks are all the numbers from 1 to the size of the set.
LEMMA Ranked ==
  ASSUME NEW ids, ids \subseteq Nat, IsFiniteSet(ids), NEW k \in 1 .. Cardinality(ids)
  PROVE  \E m \in ids : Rank(ids, m) = k
<1> DEFINE T == 1 .. Cardinality(ids)
           f == [m \in ids |-> Rank(ids, m)]
<1>1. Cardinality(ids) \in Nat
  BY FS_CardinalityType
<1>2. f \in [ids -> T]
  BY RankRises
<1>3. \A a, b \in ids : f[a] = f[b] => a = b
  <2> SUFFICES ASSUME NEW a \in ids, NEW b \in ids, f[a] = f[b] PROVE a = b
    OBVIOUS
  <2>1. f[a] \in T /\ f[b] \in T
    BY <1>2
  <2>2. Rank(ids, a) = Rank(ids, b) /\ Rank(ids, a) \in Nat /\ a \in Nat /\ b \in Nat
    BY <1>1, <2>1
  <2>3. ~(a < b) /\ ~(b < a)
    <3>1. a > b => Rank(ids, a) < Rank(ids, b)
      BY RankRises
    <3>2. b > a => Rank(ids, b) < Rank(ids, a)
      BY RankRises
    <3> QED
      BY <2>2, <3>1, <3>2
  <2> QED
    BY <2>2, <2>3
<1> HIDE DEF f
<1>4. f \in Injection(ids, T)
  BY <1>2, <1>3 DEF Injection, IsInjective
<1>5. IsFiniteSet(T) /\ Cardinality(T) = Cardinality(ids)
  BY <1>1, FS_Interval
<1>6. f \in Surjection(ids, T)
  BY <1>4, <1>5, FS_Injection
<1>7. PICK m \in ids : f[m] = k
  BY <1>6 DEF Surjection
<1> QED
  BY <1>7 DEF f

\* The ids in order: all of them, each below the one before.
LEMMA Ordered ==
  ASSUME NEW ids, ids \subseteq Nat, IsFiniteSet(ids)
  PROVE  InOrder(ids) \in Seq(ids) /\ Len(InOrder(ids)) = Cardinality(ids) /\ Falling(InOrder(ids))
<1> DEFINE n == Cardinality(ids)
           s == [k \in 1 .. n |-> CHOOSE m \in ids : Rank(ids, m) = k]
<1>1. n \in Nat
  BY FS_CardinalityType
<1>2. InOrder(ids) = s
  BY DEF InOrder, Rank
<1>3. \A k \in 1 .. n : s[k] \in ids /\ Rank(ids, s[k]) = k
  BY Ranked
<1> HIDE DEF n
<1>4. DOMAIN s = 1 .. n /\ s = [k \in 1 .. n |-> s[k]]
  OBVIOUS
<1> HIDE DEF s
<1>5. s \in Seq(ids) /\ Len(s) = n
  BY <1>1, <1>3, <1>4
<1>6. Falling(s)
  <2> SUFFICES ASSUME NEW i \in DOMAIN s, NEW j \in DOMAIN s, i < j PROVE s[i] > s[j]
    BY DEF Falling
  <2>1. s[i] \in ids /\ s[j] \in ids /\ Rank(ids, s[i]) = i /\ Rank(ids, s[j]) = j /\ i \in Nat /\ j \in Nat
    BY <1>1, <1>3, <1>4
  <2>2. s[j] >= s[i] => j <= i
    <3>1. s[j] >= s[i] => Rank(ids, s[j]) <= Rank(ids, s[i])
      BY <2>1, RankRises
    <3> QED
      BY <2>1, <3>1
  <2>3. s[i] \in Nat /\ s[j] \in Nat
    BY <2>1
  <2> QED
    BY <2>1, <2>2, <2>3
<1> QED
  BY <1>2, <1>5, <1>6 DEF n

\* A table being filled with the models D in order, under the load l: the rows
\* so far, and the models to come.
Row(r) == {"model", "load"} \subseteq DOMAIN r
Filling(rows, todo, D, l) ==
  /\ Queue(rows) /\ \A k \in DOMAIN rows : Row(rows[k]) /\ rows[k].model \in D /\ rows[k].load \in Nat
  /\ \A i, j \in DOMAIN rows : rows[i].load = rows[j].load /\ (i < j => rows[i].model > rows[j].model)
  /\ todo \in Seq(D) /\ Falling(todo)
  /\ \A i \in DOMAIN rows, j \in DOMAIN todo : rows[i].model > todo[j]
  /\ Len(rows) + Len(todo) = Cardinality(D)
  /\ todo # <<>> => \A k \in DOMAIN rows : rows[k].load = l

\* It starts empty.
LEMMA FillingStarts ==
  ASSUME NEW D, D \subseteq Nat, IsFiniteSet(D), NEW l
  PROVE  Filling(<<>>, InOrder(D), D, l)
<1>1. Queue(<<>>) /\ DOMAIN <<>> = {} /\ Len(<<>>) = 0
  BY QueueNone
<1>2. InOrder(D) \in Seq(D) /\ Falling(InOrder(D)) /\ Len(InOrder(D)) = Cardinality(D) /\ Cardinality(D) \in Nat
  BY Ordered, FS_CardinalityType
<1> HIDE DEF InOrder
<1>3. Len(<<>>) + Len(InOrder(D)) = Cardinality(D)
  BY <1>1, <1>2
<1> QED
  BY <1>1, <1>2, <1>3 DEF Filling

\* The buttons of a row may change.
LEMMA FillingRepainted ==
  ASSUME NEW rows, NEW todo, NEW D, NEW l, Filling(rows, todo, D, l),
         NEW t, t = [k \in DOMAIN rows |-> t[k]],
         \A k \in DOMAIN rows : Row(t[k]) /\ t[k].model = rows[k].model /\ t[k].load = rows[k].load
  PROVE  Filling(t, todo, D, l)
<1>1. Queue(t) /\ DOMAIN t = DOMAIN rows
  BY QueueMap DEF Filling
<1>2. Len(t) = Len(rows)
  <2>1. DOMAIN t = 1 .. Len(t) /\ DOMAIN rows = 1 .. Len(rows) /\ Len(t) \in Nat /\ Len(rows) \in Nat
    BY <1>1 DEF Filling, Queue
  <2> QED
    BY <1>1, <2>1
<1> QED
  BY <1>1, <1>2 DEF Filling

\* A row is appended.
LEMMA FillingAppends ==
  ASSUME NEW rows, NEW todo, NEW D, NEW l \in Nat, Filling(rows, todo, D, l), D \subseteq Nat, todo # <<>>,
         NEW r, Row(r), r.model = Head(todo), r.load = l
  PROVE  Filling(Append(rows, r), Tail(todo), D, l)
<1> DEFINE s == Append(rows, r)
           rest == Tail(todo)
<1>1. /\ todo \in Seq(D) /\ Len(todo) \in Nat /\ Len(todo) # 0 /\ DOMAIN todo = 1 .. Len(todo)
      /\ Queue(rows) /\ DOMAIN rows = 1 .. Len(rows) /\ Len(rows) \in Nat
      /\ Len(rows) + Len(todo) = Cardinality(D)
  BY DEF Filling, Queue
<1>2. Head(todo) = todo[1] /\ 1 \in DOMAIN todo /\ todo[1] \in D
  BY <1>1
<1>3. /\ rest \in Seq(D) /\ Len(rest) = Len(todo) - 1 /\ DOMAIN rest = 1 .. (Len(todo) - 1)
      /\ \A j \in DOMAIN rest : j + 1 \in DOMAIN todo /\ rest[j] = todo[j + 1]
  BY <1>1
<1>4. /\ Queue(s) /\ DOMAIN s = DOMAIN rows \cup {Len(rows) + 1}
      /\ s[Len(rows) + 1] = r /\ \A k \in DOMAIN rows : s[k] = rows[k]
  BY <1>1, QueueAppend
<1>5. Len(s) = Len(rows) + 1
  <2>1. DOMAIN s = 1 .. Len(s) /\ Len(s) \in Nat
    BY <1>4 DEF Queue
  <2> HIDE DEF s
  <2> QED
    BY <1>1, <1>4, <2>1
<1> HIDE DEF s, rest
<1>6. Len(s) + Len(rest) = Cardinality(D)
  BY <1>1, <1>3, <1>5
<1>7. \A k \in DOMAIN s : Row(s[k]) /\ s[k].model \in D /\ s[k].load = l
  BY <1>1, <1>2, <1>4 DEF Filling
<1>8. \A i, j \in DOMAIN s : i < j => s[i].model > s[j].model
  <2> SUFFICES ASSUME NEW i \in DOMAIN s, NEW j \in DOMAIN s, i < j PROVE s[i].model > s[j].model
    OBVIOUS
  <2>1. i \in DOMAIN rows
    BY <1>1, <1>4
  <2>2. CASE j \in DOMAIN rows
    BY <1>4, <2>1, <2>2 DEF Filling
  <2>3. CASE j \notin DOMAIN rows
    BY <1>2, <1>4, <2>1, <2>3 DEF Filling
  <2> QED
    BY <2>2, <2>3
<1>9. Falling(rest)
  <2> SUFFICES ASSUME NEW i \in DOMAIN rest, NEW j \in DOMAIN rest, i < j PROVE rest[i] > rest[j]
    BY DEF Falling
  <2>1. i \in Nat /\ j \in Nat /\ i + 1 < j + 1
    BY <1>1, <1>3
  <2> QED
    BY <1>3, <2>1 DEF Filling, Falling
<1>10. \A i \in DOMAIN s, j \in DOMAIN rest : s[i].model > rest[j]
  <2> SUFFICES ASSUME NEW i \in DOMAIN s, NEW j \in DOMAIN rest PROVE s[i].model > rest[j]
    OBVIOUS
  <2>1. CASE i \in DOMAIN rows
    BY <1>3, <1>4, <2>1 DEF Filling
  <2>2. CASE i \notin DOMAIN rows
    <3>1. s[i].model = todo[1] /\ 1 < j + 1
      BY <1>1, <1>2, <1>3, <1>4, <2>2
    <3> QED
      BY <1>2, <1>3, <3>1 DEF Filling, Falling
  <2> QED
    BY <2>1, <2>2
<1> QED
  BY <1>3, <1>4, <1>6, <1>7, <1>8, <1>9, <1>10 DEF Filling, s, rest

\* A fetch as the handlers send and answer it.
Tests == {"testModel", "testAccount"}
FetchOk(c) ==
  /\ Fetch(c)
  /\ c.op \in Reloading => c.arg.model \in ModelIds
  /\ c.op \in Tests => c.arg.load \in Nat
  /\ c.op = "models" /\ c.st = "ok" => DOMAIN c.val \subseteq ModelIds

\* The rows to come of the load that runs, and its number.
Todo == IF modelLoad = Nil THEN <<>> ELSE modelLoad.todo
LoadNo == IF modelLoad = Nil THEN 0 ELSE modelLoad.load

\* The fetches of a load: it has one under way at most, and none does without
\* one.  Rows are to come exactly when their accounts are fetched.
LoadOps == {"models", "rowAccounts"}
OneLoad ==
  /\ Lone(LoadOps, calls) /\ (modelLoad = Nil => Idle(LoadOps, calls))
  /\ \A k \in DOMAIN calls : /\ calls[k].op = "models" => Todo = <<>>
                             /\ calls[k].op = "rowAccounts" => Todo # <<>>

FetchesOk == Queue(calls) /\ \A k \in DOMAIN calls : FetchOk(calls[k])
ChainOk == modelLoad \in RunningLoads \cup {Nil} /\ modelLoads \in Nat /\ loadModelsRunChain \in Seq(Initiators)
TableOk ==
  /\ DOMAIN lastLoadedModels \subseteq ModelIds
  /\ Filling(modelRows, Todo, DOMAIN lastLoadedModels, LoadNo)

ModelInv == FetchesOk /\ ChainOk /\ OneLoad /\ TableOk

\* The models are finitely many numbers.
LEMMA IdsFinite == ASSUME NEW D, D \subseteq ModelIds PROVE D \subseteq Nat /\ IsFiniteSet(D)
<1>1. IsFiniteSet(ModelIds) /\ ModelIds = 1 .. Cardinality(ModelIds) /\ Cardinality(ModelIds) \in Nat
  BY ModelTableAssumption, FS_CardinalityType
<1> QED
  BY <1>1, FS_Subset

\* A load that runs is a load.
LEMMA LoadRuns ==
  ASSUME NEW no \in Nat, NEW from \in Initiators, NEW l, l = [load |-> no, from |-> from, todo |-> <<>>]
  PROVE  l \in RunningLoads /\ l # Nil /\ l.todo = <<>>
<1>1. <<>> \in Seq(ModelIds)
  OBVIOUS
<1>2. l \in RunningLoads
  BY <1>1 DEF RunningLoads
<1>3. Nil \notin RunningLoads
  BY ModelTableAssumption
<1> QED
  BY <1>2, <1>3

\* The page starts with the table of load 0.
LEMMA ModelInvInit == BrowserInit({"admin"}) /\ ModelTableInit => ModelInv
<1> SUFFICES ASSUME BrowserInit({"admin"}), ModelTableInit PROVE ModelInv
  OBVIOUS
<1>1. Queue(calls) /\ DOMAIN calls = {}
  BY QueueNone DEF BrowserInit
<1>2. modelLoad = Nil /\ loadModelsRunChain = <<>> /\ modelLoads = 0
  BY DEF ModelTableInit
<1>3. ChainOk
  BY <1>2 DEF ChainOk
<1>4. DOMAIN lastLoadedModels = ModelIds
  BY DEF ModelTableInit
<1> DEFINE shown == InOrder(ModelIds)
<1>5. /\ shown \in Seq(ModelIds) /\ Len(shown) = Cardinality(ModelIds) /\ Falling(shown)
      /\ Cardinality(ModelIds) \in Nat
  BY IdsFinite, Ordered, FS_CardinalityType
<1>6. modelRows = [k \in DOMAIN shown |-> [model |-> shown[k], load |-> 0, account |-> "on", dot |-> FALSE, busy |-> {}]]
  BY DEF ModelTableInit
<1> HIDE DEF shown
<1>7. /\ DOMAIN modelRows = DOMAIN shown /\ DOMAIN shown = 1 .. Cardinality(ModelIds)
      /\ \A k \in DOMAIN shown : Row(modelRows[k]) /\ modelRows[k].model = shown[k] /\ modelRows[k].load = 0
  BY <1>5, <1>6 DEF Row
<1>11. Queue(modelRows) /\ Len(modelRows) = Cardinality(ModelIds)
  <2> DEFINE R == {modelRows[m] : m \in DOMAIN modelRows}
  <2>1. modelRows \in [1 .. Cardinality(ModelIds) -> R]
    BY <1>6, <1>7
  <2> HIDE DEF R
  <2>2. modelRows \in Seq(R) /\ Len(modelRows) = Cardinality(ModelIds)
    BY <1>5, <2>1
  <2> QED
    BY <2>2, QueueOver
<1>8. Todo = <<>>
  BY <1>2 DEF Todo
<1>9. <<>> \in Seq(ModelIds) /\ DOMAIN <<>> = {} /\ Len(<<>>) = 0
  OBVIOUS
<1>10. Filling(modelRows, <<>>, ModelIds, LoadNo)
  <2>1. \A k \in DOMAIN shown : shown[k] \in ModelIds
    BY <1>5
  <2> QED
    BY <1>5, <1>7, <1>9, <1>11, <2>1 DEF Filling, Falling
<1> QED
  BY <1>1, <1>3, <1>4, <1>8, <1>10 DEF ModelInv, FetchesOk, OneLoad, TableOk, Lone, Idle

\* When no load begins, ends or goes on, and the table stays or is repainted.
LEMMA LoadsAside ==
  ASSUME ModelInv, UNCHANGED <<lastLoadedModels, chainVars>>,
         Filling(modelRows', Todo, DOMAIN lastLoadedModels, LoadNo),
         Queue(calls'), Lone(LoadOps, calls'),
         \A k \in DOMAIN calls' : /\ FetchOk(calls'[k])
                                  /\ \/ calls'[k].op \notin LoadOps
                                     \/ \E m \in DOMAIN calls : calls'[k].op = calls[m].op
  PROVE  ModelInv'
<1>1. PICK td, no : td = Todo /\ no = LoadNo
  OBVIOUS
<1>2. Todo' = td /\ LoadNo' = no
  BY <1>1 DEF Todo, LoadNo, chainVars
<1>3. FetchesOk' /\ ChainOk' /\ TableOk'
  BY <1>1, <1>2 DEF ModelInv, FetchesOk, ChainOk, TableOk, chainVars
<1>4. OneLoad'
  BY <1>1, <1>2 DEF ModelInv, OneLoad, Idle, LoadOps, chainVars
<1> QED
  BY <1>3, <1>4 DEF ModelInv

\* A load is asked for: it begins, or waits for the one that runs.
LEMMA LoadAsked ==
  ASSUME ModelInv, NEW from \in Initiators, LoadModels(from), UNCHANGED <<lastLoadedModels, modelRows>>,
         Queue(calls'), \A k \in DOMAIN calls' : FetchOk(calls'[k]),
         modelLoad = Nil => /\ Lone(LoadOps, calls')
                            /\ \A k \in DOMAIN calls' : calls'[k].op # "rowAccounts",
         modelLoad # Nil => /\ Lone(LoadOps, calls')
                            /\ \A k \in DOMAIN calls' : \E m \in DOMAIN calls : calls'[k] = calls[m]
  PROVE  ModelInv'
<1>0. ChainOk /\ TableOk
  BY DEF ModelInv
<1>1. CASE modelLoad = Nil
  <2>1. /\ modelLoad' = [load |-> modelLoads + 1, from |-> from, todo |-> <<>>]
        /\ modelLoads' = modelLoads + 1 /\ UNCHANGED loadModelsRunChain
    BY <1>1 DEF LoadModels, BeginLoad
  <2>2. modelLoads + 1 \in Nat
    BY <1>0 DEF ChainOk
  <2>3. modelLoad' \in RunningLoads /\ modelLoad' # Nil /\ modelLoad'.todo = <<>>
    BY <2>1, <2>2, LoadRuns
  <2>4. ChainOk'
    BY <1>0, <2>1, <2>2, <2>3 DEF ChainOk
  <2>5. Todo' = <<>>
    BY <2>3 DEF Todo
  <2>6. OneLoad'
    BY <1>1, <2>3, <2>5 DEF OneLoad
  <2>7. Todo = <<>>
    BY <1>1 DEF Todo
  <2>8. TableOk'
    BY <1>0, <2>5, <2>7 DEF TableOk, Filling
  <2> QED
    BY <2>4, <2>6, <2>8 DEF ModelInv, FetchesOk
<1>2. CASE modelLoad # Nil
  <2>1. loadModelsRunChain' = Append(loadModelsRunChain, from) /\ UNCHANGED <<modelLoad, modelLoads>>
    BY <1>2 DEF LoadModels
  <2>2. ChainOk'
    BY <1>0, <2>1 DEF ChainOk
  <2>3. PICK td, no : td = Todo /\ no = LoadNo
    OBVIOUS
  <2>4. Todo' = td /\ LoadNo' = no
    BY <2>1, <2>3 DEF Todo, LoadNo
  <2>5. OneLoad'
    BY <1>2, <2>1, <2>3, <2>4 DEF ModelInv, OneLoad
  <2>6. TableOk'
    BY <1>0, <2>3, <2>4 DEF TableOk
  <2> QED
    BY <2>2, <2>5, <2>6 DEF ModelInv, FetchesOk
<1> QED
  BY <1>1, <1>2

\* A test's button comes back.
LEMMA Repainted ==
  ASSUME NEW rows, NEW todo, NEW D, NEW l, Filling(rows, todo, D, l), NEW test
  PROVE  Filling(Released(rows, test), todo, D, l)
<1> DEFINE t == Released(rows, test)
<1>1. t = [k \in DOMAIN rows |-> t[k]]
  BY DEF Released
<1>2. \A k \in DOMAIN rows : Row(rows[k])
  BY DEF Filling
<1>3. \A k \in DOMAIN rows : t[k] = rows[k] \/ t[k] = [rows[k] EXCEPT !.busy = @ \ {test.op}]
  BY DEF Released
<1>4. \A k \in DOMAIN rows : Row(t[k]) /\ t[k].model = rows[k].model /\ t[k].load = rows[k].load
  BY <1>2, <1>3 DEF Row
<1> HIDE DEF t
<1>5. Filling(t, todo, D, l)
  BY <1>1, <1>4, FillingRepainted
<1> QED
  BY <1>5 DEF t

\* A load ends with a table that is complete, and the next one begins.
LEMMA OverKeeps ==
  ASSUME ModelInv, NEW n \in DOMAIN calls, calls[n].op \in LoadOps, NEW rows, LoadOver(n, rows),
         DOMAIN lastLoadedModels' \subseteq ModelIds, NEW l, Filling(rows, <<>>, DOMAIN lastLoadedModels', l)
  PROVE  ModelInv'
<1>0. /\ ChainOk /\ Queue(calls) /\ modelLoad # Nil /\ Lone(LoadOps, calls)
      /\ \A k \in DOMAIN calls : FetchOk(calls[k])
  BY DEF ModelInv, OneLoad, Idle, FetchesOk
<1>1. Filling(modelRows', <<>>, DOMAIN lastLoadedModels', l)
  BY Repainted DEF LoadOver
<1>2. \A x : Filling(modelRows', <<>>, DOMAIN lastLoadedModels', x)
  BY <1>1 DEF Filling
<1>3. CASE loadModelsRunChain = <<>>
  <2>1. modelLoad' = Nil /\ Resume(n, <<>>) /\ UNCHANGED <<loadModelsRunChain, modelLoads>>
    BY <1>3 DEF LoadOver
  <2>2. /\ Queue(calls') /\ \A k \in DOMAIN calls' : \E m \in DOMAIN calls : calls'[k] = calls[m]
        /\ Lone(LoadOps, calls') /\ Idle(LoadOps, calls')
    BY <1>0, <2>1, ResumingNone, LoneEnds
  <2>3. Todo' = <<>>
    BY <2>1 DEF Todo
  <2>4. OneLoad'
    BY <2>1, <2>2 DEF OneLoad, Idle, LoadOps
  <2>5. FetchesOk' /\ ChainOk'
    BY <1>0, <2>1, <2>2 DEF FetchesOk, ChainOk
  <2> QED
    BY <1>2, <2>3, <2>4, <2>5 DEF ModelInv, TableOk
<1>4. CASE loadModelsRunChain # <<>>
  <2> DEFINE c == ModelListQuery
  <2>1. /\ modelLoad' = [load |-> modelLoads + 1, from |-> Head(loadModelsRunChain), todo |-> <<>>]
        /\ modelLoads' = modelLoads + 1 /\ loadModelsRunChain' = Tail(loadModelsRunChain)
        /\ Resume(n, <<c>>)
    BY <1>4 DEF LoadOver, BeginLoad
  <2>2. c.op = "models" /\ c.st = "sent" /\ FetchOk(c)
    BY CallIsFetch DEF ModelListQuery, FetchOk, Reloading, Tests
  <2> HIDE DEF c
  <2>3. /\ modelLoads \in Nat /\ Head(loadModelsRunChain) \in Initiators
        /\ Tail(loadModelsRunChain) \in Seq(Initiators)
    BY <1>0, <1>4 DEF ChainOk
  <2>4. modelLoad' \in RunningLoads /\ modelLoad' # Nil /\ modelLoad'.todo = <<>>
    <3>1. modelLoads + 1 \in Nat
      BY <2>3
    <3> QED
      BY <2>1, <2>3, <3>1, LoadRuns
  <2>5. /\ Queue(calls')
        /\ \A k \in DOMAIN calls' : calls'[k] = c \/ \E m \in DOMAIN calls : m # n /\ calls'[k] = calls[m]
    BY <1>0, <2>1, ResumingOne
  <2>6. Lone(LoadOps, calls')
    BY <1>0, <2>1, LoneResumes
  <2>7. Todo' = <<>>
    BY <2>4 DEF Todo
  <2>8. \A k \in DOMAIN calls' : calls'[k].op # "rowAccounts"
    BY <1>0, <2>2, <2>5 DEF Lone, LoadOps
  <2>9. OneLoad'
    BY <2>4, <2>6, <2>7, <2>8 DEF OneLoad
  <2>10. FetchesOk' /\ ChainOk'
    BY <1>0, <2>1, <2>2, <2>3, <2>4, <2>5 DEF FetchesOk, ChainOk
  <2> QED
    BY <1>2, <2>7, <2>9, <2>10 DEF ModelInv, TableOk
<1> QED
  BY <1>3, <1>4

\* The list is there: the table is emptied.
LEMMA ListKeeps ==
  ASSUME ModelInv, NEW n \in DOMAIN calls, LoadModelsImpl(n)
  PROVE  ModelInv'
<1> DEFINE loaded == calls[n].val
           D == DOMAIN loaded
<1>0. /\ ChainOk /\ Queue(calls) /\ Lone(LoadOps, calls) /\ \A k \in DOMAIN calls : FetchOk(calls[k])
      /\ calls[n].op = "models" /\ calls[n].st = "ok" /\ calls[n].op \in LoadOps /\ lastLoadedModels' = loaded
  BY DEF ModelInv, OneLoad, FetchesOk, LoadModelsImpl, Answered, LoadOps
<1>1. D \subseteq ModelIds /\ modelLoad # Nil
  BY <1>0 DEF FetchOk, ModelInv, OneLoad, Idle
<1>2. D \subseteq Nat /\ IsFiniteSet(D)
  BY <1>1, IdsFinite
<1>3. CASE D = {}
  <2>1. LoadOver(n, <<>>)
    BY <1>3 DEF LoadModelsImpl
  <2>2. Filling(<<>>, InOrder(D), D, 0) /\ InOrder(D) \in Seq(D) /\ Len(InOrder(D)) = 0
    BY <1>2, <1>3, FillingStarts, Ordered, FS_EmptySet
  <2>3. InOrder(D) = <<>>
    BY <2>2
  <2> QED
    BY <1>0, <1>1, <2>1, <2>2, <2>3, OverKeeps
<1>4. CASE D # {}
  <2> DEFINE c == Call("rowAccounts", calls[n].arg.load)
             td == InOrder(D)
  <2>1. /\ modelRows' = <<>> /\ modelLoad' = [modelLoad EXCEPT !.todo = td]
        /\ Resume(n, <<c>>) /\ UNCHANGED <<loadModelsRunChain, modelLoads>>
    BY <1>4 DEF LoadModelsImpl
  <2>2. c.op = "rowAccounts" /\ FetchOk(c)
    BY CallIsFetch DEF FetchOk, Reloading, Tests
  <2>3. td \in Seq(D) /\ Len(td) = Cardinality(D) /\ Cardinality(D) # 0
    BY <1>2, <1>4, Ordered, FS_EmptySet
  <2>4. \A x : Filling(<<>>, td, D, x)
    BY <1>2, FillingStarts
  <2> HIDE DEF c, td, D
  <2>5. td # <<>> /\ td \in Seq(ModelIds)
    BY <1>1, <2>3, SeqMonotone
  <2>6. modelLoad' \in RunningLoads /\ modelLoad'.todo = td
    BY <1>0, <1>1, <2>1, <2>5 DEF ChainOk, RunningLoads
  <2>7. Nil \notin RunningLoads
    BY ModelTableAssumption
  <2>8. Todo' = td /\ ChainOk' /\ modelLoad' # Nil
    BY <1>0, <2>1, <2>6, <2>7 DEF Todo, ChainOk
  <2>9. /\ Queue(calls')
        /\ \A k \in DOMAIN calls' : calls'[k] = c \/ \E m \in DOMAIN calls : m # n /\ calls'[k] = calls[m]
    BY <1>0, <2>1, ResumingOne
  <2>10. Lone(LoadOps, calls')
    BY <1>0, <2>1, LoneResumes
  <2>11. \A k \in DOMAIN calls' : calls'[k].op # "models"
    BY <1>0, <2>2, <2>9 DEF Lone, LoadOps
  <2>12. OneLoad'
    BY <2>5, <2>8, <2>10, <2>11 DEF OneLoad
  <2>13. FetchesOk'
    BY <1>0, <2>2, <2>9 DEF FetchesOk
  <2>14. TableOk'
    BY <1>0, <1>1, <2>1, <2>4, <2>8 DEF TableOk, D
  <2> QED
    BY <2>8, <2>12, <2>13, <2>14 DEF ModelInv
<1> QED
  BY <1>3, <1>4

\* A load fails, and the table of the one before stays.
LEMMA FailedListKeeps ==
  ASSUME ModelInv, NEW n \in DOMAIN calls, LoadModelsFails(n)
  PROVE  ModelInv'
<1>1. calls[n].op = "models" /\ calls[n].op \in LoadOps /\ LoadOver(n, modelRows) /\ UNCHANGED lastLoadedModels
  BY DEF LoadModelsFails, Asked, LoadOps
<1>2. Todo = <<>> /\ TableOk
  BY <1>1 DEF ModelInv, OneLoad
<1> QED
  BY <1>1, <1>2, OverKeeps DEF TableOk

\* The row of the next model, with the account its fetch found or none.
LEMMA RowKeeps ==
  ASSUME ModelInv, NEW n \in DOMAIN calls, AppendModelRow(n)
  PROVE  ModelInv'
<1> DEFINE D == DOMAIN lastLoadedModels
           m == Head(modelLoad.todo)
           c == Call("rowAccounts", calls[n].arg)
<1>1. /\ ChainOk /\ Queue(calls) /\ Lone(LoadOps, calls) /\ \A k \in DOMAIN calls : FetchOk(calls[k])
      /\ calls[n].op = "rowAccounts" /\ calls[n].op \in LoadOps /\ UNCHANGED lastLoadedModels
  BY DEF ModelInv, OneLoad, FetchesOk, AppendModelRow, Asked, LoadOps
<1>2. Todo # <<>> /\ modelLoad # Nil /\ modelLoad \in RunningLoads /\ D \subseteq ModelIds
  BY <1>1 DEF ModelInv, OneLoad, Idle, ChainOk, TableOk
<1>3. modelLoad.todo = Todo /\ modelLoad.load = LoadNo /\ LoadNo \in Nat /\ Filling(modelRows, Todo, D, LoadNo)
  BY <1>2 DEF Todo, LoadNo, ModelInv, TableOk, RunningLoads
<1>4. Todo \in Seq(D) /\ D \subseteq Nat
  BY <1>2, <1>3, IdsFinite DEF Filling
<1>5. PICK account \in {accountDb[m], "none"} :
        LET rows == Append(modelRows, AccountRow(m, account))
        IN IF Len(modelLoad.todo) = 1 THEN LoadOver(n, rows)
           ELSE /\ modelRows' = rows
                /\ modelLoad' = [modelLoad EXCEPT !.todo = Tail(modelLoad.todo)]
                /\ Resume(n, <<c>>)
                /\ UNCHANGED <<loadModelsRunChain, modelLoads, connectButton>>
  BY DEF AppendModelRow
<1> DEFINE r == AccountRow(m, account)
           rows == Append(modelRows, r)
           td == Tail(Todo)
<1>6. Row(r) /\ r.model = Head(Todo) /\ r.load = LoadNo
  BY <1>3 DEF AccountRow, Row
<1>7. c.op = "rowAccounts" /\ FetchOk(c)
  BY CallIsFetch DEF FetchOk, Reloading, Tests
<1>8. Len(Todo) = 1 => LoadOver(n, rows)
  BY <1>3, <1>5
<1>9. Len(Todo) # 1 => /\ modelRows' = rows /\ modelLoad' = [modelLoad EXCEPT !.todo = td] /\ Resume(n, <<c>>)
                       /\ UNCHANGED <<loadModelsRunChain, modelLoads>>
  BY <1>3, <1>5
<1> HIDE DEF r, c
<1>10. PICK no \in Nat : no = LoadNo
  BY <1>3
<1>11. Filling(rows, td, D, no)
  BY <1>2, <1>3, <1>4, <1>6, <1>10, FillingAppends
<1> HIDE DEF D, rows
<1>12. td \in Seq(D) /\ Len(td) = Len(Todo) - 1 /\ Len(Todo) \in Nat /\ Len(Todo) # 0
  BY <1>2, <1>4
<1> HIDE DEF td
<1>13. CASE Len(Todo) = 1
  <2>1. td = <<>>
    BY <1>12, <1>13
  <2>2. DOMAIN lastLoadedModels' = D
    BY <1>1 DEF D
  <2> QED
    BY <1>1, <1>2, <1>8, <1>11, <1>13, <2>1, <2>2, OverKeeps
<1>14. CASE Len(Todo) # 1
  <2>1. td # <<>> /\ td \in Seq(ModelIds)
    BY <1>2, <1>12, <1>14, SeqMonotone
  <2>2. modelLoad' \in RunningLoads /\ modelLoad'.todo = td /\ modelLoad'.load = modelLoad.load
    BY <1>2, <1>9, <1>14, <2>1 DEF RunningLoads
  <2>3. Nil \notin RunningLoads
    BY ModelTableAssumption
  <2>4. Todo' = td /\ LoadNo' = no /\ ChainOk' /\ modelLoad' # Nil
    BY <1>1, <1>3, <1>9, <1>10, <1>14, <2>2, <2>3 DEF Todo, LoadNo, ChainOk
  <2>5. /\ Queue(calls')
        /\ \A k \in DOMAIN calls' : calls'[k] = c \/ \E i \in DOMAIN calls : i # n /\ calls'[k] = calls[i]
    BY <1>1, <1>9, <1>14, ResumingOne
  <2>6. Lone(LoadOps, calls')
    BY <1>1, <1>9, <1>14, LoneResumes
  <2>7. \A k \in DOMAIN calls' : calls'[k].op # "models"
    BY <1>1, <1>7, <2>5 DEF Lone, LoadOps
  <2>8. OneLoad'
    BY <2>1, <2>4, <2>6, <2>7 DEF OneLoad
  <2>9. FetchesOk'
    BY <1>1, <1>7, <2>5 DEF FetchesOk
  <2>10. TableOk'
    BY <1>1, <1>2, <1>9, <1>11, <1>14, <2>4 DEF TableOk, D
  <2> QED
    BY <2>4, <2>8, <2>9, <2>10 DEF ModelInv
<1> QED
  BY <1>13, <1>14

\* A handler sends a fetch that is not of a load.
LEMMA SentAside ==
  ASSUME ModelInv, NEW c, FetchOk(c), c.op \notin LoadOps, Gesture(<<c>>),
         UNCHANGED <<lastLoadedModels, chainVars>>, Filling(modelRows', Todo, DOMAIN lastLoadedModels, LoadNo)
  PROVE  ModelInv'
<1>1. Queue(calls) /\ Lone(LoadOps, calls) /\ \A k \in DOMAIN calls : FetchOk(calls[k])
  BY DEF ModelInv, FetchesOk, OneLoad
<1>2. /\ Queue(calls')
      /\ \A k \in DOMAIN calls' : calls'[k] = c \/ \E m \in DOMAIN calls : calls'[k] = calls[m]
  BY <1>1, SendingOne
<1>3. Lone(LoadOps, calls')
  BY <1>1, LoneSends
<1>4. \A k \in DOMAIN calls' : /\ FetchOk(calls'[k])
                               /\ \/ calls'[k].op \notin LoadOps
                                  \/ \E m \in DOMAIN calls : calls'[k].op = calls[m].op
  BY <1>1, <1>2
<1> QED
  BY <1>2, <1>3, <1>4, LoadsAside

\* So does one that resumes.
LEMMA ResumedAside ==
  ASSUME ModelInv, NEW n \in DOMAIN calls, NEW c, FetchOk(c), c.op \notin LoadOps, Resume(n, <<c>>),
         UNCHANGED <<lastLoadedModels, modelRows, chainVars>>
  PROVE  ModelInv'
<1>1. /\ Queue(calls) /\ Lone(LoadOps, calls) /\ \A k \in DOMAIN calls : FetchOk(calls[k])
      /\ Filling(modelRows', Todo, DOMAIN lastLoadedModels, LoadNo)
  BY DEF ModelInv, FetchesOk, OneLoad, TableOk
<1>2. /\ Queue(calls')
      /\ \A k \in DOMAIN calls' : calls'[k] = c \/ \E m \in DOMAIN calls : m # n /\ calls'[k] = calls[m]
  BY <1>1, ResumingOne
<1>3. Lone(LoadOps, calls')
  BY <1>1, LoneResumes
<1>4. \A k \in DOMAIN calls' : /\ FetchOk(calls'[k])
                               /\ \/ calls'[k].op \notin LoadOps
                                  \/ \E m \in DOMAIN calls : calls'[k].op = calls[m].op
  BY <1>1, <1>2
<1> QED
  BY <1>1, <1>2, <1>3, <1>4, LoadsAside

\* Or it sends nothing.
LEMMA EndedAside ==
  ASSUME ModelInv, NEW n \in DOMAIN calls, Resume(n, <<>>), UNCHANGED <<lastLoadedModels, chainVars>>,
         Filling(modelRows', Todo, DOMAIN lastLoadedModels, LoadNo)
  PROVE  ModelInv'
<1>1. Queue(calls) /\ Lone(LoadOps, calls) /\ \A k \in DOMAIN calls : FetchOk(calls[k])
  BY DEF ModelInv, FetchesOk, OneLoad
<1>2. /\ Queue(calls')
      /\ \A k \in DOMAIN calls' : \E m \in DOMAIN calls : m # n /\ calls'[k] = calls[m]
  BY <1>1, ResumingNone
<1>3. Lone(LoadOps, calls')
  BY <1>1, LoneEnds
<1> QED
  BY <1>1, <1>2, <1>3, LoadsAside

\* After its fetch, a handler asks for a load.
LEMMA AskedAfter ==
  ASSUME ModelInv, NEW n \in DOMAIN calls, Resume(n, LoadSent), NEW from \in Initiators, LoadModels(from),
         UNCHANGED <<lastLoadedModels, modelRows>>
  PROVE  ModelInv'
<1>1. /\ Queue(calls) /\ Lone(LoadOps, calls) /\ \A k \in DOMAIN calls : FetchOk(calls[k])
      /\ modelLoad = Nil => Idle(LoadOps, calls)
  BY DEF ModelInv, FetchesOk, OneLoad
<1>2. CASE modelLoad = Nil
  <2> DEFINE c == ModelListQuery
  <2>1. Resume(n, <<c>>)
    BY <1>2 DEF LoadSent
  <2>2. c.op = "models" /\ c.st = "sent" /\ FetchOk(c)
    BY CallIsFetch DEF ModelListQuery, FetchOk, Reloading, Tests
  <2> HIDE DEF c
  <2>3. /\ Queue(calls')
        /\ \A k \in DOMAIN calls' : calls'[k] = c \/ \E m \in DOMAIN calls : m # n /\ calls'[k] = calls[m]
    BY <1>1, <2>1, ResumingOne
  <2>4. Lone(LoadOps, calls')
    BY <1>1, <1>2, <2>1, LoneResumes
  <2>5. \A k \in DOMAIN calls' : FetchOk(calls'[k]) /\ calls'[k].op # "rowAccounts"
    BY <1>1, <1>2, <2>2, <2>3 DEF Idle, LoadOps
  <2> QED
    BY <1>2, <2>3, <2>4, <2>5, LoadAsked
<1>3. CASE modelLoad # Nil
  <2>1. Resume(n, <<>>)
    BY <1>3 DEF LoadSent
  <2>2. /\ Queue(calls')
        /\ \A k \in DOMAIN calls' : \E m \in DOMAIN calls : m # n /\ calls'[k] = calls[m]
    BY <1>1, <2>1, ResumingNone
  <2>3. Lone(LoadOps, calls')
    BY <1>1, <2>1, LoneEnds
  <2> QED
    BY <1>1, <1>3, <2>2, <2>3, LoadAsked
<1> QED
  BY <1>2, <1>3

\* Who asks for a load: a handler, for a model or none.
LEMMA InitiatorTyped ==
  ASSUME NEW op \in InitiatorOps, NEW m \in ModelIds \cup {Nil}, NEW l \in Nat
  PROVE  Initiator(op, m, l) \in Initiators
BY DEF Initiator, Initiators

\* The filter's handler asks for one at once.
LEMMA FilterKeeps == ASSUME ModelInv, FilterModels PROVE ModelInv'
<1> DEFINE c == Call("models", [load |-> modelLoads + 1, filter |-> modelFilter'])
           from == Initiator("filter", Nil, 0)
<1>1. /\ Queue(calls) /\ Lone(LoadOps, calls) /\ \A k \in DOMAIN calls : FetchOk(calls[k])
      /\ modelLoad = Nil => Idle(LoadOps, calls)
  BY DEF ModelInv, FetchesOk, OneLoad
<1>2. /\ Gesture(IF modelLoad = Nil THEN <<c>> ELSE <<>>) /\ LoadModels(from)
      /\ UNCHANGED <<lastLoadedModels, modelRows>>
  BY DEF FilterModels
<1>3. from \in Initiators
  BY InitiatorTyped DEF InitiatorOps
<1>4. c.op = "models" /\ c.st = "sent" /\ FetchOk(c)
  BY CallIsFetch DEF FetchOk, Reloading, Tests
<1> HIDE DEF c, from
<1>5. CASE modelLoad = Nil
  <2>1. Gesture(<<c>>)
    BY <1>2, <1>5
  <2>2. /\ Queue(calls')
        /\ \A k \in DOMAIN calls' : calls'[k] = c \/ \E m \in DOMAIN calls : calls'[k] = calls[m]
    BY <1>1, <2>1, SendingOne
  <2>3. Lone(LoadOps, calls')
    BY <1>1, <1>5, <2>1, LoneSends
  <2>4. \A k \in DOMAIN calls' : FetchOk(calls'[k]) /\ calls'[k].op # "rowAccounts"
    BY <1>1, <1>4, <1>5, <2>2 DEF Idle, LoadOps
  <2> QED
    BY <1>2, <1>3, <1>5, <2>2, <2>3, <2>4, LoadAsked
<1>6. CASE modelLoad # Nil
  <2>1. calls' = calls \o <<>>
    BY <1>2, <1>6 DEF Gesture
  <2>2. calls' = calls
    BY <1>1, <2>1 DEF Queue
  <2> QED
    BY <1>1, <1>2, <1>3, <1>6, <2>2, LoadAsked
<1> QED
  BY <1>5, <1>6

\* The server answers with models it has.
LEMMA AnswerKeeps == ASSUME ModelInv, NEW n \in DOMAIN calls, AnswerModels(n) PROVE ModelInv'
<1> DEFINE v == [m \in Held(modelDb) \cap calls[n].arg.filter |-> modelDb[m]]
<1>1. calls[n].op = "models" /\ Reply(n, "ok", v) /\ UNCHANGED modelVars
  BY DEF AnswerModels, Asked
<1>2. DOMAIN v \subseteq ModelIds
  BY DEF Held
<1> HIDE DEF v
<1>3. /\ Queue(calls) /\ Lone(LoadOps, calls) /\ \A k \in DOMAIN calls : FetchOk(calls[k])
      /\ Filling(modelRows, Todo, DOMAIN lastLoadedModels, LoadNo)
  BY DEF ModelInv, FetchesOk, OneLoad, TableOk
<1>4. /\ Queue(calls') /\ DOMAIN calls' = DOMAIN calls
      /\ \A k \in DOMAIN calls \ {n} : calls'[k] = calls[k]
      /\ calls'[n] = [op |-> calls[n].op, arg |-> calls[n].arg, st |-> "ok", val |-> v]
  BY <1>1, <1>3, Replying DEF FetchOk
<1>5. FetchOk(calls'[n]) /\ calls'[n].op = calls[n].op
  BY <1>1, <1>2, <1>4 DEF FetchOk, Fetch, Reloading, Tests
<1>6. \A k \in DOMAIN calls' : FetchOk(calls'[k]) /\ calls'[k].op = calls[k].op
  BY <1>3, <1>4, <1>5
<1>7. Lone(LoadOps, calls')
  BY <1>3, <1>4, <1>6 DEF Lone
<1>8. UNCHANGED <<lastLoadedModels, chainVars, modelRows>>
  BY <1>1 DEF modelVars
<1> QED
  BY <1>3, <1>4, <1>6, <1>7, <1>8, LoadsAside

\* A change of a model, or a test, is sent.
LEMMA ChangeSent ==
  ASSUME ModelInv, NEW op, op \in Reloading \cup Refreshing, NEW arg, arg.model \in ModelIds,
         op \in Tests => arg.load \in Nat, Gesture(<<Call(op, arg)>>),
         UNCHANGED <<lastLoadedModels, chainVars>>, Filling(modelRows', Todo, DOMAIN lastLoadedModels, LoadNo)
  PROVE  ModelInv'
<1> DEFINE c == Call(op, arg)
<1>1. FetchOk(c) /\ c.op \notin LoadOps /\ Gesture(<<c>>)
  BY CallIsFetch DEF FetchOk, LoadOps, Reloading, Refreshing
<1> HIDE DEF c
<1> QED
  BY <1>1, SentAside

\* The buttons of the rows.
LEMMA ButtonsKeep ==
  ASSUME ModelInv, NEW m \in ModelIds,
         \/ ToggleModelActive(m) \/ ToggleModelListed(m) \/ DeleteModel(m)
         \/ ToggleModelAccount(m) \/ DeleteModelAccount(m)
  PROVE  ModelInv'
<1>1. UNCHANGED <<lastLoadedModels, chainVars, modelRows>>
  BY DEF ToggleModelActive, ToggleModelListed, DeleteModel, ToggleModelAccount, DeleteModelAccount, modelVars
<1>2. Filling(modelRows', Todo, DOMAIN lastLoadedModels, LoadNo)
  BY <1>1 DEF ModelInv, TableOk
<1>3. \E op \in {"put", "deleteModel", "toggleAccount", "deleteAccount"} : \E arg :
        arg.model \in ModelIds /\ Gesture(<<Call(op, arg)>>)
  <2>1. CASE ToggleModelActive(m) \/ ToggleModelListed(m)
    BY <2>1 DEF ToggleModelActive, ToggleModelListed
  <2>2. CASE DeleteModel(m)
    BY <2>2 DEF DeleteModel
  <2>3. CASE ToggleModelAccount(m)
    BY <2>3 DEF ToggleModelAccount
  <2>4. CASE DeleteModelAccount(m)
    BY <2>4 DEF DeleteModelAccount
  <2> QED
    BY <2>1, <2>2, <2>3, <2>4
<1> QED
  BY <1>1, <1>2, <1>3, ChangeSent DEF Reloading, Refreshing, Tests

\* A test turns the button of its row off.
LEMMA TestKeeps ==
  ASSUME ModelInv, NEW m \in ModelIds, NEW op \in Tests, Test(m, op)
  PROVE  ModelInv'
<1>1. PICK k \in DOMAIN modelRows :
        /\ modelRows' = [modelRows EXCEPT ![k].busy = modelRows[k].busy \cup {op}]
        /\ Gesture(<<Call(op, Initiator(op, m, modelRows[k].load))>>)
  BY DEF Test, RowOf
<1>2. UNCHANGED <<lastLoadedModels, chainVars>>
  BY DEF Test
<1>3. Filling(modelRows, Todo, DOMAIN lastLoadedModels, LoadNo)
  BY DEF ModelInv, TableOk
<1>4. \A i \in DOMAIN modelRows : Row(modelRows[i]) /\ modelRows[i].load \in Nat
  BY <1>3 DEF Filling
<1>5. /\ modelRows' = [i \in DOMAIN modelRows |-> modelRows'[i]]
      /\ \A i \in DOMAIN modelRows :
           modelRows'[i] = modelRows[i] \/ modelRows'[i] = [modelRows[i] EXCEPT !.busy = modelRows[k].busy \cup {op}]
  BY <1>1
<1>6. \A i \in DOMAIN modelRows :
        Row(modelRows'[i]) /\ modelRows'[i].model = modelRows[i].model /\ modelRows'[i].load = modelRows[i].load
  BY <1>4, <1>5 DEF Row
<1>7. Filling(modelRows', Todo, DOMAIN lastLoadedModels, LoadNo)
  BY <1>3, <1>5, <1>6, FillingRepainted
<1> DEFINE arg == Initiator(op, m, modelRows[k].load)
<1>8. arg.model \in ModelIds /\ arg.load \in Nat /\ Gesture(<<Call(op, arg)>>)
  BY <1>1, <1>4 DEF Initiator
<1> HIDE DEF arg
<1> QED
  BY <1>2, <1>7, <1>8, ChangeSent DEF Tests, Reloading

\* What follows a change.
LEMMA ChangesKeep ==
  ASSUME ModelInv, NEW n \in DOMAIN calls,
         \/ ChangedModel(n) \/ ChangedModels(n) \/ Rebuilt(n) \/ ModelRowFails(n) \/ Collect(n) \/ TestNext(n)
  PROVE  ModelInv'
<1>0. FetchOk(calls[n]) /\ Filling(modelRows, Todo, DOMAIN lastLoadedModels, LoadNo)
  BY DEF ModelInv, FetchesOk, TableOk
<1>1. CASE ChangedModel(n)
  <2> DEFINE load == IF calls[n].op \in {"testModel", "testAccount"} THEN calls[n].arg.load ELSE 0
             from == Initiator(calls[n].op, calls[n].arg.model, load)
  <2>1. /\ calls[n].op \in Reloading /\ Resume(n, LoadSent) /\ LoadModels(from)
        /\ UNCHANGED <<lastLoadedModels, modelRows>>
    BY <1>1 DEF ChangedModel, Asked
  <2>2. calls[n].op \in InitiatorOps /\ calls[n].arg.model \in ModelIds /\ load \in Nat
    BY <1>0, <2>1 DEF FetchOk, Tests, Reloading, InitiatorOps
  <2>3. from \in Initiators
    <3> HIDE DEF load
    <3> QED
      BY <2>2, InitiatorTyped
  <2> HIDE DEF from
  <2> QED
    BY <2>1, <2>3, AskedAfter
<1>2. CASE ChangedModels(n)
  <2> DEFINE c == Call("rebuild", Nil)
  <2>1. Resume(n, <<c>>) /\ UNCHANGED <<lastLoadedModels, modelRows, chainVars>>
    BY <1>2 DEF ChangedModels
  <2>2. FetchOk(c) /\ c.op \notin LoadOps
    BY CallIsFetch DEF FetchOk, Reloading, Tests, LoadOps
  <2> HIDE DEF c
  <2> QED
    BY <2>1, <2>2, ResumedAside
<1>3. CASE Rebuilt(n)
  <2> DEFINE from == Initiator("refreshAll", Nil, 0)
  <2>1. Resume(n, LoadSent) /\ LoadModels(from) /\ UNCHANGED <<lastLoadedModels, modelRows>>
    BY <1>3 DEF Rebuilt
  <2>2. from \in Initiators
    BY InitiatorTyped DEF InitiatorOps
  <2> HIDE DEF from
  <2> QED
    BY <2>1, <2>2, AskedAfter
<1>4. CASE ModelRowFails(n)
  <2>1. /\ Resume(n, <<>>) /\ UNCHANGED <<lastLoadedModels, chainVars>>
        /\ modelRows' = modelRows \/ modelRows' = Released(modelRows, calls[n].arg)
    BY <1>4 DEF ModelRowFails
  <2>2. Filling(modelRows', Todo, DOMAIN lastLoadedModels, LoadNo)
    BY <1>0, <2>1, Repainted
  <2> QED
    BY <2>1, <2>2, EndedAside
<1>5. CASE Collect(n)
  <2>1. UNCHANGED <<lastLoadedModels, modelRows, chainVars>>
    BY <1>5 DEF Collect
  <2>2. \/ Resume(n, <<>>)
        \/ \E op \in {"collect", "testAll"} : \E arg : Resume(n, <<Call(op, arg)>>)
    BY <1>5 DEF Collect, CollectAccounts
  <2>3. ASSUME NEW op \in {"collect", "testAll"}, NEW arg, Resume(n, <<Call(op, arg)>>)
        PROVE  ModelInv'
    <3> DEFINE c == Call(op, arg)
    <3>1. FetchOk(c) /\ c.op \notin LoadOps /\ Resume(n, <<c>>)
      BY <2>3, CallIsFetch DEF FetchOk, Reloading, Tests, LoadOps
    <3> HIDE DEF c
    <3> QED
      BY <2>1, <3>1, ResumedAside
  <2> QED
    BY <1>0, <2>1, <2>2, <2>3, EndedAside
<1>6. CASE TestNext(n)
  <2>1. UNCHANGED <<lastLoadedModels, modelRows>>
    BY <1>6 DEF TestNext
  <2>2. CASE Len(calls[n].arg) > 1
    <3> DEFINE c == Call("testAll", Tail(calls[n].arg))
    <3>1. Resume(n, <<c>>) /\ UNCHANGED chainVars
      BY <1>6, <2>2 DEF TestNext
    <3>2. FetchOk(c) /\ c.op \notin LoadOps
      BY CallIsFetch DEF FetchOk, Reloading, Tests, LoadOps
    <3> HIDE DEF c
    <3> QED
      BY <2>1, <3>1, <3>2, ResumedAside
  <2>3. CASE ~(Len(calls[n].arg) > 1)
    <3> DEFINE from == Initiator("testAll", Nil, 0)
    <3>1. Resume(n, LoadSent) /\ LoadModels(from)
      BY <1>6, <2>3 DEF TestNext
    <3>2. from \in Initiators
      BY InitiatorTyped DEF InitiatorOps
    <3> HIDE DEF from
    <3> QED
      BY <2>1, <3>1, <3>2, AskedAfter
  <2> QED
    BY <2>2, <2>3
<1> QED
  BY <1>1, <1>2, <1>3, <1>4, <1>5, <1>6

\* The bulk dialog and "test all" leave the table alone.
LEMMA BulkKeeps ==
  ASSUME ModelInv, BulkPricing \/ TestAllEnabledModels
  PROVE  ModelInv'
<1>1. UNCHANGED <<lastLoadedModels, chainVars, modelRows>>
  BY DEF BulkPricing, OpenBulkPricingModal, SaveBulkPricing, CloseBulkPricingModal, TestAllEnabledModels, modelVars
<1>2. /\ Queue(calls) /\ Lone(LoadOps, calls) /\ \A k \in DOMAIN calls : FetchOk(calls[k])
      /\ Filling(modelRows', Todo, DOMAIN lastLoadedModels, LoadNo)
  BY <1>1 DEF ModelInv, FetchesOk, OneLoad, TableOk
<1>3. CASE UNCHANGED calls
  BY <1>1, <1>2, <1>3, LoadsAside
<1>4. ASSUME NEW op \in {"bulk", "collect"}, NEW arg, Gesture(<<Call(op, arg)>>)
      PROVE  ModelInv'
  <2> DEFINE c == Call(op, arg)
  <2>1. FetchOk(c) /\ c.op \notin LoadOps /\ Gesture(<<c>>)
    BY <1>4, CallIsFetch DEF FetchOk, Reloading, Tests, LoadOps
  <2> HIDE DEF c
  <2> QED
    BY <1>1, <1>2, <2>1, SentAside
<1>5. UNCHANGED calls \/ \E op \in {"bulk", "collect"} : \E arg : Gesture(<<Call(op, arg)>>)
  BY DEF BulkPricing, OpenBulkPricingModal, SaveBulkPricing, CloseBulkPricingModal, TestAllEnabledModels,
         CollectAccounts, Local, browserVars
<1> QED
  BY <1>3, <1>4, <1>5

\* So the invariant holds through every step of the pane.
LEMMA ModelInvStep == ModelInv /\ [ModelTableStep]_<<browserVars, modelVars>> => ModelInv'
<1> SUFFICES ASSUME ModelInv, [ModelTableStep]_<<browserVars, modelVars>> PROVE ModelInv'
  OBVIOUS
<1>1. CASE UNCHANGED <<calls, modelVars>>
  <2>1. UNCHANGED <<lastLoadedModels, chainVars, modelRows>>
    BY <1>1 DEF modelVars
  <2> QED
    BY <1>1, <2>1, LoadsAside DEF ModelInv, FetchesOk, OneLoad, TableOk
<1>2. CASE FilterModels
  BY <1>2, FilterKeeps
<1>3. CASE ModelListLoads
  BY <1>3, ListKeeps, FailedListKeeps, RowKeeps DEF ModelListLoads
<1>4. CASE HandleModelRowActionClick
  BY <1>4, ButtonsKeep, TestKeeps, ChangesKeep DEF HandleModelRowActionClick, TestModel, Tests
<1>5. CASE HandleModelAccountActionClick
  BY <1>5, ButtonsKeep, TestKeeps, ChangesKeep DEF HandleModelAccountActionClick, TestAccount, Tests
<1>6. CASE ConnectTests \/ BulkPricing
  BY <1>6, BulkKeeps, ChangesKeep DEF ConnectTests
<1>7. CASE \E n \in DOMAIN calls : AnswerModels(n)
  BY <1>7, AnswerKeeps
<1> QED
  BY <1>1, <1>2, <1>3, <1>4, <1>5, <1>6, <1>7 DEF ModelTableStep, ModelTableNext, Denied, browserVars

\* Whatever loads are asked for together, with filters, changes, tests and lost
\* fetches at any moment: the table has one row for each model of the list
\* loaded last, in the server's order and of one load (loadModels, loadModelsImpl,
\* appendModelRow, admin.js).
THEOREM TableOfOneLoad == ModelTableSpec => []OneRowPerModel
<1>1. ModelInv => OneRowPerModel
  <2> SUFFICES ASSUME ModelInv PROVE OneRowPerModel
    OBVIOUS
  <2>1. Filling(modelRows, Todo, DOMAIN lastLoadedModels, LoadNo)
    BY DEF ModelInv, TableOk
  <2>2. modelLoad = Nil => Len(modelRows) = Cardinality(DOMAIN lastLoadedModels)
    <3> SUFFICES ASSUME modelLoad = Nil PROVE Len(modelRows) = Cardinality(DOMAIN lastLoadedModels)
      OBVIOUS
    <3>1. Todo = <<>> /\ Len(<<>>) = 0
      BY DEF Todo
    <3>2. Len(modelRows) \in Nat /\ Len(modelRows) + Len(Todo) = Cardinality(DOMAIN lastLoadedModels)
      BY <2>1 DEF Filling, Queue
    <3> QED
      BY <3>1, <3>2
  <2> QED
    BY <2>1, <2>2 DEF OneRowPerModel, Filling
<1> QED
  BY <1>1, ModelInvInit, ModelInvStep, PTL DEF ModelTableSpec
=============================================================================
