----------------------------- MODULE AdminPage -----------------------------
(***************************************************************************)
(* The frame of the administrator's page: who is let in, the order in      *)
(* which everything is loaded, the tabs, the users with their roles, the   *)
(* charging of a balance and the playground.                               *)
(***************************************************************************)
EXTENDS Browser

CONSTANTS
  Me, Others,    \* the account signed in; other users
  PageRoles,     \* roles: "default", "admin", "super_admin"
  MaxUserLoads   \* bound: loads of the users

ASSUME PageAssumption == "admin" \in PageRoles

VARIABLES
  roleDb, activeDb,  \* server: role of each user; users that are active
  currentRole,       \* the role of Me as the gate read it, "" before
  loadingShown, deniedShown, appShown, \* the three parts of the page
  savedTab, activeTab,  \* localStorage; the tab shown
  userRows,          \* rows drawn: role and state of each user, or Nil
  roleSelect, prevRole,  \* value of a row's select; what data-prev-role holds
  userLoads,         \* number of loads drawn
  chargeMsg,         \* "", "ok" or "err"
  playgroundKind, playgroundOut  \* kind of the model chosen; "", "busy", "text", "image" or "err"

userServer == <<roleDb, activeDb>>
gateVars == <<currentRole, loadingShown, deniedShown, appShown>>
userVars == <<userRows, roleSelect, prevRole, userLoads>>
playVars == <<chargeMsg, playgroundKind, playgroundOut>>
tabVars == <<savedTab, activeTab>>
pageVars == <<userServer, gateVars, tabVars, userVars, playVars>>

PageUsers == {Me} \cup Others
SuperTabs == {"tab-model"}
Tabs == SuperTabs \cup {"tab-users", "tab-monitor"}

PageInit ==
  /\ roleDb \in {[u \in PageUsers |-> IF u = Me THEN r ELSE "admin"] : r \in PageRoles}
  /\ activeDb = PageUsers /\ currentRole = ""
  /\ loadingShown = TRUE /\ deniedShown = FALSE /\ appShown = FALSE
  /\ savedTab = "tab-users" /\ activeTab = "tab-model"
  /\ userRows = Nil /\ roleSelect = roleDb /\ prevRole = roleDb /\ userLoads = 0
  /\ chargeMsg = "" /\ playgroundKind = "chat" /\ playgroundOut = ""

IsAdminRole(role) == role \in {"admin", "super_admin"}
CanManageUserRole(u) == currentRole = "super_admin" /\ u # Me
CanManageUserStatus(u) ==
  /\ u # Me
  /\ \/ currentRole = "super_admin"
     \/ currentRole = "admin" /\ userRows[u].role # "super_admin"

-----------------------------------------------------------------------------
\* Loading.  refreshAll loads one part after the other and stops at the first
\* failure; what a super administrator alone sees comes first.

RefreshOrder(role) ==
  (IF role = "super_admin"
   THEN <<"catalogue", "models", "tokenGroups", "autoRoutes", "rateLimits", "usageLogs">> ELSE <<>>)
  \o <<"users", "redeem", "balanceLogs">>

Gate ==
  /\ loadingShown /\ calls = <<>> /\ Look(<<Call("gate", Nil)>>)
  /\ UNCHANGED pageVars

\* Anyone else is told so, and after 2 s sent to the user's console.  The tab
\* of the models is hidden from a plain administrator.
GateAnswered(n) ==
  LET role == roleDb[Me]
  IN /\ Asked(n, "gate") /\ loadingShown' = FALSE
     /\ IF IsAdminRole(role)
        THEN /\ currentRole' = role /\ appShown' = TRUE /\ UNCHANGED deniedShown
             /\ Resume(n, <<IF role = "super_admin" THEN Call("providers", Nil) ELSE Call("refresh", RefreshOrder(role))>>)
        ELSE /\ deniedShown' = TRUE /\ UNCHANGED <<currentRole, appShown>>
             /\ Resume(n, <<Call("leave", Nil)>>)
     /\ UNCHANGED <<userServer, tabVars, userVars, playVars>>

\* A catalogue of vendors that cannot be had is done without.
EnsureProviderCatalogLoaded(n) ==
  /\ Asked(n, "providers") /\ Resume(n, <<Call("refresh", RefreshOrder(currentRole))>>)
  /\ UNCHANGED pageVars

LeaveForUserConsole(n) ==
  /\ Asked(n, "leave")
  /\ session' = "out" /\ UNCHANGED <<calls, clicks, site, pageVars>>

DrawUsers ==
  /\ userRows' = [u \in PageUsers |-> [role |-> roleDb[u], active |-> u \in activeDb]]
  /\ roleSelect' = roleDb /\ prevRole' = roleDb /\ userLoads' = userLoads + 1

\* At the end the tab saved last is shown, unless it is hidden.
RefreshAll(n) ==
  LET todo == calls[n].arg
  IN /\ Asked(n, "refresh") /\ userLoads < MaxUserLoads
     /\ IF Head(todo) = "users" THEN DrawUsers ELSE UNCHANGED userVars
     /\ IF Len(todo) > 1 THEN Resume(n, <<Call("refresh", Tail(todo))>>) /\ UNCHANGED activeTab
        ELSE /\ Resume(n, <<>>)
             /\ activeTab' = IF savedTab \in SuperTabs /\ currentRole # "super_admin" THEN activeTab ELSE savedTab
     /\ UNCHANGED <<userServer, gateVars, savedTab, playVars>>

\* What fails here denies the page, also when it is shown already.
GateFails(n) ==
  /\ Asked(n, "gate") \/ Asked(n, "refresh")
  /\ loadingShown' = FALSE /\ deniedShown' = TRUE /\ Resume(n, <<>>)
  /\ UNCHANGED <<userServer, currentRole, appShown, tabVars, userVars, playVars>>

ShowTab ==
  /\ appShown /\ Local
  /\ activeTab' \in (IF currentRole = "super_admin" THEN Tabs ELSE Tabs \ SuperTabs)
  /\ savedTab' = activeTab'
  /\ UNCHANGED <<userServer, gateVars, userVars, playVars>>

AdminLogout ==
  /\ appShown /\ session = "in" /\ session' = "out"
  /\ UNCHANGED <<calls, clicks, site, pageVars>>

-----------------------------------------------------------------------------
\* The users.

\* data-prev-role takes the new role before the request is sent.
ChangeUserRole ==
  /\ appShown /\ userRows # Nil
  /\ \E u \in PageUsers, r \in PageRoles :
       /\ CanManageUserRole(u) /\ r # roleSelect[u]
       /\ Gesture(<<Call("patchUser", [user |-> u, role |-> r, back |-> prevRole[u], rows |-> userLoads])>>)
       /\ roleSelect' = [roleSelect EXCEPT ![u] = r] /\ prevRole' = [prevRole EXCEPT ![u] = r]
  /\ UNCHANGED <<userServer, gateVars, tabVars, userRows, userLoads, playVars>>

ToggleUser ==
  /\ appShown /\ userRows # Nil
  /\ \E u \in PageUsers :
       /\ CanManageUserStatus(u)
       /\ Gesture(<<Call("toggleUser", [user |-> u, active |-> ~userRows[u].active])>>)
  /\ UNCHANGED pageVars

UserEffect(n) ==
  LET arg == calls[n].arg
  IN \/ calls[n].op = "patchUser" /\ roleDb' = [roleDb EXCEPT ![arg.user] = arg.role] /\ UNCHANGED activeDb
     \/ /\ calls[n].op = "toggleUser" /\ UNCHANGED roleDb
        /\ activeDb' = IF arg.active THEN activeDb \cup {arg.user} ELSE activeDb \ {arg.user}

\* A change done loads the users again; if that fails the select goes back as
\* if the change had.
PatchUser(n) ==
  /\ Asked(n, "patchUser") \/ Asked(n, "toggleUser")
  /\ UserEffect(n)
  /\ Resume(n, <<Call("loadUsers", IF calls[n].op = "patchUser" THEN calls[n].arg ELSE Nil)>>)
  /\ UNCHANGED <<gateVars, tabVars, userVars, playVars>>

UsersLoaded(n) ==
  /\ Asked(n, "loadUsers") /\ userLoads < MaxUserLoads /\ Resume(n, <<>>) /\ DrawUsers
  /\ UNCHANGED <<userServer, gateVars, tabVars, playVars>>

RoleBack(arg) ==
  roleSelect' = IF arg.rows = userLoads THEN [roleSelect EXCEPT ![arg.user] = arg.back] ELSE roleSelect

PatchFails(n) ==
  /\ \/ Asked(n, "patchUser") /\ (UNCHANGED userServer \/ UserEffect(n)) /\ RoleBack(calls[n].arg)
     \/ Asked(n, "toggleUser") /\ (UNCHANGED userServer \/ UserEffect(n)) /\ UNCHANGED roleSelect
     \/ /\ Asked(n, "loadUsers") /\ UNCHANGED userServer
        /\ IF calls[n].arg = Nil THEN UNCHANGED roleSelect ELSE RoleBack(calls[n].arg)
  /\ Resume(n, <<>>)
  /\ UNCHANGED <<gateVars, tabVars, userRows, prevRole, userLoads, playVars>>

\* A charge that is clicked twice is sent twice.
DoCharge ==
  /\ appShown /\ chargeMsg' \in {"", "err"}
  /\ IF chargeMsg' = "err" THEN Local ELSE Gesture(<<Call("charge", Nil)>>)
  /\ UNCHANGED <<userServer, gateVars, tabVars, userVars, playgroundKind, playgroundOut>>

Charged(n) ==
  /\ Asked(n, "charge") /\ Resume(n, <<>>) /\ chargeMsg' \in {"ok", "err"}
  /\ UNCHANGED <<userServer, gateVars, tabVars, userVars, playgroundKind, playgroundOut>>

-----------------------------------------------------------------------------
\* The playground: the form follows the kind of the model chosen.

PlaygroundKinds == {"chat", "image"}

SyncPlaygroundForm ==
  /\ appShown /\ currentRole = "super_admin" /\ Local
  /\ playgroundKind' \in PlaygroundKinds \ {playgroundKind}
  /\ UNCHANGED <<userServer, gateVars, tabVars, userVars, chargeMsg, playgroundOut>>

RunPlayground ==
  /\ appShown /\ currentRole = "super_admin" /\ playgroundOut' = "busy"
  /\ Gesture(<<Call("playground", playgroundKind)>>)
  /\ UNCHANGED <<userServer, gateVars, tabVars, userVars, chargeMsg, playgroundKind>>

PlaygroundAnswered(n) ==
  /\ Asked(n, "playground") /\ Resume(n, <<>>)
  /\ playgroundOut' \in {"text", "err"} \cup (IF calls[n].arg = "image" THEN {"image"} ELSE {})
  /\ UNCHANGED <<userServer, gateVars, tabVars, userVars, chargeMsg, playgroundKind>>

Entrance ==
  \/ Gate
  \/ \E n \in DOMAIN calls :
       GateAnswered(n) \/ EnsureProviderCatalogLoaded(n) \/ LeaveForUserConsole(n) \/ GateFails(n)

UserTable ==
  \/ ChangeUserRole \/ ToggleUser
  \/ \E n \in DOMAIN calls : PatchUser(n) \/ UsersLoaded(n) \/ PatchFails(n)

PageNext ==
  \/ Entrance \/ ShowTab \/ AdminLogout \/ UserTable \/ DoCharge \/ SyncPlaygroundForm \/ RunPlayground
  \/ \E n \in DOMAIN calls : RefreshAll(n) \/ Charged(n) \/ PlaygroundAnswered(n)

\* The pane on its own page; any fetch may end the session.
PageStep ==
  \/ PageNext
  \/ (\E n \in DOMAIN calls : Denied(n)) /\ UNCHANGED pageVars
PageSpec == BrowserInit({"admin"}) /\ PageInit /\ [][PageStep]_<<browserVars, pageVars>>

-----------------------------------------------------------------------------

\* Whoever is signed in changes the role and the state of others only, and an
\* administrator who is no super administrator changes no role at all, however
\* stale the table is.
OwnRowKept ==
  /\ Me \in activeDb
  /\ currentRole # "" => roleDb[Me] = currentRole
  /\ currentRole = "admin" => \A n \in DOMAIN calls : calls[n].op # "patchUser"
=============================================================================
