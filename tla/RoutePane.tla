----------------------------- MODULE RoutePane -----------------------------
(***************************************************************************)
(* The auto routes and the rate limit rules of the administrator's page.   *)
(* A route is created by a sequence of requests: its virtual model, its    *)
(* policy, and one candidate after the other.                              *)
(***************************************************************************)
EXTENDS Browser

CONSTANTS
  Candidates,  \* 1 .. the number of real models
  MaxRoutes,   \* bound: routes begun
  MaxRules     \* bound: rate limit rules

Routes == 1 .. MaxRoutes
Rules == 1 .. MaxRules

VARIABLES
  virtualModels,  \* server: routes whose virtual model exists
  policies,       \* server: routes with a policy, and their candidates
  droppedRoutes,  \* server: routes whose policy was deleted
  routesBegun, chosenOf,  \* routes begun, and the candidates chosen for each
  savedRoutes,    \* routes reported as saved
  passedOver,     \* routes with a candidate that was answered 401
  routeTable,     \* rows drawn: a route and the candidates it named
  routeMsg,       \* "", "ok" or "err"
  ruleDb,         \* server: rules that exist
  ruleTable,      \* rules drawn
  ruleModal, ruleId  \* the rule's dialog is visible; its hidden field, Nil for a new one

routeServer == <<virtualModels, policies, droppedRoutes>>
ruleVars == <<ruleDb, ruleTable, ruleModal, ruleId>>
routeVars == <<routeServer, routesBegun, chosenOf, savedRoutes, passedOver, routeTable, routeMsg, ruleVars>>

RouteInit ==
  /\ virtualModels = {} /\ policies = [r \in {} |-> {}] /\ droppedRoutes = {}
  /\ routesBegun = 0 /\ chosenOf = [r \in {} |-> {}] /\ savedRoutes = {} /\ passedOver = {}
  /\ routeTable = <<>> /\ routeMsg = ""
  /\ ruleDb = {1} /\ ruleTable = {1} /\ ruleModal = FALSE /\ ruleId = Nil

-----------------------------------------------------------------------------
\* Creating a route.  The candidates are read when the button is clicked, and
\* the button stays enabled.

CreateAutoRoute ==
  \/ /\ routesBegun < MaxRoutes
     /\ \E chosen \in SUBSET Candidates :
          chosenOf' = [r \in 1 .. routesBegun + 1 |-> IF r > routesBegun THEN chosen ELSE chosenOf[r]]
     /\ Gesture(<<Call("routeModel", routesBegun + 1)>>)
     /\ routesBegun' = routesBegun + 1 /\ routeMsg' = ""
     /\ UNCHANGED <<routeServer, savedRoutes, passedOver, routeTable, ruleVars>>
  \/ /\ Local /\ routeMsg' = "err"  \* without a name
     /\ UNCHANGED <<routeServer, routesBegun, chosenOf, savedRoutes, passedOver, routeTable, ruleVars>>

VirtualModelCreated(n) ==
  /\ Asked(n, "routeModel")
  /\ virtualModels' = virtualModels \cup {calls[n].arg}
  /\ Resume(n, <<Call("routePolicy", calls[n].arg)>>)
  /\ UNCHANGED <<policies, droppedRoutes, routesBegun, chosenOf, savedRoutes, passedOver, routeTable, routeMsg, ruleVars>>

WithCandidates(r, ids) ==
  [p \in DOMAIN policies \cup {r} |-> IF p = r THEN ids ELSE policies[p]]

\* What is left to post, in the order of the select, which has the server's
\* (model_repo.go:86); when nothing is, the route is reported as saved and
\* the lists are loaded again, the models first.
Proceed(n, r, todo) ==
  IF todo # {}
  THEN /\ Resume(n, <<Call("routeCandidate", [route |-> r, todo |-> todo])>>)
       /\ UNCHANGED savedRoutes
  ELSE /\ savedRoutes' = savedRoutes \cup {r}
       /\ Resume(n, <<Call("candidateModels", TRUE)>>)

PolicyCreated(n) ==
  LET r == calls[n].arg
  IN /\ Asked(n, "routePolicy")
     /\ policies' = WithCandidates(r, {}) /\ Proceed(n, r, chosenOf[r])
     /\ UNCHANGED <<virtualModels, droppedRoutes, routesBegun, chosenOf, passedOver, routeTable, routeMsg, ruleVars>>

\* (Mutant: a candidate that is refused is passed over.)
CandidatePassedOver(n) ==
  LET r == calls[n].arg.route  c == CHOOSE i \in calls[n].arg.todo : \A j \in calls[n].arg.todo : i >= j
  IN /\ Asked(n, "routeCandidate") /\ r \in DOMAIN policies
     /\ policies' \in {policies, WithCandidates(r, policies[r] \cup {c})}
     /\ Proceed(n, r, calls[n].arg.todo \ {c})
     /\ UNCHANGED <<virtualModels, droppedRoutes, routesBegun, chosenOf, passedOver, routeTable, routeMsg, ruleVars>>

CandidateAdded(n) ==
  LET r == calls[n].arg.route  c == CHOOSE i \in calls[n].arg.todo : \A j \in calls[n].arg.todo : i >= j
  IN /\ Asked(n, "routeCandidate") /\ r \in DOMAIN policies
     /\ policies' = WithCandidates(r, policies[r] \cup {c})
     /\ Proceed(n, r, calls[n].arg.todo \ {c})
     /\ UNCHANGED <<virtualModels, droppedRoutes, routesBegun, chosenOf, passedOver, routeTable, routeMsg, ruleVars>>

\* A step that fails, or whose answer is lost, ends the sequence: what the
\* steps before it made stays.
RouteCreationFails(n) ==
  /\ \/ Asked(n, "routeModel") /\ virtualModels' \in {virtualModels, virtualModels \cup {calls[n].arg}} /\ UNCHANGED policies
     \/ Asked(n, "routePolicy") /\ policies' \in {policies, WithCandidates(calls[n].arg, {})} /\ UNCHANGED virtualModels
     \/ Asked(n, "routeCandidate") /\ UNCHANGED <<policies, virtualModels>>
     \/ Asked(n, "candidateModels") /\ calls[n].arg /\ UNCHANGED <<policies, virtualModels>>
     \/ Asked(n, "routes") /\ UNCHANGED <<policies, virtualModels>>
  /\ routeMsg' = IF calls[n].op = "routes" /\ ~calls[n].arg THEN routeMsg ELSE "err"
  /\ Resume(n, <<>>)
  /\ UNCHANGED <<droppedRoutes, routesBegun, chosenOf, savedRoutes, passedOver, routeTable, ruleVars>>

\* Amid a creation the session ends.  The model and the policy are missed, but
\* the loop over the candidates does not look at its answers: it runs to its
\* end, every further one refused, and the route is reported as saved.
CreationDenied(n) ==
  /\ Denied(n)
  /\ \/ /\ calls[n].op \in {"routeModel", "routePolicy"} /\ routeMsg' = "err"
        /\ UNCHANGED <<savedRoutes, passedOver>>
     \/ /\ calls[n].op = "routeCandidate" /\ UNCHANGED routeMsg
        /\ savedRoutes' = savedRoutes \cup {calls[n].arg.route}
        /\ passedOver' = passedOver \cup {calls[n].arg.route}
  /\ UNCHANGED <<routeServer, routesBegun, chosenOf, routeTable, ruleVars>>

OtherDenied(n) ==
  /\ calls[n].op \notin {"routeModel", "routePolicy", "routeCandidate"}
  /\ Denied(n) /\ UNCHANGED routeVars

-----------------------------------------------------------------------------
\* The table of routes.

\* The candidate select is filled first, from the models the page holds or
\* from a fetch whose failure is ignored.  TRUE belongs to a creation, whose
\* message then tells a failure; before it the models were loaded again.
PopulateAutoRouteCandidateSelect(n) ==
  /\ Asked(n, "candidateModels") /\ Resume(n, <<Call("routes", calls[n].arg)>>)
  /\ UNCHANGED routeVars

RoutesInOrder == LET Above(r) == Cardinality({p \in DOMAIN policies : p >= r})
                 IN [k \in 1 .. Cardinality(DOMAIN policies) |-> CHOOSE r \in DOMAIN policies : Above(r) = k]

LoadAutoRoutes(n) ==
  /\ Asked(n, "routes") /\ routeTable' = <<>>
  /\ Resume(n, IF DOMAIN policies = {} THEN <<>> ELSE <<Call("routeRow", RoutesInOrder)>>)
  /\ UNCHANGED <<routeServer, routesBegun, chosenOf, savedRoutes, passedOver, routeMsg, ruleVars>>

\* After its last row a load gives every row of the table its handlers, once
\* more to those that a load begun before it has given some.
Installed(rows, last) ==
  IF last THEN [k \in DOMAIN rows |-> [rows[k] EXCEPT !.handlers = @ + 1]] ELSE rows

\* Candidates that cannot be fetched count as none.
RouteRow(n) ==
  LET r == Head(calls[n].arg)
  IN /\ Asked(n, "routeRow")
     /\ \E ids \in {{}} \cup (IF r \in DOMAIN policies THEN {policies[r]} ELSE {}) :
          routeTable' = Installed(Append(routeTable, [route |-> r, ids |-> ids, handlers |-> 0]), Len(calls[n].arg) = 1)
     /\ Resume(n, IF Len(calls[n].arg) > 1 THEN <<Call("routeRow", Tail(calls[n].arg))>> ELSE <<>>)
     /\ UNCHANGED <<routeServer, routesBegun, chosenOf, savedRoutes, passedOver, routeMsg, ruleVars>>

\* The buttons of a row: each of its handlers sends a request.
Sent(row, op, arg) == row.handlers > 0 /\ Gesture([h \in 1 .. row.handlers |-> Call(op, arg)])

DeleteRoute ==
  /\ \E k \in DOMAIN routeTable : Sent(routeTable[k], "dropRoute", routeTable[k].route)
  /\ UNCHANGED routeVars

AddCandidate ==
  /\ \E k \in DOMAIN routeTable, c \in Candidates :
       Sent(routeTable[k], "oneMore", [route |-> routeTable[k].route, candidate |-> c])
  /\ UNCHANGED routeVars

RouteChanged(n) ==
  /\ \/ /\ Asked(n, "dropRoute")
        /\ policies' = [p \in DOMAIN policies \ {calls[n].arg} |-> policies[p]]
        /\ droppedRoutes' = droppedRoutes \cup {calls[n].arg}
     \/ /\ Asked(n, "oneMore") /\ calls[n].arg.route \in DOMAIN policies
        /\ policies' = WithCandidates(calls[n].arg.route, policies[calls[n].arg.route] \cup {calls[n].arg.candidate})
        /\ UNCHANGED droppedRoutes
  /\ Resume(n, <<Call("candidateModels", FALSE)>>)
  /\ UNCHANGED <<virtualModels, routesBegun, chosenOf, savedRoutes, passedOver, routeTable, routeMsg, ruleVars>>

\* Nobody hears of their failure.
RouteNotChanged(n) ==
  /\ Asked(n, "dropRoute") \/ Asked(n, "oneMore")
  /\ Resume(n, <<>>) /\ UNCHANGED routeVars

DryRun ==
  /\ \E k \in DOMAIN routeTable : routeTable[k].handlers > 0
  /\ Local /\ routeMsg' = "ok"
  /\ UNCHANGED <<routeServer, routesBegun, chosenOf, savedRoutes, passedOver, routeTable, ruleVars>>

-----------------------------------------------------------------------------
\* Rate limit rules.  Editing asks for the rules again, so the dialog comes up
\* late and over whatever it holds by then.

NoRoute == UNCHANGED <<routeServer, routesBegun, chosenOf, savedRoutes, passedOver, routeTable, routeMsg>>

OpenRateLimitModal(id) == ruleModal' = TRUE /\ ruleId' = id

AddRule ==
  /\ ~ruleModal /\ Local /\ OpenRateLimitModal(Nil)
  /\ NoRoute /\ UNCHANGED <<ruleDb, ruleTable>>

ClickRule ==
  /\ ~ruleModal
  /\ \E id \in ruleTable, op \in {"editRule", "dropRule"} : Gesture(<<Call(op, id)>>)
  /\ NoRoute /\ UNCHANGED ruleVars

SaveRateLimit ==
  /\ ruleModal /\ Gesture(<<Call("saveRule", ruleId)>>)
  /\ NoRoute /\ UNCHANGED ruleVars

HideRule ==
  /\ ruleModal /\ Local /\ ruleModal' = FALSE
  /\ NoRoute /\ UNCHANGED <<ruleDb, ruleTable, ruleId>>

RuleAnswered(n) ==
  LET id == calls[n].arg
  IN /\ \/ /\ Asked(n, "editRule") /\ Resume(n, <<>>)
           /\ IF id \in ruleDb THEN OpenRateLimitModal(id) ELSE UNCHANGED <<ruleModal, ruleId>>
           /\ UNCHANGED <<ruleDb, ruleTable>>
        \/ /\ Asked(n, "saveRule") /\ ruleModal' = FALSE /\ Resume(n, <<Call("rules", Nil)>>)
           /\ id = Nil => Rules \ ruleDb # {}
           /\ ruleDb' = ruleDb \cup (IF id = Nil THEN {CHOOSE i \in Rules \ ruleDb : TRUE} ELSE {})
           /\ UNCHANGED <<ruleTable, ruleId>>
        \/ /\ Asked(n, "dropRule") /\ Resume(n, <<Call("rules", Nil)>>)
           /\ ruleDb' = ruleDb \ {id}
           /\ UNCHANGED <<ruleTable, ruleModal, ruleId>>
     /\ NoRoute

LoadRateLimits(n) ==
  /\ Asked(n, "rules") /\ Resume(n, <<>>) /\ ruleTable' = ruleDb
  /\ NoRoute /\ UNCHANGED <<ruleDb, ruleModal, ruleId>>

RuleFails(n) ==
  /\ \E op \in {"editRule", "saveRule", "dropRule", "rules"} : Asked(n, op)
  /\ Resume(n, <<>>) /\ NoRoute /\ UNCHANGED ruleVars

RouteCreation ==
  \/ CreateAutoRoute
  \/ \E n \in DOMAIN calls :
       VirtualModelCreated(n) \/ PolicyCreated(n) \/ CandidateAdded(n) \/ RouteCreationFails(n)

AutoRouteTable ==
  \/ DeleteRoute \/ AddCandidate \/ DryRun
  \/ \E n \in DOMAIN calls :
       \/ PopulateAutoRouteCandidateSelect(n) \/ LoadAutoRoutes(n) \/ RouteRow(n)
       \/ RouteChanged(n) \/ RouteNotChanged(n)

RateLimitRules ==
  \/ AddRule \/ ClickRule \/ SaveRateLimit \/ HideRule
  \/ \E n \in DOMAIN calls : RuleAnswered(n) \/ LoadRateLimits(n) \/ RuleFails(n)

RouteNext == RouteCreation \/ AutoRouteTable \/ RateLimitRules

\* The pane on its own page; any fetch may end the session.
RouteStep ==
  \/ RouteNext
  \/ \E n \in DOMAIN calls : CreationDenied(n) \/ OtherDenied(n)
RouteSpec == BrowserInit({"admin"}) /\ RouteInit /\ [][RouteStep]_<<browserVars, routeVars>>

-----------------------------------------------------------------------------

\* A route reported as saved is whole on the server: its virtual model and its
\* policy exist, unless the administrator deleted it since, and the policy has
\* every candidate that was chosen, unless the session ended while they were
\* posted: then the code reports it all the same.  Creations may overlap, and
\* each of their requests may fail or be carried out without an answer.
SavedRouteIsWhole ==
  \A r \in savedRoutes \ droppedRoutes :
    /\ r \in virtualModels /\ r \in DOMAIN policies
    /\ r \in passedOver \/ chosenOf[r] \subseteq policies[r]
=============================================================================
