----------------------------- MODULE ModelTable -----------------------------
(***************************************************************************)
(* The models of the administrator's page: the list, loaded one load at a  *)
(* time, the actions of a row, the connection tests and the bulk pricing.  *)
(* Every model has at most one account here.                               *)
(***************************************************************************)
EXTENDS Browser

CONSTANTS
  ModelIds,      \* 1 .. the number of models
  ModelFilters   \* the sets of models a filter may select; one is ModelIds

\* What may run as a load (see below), and who may ask for one.
InitiatorOps ==
  {"filter", "refreshAll", "testAll", "put", "toggleAccount", "deleteAccount", "testModel", "testAccount"}
Initiators == [op : InitiatorOps, model : ModelIds \cup {Nil}, load : Nat]
RunningLoads == [load : Nat, from : Initiators, todo : Seq(ModelIds)]

ASSUME ModelTableAssumption ==
  IsFiniteSet(ModelIds) /\ ModelIds = 1 .. Cardinality(ModelIds) /\ Nil \notin RunningLoads

VARIABLES
  modelDb,     \* server: Nil, or what a model's row holds
  accountDb,   \* server: "none", or the account's state
  tested,      \* server: models with the outcome of a test
  modelFilter, \* what the filter fields select
  lastLoadedModels, \* the rows the script keeps, by model
  modelRows,   \* the table, in the order its rows were appended
  modelLoad,   \* the load that runs: its number, who waits for it, rows to come
  loadModelsRunChain,  \* who waits for the loads that have not begun
  modelLoads,  \* number of loads begun
  ticked,      \* models whose box is ticked
  bulkModal,   \* the pricing dialog is visible
  connectButton  \* "test all": "on" or "off"

modelServerVars == <<modelDb, accountDb, tested>>
chainVars == <<modelLoad, loadModelsRunChain, modelLoads>>
modelVars == <<modelServerVars, modelFilter, lastLoadedModels, modelRows, chainVars,
               ticked, bulkModal, connectButton>>

\* Descending ids, as the server sorts them (model_repo.go:86).
InOrder(ids) == LET Above(m) == Cardinality({i \in ids : i >= m})
                IN [k \in 1 .. Cardinality(ids) |-> CHOOSE m \in ids : Above(m) = k]

\* The page as its first load (number 0) leaves it.
ModelTableInit ==
  /\ modelDb = [m \in ModelIds |-> [active |-> TRUE, listed |-> FALSE, price |-> 1]]
  /\ accountDb = [m \in ModelIds |-> "on"] /\ tested = {}
  /\ modelFilter = ModelIds /\ lastLoadedModels = modelDb
  /\ modelRows = [k \in DOMAIN InOrder(ModelIds) |->
       [model |-> InOrder(ModelIds)[k], load |-> 0, account |-> "on", dot |-> FALSE, busy |-> {}]]
  /\ modelLoad = Nil /\ loadModelsRunChain = <<>> /\ modelLoads = 0
  /\ ticked = {} /\ bulkModal = FALSE /\ connectButton = "on"

-----------------------------------------------------------------------------
\* Loading.  loadModels hangs its load on the chain: it runs at once if no
\* other runs.  The filter is read when the load begins.

\* Who asks for a load: a handler, and of a test the row whose button it was.
Initiator(op, m, load) == [op |-> op, model |-> m, load |-> load]

ModelListQuery == Call("models", [load |-> modelLoads + 1, filter |-> modelFilter])

BeginLoad(from) ==
  /\ modelLoad' = [load |-> modelLoads + 1, from |-> from, todo |-> <<>>]
  /\ modelLoads' = modelLoads + 1

LoadSent == IF modelLoad = Nil THEN <<ModelListQuery>> ELSE <<>>

LoadModels(from) ==
  IF modelLoad = Nil THEN BeginLoad(from) /\ UNCHANGED loadModelsRunChain
  ELSE /\ loadModelsRunChain' = Append(loadModelsRunChain, from)
       /\ UNCHANGED <<modelLoad, modelLoads>>

\* A load ends, well or not, and leaves these rows: a test that waits for it
\* enables its button, if that is still there, and the next load begins.
Released(rows, test) ==
  [k \in DOMAIN rows |->
     IF test.op \in {"testModel", "testAccount"} /\ rows[k].model = test.model /\ rows[k].load = test.load
     THEN [rows[k] EXCEPT !.busy = @ \ {test.op}] ELSE rows[k]]

LoadOver(n, rows) ==
  /\ modelRows' = Released(rows, modelLoad.from)
  /\ connectButton' = IF modelLoad.from.op = "testAll" THEN "on" ELSE connectButton
  /\ IF loadModelsRunChain = <<>>
     THEN modelLoad' = Nil /\ Resume(n, <<>>) /\ UNCHANGED <<loadModelsRunChain, modelLoads>>
     ELSE /\ BeginLoad(Head(loadModelsRunChain))
          /\ loadModelsRunChain' = Tail(loadModelsRunChain)
          /\ Resume(n, <<ModelListQuery>>)

Held(db) == {m \in ModelIds : db[m] # Nil}

\* With a filter, a second fetch lists all models for the usage logs; the load
\* fails if either does.
AnswerModels(n) ==
  /\ Asked(n, "models")
  /\ Reply(n, "ok", [m \in Held(modelDb) \cap calls[n].arg.filter |-> modelDb[m]])
  /\ UNCHANGED modelVars

\* (Mutant: the table is not emptied.)
LoadModelsAppending(n) ==
  LET loaded == calls[n].val
  IN /\ Answered(n, "models", "ok") /\ DOMAIN loaded # {}
     /\ lastLoadedModels' = loaded /\ ticked' = {}
     /\ modelLoad' = [modelLoad EXCEPT !.todo = InOrder(DOMAIN loaded)]
     /\ Resume(n, <<Call("rowAccounts", calls[n].arg.load)>>)
     /\ UNCHANGED <<modelServerVars, modelFilter, modelRows, bulkModal, loadModelsRunChain, modelLoads, connectButton>>

\* The table is emptied when the list is there, and filled row by row, each
\* after a fetch of the model's accounts.
LoadModelsImpl(n) ==
  LET loaded == calls[n].val
  IN /\ Answered(n, "models", "ok")
     /\ lastLoadedModels' = loaded /\ ticked' = {}
     /\ IF DOMAIN loaded = {} THEN LoadOver(n, <<>>)
        ELSE /\ modelRows' = <<>>
             /\ modelLoad' = [modelLoad EXCEPT !.todo = InOrder(DOMAIN loaded)]
             /\ Resume(n, <<Call("rowAccounts", calls[n].arg.load)>>)
             /\ UNCHANGED <<loadModelsRunChain, modelLoads, connectButton>>
     /\ UNCHANGED <<modelServerVars, modelFilter, bulkModal>>

LoadModelsFails(n) ==
  /\ Asked(n, "models") /\ LoadOver(n, modelRows)
  /\ UNCHANGED <<modelServerVars, modelFilter, lastLoadedModels, ticked, bulkModal>>

\* The cells of a model's rows; without an account they hold dashes.
AccountConnectivityCell(m, account) == account # "none" /\ m \in tested
AccountRow(m, account) ==
  [model |-> m, load |-> modelLoad.load, account |-> account,
   dot |-> AccountConnectivityCell(m, account), busy |-> {}]

\* A fetch of accounts that fails counts as one that finds none.
AppendModelRow(n) ==
  LET m == Head(modelLoad.todo)
  IN /\ Asked(n, "rowAccounts")
     /\ \E account \in {accountDb[m], "none"} :
          LET rows == Append(modelRows, AccountRow(m, account))
          IN IF Len(modelLoad.todo) = 1 THEN LoadOver(n, rows)
             ELSE /\ modelRows' = rows
                  /\ modelLoad' = [modelLoad EXCEPT !.todo = Tail(@)]
                  /\ Resume(n, <<Call("rowAccounts", calls[n].arg)>>)
                  /\ UNCHANGED <<loadModelsRunChain, modelLoads, connectButton>>
     /\ UNCHANGED <<modelServerVars, modelFilter, lastLoadedModels, ticked, bulkModal>>

FilterModels ==
  /\ \E filter \in ModelFilters : modelFilter' = filter
  /\ LET query == Call("models", [load |-> modelLoads + 1, filter |-> modelFilter'])
     IN Gesture(IF modelLoad = Nil THEN <<query>> ELSE <<>>)
  /\ LoadModels(Initiator("filter", Nil, 0))
  /\ UNCHANGED <<modelServerVars, lastLoadedModels, modelRows, ticked, bulkModal, connectButton>>

-----------------------------------------------------------------------------
\* The actions of a row.

RowOf(m) == {k \in DOMAIN modelRows : modelRows[k].model = m}
Shown(m) == RowOf(m) # {} /\ m \in DOMAIN lastLoadedModels
AccountShown(m) == \E k \in RowOf(m) : modelRows[k].account # "none"
Reachable == ~bulkModal

\* A toggle writes back the whole row the script keeps.  The one that enables
\* or disables leaves out whether the model is listed.
ToggleModelActive(m) ==
  LET row == lastLoadedModels[m]
  IN /\ Shown(m) /\ Reachable
     /\ Gesture(<<Call("put", [model |-> m, active |-> ~row.active, listed |-> Nil, price |-> row.price])>>)
     /\ UNCHANGED modelVars

ToggleModelListed(m) ==
  LET row == lastLoadedModels[m]
  IN /\ Shown(m) /\ Reachable
     /\ Gesture(<<Call("put", [model |-> m, active |-> row.active, listed |-> ~row.listed, price |-> row.price])>>)
     /\ UNCHANGED modelVars

DeleteModel(m) ==
  /\ Shown(m) /\ Reachable /\ Gesture(<<Call("deleteModel", [model |-> m])>>)
  /\ UNCHANGED modelVars

\* Its button is disabled until the list has been loaded again; that list has
\* new buttons.
Test(m, op) ==
  /\ Shown(m) /\ Reachable
  /\ \E k \in RowOf(m) :
       /\ op \notin modelRows[k].busy
       /\ modelRows' = [modelRows EXCEPT ![k].busy = @ \cup {op}]
       /\ Gesture(<<Call(op, Initiator(op, m, modelRows[k].load))>>)
  /\ UNCHANGED <<modelServerVars, modelFilter, lastLoadedModels, chainVars, ticked, bulkModal, connectButton>>

TestModel(m) == Test(m, "testModel")
TestAccount(m) == AccountShown(m) /\ Test(m, "testAccount")

ToggleModelAccount(m) ==
  /\ Reachable
  /\ \E k \in RowOf(m) :
       /\ modelRows[k].account # "none"
       /\ Gesture(<<Call("toggleAccount", [model |-> m, to |-> IF modelRows[k].account = "on" THEN "off" ELSE "on"])>>)
  /\ UNCHANGED modelVars

DeleteModelAccount(m) ==
  /\ AccountShown(m) /\ Reachable /\ Gesture(<<Call("deleteAccount", [model |-> m])>>)
  /\ UNCHANGED modelVars

\* The boxes are read when the prices are saved, not when the dialog opens; the
\* administrator may tick any row before opening it.
OpenBulkPricingModal ==
  /\ Reachable /\ Local /\ bulkModal' = TRUE
  /\ ticked' \in SUBSET {modelRows[k].model : k \in DOMAIN modelRows} \ {{}}
  /\ UNCHANGED <<modelServerVars, modelFilter, lastLoadedModels, modelRows, chainVars, connectButton>>

SaveBulkPricing ==
  /\ bulkModal
  /\ IF ticked = {} THEN Local ELSE Gesture(<<Call("bulk", ticked)>>)
  /\ UNCHANGED modelVars

CloseBulkPricingModal ==
  /\ bulkModal /\ Local /\ bulkModal' = FALSE /\ ticked' = {}
  /\ UNCHANGED <<modelServerVars, modelFilter, lastLoadedModels, modelRows, chainVars, connectButton>>

-----------------------------------------------------------------------------
\* The server.  A put without "listed" keeps it.

Written(m, arg) ==
  IF modelDb[m] = Nil THEN Nil
  ELSE [active |-> arg.active, price |-> arg.price,
        listed |-> IF arg.listed = Nil THEN modelDb[m].listed ELSE arg.listed]

Effect(n) ==
  \/ /\ calls[n].op = "put"
     /\ modelDb' = [modelDb EXCEPT ![calls[n].arg.model] = Written(calls[n].arg.model, calls[n].arg)]
     /\ UNCHANGED <<accountDb, tested>>
  \/ /\ calls[n].op = "bulk"
     /\ modelDb' = [m \in ModelIds |-> IF m \in calls[n].arg /\ modelDb[m] # Nil
                                       THEN [modelDb[m] EXCEPT !.price = 2] ELSE modelDb[m]]
     /\ UNCHANGED <<accountDb, tested>>
  \/ /\ calls[n].op = "deleteModel"
     /\ modelDb' = [modelDb EXCEPT ![calls[n].arg.model] = Nil]
     /\ accountDb' = [accountDb EXCEPT ![calls[n].arg.model] = "none"]
     /\ UNCHANGED tested
  \/ /\ calls[n].op = "toggleAccount" /\ accountDb[calls[n].arg.model] # "none"
     /\ accountDb' = [accountDb EXCEPT ![calls[n].arg.model] = calls[n].arg.to]
     /\ UNCHANGED <<modelDb, tested>>
  \/ /\ calls[n].op = "deleteAccount"
     /\ accountDb' = [accountDb EXCEPT ![calls[n].arg.model] = "none"]
     /\ UNCHANGED <<modelDb, tested>>
  \/ /\ calls[n].op \in {"testModel", "testAccount"}
     /\ tested' = tested \cup {calls[n].arg.model}
     /\ UNCHANGED <<modelDb, accountDb>>

\* What follows a change: the list is loaded again, after a deletion or a
\* pricing once refreshAll has rebuilt the catalogue of accounts.  A change and
\* the delivery of its answer are one step: the page keeps nothing of the
\* answer, and reads the effect with fetches of its own.
Reloading == {"put", "toggleAccount", "deleteAccount", "testModel", "testAccount"}
Refreshing == {"deleteModel", "bulk"}

ChangedModel(n) ==
  /\ \E op \in Reloading : Asked(n, op)
  /\ Effect(n) /\ Resume(n, LoadSent)
  /\ LoadModels(Initiator(calls[n].op, calls[n].arg.model,
                          IF calls[n].op \in {"testModel", "testAccount"} THEN calls[n].arg.load ELSE 0))
  /\ UNCHANGED <<modelFilter, lastLoadedModels, modelRows, ticked, bulkModal, connectButton>>

ChangedModels(n) ==
  /\ \E op \in Refreshing : Asked(n, op)
  /\ Effect(n) /\ Resume(n, <<Call("rebuild", Nil)>>)
  /\ IF calls[n].op = "bulk" THEN bulkModal' = FALSE /\ ticked' = {} ELSE UNCHANGED <<bulkModal, ticked>>
  /\ UNCHANGED <<modelFilter, lastLoadedModels, modelRows, chainVars, connectButton>>

Rebuilt(n) ==
  /\ Asked(n, "rebuild")
  /\ Resume(n, LoadSent) /\ LoadModels(Initiator("refreshAll", Nil, 0))
  /\ UNCHANGED <<modelServerVars, modelFilter, lastLoadedModels, modelRows, ticked, bulkModal, connectButton>>

\* A failure, of the change or of its answer, is a message; a test gives its
\* button back.
ModelRowFails(n) ==
  /\ \E op \in Reloading \cup Refreshing \cup {"rebuild"} : Asked(n, op)
  /\ Effect(n) \/ UNCHANGED modelServerVars
  /\ modelRows' = IF calls[n].op \in {"testModel", "testAccount"} THEN Released(modelRows, calls[n].arg) ELSE modelRows
  /\ Resume(n, <<>>)
  /\ UNCHANGED <<modelFilter, lastLoadedModels, chainVars, ticked, bulkModal, connectButton>>

-----------------------------------------------------------------------------
\* "Test all" collects the accounts of the enabled models one after the other,
\* then tests them one after the other.  Its button is off only from then on.

CollectAccounts(todo, found) == Call("collect", [todo |-> todo, found |-> found])

TestAllEnabledModels ==
  LET enabled == {m \in DOMAIN lastLoadedModels : lastLoadedModels[m].active}
  IN /\ connectButton = "on" /\ Reachable
     /\ IF enabled = {} THEN Local ELSE Gesture(<<CollectAccounts(InOrder(enabled), <<>>)>>)
     /\ UNCHANGED modelVars

Collect(n) ==
  LET m == Head(calls[n].arg.todo)  rest == Tail(calls[n].arg.todo)
  IN /\ Asked(n, "collect")
     /\ \E found \in {calls[n].arg.found} \cup (IF accountDb[m] = "on" THEN {Append(calls[n].arg.found, m)} ELSE {}) :
          IF rest # <<>> THEN Resume(n, <<CollectAccounts(rest, found)>>) /\ UNCHANGED connectButton
          ELSE IF found = <<>> THEN Resume(n, <<>>) /\ UNCHANGED connectButton
          ELSE Resume(n, <<Call("testAll", found)>>) /\ connectButton' = "off"
     /\ UNCHANGED <<modelServerVars, modelFilter, lastLoadedModels, modelRows, chainVars, ticked, bulkModal>>

TestNext(n) ==
  /\ Asked(n, "testAll")
  /\ \/ tested' = tested \cup {Head(calls[n].arg)}
     \/ UNCHANGED tested
  /\ IF Len(calls[n].arg) > 1 THEN Resume(n, <<Call("testAll", Tail(calls[n].arg))>>) /\ UNCHANGED chainVars
     ELSE Resume(n, LoadSent) /\ LoadModels(Initiator("testAll", Nil, 0))
  /\ UNCHANGED <<modelDb, accountDb, modelFilter, lastLoadedModels, modelRows, ticked, bulkModal, connectButton>>

-----------------------------------------------------------------------------
\* The handlers, by the functions that hold them.

ModelListLoads ==
  \E n \in DOMAIN calls : LoadModelsImpl(n) \/ LoadModelsFails(n) \/ AppendModelRow(n)

HandleModelRowActionClick ==
  \/ \E m \in ModelIds : ToggleModelActive(m) \/ ToggleModelListed(m) \/ DeleteModel(m) \/ TestModel(m)
  \/ \E n \in DOMAIN calls : ChangedModels(n) \/ Rebuilt(n)

HandleModelAccountActionClick ==
  \/ \E m \in ModelIds : TestAccount(m) \/ ToggleModelAccount(m) \/ DeleteModelAccount(m)
  \/ \E n \in DOMAIN calls : ChangedModel(n) \/ ModelRowFails(n)

ConnectTests == TestAllEnabledModels \/ \E n \in DOMAIN calls : Collect(n) \/ TestNext(n)

BulkPricing ==
  OpenBulkPricingModal \/ SaveBulkPricing \/ CloseBulkPricingModal

ModelTableNext ==
  \/ FilterModels \/ ModelListLoads \/ HandleModelRowActionClick
  \/ HandleModelAccountActionClick \/ ConnectTests \/ BulkPricing
  \/ \E n \in DOMAIN calls : AnswerModels(n)

\* The pane on its own page; any fetch may end the session.
ModelTableStep ==
  \/ ModelTableNext
  \/ (\E n \in DOMAIN calls : Denied(n)) /\ UNCHANGED modelVars
ModelTableSpec == BrowserInit({"admin"}) /\ ModelTableInit /\ [][ModelTableStep]_<<browserVars, modelVars>>

\* The browser settles every fetch, and what waits for it then runs.
ModelFetchSettles ==
  \E n \in DOMAIN calls :
    \/ AnswerModels(n) \/ LoadModelsImpl(n) \/ LoadModelsFails(n) \/ AppendModelRow(n)
    \/ ChangedModel(n) \/ ChangedModels(n) \/ Rebuilt(n) \/ ModelRowFails(n)
    \/ Collect(n) \/ TestNext(n)

-----------------------------------------------------------------------------

\* Loads asked for together leave one table: every model of the list loaded
\* last has at most one row, in the server's order, and no row of an earlier load stays
\* (the purpose of loadModelsRunChain, admin.js:48), so a row's buttons find
\* the model they belong to.
OneRowPerModel ==
  session = "in" =>
    /\ \A i, j \in DOMAIN modelRows :
         modelRows[i].load = modelRows[j].load /\ (i < j => modelRows[i].model > modelRows[j].model)
    /\ \A k \in DOMAIN modelRows : modelRows[k].model \in DOMAIN lastLoadedModels
    /\ modelLoad = Nil => Len(modelRows) = Cardinality(DOMAIN lastLoadedModels)
=============================================================================
