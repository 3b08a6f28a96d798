------------------------------ MODULE MCConsole ------------------------------
(***************************************************************************)
(* The pages of the two consoles for TLC.  A behaviour looks at one pane of *)
(* one front end: panes of one page share the session, a fetch queue and no *)
(* other state, so what the others do is not seen from it.                 *)
(***************************************************************************)
EXTENDS Browser, TokenPane, PagedList, AuthPages, AccountPane, ChatTest, StreamReader, DocsPage,
        ModelTable, MonitorPane, GroupPane, RoutePane, ModelDialogs, AdminPage

VARIABLE pane

MCGroupLists == {{"vip", "default"}}
MCTtls == {Nil, 0, 1, 9}
MCListings == {{[model |-> "opus", provider |-> "anthropic"], [model |-> "imagen", provider |-> "google"]}}
MCBodies == {{"choices"}}
MCIds == {1, 2}
MCGroups == {1, 2, 3}
MCFilters == {MCIds, {1}}
MCOffered == <<"m2", "m3">>

\* Two openings of a line per shape: texts, other modes, lines that say
\* nothing, a last line without its end, an empty stream.
Says(mode, text) == <<"data", mode, text>>
MCStreams ==
  {Says("openai", "a") \o <<"nl", "nl">> \o Says("openai", "b") \o <<"nl">>,
   Says("openai", "a") \o <<"nl">> \o Says("openai", "b"),
   Says("openai", "a") \o <<"nl">> \o Says("responses", "b") \o <<"nl", "other", "nl", "data", "other", "nl">>
     \o Says("openai", "b"),
   Says("openai", "a") \o <<"a", "nl">> \o Says("openai", "b") \o <<"nl", "data">>,
   <<>>}

UserPanes == {"token", "account", "auth", "chat", "stream", "docs"}
AdminPanes == {"models", "monitor", "groups", "routes", "dialogs", "page"}
ConsoleVars == <<browserVars, tokenVars, pagedVars, authVars, accountVars, chatVars, streamVars,
                 docsVars, modelVars, monitorVars, groupVars, routeVars, dialogVars, pageVars, pane>>

\* The pane that is looked at starts in any of its initial states, the others
\* in one that never changes.
ConsoleInit ==
  /\ pane \in UserPanes \cup AdminPanes \cup {"list"}
  /\ PagedInit(IF pane = "list" THEN Lists ELSE {"usage"})
  /\ site \in (IF pane \in UserPanes THEN {"console", "demo"}
               ELSE IF pane = "list" /\ list \in AppLists THEN {"console"} ELSE {"admin"})
  /\ calls = IF pane = "chat" /\ site = "console" THEN <<Call("pricing", Nil)>> ELSE <<>>
  /\ clicks = 0 /\ session = "in"
  /\ TokenInit /\ AccountInit /\ ChatTestInit
  /\ AuthInit /\ (pane # "auth" => place = "login" /\ access = Nil /\ refresh = Nil)
  /\ StreamInit({"openai", "responses"}, Streams) /\ (pane # "stream" => apiMode = "openai" /\ body = <<>>)
  /\ DocsInit(IF pane = "docs" THEN ButtonKinds ELSE {"docs"})
  /\ ModelTableInit /\ MonitorInit /\ GroupInit /\ RouteInit /\ DialogInit
  /\ PageInit /\ (pane # "page" => roleDb[Me] = "default")

Others1 == UNCHANGED <<modelVars, monitorVars, groupVars, routeVars, dialogVars, pageVars>>
Others2 == UNCHANGED <<tokenVars, pagedVars, authVars, accountVars, chatVars, streamVars, docsVars>>

ConsoleNext ==
  /\ UNCHANGED pane
  /\ \/ /\ pane = "token" /\ TokenStep /\ Others1
        /\ UNCHANGED <<pagedVars, authVars, accountVars, chatVars, streamVars, docsVars>>
     \/ /\ pane = "list" /\ PagedNext /\ Others1
        /\ UNCHANGED <<tokenVars, authVars, accountVars, chatVars, streamVars, docsVars>>
     \/ /\ pane = "auth" /\ AuthNext /\ Others1
        /\ UNCHANGED <<tokenVars, pagedVars, accountVars, chatVars, streamVars, docsVars>>
     \/ /\ pane = "account" /\ AccountNext /\ Others1
        /\ UNCHANGED <<tokenVars, pagedVars, authVars, chatVars, streamVars, docsVars>>
     \/ /\ pane = "chat" /\ ChatTestNext /\ Others1
        /\ UNCHANGED <<tokenVars, pagedVars, authVars, accountVars, streamVars, docsVars>>
     \/ /\ pane = "stream" /\ StreamNext /\ Others1
        /\ UNCHANGED <<browserVars, tokenVars, pagedVars, authVars, accountVars, chatVars, docsVars>>
     \/ /\ pane = "docs" /\ DocsNext /\ Others1
        /\ UNCHANGED <<tokenVars, pagedVars, authVars, accountVars, chatVars, streamVars>>
     \/ /\ pane = "models" /\ ModelTableNext /\ Others2
        /\ UNCHANGED <<monitorVars, groupVars, routeVars, dialogVars, pageVars>>
     \/ /\ pane = "monitor" /\ MonitorNext /\ Others2
        /\ UNCHANGED <<modelVars, groupVars, routeVars, dialogVars, pageVars>>
     \/ /\ pane = "groups" /\ GroupNext /\ Others2
        /\ UNCHANGED <<modelVars, monitorVars, routeVars, dialogVars, pageVars>>
     \/ /\ pane = "routes" /\ RouteStep /\ Others2
        /\ UNCHANGED <<modelVars, monitorVars, groupVars, dialogVars, pageVars>>
     \/ /\ pane = "dialogs" /\ DialogNext /\ Others2
        /\ UNCHANGED <<modelVars, monitorVars, groupVars, routeVars, pageVars>>
     \/ /\ pane = "page" /\ PageNext /\ Others2
        /\ UNCHANGED <<modelVars, monitorVars, groupVars, routeVars, dialogVars>>
     \* The sign-in pages, the documentation and a stream are not left; of the
     \* other large panes nothing that outlasts a 401 is modelled, so leaving them
     \* would show nothing but another copy of every state.
     \/ /\ pane \in {"list", "account", "groups", "page"}
        /\ \E n \in DOMAIN calls : Denied(n)
        /\ Others1 /\ Others2

\* On the panes whose buttons wait, the browser runs every interval and timer
\* and settles the fetches, those of a chat at the latest when it times out.
ConsoleFairness ==
  /\ WF_<<callOps, authVars>>(pane = "auth" /\ Tick)
  /\ WF_<<callOps, authVars>>(pane = "auth" /\ \E n \in DOMAIN calls : CodeSent(n) \/ CodeNotSent(n))
  /\ WF_<<callOps, chatVars>>(pane = "chat" /\ \E n \in DOMAIN calls : TimeOut(n))
  /\ WF_<<callOps, chatVars>>(pane = "chat" /\ \E n \in DOMAIN calls :
                                 calls[n].op \in Timed /\ Late(n) /\ SendSettles(n))
  /\ WF_<<calls, modelVars>>(pane = "models" /\ ModelFetchSettles)

ConsoleSpec == ConsoleInit /\ [][ConsoleNext]_ConsoleVars /\ ConsoleFairness

\* A button that a handler switches off while it waits comes back: "send code"
\* after its countdown, the chat's "send" after failed reads, fallbacks, HTTP
\* errors, streams that never end and timeouts, "test all" after the tests, the
\* loads queued before its own and its own, some of them failing.  Only a page
\* that is left keeps it off.
ButtonsReturn ==
  button = "off" \/ sendButton = "off" \/ connectButton = "off"
    ~> (\/ session = "out"
        \/ pane = "auth" /\ place \notin {"register", "reset"}
        \/ button = "on" /\ sendButton = "on" /\ connectButton = "on")
=============================================================================
