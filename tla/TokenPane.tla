----------------------------- MODULE TokenPane -----------------------------
(***************************************************************************)
(* The API tokens of the user console: the table, the dialog that creates  *)
(* one, the dialog that shows its key once, the two-step deletion, and the *)
(* keys kept in localStorage (the server only keeps a hash).               *)
(***************************************************************************)
EXTENDS Browser

CONSTANTS
  MaxTokens,  \* bound: tokens the server ever has
  GroupLists  \* lists of groups the server may answer with

ASSUME TokenAssumption == MaxTokens \in Nat \ {0}

Ids == 1 .. MaxTokens
Key(id) == id  \* the plaintext of a token

VARIABLES
  tokens,    \* server: "none" before creation, "on", "off", "gone"
  received,  \* the tokens whose key this page has received
  plains,    \* localStorage plainTokensById: id -> key
  forgotten, \* the tokens whose deletion was answered 401
  table,     \* cachedMeTokens and the table drawn from it
  picked,    \* value of the chat test's token select, 0 for none
  creating,  \* the creation dialog is visible
  options, group,  \* its select: options and chosen value
  fresh,     \* key in the dialog of the new token, 0 when it is hidden
  locked,    \* the page behind a dialog does not scroll
  dialog     \* SweetAlert: <<>>, <<"first", id>>, <<"second", id>> or <<"error">>

tokenVars == <<tokens, received, plains, forgotten, table, picked,
               creating, options, group, fresh, locked, dialog>>

Of(list, states) == {i \in Ids : list[i] \in states}

TokenInit ==
  /\ tokens = [i \in Ids |-> IF i = 1 THEN "on" ELSE "none"]
  /\ table = tokens
  /\ received = {1} /\ plains = [i \in {1} |-> Key(i)] /\ forgotten = {} /\ picked = 1
  /\ creating = FALSE /\ options = {"default"} /\ group = "default"
  /\ fresh = 0 /\ locked = FALSE /\ dialog = <<>>

Uncovered == ~creating /\ fresh = 0 /\ dialog = <<>>

\* form.reset(), then "default" when the select has it.
ResetGroup == group' \in (IF "default" \in options THEN {"default"} ELSE options)

\* The console asks for the groups at each opening; the demo has one group.
OpenCreateTokenModal ==
  /\ Uncovered /\ ResetGroup
  /\ IF site = "console" THEN \E g \in options : g = group' /\ Look(<<Call("groups", g)>>) ELSE Local
  /\ creating' = TRUE /\ locked' = TRUE
  /\ UNCHANGED <<tokens, received, plains, forgotten, table, picked, options, fresh, dialog>>

ChooseGroup ==
  /\ creating /\ dialog = <<>> /\ Local
  /\ group' \in options
  /\ UNCHANGED <<tokens, received, plains, forgotten, table, picked, creating, options, fresh, locked, dialog>>

\* The list, or "default" alone when it is empty or the fetch fails, replaces
\* the options; the value remembered from before the await
\* is chosen again if it is still there, else "default", else the first one.
Choice(list, prev) ==
  IF prev \in list THEN {prev} ELSE IF "default" \in list THEN {"default"} ELSE list

PopulateTokenGroupOptions(n) ==
  /\ Asked(n, "groups")
  /\ options' \in GroupLists \cup {{"default"}}
  /\ group' \in Choice(options', calls[n].arg)
  /\ Resume(n, <<>>)
  /\ UNCHANGED <<tokens, received, plains, forgotten, table, picked, creating, fresh, locked, dialog>>

CloseCreateTokenModal ==
  /\ creating /\ dialog = <<>> /\ Local
  /\ creating' = FALSE /\ locked' = FALSE /\ ResetGroup
  /\ UNCHANGED <<tokens, received, plains, forgotten, table, picked, options, fresh, dialog>>

CloseNewTokenModal ==
  /\ fresh # 0 /\ dialog = <<>> /\ Local
  /\ fresh' = 0 /\ locked' = FALSE
  /\ UNCHANGED <<tokens, received, plains, forgotten, table, picked, creating, options, group, dialog>>

\* The submit button stays enabled while its request is out.
SubmitToken ==
  /\ creating /\ dialog = <<>>
  /\ Gesture(<<Call("create", group)>>)
  /\ UNCHANGED tokenVars

CreateOnServer(n) ==
  /\ Asked(n, "create")
  /\ \E i \in Of(tokens, {"none"}) :
       /\ \A j \in Ids : j < i => tokens[j] # "none"
       /\ tokens' = [tokens EXCEPT ![i] = "on"]
       /\ \E st \in {"ok", "lost"} : Reply(n, st, i)
  /\ UNCHANGED <<received, plains, forgotten, table, picked, creating, options, group, fresh, locked, dialog>>

SaveLocalPlainToken(i) == plains' = [j \in DOMAIN plains \cup {i} |-> IF j = i THEN Key(i) ELSE plains[j]]

RemoveLocalPlainToken(i) == plains' = [j \in DOMAIN plains \ {i} |-> plains[j]]

\* (Mutant: the dialog of the key opens before the other one closes.)
ShowNewTokenFirst(i) ==
  /\ creating' = FALSE /\ ResetGroup
  /\ fresh' = Key(i) /\ locked' = FALSE

\* The creation dialog closes before the dialog of the key opens: the last one
\* to touch the lock is the one that is visible.
ShowNewToken(i) ==
  /\ creating' = FALSE /\ ResetGroup
  /\ fresh' = Key(i) /\ locked' = TRUE

TokenCreated(n) ==
  /\ Answered(n, "create", "ok")
  /\ SaveLocalPlainToken(calls[n].val) /\ ShowNewToken(calls[n].val)
  /\ received' = received \cup {calls[n].val}
  /\ Resume(n, <<Call("tokens", "submit")>>)
  /\ UNCHANGED <<tokens, forgotten, table, picked, options, dialog>>

TokenNotCreated(n) ==
  /\ Asked(n, "create") \/ Answered(n, "create", "lost")
  /\ Resume(n, <<>>)
  /\ UNCHANGED tokenVars

\* The table is drawn again and the chat test keeps its token if it can.
Selectable(list) == IF Of(list, {"on"}) # {} THEN Of(list, {"on"}) ELSE Of(list, {"off"})

RenderChatTestTokenSelect(list) ==
  picked' \in (IF picked \in Selectable(list) THEN {picked}
               ELSE IF Selectable(list) = {} THEN {0} ELSE Selectable(list))

AnswerTokens(n) ==
  /\ Asked(n, "tokens") /\ Reply(n, "ok", tokens)
  /\ UNCHANGED tokenVars

\* loadProfile goes with every loadTokens and draws what AccountPane models;
\* here only its failure shows, as the one alert that Promise.all raises for a
\* row's handler.  An alert replaces a confirmation that is open, which then
\* counts as declined.
Alert(n) == calls[n].arg = "row" /\ dialog' = <<"error">>

LoadTokens(n) ==
  /\ Answered(n, "tokens", "ok") /\ Resume(n, <<>>)
  /\ table' = calls[n].val
  /\ RenderChatTestTokenSelect(calls[n].val)
  /\ UNCHANGED dialog \/ Alert(n)
  /\ UNCHANGED <<tokens, received, plains, forgotten, creating, options, group, fresh, locked>>

LoadFails(n) ==
  /\ Asked(n, "tokens") /\ Resume(n, <<>>)
  /\ Alert(n) \/ (calls[n].arg # "row" /\ UNCHANGED dialog)
  /\ UNCHANGED <<tokens, received, plains, forgotten, table, picked, creating, options, group, fresh, locked>>

\* The buttons of a row.
Toggle(i) ==
  /\ Uncovered /\ table[i] \in {"on", "off"}
  /\ Gesture(<<Call(IF table[i] = "on" THEN "disable" ELSE "enable", i)>>)
  /\ UNCHANGED tokenVars

ClickDelete(i) ==
  /\ Uncovered /\ table[i] \in {"on", "off"} /\ Local
  /\ dialog' = <<"first", i>>
  /\ UNCHANGED <<tokens, received, plains, forgotten, table, picked, creating, options, group, fresh, locked>>

ConfirmTwoStep ==
  /\ \/ Len(dialog) = 2 /\ dialog[1] = "first" /\ Local /\ dialog' = <<"second", dialog[2]>>
     \/ Len(dialog) = 2 /\ dialog[1] = "second" /\ Gesture(<<Call("delete", dialog[2])>>) /\ dialog' = <<>>
     \/ dialog # <<>> /\ Local /\ dialog' = <<>>
  /\ UNCHANGED <<tokens, received, plains, forgotten, table, picked, creating, options, group, fresh, locked>>

After(op) == CASE op = "disable" -> "off" [] op = "enable" -> "on" [] op = "delete" -> "gone"

ChangeOnServer(n) ==
  /\ \E op \in {"disable", "enable", "delete"} :
       /\ Asked(n, op)
       /\ tokens[calls[n].arg] # "gone"
       /\ tokens' = [tokens EXCEPT ![calls[n].arg] = After(op)]
       /\ \E st \in {"ok", "lost"} : Reply(n, st, Nil)
  /\ UNCHANGED <<received, plains, forgotten, table, picked, creating, options, group, fresh, locked, dialog>>

Changed(n) ==
  /\ \/ (\E op \in {"disable", "enable"} : Answered(n, op, "ok")) /\ UNCHANGED plains
     \/ Answered(n, "delete", "ok") /\ RemoveLocalPlainToken(calls[n].arg)
  /\ Resume(n, <<Call("tokens", "row")>>)
  /\ UNCHANGED <<tokens, received, forgotten, table, picked, creating, options, group, fresh, locked, dialog>>

\* (Mutant: a deletion that failed forgets the key all the same.)
NotChangedForgotten(n) ==
  /\ \E op \in {"disable", "enable", "delete"} : Asked(n, op) \/ Answered(n, op, "lost")
  /\ dialog' = <<"error">> /\ Resume(n, <<>>)
  /\ IF calls[n].op = "delete" THEN RemoveLocalPlainToken(calls[n].arg) ELSE UNCHANGED plains
  /\ UNCHANGED <<tokens, received, forgotten, table, picked, creating, options, group, fresh, locked>>

NotChanged(n) ==
  /\ \E op \in {"disable", "enable", "delete"} : Asked(n, op) \/ Answered(n, op, "lost")
  /\ dialog' = <<"error">> /\ Resume(n, <<>>)
  /\ UNCHANGED <<tokens, received, plains, forgotten, table, picked, creating, options, group, fresh, locked>>

\* A fetch of the pane ends the session: the handler of a deletion goes on to
\* forget the key, although the server still has the token.
TokenDenied(n) ==
  /\ Denied(n)
  /\ IF calls[n].op = "delete"
     THEN RemoveLocalPlainToken(calls[n].arg) /\ forgotten' = forgotten \cup {calls[n].arg}
     ELSE UNCHANGED <<plains, forgotten>>
  /\ UNCHANGED <<tokens, received, table, picked, creating, options, group, fresh, locked, dialog>>

-----------------------------------------------------------------------------
\* The handlers, by the function that installs them.

CreateDialog ==
  \/ OpenCreateTokenModal \/ ChooseGroup \/ CloseCreateTokenModal \/ SubmitToken
  \/ \E n \in DOMAIN calls :
       PopulateTokenGroupOptions(n) \/ TokenCreated(n) \/ TokenNotCreated(n)

TokenTable ==
  \/ \E i \in Ids : Toggle(i) \/ ClickDelete(i)
  \/ \E n \in DOMAIN calls : LoadTokens(n) \/ LoadFails(n) \/ Changed(n) \/ NotChanged(n)

TokenServer ==
  \E n \in DOMAIN calls : CreateOnServer(n) \/ ChangeOnServer(n) \/ AnswerTokens(n)

ConsoleCreateDialog == site = "console" /\ CreateDialog
ConsoleNewDialog == site = "console" /\ CloseNewTokenModal
ConsoleTokenTable == site = "console" /\ TokenTable

\* The demo holds the same handlers but for the groups.
DemoCreateDialog == site = "demo" /\ CreateDialog
DemoNewDialog == site = "demo" /\ CloseNewTokenModal
DemoTokenTable == site = "demo" /\ TokenTable

TokenNext ==
  \/ ConsoleCreateDialog \/ ConsoleNewDialog \/ ConsoleTokenTable
  \/ DemoCreateDialog \/ DemoNewDialog \/ DemoTokenTable
  \/ ConfirmTwoStep \/ TokenServer

\* The pane on its own page; any fetch may end the session.
TokenStep ==
  \/ TokenNext
  \/ \E n \in DOMAIN calls : TokenDenied(n)
TokenSpec ==
  BrowserInit({"console", "demo"}) /\ TokenInit /\ [][TokenStep]_<<browserVars, tokenVars>>

-----------------------------------------------------------------------------

\* The server keeps no plaintext, so the browser must: whatever answers come
\* late, fail, or belong to a second submit or a deletion under way, the key of
\* a token that still exists and was once received is in localStorage, unless
\* the session ended with its deletion: the code then forgets the key.
PlainKept ==
  \A i \in received \ forgotten : tokens[i] \in {"on", "off"} => i \in DOMAIN plains /\ plains[i] = Key(i)

\* The page is locked exactly while a dialog of its own covers it: an answer
\* that closes one dialog and opens the other, after the user has already
\* closed or reopened one, leaves neither a frozen page nor a scrolling one.
LockedUnderModal == session = "in" => (locked <=> (creating \/ fresh # 0))

\* The chosen group is an option of the select, however a late list of groups,
\* a reset and the user's choice follow each other (app.js: never write a value
\* the select does not have).
GroupIsOption == session = "in" => group \in options
=============================================================================
