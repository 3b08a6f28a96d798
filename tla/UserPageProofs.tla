--------------------------- MODULE UserPageProofs ---------------------------
(***************************************************************************)
(* What holds of the user's pages for any number of tokens, gestures and   *)
(* open fetches, any groups, pages, cooldowns, amounts, models and API      *)
(* modes, one pane after the other.                                        *)
(***************************************************************************)
EXTENDS TokenPane, AuthPages, PagedList, DocsPage, AccountPane, ChatTest, StreamReader,
        BrowserLemmas, TallyLemmas

-----------------------------------------------------------------------------
\* The tokens.

TokenStates == {"none", "on", "off", "gone"}
GroupNames == {"default"} \cup UNION GroupLists
TokenOps == {"groups", "create", "tokens", "disable", "enable", "delete"}

\* What the page may be waiting for.  A creation answered names a token that
\* exists since, a deletion answered one that is gone.
TokenCall(tok) ==
  {c \in [op : TokenOps, arg : Ids \cup GroupNames \cup {"submit", "row"},
          st : {"sent", "ok", "lost"}, val : {Nil} \cup Ids \cup [Ids -> TokenStates]] :
     /\ c.op = "create" /\ c.st = "ok" => c.val \in Ids /\ tok[c.val] # "none"
     /\ c.op \in {"disable", "enable", "delete"} => c.arg \in Ids
     /\ c.op = "delete" /\ c.st = "ok" => tok[c.arg] = "gone"}

TokenType ==
  /\ tokens \in [Ids -> TokenStates]
  /\ calls \in Seq(TokenCall(tokens))
  /\ \/ dialog = <<>> \/ dialog = <<"error">>
     \/ \E i \in Ids : dialog = <<"first", i>> \/ dialog = <<"second", i>>
  /\ options \subseteq GroupNames /\ group \in options

\* The page is locked while a dialog of its own covers it.
Locked == locked <=> (creating \/ fresh # 0)

\* The two dialogs of the page exclude each other; a key received is that of a
\* token created.
TokenInv ==
  /\ TokenType
  /\ ~(creating /\ fresh # 0) /\ Locked
  /\ \A i \in received : i \in Ids /\ tokens[i] # "none"
  /\ PlainKept

\* A token created stays created, a token gone stays gone, and so every fetch
\* stays what it is.
TokensProgress ==
  \A i \in Ids : /\ tokens[i] # "none" => tokens'[i] # "none"
                 /\ tokens[i] = "gone" => tokens'[i] = "gone"

\* A fetch under way stays well formed while the server's tokens only grow
\* or change state.
LEMMA CallsFollowTokens ==
  ASSUME TokenType, TokensProgress
  PROVE  calls \in Seq(TokenCall(tokens'))
<1>1. TokenCall(tokens) \subseteq TokenCall(tokens')
  BY DEF TokenType, TokensProgress, TokenCall
<1>2. QED
  BY <1>1, SeqMonotone DEF TokenType

\* The page starts in order.
LEMMA TokenInvInit ==
  BrowserInit({"console", "demo"}) /\ TokenInit => TokenInv
<1>1. 1 \in Ids
  BY TokenAssumption DEF Ids
<1> SUFFICES ASSUME BrowserInit({"console", "demo"}), TokenInit PROVE TokenInv
  OBVIOUS
<1>3. TokenType
  <2>1. tokens \in [Ids -> TokenStates]
    BY DEF TokenInit, TokenStates
  <2>2. calls \in Seq(TokenCall(tokens))
    BY DEF BrowserInit
  <2>3. QED
    BY <2>1, <2>2 DEF TokenInit, TokenType, GroupNames
<1>4. PlainKept
  BY <1>1 DEF TokenInit, PlainKept, Key
<1>5. Locked /\ ~(creating /\ fresh # 0)
  BY DEF TokenInit, Locked
<1>6. \A i \in received : i \in Ids /\ tokens[i] # "none"
  BY <1>1 DEF TokenInit
<1>7. QED
  BY <1>3, <1>4, <1>5, <1>6 DEF TokenInv


\* The dialog that creates a token.
LEMMA CreateDialogKeeps ==
  ASSUME TokenInv, CreateDialog
  PROVE  TokenInv'
<1> DEFINE S == TokenCall(tokens)
<1> USE DEF TokenInv, TokenType, Locked, PlainKept
<1>1. CASE OpenCreateTokenModal
  <2>1. calls' \in Seq(S)
    <3>1. CASE site = "console"
      <4>1. PICK g \in options : Look(<<Call("groups", g)>>)
        BY <1>1, <3>1 DEF OpenCreateTokenModal
      <4>2. <<Call("groups", g)>> \in Seq(S)
        BY DEF TokenCall, TokenOps, Call
      <4>3. QED
        BY <4>1, <4>2, LookKeeps
    <3>2. CASE site # "console"
      BY <1>1, <3>2 DEF OpenCreateTokenModal, Local, browserVars
    <3>3. QED
      BY <3>1, <3>2
  <2>2. QED
    BY <1>1, <2>1 DEF OpenCreateTokenModal, ResetGroup, Uncovered
<1>2. CASE ChooseGroup
  BY <1>2 DEF ChooseGroup, Local, browserVars
<1>3. CASE CloseCreateTokenModal
  BY <1>3 DEF CloseCreateTokenModal, Local, browserVars, ResetGroup
<1>4. CASE SubmitToken
  <2>1. <<Call("create", group)>> \in Seq(S)
    BY DEF TokenCall, TokenOps, Call
  <2>2. calls' \in Seq(S)
    BY <1>4, <2>1, GestureKeeps DEF SubmitToken
  <2>3. QED
    BY <1>4, <2>2 DEF SubmitToken, tokenVars
<1>5. CASE \E n \in DOMAIN calls : PopulateTokenGroupOptions(n)
  <2>1. PICK n \in DOMAIN calls : PopulateTokenGroupOptions(n)
    BY <1>5
  <2>2. calls' \in Seq(S)
    BY <2>1, ResumeEnds DEF PopulateTokenGroupOptions
  <2>3. options' \subseteq GroupNames /\ group' \in options'
    BY <2>1 DEF PopulateTokenGroupOptions, Choice, GroupNames
  <2>4. QED
    BY <2>1, <2>2, <2>3 DEF PopulateTokenGroupOptions
<1>6. CASE \E n \in DOMAIN calls : TokenCreated(n)
  <2>1. PICK n \in DOMAIN calls : TokenCreated(n)
    BY <1>6
  <2>2. calls[n] \in S /\ calls[n].op = "create" /\ calls[n].st = "ok"
    BY <2>1 DEF TokenCreated, Answered
  <2>3. calls[n].val \in Ids /\ tokens[calls[n].val] # "none"
    BY <2>2 DEF TokenCall
  <2>4. calls[n].val # 0
    BY <2>3 DEF Ids
  <2>5. <<Call("tokens", "submit")>> \in Seq(S)
    BY DEF TokenCall, TokenOps, Call
  <2>6. calls' \in Seq(S)
    BY <2>1, <2>5, ResumeKeeps DEF TokenCreated
  <2>7. PlainKept'
    BY <2>1, <2>3 DEF TokenCreated, SaveLocalPlainToken, Key
  <2>8. QED
    BY <2>1, <2>3, <2>4, <2>6, <2>7 DEF TokenCreated, ShowNewToken, ResetGroup, Key
<1>7. CASE \E n \in DOMAIN calls : TokenNotCreated(n)
  <2>1. PICK n \in DOMAIN calls : TokenNotCreated(n)
    BY <1>7
  <2>2. calls' \in Seq(S)
    BY <2>1, ResumeEnds DEF TokenNotCreated
  <2>3. QED
    BY <2>1, <2>2 DEF TokenNotCreated, tokenVars
<1>8. QED
  BY <1>1, <1>2, <1>3, <1>4, <1>5, <1>6, <1>7 DEF CreateDialog

\* The table and the buttons of its rows.
LEMMA TokenTableKeeps ==
  ASSUME TokenInv, TokenTable
  PROVE  TokenInv'
<1> DEFINE S == TokenCall(tokens)
<1> USE DEF TokenInv, TokenType, Locked, PlainKept
<1>1. CASE \E i \in Ids : Toggle(i)
  <2>1. PICK i \in Ids : Toggle(i)
    BY <1>1
  <2>2. <<Call(IF table[i] = "on" THEN "disable" ELSE "enable", i)>> \in Seq(S)
    BY DEF TokenCall, TokenOps, Call
  <2>3. calls' \in Seq(S)
    BY <2>1, <2>2, GestureKeeps DEF Toggle
  <2>4. QED
    BY <2>1, <2>3 DEF Toggle, tokenVars
<1>2. CASE \E i \in Ids : ClickDelete(i)
  BY <1>2 DEF ClickDelete, Local, browserVars
<1>3. CASE \E n \in DOMAIN calls : LoadTokens(n)
  <2>1. PICK n \in DOMAIN calls : LoadTokens(n)
    BY <1>3
  <2>2. calls' \in Seq(S)
    BY <2>1, ResumeEnds DEF LoadTokens
  <2>3. QED
    BY <2>1, <2>2 DEF LoadTokens, Alert
<1>4. CASE \E n \in DOMAIN calls : LoadFails(n)
  <2>1. PICK n \in DOMAIN calls : LoadFails(n)
    BY <1>4
  <2>2. calls' \in Seq(S)
    BY <2>1, ResumeEnds DEF LoadFails
  <2>3. QED
    BY <2>1, <2>2 DEF LoadFails, Alert
<1>5. CASE \E n \in DOMAIN calls : Changed(n)
  <2>1. PICK n \in DOMAIN calls : Changed(n)
    BY <1>5
  <2>2. <<Call("tokens", "row")>> \in Seq(S)
    BY DEF TokenCall, TokenOps, Call
  <2>3. calls' \in Seq(S)
    BY <2>1, <2>2, ResumeKeeps DEF Changed
  <2>4. PlainKept'
    <3>1. CASE Answered(n, "delete", "ok") /\ RemoveLocalPlainToken(calls[n].arg)
      <4>1. calls[n] \in S /\ calls[n].op = "delete" /\ calls[n].st = "ok"
        BY <3>1 DEF Answered
      <4>2. tokens[calls[n].arg] = "gone"
        BY <4>1 DEF TokenCall
      <4>3. QED
        BY <2>1, <3>1, <4>2 DEF Changed, RemoveLocalPlainToken
    <3>2. CASE UNCHANGED plains
      BY <2>1, <3>2 DEF Changed
    <3>3. QED
      BY <2>1, <3>1, <3>2 DEF Changed
  <2>5. QED
    BY <2>1, <2>3, <2>4 DEF Changed
<1>6. CASE \E n \in DOMAIN calls : NotChanged(n)
  <2>1. PICK n \in DOMAIN calls : NotChanged(n)
    BY <1>6
  <2>2. calls' \in Seq(S)
    BY <2>1, ResumeEnds DEF NotChanged
  <2>3. QED
    BY <2>1, <2>2 DEF NotChanged
<1>7. QED
  BY <1>1, <1>2, <1>3, <1>4, <1>5, <1>6 DEF TokenTable

\* The deletion's two questions.
LEMMA ConfirmKeeps ==
  ASSUME TokenInv, ConfirmTwoStep
  PROVE  TokenInv'
<1> DEFINE S == TokenCall(tokens)
<1> USE DEF TokenInv, TokenType, Locked, PlainKept
<1>1. calls' \in Seq(S)
  <2>1. CASE Len(dialog) = 2 /\ dialog[1] = "second" /\ Gesture(<<Call("delete", dialog[2])>>)
    <3>1. dialog[2] \in Ids
      BY <2>1
    <3>2. <<Call("delete", dialog[2])>> \in Seq(S)
      BY <3>1 DEF TokenCall, TokenOps, Call
    <3>3. QED
      BY <2>1, <3>2, GestureKeeps
  <2>2. CASE Local
    BY <2>2 DEF Local, browserVars
  <2>3. QED
    BY <2>1, <2>2 DEF ConfirmTwoStep
<1>2. dialog' = <<>> \/ \E i \in Ids : dialog' = <<"second", i>>
  <2>1. CASE Len(dialog) = 2 /\ dialog[1] = "first" /\ dialog' = <<"second", dialog[2]>>
    BY <2>1
  <2>2. QED
    BY <2>1 DEF ConfirmTwoStep
<1>3. QED
  BY <1>1, <1>2 DEF ConfirmTwoStep

\* The server: a token is created or changes, and the answer says so or is lost.
LEMMA TokenServerKeeps ==
  ASSUME TokenInv, TokenServer
  PROVE  TokenInv'
<1> DEFINE S == TokenCall(tokens')
<1> USE DEF TokenInv, TokenType, Locked, PlainKept
<1>1. CASE \E n \in DOMAIN calls : CreateOnServer(n)
  <2>1. PICK n \in DOMAIN calls : CreateOnServer(n)
    BY <1>1
  <2>2. PICK i \in Of(tokens, {"none"}) : /\ tokens' = [tokens EXCEPT ![i] = "on"]
                                          /\ \E st \in {"ok", "lost"} : Reply(n, st, i)
    BY <2>1 DEF CreateOnServer
  <2>3. i \in Ids /\ tokens[i] = "none"
    BY <2>2 DEF Of
  <2>4. TokensProgress /\ tokens' \in [Ids -> TokenStates]
    BY <2>2, <2>3 DEF TokensProgress, TokenStates
  <2>5. calls \in Seq(S)
    BY <2>4, CallsFollowTokens
  <2>6. PICK st \in {"ok", "lost"} : Reply(n, st, i)
    BY <2>2
  <2>7. calls[n] \in S /\ calls[n].op = "create" /\ tokens'[i] = "on"
    BY <2>1, <2>2, <2>3, <2>5 DEF CreateOnServer, Asked
  <2>8. [calls[n] EXCEPT !.st = st, !.val = i] \in S
    BY <2>3, <2>7 DEF TokenCall
  <2>9. calls' \in Seq(S)
    BY <2>5, <2>6, <2>8, ReplyKeeps
  <2>10. \A j \in received : j # i
    BY <2>3
  <2>11. QED
    BY <2>1, <2>2, <2>3, <2>4, <2>9, <2>10 DEF CreateOnServer
<1>2. CASE \E n \in DOMAIN calls : ChangeOnServer(n)
  <2>1. PICK n \in DOMAIN calls : ChangeOnServer(n)
    BY <1>2
  <2>2. PICK op \in {"disable", "enable", "delete"} :
          /\ Asked(n, op) /\ tokens[calls[n].arg] # "gone"
          /\ tokens' = [tokens EXCEPT ![calls[n].arg] = After(op)]
          /\ \E st \in {"ok", "lost"} : Reply(n, st, Nil)
    BY <2>1 DEF ChangeOnServer
  <2>3. calls[n].arg \in Ids
    BY <2>2 DEF Asked, TokenCall
  <2>4. TokensProgress /\ tokens' \in [Ids -> TokenStates]
    BY <2>2, <2>3 DEF TokensProgress, TokenStates, After
  <2>5. calls \in Seq(S)
    BY <2>4, CallsFollowTokens
  <2>6. PICK st \in {"ok", "lost"} : Reply(n, st, Nil)
    BY <2>2
  <2>7. calls[n] \in S /\ calls[n].op = op /\ (op = "delete" => tokens'[calls[n].arg] = "gone")
    <3>1. calls[n] \in S
      BY <2>1, <2>5
    <3>2. calls[n].op = op
      BY <2>2 DEF Asked
    <3>3. ASSUME op = "delete" PROVE tokens'[calls[n].arg] = "gone"
      BY <2>2, <2>3, <3>3 DEF After
    <3>4. QED
      BY <3>1, <3>2, <3>3
  <2>8. [calls[n] EXCEPT !.st = st, !.val = Nil] \in S
    BY <2>3, <2>7 DEF TokenCall
  <2>9. calls' \in Seq(S)
    BY <2>5, <2>6, <2>8, ReplyKeeps
  <2>10. \A i \in received : i \in Ids /\ tokens'[i] # "none" /\ (tokens'[i] # "gone" => tokens[i] # "gone")
    BY <2>4 DEF TokensProgress
  <2>11. PlainKept'
    BY <2>1, <2>4, <2>10 DEF ChangeOnServer, TokenStates
  <2>12. QED
    BY <2>1, <2>4, <2>9, <2>10, <2>11 DEF ChangeOnServer
<1>3. CASE \E n \in DOMAIN calls : AnswerTokens(n)
  <2>1. PICK n \in DOMAIN calls : AnswerTokens(n)
    BY <1>3
  <2>2. calls[n] \in S /\ calls[n].op = "tokens" /\ tokens' = tokens
    BY <2>1 DEF AnswerTokens, Asked, tokenVars
  <2>3. [calls[n] EXCEPT !.st = "ok", !.val = tokens] \in S
    BY <2>2 DEF TokenCall
  <2>4. calls' \in Seq(S)
    BY <2>1, <2>2, <2>3, ReplyKeeps DEF AnswerTokens
  <2>5. QED
    BY <2>1, <2>4 DEF AnswerTokens, tokenVars
<1>4. QED
  BY <1>1, <1>2, <1>3 DEF TokenServer

\* Every step of the pane.
LEMMA TokenInvStep ==
  ASSUME TokenInv, [TokenStep]_<<browserVars, tokenVars>>
  PROVE  TokenInv'
<1>1. CASE UNCHANGED <<calls, tokenVars>>
  BY <1>1 DEF tokenVars, TokenInv, TokenType, Locked, PlainKept
<1>2. CASE CloseNewTokenModal
  BY <1>2 DEF CloseNewTokenModal, Local, browserVars, TokenInv, TokenType, Locked, PlainKept
<1>3. CASE TokenNext
  BY <1>2, <1>3, CreateDialogKeeps, TokenTableKeeps, ConfirmKeeps, TokenServerKeeps
     DEF TokenNext, ConsoleCreateDialog, ConsoleNewDialog, ConsoleTokenTable,
         DemoCreateDialog, DemoNewDialog, DemoTokenTable
<1>4. CASE \E n \in DOMAIN calls : TokenDenied(n)
  BY <1>4 DEF TokenDenied, Denied, RemoveLocalPlainToken, TokenInv, TokenType, Locked, PlainKept, Key
<1>5. QED
  BY <1>1, <1>3, <1>4 DEF TokenStep, browserVars

\* TokenInv is the invariant from which the next three theorems follow.
LEMMA TokenInvHolds == TokenSpec => []TokenInv
BY TokenInvInit, TokenInvStep, PTL DEF TokenSpec

\* The key of every token received and not deleted is in localStorage, for
\* any number of tokens and however answers are delayed, lost or crossed, but
\* for the tokens whose deletion was answered 401.
THEOREM KeysKept == TokenSpec => []PlainKept
<1>1. TokenInv => PlainKept
  BY DEF TokenInv
<1>2. QED
  BY <1>1, TokenInvHolds, PTL

\* The page scrolls exactly when no dialog of its own covers it.
THEOREM ScrollLock == TokenSpec => []LockedUnderModal
<1>1. TokenInv => LockedUnderModal
  BY DEF TokenInv, Locked, LockedUnderModal
<1>2. QED
  BY <1>1, TokenInvHolds, PTL

\* The group sent with a creation was offered by the select.
THEOREM GroupOffered == TokenSpec => []GroupIsOption
<1>1. TokenInv => GroupIsOption
  BY DEF TokenInv, TokenType, GroupIsOption
<1>2. QED
  BY <1>1, TokenInvHolds, PTL

-----------------------------------------------------------------------------
\* The login pages.

\* Nothing but a login stores a token, and it stores both.
LEMMA TokensPairedStep ==
  ASSUME TokensPaired, [AuthNext]_<<browserVars, authVars>>
  PROVE  TokensPaired'
<1> USE DEF TokensPaired, Gesture, Resume
<1>1. site' = site
  BY DEF AuthNext, LoginPage, AdminLoginPage, RegisterPage, ResetPage,
         DemoLoginPage, DemoRegisterPage, DemoResetPage,
         LoginHandlers, CodeHandlers, RegisterHandlers, ResetHandlers, browserVars,
         Submit, Refused, LoggedIn, AdminLoggedIn, ProfileFetched, Registered, PasswordReset,
         GoToLogin, SendCode, CodeSent, CodeNotSent, Tick
<1>2. refresh' = access' \/ access' = Nil \/ UNCHANGED <<access, refresh>> \/ site # "console"
  BY DEF AuthNext, LoginPage, AdminLoginPage, RegisterPage, ResetPage,
         DemoLoginPage, DemoRegisterPage, DemoResetPage,
         LoginHandlers, CodeHandlers, RegisterHandlers, ResetHandlers, authVars,
         Submit, Refused, LoggedIn, AdminLoggedIn, ProfileFetched, Registered, PasswordReset,
         GoToLogin, SendCode, CodeSent, CodeNotSent, Tick, SaveTokensFromData, ClearAuthStorage
<1>3. QED
  BY <1>1, <1>2

\* Beside an access token the console stores the refresh token of the same
\* login, whatever an earlier session left and in whatever order submits,
\* profiles and refusals are answered.
THEOREM TokensOfOneLogin == AuthSpec => []TokensPaired
<1>1. AuthInit => TokensPaired
  BY DEF AuthInit, LeftBehind, TokensPaired
<1>2. QED
  BY <1>1, TokensPairedStep, PTL DEF AuthSpec

\* The cooldown that the page applies is one that it can count down.
LEMMA CooldownPositive ==
  ASSUME NEW ttl \in Ttls
  PROVE  CooldownSecondsFromData(ttl) \in 1 .. MaxTtl
BY TtlAssumption DEF CooldownSecondsFromData

\* A countdown that runs holds a number and keeps its button off.
CountdownInv == NoStrayCountdown /\ left \in Nat

\* A countdown runs only while its button is off, through every step of the
\* pages.
LEMMA CountdownStep ==
  ASSUME CountdownInv, [AuthNext]_<<browserVars, authVars>>
  PROVE  CountdownInv'
<1> USE DEF CountdownInv, NoStrayCountdown
<1>1. CASE UNCHANGED <<button, ticking, left>>
  BY <1>1
<1>2. CASE SendCode
  BY <1>2 DEF SendCode
<1>3. CASE \E n \in DOMAIN calls : CodeSent(n)
  <2>1. PICK ttl \in Ttls : StartSendCodeCooldown(CooldownSecondsFromData(ttl))
    BY <1>3 DEF CodeSent
  <2>2. CooldownSecondsFromData(ttl) \in 1 .. MaxTtl
    BY CooldownPositive
  <2>3. QED
    BY <2>1, <2>2, TtlAssumption DEF StartSendCodeCooldown
<1>4. CASE RestoreSendCodeButton
  BY <1>4 DEF RestoreSendCodeButton
<1>5. CASE Tick
  <2>1. CASE left = 0
    BY <1>4, <1>5, <2>1 DEF Tick
  <2>2. CASE left # 0
    <3>1. left' \in Nat
      BY <1>5, <2>2 DEF Tick
    <3>2. UNCHANGED <<ticking, button>>
      BY <1>5, <2>2 DEF Tick
    <3>3. QED
      BY <3>1, <3>2
  <2>3. QED
    BY <2>1, <2>2
<1>6. \/ UNCHANGED <<button, ticking, left>> \/ SendCode \/ RestoreSendCodeButton \/ Tick
      \/ \E n \in DOMAIN calls : CodeSent(n)
  BY DEF AuthNext, LoginPage, AdminLoginPage, RegisterPage, ResetPage,
         DemoLoginPage, DemoRegisterPage, DemoResetPage,
         LoginHandlers, CodeHandlers, RegisterHandlers, ResetHandlers, authVars,
         Submit, Refused, LoggedIn, AdminLoggedIn, ProfileFetched, Registered, PasswordReset,
         GoToLogin, CodeNotSent
<1>7. QED
  BY <1>1, <1>2, <1>3, <1>4, <1>5, <1>6

\* A countdown never runs under a button that is on, for any cooldown the
\* server may name.
THEOREM CountdownsMarked == AuthSpec => []NoStrayCountdown
<1>1. AuthInit => CountdownInv
  BY DEF AuthInit, CountdownInv, NoStrayCountdown
<1>2. CountdownInv => NoStrayCountdown
  BY DEF CountdownInv
<1>3. QED
  BY <1>1, <1>2, CountdownStep, PTL DEF AuthSpec

-----------------------------------------------------------------------------
\* The paged lists.

\* A load is one of those sent; the one sent last is of the page the script is on.
LoadOf(load, sent, at) ==
  load.load \in 0 .. sent /\ (load.load = sent => load.page = at)

PagedCall(c, sent, at, which) ==
  /\ c.op = "list" => LoadOf(c.arg, sent, at)
  /\ c.op = "batch" => which = "redeem"

\* "previous" is off on the first page only.
PreviousTells == pager.prevOff <=> page = 1

\* The load sent last, if it was drawn last, names the page; of the usage list,
\* whose failures are drawn as well, so does whatever is drawn when nothing is
\* under way.
PagedInv ==
  /\ Queue(calls) /\ \A k \in DOMAIN calls : PagedCall(calls[k], newest, page, list)
  /\ page \in Nat \ {0} /\ newest \in Nat
  /\ LoadOf(drawn, newest, page)
  /\ drawn.load = newest => pager.page = page /\ PreviousTells
  /\ list = "usage" /\ calls = <<>> => pager.page = page

\* A list starts at its first page.
LEMMA PagedInvInit == BrowserInit({"console", "admin"}) /\ PagedInit(Lists) => PagedInv
<1> SUFFICES ASSUME BrowserInit({"console", "admin"}), PagedInit(Lists) PROVE PagedInv
  OBVIOUS
<1>1. Queue(calls) /\ DOMAIN calls = {}
  BY QueueNone DEF BrowserInit
<1> QED
  BY <1>1 DEF PagedInit, PagedInv, LoadOf, PreviousTells

\* A page turned to: a load with a number of its own is sent for it.
LEMMA TurnKeeps ==
  ASSUME PagedInv, NEW p \in Nat \ {0}, page' = p, newest' = newest + 1, UNCHANGED <<list, drawn, pager>>,
         Queue(calls'), calls' # <<>>,
         \A k \in DOMAIN calls' : (\E m \in DOMAIN calls : calls'[k] = calls[m]) \/ calls'[k] = Load(p)
  PROVE  PagedInv'
<1>1. newest \in Nat
  BY DEF PagedInv
<1>2. \A k \in DOMAIN calls' : PagedCall(calls'[k], newest', page', list')
  <2> TAKE k \in DOMAIN calls'
  <2>1. CASE \E m \in DOMAIN calls : calls'[k] = calls[m]
    <3>1. PICK m \in DOMAIN calls : calls'[k] = calls[m]
      BY <2>1
    <3>2. PagedCall(calls[m], newest, page, list)
      BY DEF PagedInv
    <3> QED
      BY <1>1, <3>1, <3>2 DEF PagedCall, LoadOf
  <2>2. CASE calls'[k] = Load(p)
    BY <1>1, <2>2 DEF PagedCall, LoadOf, Load, Call
  <2> QED
    BY <2>1, <2>2
<1>3. drawn'.load # newest' /\ LoadOf(drawn', newest', page')
  BY <1>1 DEF PagedInv, LoadOf
<1> QED
  BY <1>1, <1>2, <1>3 DEF PagedInv

\* The gestures.
LEMMA PagersKeep ==
  ASSUME PagedInv, AppPager \/ AdminPager \/ Restart
  PROVE  PagedInv'
<1>1. page \in Nat \ {0} /\ Queue(calls)
  BY DEF PagedInv
<1>2. \E p \in Nat \ {0} : Turn(p)
  BY <1>1 DEF AppPager, AdminPager, Restart
<1>3. PICK p \in Nat \ {0} : Turn(p)
  BY <1>2
<1>4. /\ page' = p /\ newest' = newest + 1 /\ UNCHANGED <<list, drawn, pager>>
      /\ Gesture(<<Load(p)>>)
  BY <1>3 DEF Turn
<1> QED
  BY <1>1, <1>4, SendingOne, TurnKeeps

\* An answer drawn, under the page the script is on.
LEMMA DrawnKeeps ==
  ASSUME PagedInv, NEW n \in DOMAIN calls, NEW rows, Drawn(n, rows)
  PROVE  PagedInv'
<1>1. /\ calls[n].op = "list" /\ drawn' = calls[n].arg /\ Resume(n, <<>>)
      /\ pager' = RenderPager(calls[n].arg.page, rows)
      /\ UNCHANGED <<list, page, newest>>
  BY DEF Drawn, Asked
<1>2. LoadOf(calls[n].arg, newest, page) /\ page \in Nat \ {0} /\ Queue(calls)
  BY <1>1 DEF PagedInv, PagedCall
<1>3. Queue(calls') /\ \A k \in DOMAIN calls' : PagedCall(calls'[k], newest', page', list')
  BY <1>1, <1>2, ResumingNone DEF PagedInv, PagedCall
<1>4. /\ pager'.page = IF list = "redeem" THEN calls[n].arg.page ELSE page
  BY <1>1 DEF RenderPager
<1>7. PreviousTells'
  <2>1. pager'.prevOff = (page <= 1) /\ page' = page
    BY <1>1 DEF RenderPager
  <2>2. page <= 1 <=> page = 1
    BY <1>2
  <2> QED
    BY <2>1, <2>2, Zenon DEF PreviousTells
<1>5. calls[n].arg.load = newest => pager'.page = page
  BY <1>2, <1>4 DEF LoadOf
<1>6. list = "usage" => pager'.page = page
  BY <1>4
<1> QED
  BY <1>1, <1>2, <1>3, <1>5, <1>6, <1>7 DEF PagedInv

\* An answer that changes nothing.
LEMMA UnheardKeeps ==
  ASSUME PagedInv, NEW n \in DOMAIN calls, Unheard(n), list # "usage"
  PROVE  PagedInv'
<1>1. Resume(n, <<>>) /\ UNCHANGED pagedVars /\ Queue(calls)
  BY DEF Unheard, PagedInv
<1>2. PreviousTells' <=> PreviousTells
  BY <1>1, Zenon DEF PreviousTells, pagedVars
<1>3. Queue(calls') /\ \A k \in DOMAIN calls' : PagedCall(calls'[k], newest', page', list')
  BY <1>1, ResumingNone DEF PagedInv, PagedCall, pagedVars
<1> QED
  BY <1>1, <1>2, <1>3 DEF PagedInv, pagedVars

\* The batches of codes.
LEMMA BatchKeeps ==
  ASSUME PagedInv, BatchRedeem \/ \E n \in DOMAIN calls : BatchCreated(n)
  PROVE  PagedInv'
<1>0. Queue(calls) /\ page \in Nat \ {0} /\ newest \in Nat
  BY DEF PagedInv
<1>1. CASE BatchRedeem
  <2>1. list = "redeem" /\ Gesture(<<Call("batch", Nil)>>) /\ UNCHANGED pagedVars
    BY <1>1 DEF BatchRedeem
  <2>2. PagedCall(Call("batch", Nil), newest, page, list)
    BY <2>1 DEF PagedCall, Call
  <2>3. Queue(calls') /\ \A k \in DOMAIN calls' : PagedCall(calls'[k], newest, page, list)
    BY <1>0, <2>1, <2>2, SendingOne DEF PagedInv
  <2>4. \A k \in DOMAIN calls' : PagedCall(calls'[k], newest', page', list')
    BY <2>1, <2>3 DEF PagedCall, pagedVars
  <2>5. PreviousTells' <=> PreviousTells
    BY <2>1, Zenon DEF PreviousTells, pagedVars
  <2> QED
    BY <2>1, <2>3, <2>4, <2>5 DEF PagedInv, pagedVars
<1>2. ASSUME NEW n \in DOMAIN calls, BatchCreated(n)
      PROVE  PagedInv'
  <2>1. calls[n].op = "batch" /\ list = "redeem"
    BY <1>2 DEF BatchCreated, Asked, PagedInv, PagedCall
  <2>2. CASE /\ page' = 1 /\ newest' = newest + 1
             /\ Resume(n, <<Load(1)>>) /\ UNCHANGED <<list, size, total, drawn, pager>>
    <3>1. /\ Queue(calls') /\ calls' # <<>>
          /\ \A k \in DOMAIN calls' : (\E m \in DOMAIN calls : calls'[k] = calls[m]) \/ calls'[k] = Load(1)
      BY <1>0, <2>2, ResumingOne
    <3> QED
      BY <2>2, <3>1, TurnKeeps
  <2>3. CASE Resume(n, <<>>) /\ UNCHANGED pagedVars
    <3>1. Queue(calls') /\ \A k \in DOMAIN calls' : PagedCall(calls'[k], newest', page', list')
      BY <1>0, <2>3, ResumingNone DEF PagedInv, PagedCall, pagedVars
    <3>2. PreviousTells' <=> PreviousTells
      BY <2>3, Zenon DEF PreviousTells, pagedVars
    <3> QED
      BY <2>1, <2>3, <3>1, <3>2 DEF PagedInv, pagedVars
  <2> QED
    BY <1>2, <2>2, <2>3 DEF BatchCreated
<1> QED
  BY <1>1, <1>2

\* So the invariant holds through every step of a list.
LEMMA PagedInvStep == PagedInv /\ [PagedStep]_<<browserVars, pagedVars>> => PagedInv'
<1> SUFFICES ASSUME PagedInv, [PagedStep]_<<browserVars, pagedVars>> PROVE PagedInv'
  OBVIOUS
<1>1. CASE UNCHANGED <<calls, pagedVars>>
  BY <1>1 DEF pagedVars, PagedInv, PagedCall, PreviousTells
<1>2. ASSUME NEW n \in DOMAIN calls,
             \/ LoadUsage(n) \/ LoadBalanceLogs(n) \/ LoadUsers(n) \/ LoadRedeemList(n)
             \/ LoadUsageLogs(n) \/ LoadAdminBalanceLogs(n)
      PROVE  PagedInv'
  <2>1. (\E rows : Drawn(n, rows)) \/ (Unheard(n) /\ list # "usage")
    BY <1>2 DEF LoadUsage, LoadBalanceLogs, LoadUsers, LoadRedeemList, LoadUsageLogs,
                LoadAdminBalanceLogs, Answers
  <2> QED
    BY <2>1, DrawnKeeps, UnheardKeeps
<1>3. CASE PagedNext
  BY <1>2, <1>3, PagersKeep, BatchKeeps DEF PagedNext
<1> QED
  BY <1>1, <1>3 DEF PagedStep, Denied, browserVars, pagedVars

\* When every answer is in, pager and rows are of the page the script is on if
\* the load sent last was drawn last, and those of the usage list whatever was:
\* for any lists, row counts, page sizes and loads under way (renderPager and
\* the load functions, app.js and admin.js).
THEOREM PagerNamesPage == PagedSpec => []PagerTells
<1>1. PagedInv => PagerTells
  BY DEF PagedInv, PagerTells, LoadOf, Quiet, PreviousTells
<1> QED
  BY <1>1, PagedInvInit, PagedInvStep, PTL DEF PagedSpec

-----------------------------------------------------------------------------
\* The copy buttons.

\* What a button says that says what it is.
OwnLabels == {CopyLabel(buttonKind, l) : l \in {"zh", "en"}}

\* The labels to restore are a queue, and without one the button says what it is.
LabelInv ==
  /\ lang \in {"zh", "en"} /\ Queue(labelTimers)
  /\ labelTimers = <<>> /\ buttonKind # "docs" => label \in OwnLabels

\* No step leaves a button that says "copied" with no one to restore it.
LEMMA LabelStep == LabelInv /\ [DocsNext]_<<browserVars, docsVars>> => LabelInv'
<1> SUFFICES ASSUME LabelInv, [DocsNext]_<<browserVars, docsVars>> PROVE LabelInv'
  OBVIOUS
<1> USE DEF LabelInv, OwnLabels
<1>1. CASE UNCHANGED <<lang, buttonKind, label, labelTimers>>
  BY <1>1
<1>2. CASE SetLang
  BY <1>2 DEF SetLang
<1>3. CASE CopyToClipboard
  BY <1>3, QueueAppend DEF CopyToClipboard
<1>4. CASE LabelBack
  <2>1. Queue(Tail(labelTimers))
    <3>1. labelTimers # <<>>
      BY <1>4 DEF LabelBack
    <3>2. Tail(labelTimers) \in Seq({labelTimers[k] : k \in DOMAIN labelTimers})
      BY <3>1 DEF Queue
    <3> QED
      BY <3>2, QueueOver
  <2> QED
    BY <1>4, <2>1 DEF LabelBack
<1>5. CASE DocsHandlers
  BY <1>1, <1>5 DEF DocsHandlers, OpenDocs, PickDocsToken, LoadTokensForDocs, LoadModelsForDocs, docsVars
<1> QED
  BY <1>1, <1>2, <1>3, <1>4, <1>5 DEF DocsNext, ConsoleDocs, DemoDocs, docsVars

\* A button does not go on saying "copied" once the last 1200 ms have passed,
\* for any number of clicks, dictionaries and switches of the language.
THEOREM CopiedRestored == DocsSpec => []CopiedGoesAway
<1>1. BrowserInit({"console", "demo"}) /\ DocsInit(ButtonKinds) => LabelInv
  BY QueueNone DEF DocsInit, LabelInv, OwnLabels
<1>2. LabelInv => CopiedGoesAway
  BY DEF LabelInv, OwnLabels, CopiedGoesAway
<1> QED
  BY <1>1, <1>2, LabelStep, PTL DEF DocsSpec

-----------------------------------------------------------------------------
\* The account.

\* A profile under way is one of those asked for.
ProfileCall(c, last) == Fetch(c) /\ (c.op = "profile" => c.arg.load \in 1 .. last)

\* No such change is carried out whose answer the page has not seen.
Unseen(s, op) == \A k \in DOMAIN s : s[k].op = op => s[k].st = "sent"

\* The answers to the profile asked for last.
Newest(s, last) == {s[k].val : k \in {i \in DOMAIN s : s[i].op = "profile" /\ s[i].st = "ok" /\ s[i].arg.load = last}}

\* After a redemption that succeeded, and with no other carried out meanwhile,
\* the profile asked for last has the balance, or will have.
RedeemInv ==
  redeemMsg = "ok" /\ Unseen(calls, "redeem") =>
    /\ \A v \in Newest(calls, asked) : v.balance = balance
    /\ shown = asked => kpi = UsdFromMicroStr(balance)

\* The same of the threshold.
AlertInv ==
  alertMsg = "ok" /\ Unseen(calls, "alert") =>
    /\ \A v \in Newest(calls, asked) : v.threshold = threshold
    /\ shown = asked /\ ~typing => form = ThresholdInput(threshold)

Numbered ==
  /\ Queue(calls) /\ \A k \in DOMAIN calls : ProfileCall(calls[k], asked)
  /\ asked \in Nat /\ shown \in 0 .. asked /\ balance \in Nat

AccountInv == Numbered /\ RedeemInv /\ AlertInv

\* The page starts without a message.
LEMMA AccountInvInit == BrowserInit({"console", "demo"}) /\ AccountInit => AccountInv
<1> SUFFICES ASSUME BrowserInit({"console", "demo"}), AccountInit PROVE AccountInv
  OBVIOUS
<1>1. Queue(calls) /\ DOMAIN calls = {}
  BY QueueNone DEF BrowserInit
<1>2. balance \in Nat
  <2>1. MicroPerUsd - 1 \in Nat
    BY AccountAssumption
  <2> QED
    BY <2>1 DEF AccountInit
<1>3. redeemMsg # "ok" /\ alertMsg # "ok" /\ asked = 0 /\ shown = 0
  BY DEF AccountInit
<1>4. asked \in Nat /\ shown \in 0 .. asked
  BY <1>3
<1> QED
  BY <1>1, <1>2, <1>3, <1>4 DEF AccountInv, Numbered, RedeemInv, AlertInv

\* The profile is asked for once more: nothing is claimed until it is answered.
LEMMA AskedAnew ==
  ASSUME AccountInv, NEW from, asked' = asked + 1, UNCHANGED <<shown, balance>>, Queue(calls'),
         \A k \in DOMAIN calls' : calls'[k] = Profile(from) \/ \E m \in DOMAIN calls : calls'[k] = calls[m]
  PROVE  AccountInv'
<1>1. asked \in Nat /\ shown \in 0 .. asked /\ \A k \in DOMAIN calls : ProfileCall(calls[k], asked)
  BY DEF AccountInv, Numbered
<1>2. Profile(from).st = "sent" /\ Profile(from).arg.load = asked + 1 /\ Fetch(Profile(from))
  BY CallIsFetch DEF Profile
<1>3. \A k \in DOMAIN calls' : ProfileCall(calls'[k], asked + 1) /\ (calls'[k].op = "profile" /\ calls'[k].st = "ok" => calls'[k].arg.load # asked + 1)
  BY <1>1, <1>2 DEF ProfileCall
<1>4. Newest(calls', asked') = {} /\ shown' # asked'
  BY <1>1, <1>3 DEF Newest
<1>5. Numbered'
  BY <1>1, <1>3 DEF AccountInv, Numbered
<1> QED
  BY <1>4, <1>5 DEF AccountInv, RedeemInv, AlertInv

\* A fetch ends, or changes are sent: what is claimed of the changes that
\* remain stays true.
LEMMA NothingDrawn ==
  ASSUME AccountInv, UNCHANGED <<asked, shown, balance, threshold, kpi>>, Queue(calls'),
         \A k \in DOMAIN calls' : \/ Fetch(calls'[k]) /\ calls'[k].op # "profile"
                                  \/ \E m \in DOMAIN calls : calls'[k] = calls[m],
         redeemMsg' = "ok" => redeemMsg = "ok" /\ (Unseen(calls', "redeem") => Unseen(calls, "redeem")),
         alertMsg' = "ok" => alertMsg = "ok" /\ (Unseen(calls', "alert") => Unseen(calls, "alert")),
         ~typing' => ~typing /\ form' = form
  PROVE  AccountInv'
<1>1. \A k \in DOMAIN calls' : ProfileCall(calls'[k], asked)
  BY DEF AccountInv, Numbered, ProfileCall
<1>2. Newest(calls', asked) \subseteq Newest(calls, asked)
  BY DEF Newest
<1>3. Numbered'
  BY <1>1 DEF AccountInv, Numbered
<1>4. RedeemInv'
  BY <1>2 DEF AccountInv, RedeemInv
<1>5. AlertInv'
  BY <1>2 DEF AccountInv, AlertInv
<1> QED
  BY <1>3, <1>4, <1>5 DEF AccountInv

\* A change is sent.
LEMMA ChangeSent ==
  ASSUME AccountInv, UNCHANGED accountVars, NEW op, NEW arg, op # "profile", Gesture(<<Call(op, arg)>>)
  PROVE  AccountInv'
<1> DEFINE c == Call(op, arg)
<1>1. Fetch(c) /\ c.op # "profile" /\ c.st = "sent"
  BY CallIsFetch
<1>2. Queue(calls)
  BY DEF AccountInv, Numbered
<1> HIDE DEF c
<1>3. /\ Queue(calls')
      /\ \A k \in DOMAIN calls' : calls'[k] = c \/ \E m \in DOMAIN calls : calls'[k] = calls[m]
  BY <1>2, SendingOne DEF c
<1>4. \A m \in DOMAIN calls : \E k \in DOMAIN calls' : calls'[k] = calls[m]
  <2> DEFINE S == {calls[k] : k \in DOMAIN calls} \cup {c}
  <2>1. calls \in Seq(S) /\ c \in S
    BY <1>2, SeqMonotone DEF Queue
  <2>2. calls' = Append(calls, c)
    BY DEF Gesture, c
  <2> HIDE DEF S
  <2> QED
    BY <2>1, <2>2
<1>5. \A x : Unseen(calls', x) => Unseen(calls, x)
  BY <1>4 DEF Unseen
<1> QED
  BY <1>1, <1>3, <1>5, NothingDrawn DEF accountVars

\* A fetch ends.
LEMMA FetchEnds ==
  ASSUME AccountInv, NEW n \in DOMAIN calls, Resume(n, <<>>)
  PROVE  /\ Queue(calls')
         /\ \A k \in DOMAIN calls' : \E m \in DOMAIN calls : calls'[k] = calls[m]
         /\ \A x : Unseen(calls', x) /\ (calls[n].op = x => calls[n].st = "sent") => Unseen(calls, x)
<1>1. Queue(calls)
  BY DEF AccountInv, Numbered
<1>2. /\ Queue(calls')
      /\ \A k \in DOMAIN calls' : \E m \in DOMAIN calls : m # n /\ calls'[k] = calls[m]
      /\ \A m \in DOMAIN calls \ {n} : \E k \in DOMAIN calls' : calls'[k] = calls[m]
  BY <1>1, ResumingNone
<1>3. \A x : Unseen(calls', x) /\ (calls[n].op = x => calls[n].st = "sent") => Unseen(calls, x)
  BY <1>2 DEF Unseen
<1> QED
  BY <1>2, <1>3

\* The server's side of a change, of which the page does not know yet.
LEMMA ServerKeeps ==
  ASSUME AccountInv, NEW n \in DOMAIN calls, AccountServer(n)
  PROVE  AccountInv'
<1>1. PICK st \in {"ok", "lost"} : Reply(n, st, Nil)
  BY DEF AccountServer
<1>2. /\ Queue(calls) /\ Fetch(calls[n]) /\ calls[n].op \in {"alert", "redeem"}
      /\ UNCHANGED <<kpi, form, typing, alertMsg, redeemMsg, asked, shown>>
  BY DEF AccountServer, Asked, AccountInv, Numbered, ProfileCall
<1>3. /\ Queue(calls') /\ DOMAIN calls' = DOMAIN calls
      /\ \A k \in DOMAIN calls \ {n} : calls'[k] = calls[k]
      /\ calls'[n] = [op |-> calls[n].op, arg |-> calls[n].arg, st |-> st, val |-> Nil]
  BY <1>1, <1>2, Replying
<1>4. balance' \in Nat
  BY AccountAssumption DEF AccountServer, AccountInv, Numbered
<1>5. \A k \in DOMAIN calls' : ProfileCall(calls'[k], asked)
  BY <1>2, <1>3 DEF AccountInv, Numbered, ProfileCall, Fetch
<1>6. Numbered'
  BY <1>2, <1>3, <1>4, <1>5 DEF AccountInv, Numbered
<1>7. Newest(calls', asked) = Newest(calls, asked)
  BY <1>2, <1>3 DEF Newest
<1>8. \A x : Unseen(calls', x) => Unseen(calls, x) /\ calls[n].op # x
  BY <1>1, <1>2, <1>3 DEF Unseen
<1>9. RedeemInv'
  <2>1. CASE calls[n].op = "redeem"
    BY <1>8, <2>1 DEF RedeemInv
  <2>2. CASE calls[n].op # "redeem"
    <3>1. UNCHANGED balance
      BY <2>2 DEF AccountServer, Asked
    <3> QED
      BY <1>2, <1>7, <1>8, <3>1 DEF RedeemInv, AccountInv
  <2> QED
    BY <2>1, <2>2
<1>10. AlertInv'
  <2>1. CASE calls[n].op = "alert"
    BY <1>8, <2>1 DEF AlertInv
  <2>2. CASE calls[n].op # "alert"
    <3>1. UNCHANGED threshold
      BY <2>2 DEF AccountServer, Asked
    <3> QED
      BY <1>2, <1>7, <1>8, <3>1 DEF AlertInv, AccountInv
  <2> QED
    BY <2>1, <2>2
<1> QED
  BY <1>6, <1>9, <1>10 DEF AccountInv

\* The answer to a profile is what the server holds at that moment.
LEMMA AnswerKeeps ==
  ASSUME AccountInv, NEW n \in DOMAIN calls, AnswerProfile(n)
  PROVE  AccountInv'
<1> DEFINE v == [balance |-> balance, threshold |-> threshold]
<1>1. /\ Queue(calls) /\ Fetch(calls[n]) /\ calls[n].op = "profile" /\ Reply(n, "ok", v)
      /\ UNCHANGED accountVars
  BY DEF AnswerProfile, Asked, AccountInv, Numbered, ProfileCall
<1>2. /\ Queue(calls') /\ DOMAIN calls' = DOMAIN calls
      /\ \A k \in DOMAIN calls \ {n} : calls'[k] = calls[k]
      /\ calls'[n] = [op |-> calls[n].op, arg |-> calls[n].arg, st |-> "ok", val |-> v]
  BY <1>1, Replying
<1>3. \A k \in DOMAIN calls' : ProfileCall(calls'[k], asked)
  BY <1>1, <1>2 DEF AccountInv, Numbered, ProfileCall, Fetch
<1>4. Newest(calls', asked) \subseteq Newest(calls, asked) \cup {v}
  BY <1>1, <1>2 DEF Newest
<1>5. \A x : x # "profile" /\ Unseen(calls', x) => Unseen(calls, x)
  BY <1>1, <1>2 DEF Unseen
<1>6. Numbered'
  BY <1>1, <1>2, <1>3 DEF AccountInv, Numbered, accountVars
<1>7. RedeemInv'
  BY <1>1, <1>4, <1>5 DEF AccountInv, RedeemInv, accountVars
<1>8. AlertInv'
  BY <1>1, <1>4, <1>5 DEF AccountInv, AlertInv, accountVars
<1> QED
  BY <1>6, <1>7, <1>8 DEF AccountInv

\* A profile drawn.
LEMMA LoadKeeps ==
  ASSUME AccountInv, NEW n \in DOMAIN calls, LoadProfile(n)
  PROVE  AccountInv'
<1>1. /\ calls[n].op = "profile" /\ calls[n].st = "ok" /\ Resume(n, <<>>)
      /\ kpi' = UsdFromMicroStr(calls[n].val.balance) /\ form' = ThresholdInput(calls[n].val.threshold)
      /\ typing' = FALSE /\ shown' = calls[n].arg.load
      /\ UNCHANGED <<balance, threshold, alertMsg, redeemMsg, asked>>
  BY DEF LoadProfile, Answered
<1>2. shown' \in 1 .. asked /\ asked \in Nat
  BY <1>1 DEF AccountInv, Numbered, ProfileCall
<1>3. /\ Queue(calls')
      /\ \A k \in DOMAIN calls' : \E m \in DOMAIN calls : calls'[k] = calls[m]
      /\ \A x : Unseen(calls', x) /\ (calls[n].op = x => calls[n].st = "sent") => Unseen(calls, x)
  BY <1>1, FetchEnds
<1>4. Newest(calls', asked) \subseteq Newest(calls, asked)
  BY <1>3 DEF Newest
<1>5. shown' = asked => calls[n].val \in Newest(calls, asked)
  BY <1>1 DEF Newest
<1>6. Numbered'
  BY <1>1, <1>2, <1>3 DEF AccountInv, Numbered
<1>7. RedeemInv'
  BY <1>1, <1>3, <1>4, <1>5 DEF AccountInv, RedeemInv
<1>8. AlertInv'
  BY <1>1, <1>3, <1>4, <1>5 DEF AccountInv, AlertInv
<1> QED
  BY <1>6, <1>7, <1>8 DEF AccountInv

\* A fetch that fails is blamed on the change it belongs to.
LEMMA FailureKeeps ==
  ASSUME AccountInv, NEW n \in DOMAIN calls, AccountFails(n)
  PROVE  AccountInv'
<1>1. Resume(n, <<>>) /\ UNCHANGED <<balance, threshold, kpi, form, typing, asked, shown>>
  BY DEF AccountFails
<1>2. /\ Queue(calls')
      /\ \A k \in DOMAIN calls' : \E m \in DOMAIN calls : calls'[k] = calls[m]
      /\ \A x : Unseen(calls', x) /\ (calls[n].op = x => calls[n].st = "sent") => Unseen(calls, x)
  BY <1>1, FetchEnds
<1>3. /\ redeemMsg' = "ok" => redeemMsg = "ok" /\ calls[n].op # "redeem"
      /\ alertMsg' = "ok" => alertMsg = "ok" /\ calls[n].op # "alert"
  BY DEF AccountFails, Asked, Answered, Blame
<1> QED
  BY <1>1, <1>2, <1>3, NothingDrawn

\* So the invariant holds through every step of the pane.
LEMMA AccountInvStep == AccountInv /\ [AccountStep]_<<browserVars, accountVars>> => AccountInv'
<1> SUFFICES ASSUME AccountInv, [AccountStep]_<<browserVars, accountVars>> PROVE AccountInv'
  OBVIOUS
<1>0. Queue(calls)
  BY DEF AccountInv, Numbered
<1>1. CASE UNCHANGED <<calls, accountVars>>
  BY <1>1, NothingDrawn DEF accountVars, AccountInv, Numbered
<1>2. CASE RefreshAccount
  <2>1. Gesture(<<Profile("refresh")>>) /\ asked' = asked + 1 /\ UNCHANGED <<shown, balance>>
    BY <1>2 DEF RefreshAccount
  <2> QED
    BY <1>0, <2>1, SendingOne, AskedAnew
<1>3. CASE AlertHandlers
  <2>1. CASE TypeThreshold
    BY <1>0, <2>1, NothingDrawn DEF TypeThreshold, Local, browserVars
  <2>2. CASE SubmitBalanceAlert
    <3>1. CASE UNCHANGED <<calls, balance, threshold, form, typing, kpi, redeemMsg, asked, shown>> /\ alertMsg' = "err"
      BY <1>0, <3>1, NothingDrawn
    <3>2. CASE UNCHANGED accountVars /\ Gesture(<<Call("alert", UsdInputToMicroStr(form))>>)
      BY <3>2, ChangeSent
    <3> QED
      BY <2>2, <3>1, <3>2 DEF SubmitBalanceAlert, Local, browserVars
  <2>3. ASSUME NEW n \in DOMAIN calls, AlertSaved(n)
        PROVE  AccountInv'
    <3>1. Resume(n, <<Profile("alert")>>) /\ asked' = asked + 1 /\ UNCHANGED <<shown, balance>>
      BY <2>3 DEF AlertSaved
    <3> QED
      BY <1>0, <3>1, ResumingOne, AskedAnew
  <2> QED
    BY <1>3, <2>1, <2>2, <2>3 DEF AlertHandlers
<1>4. CASE RedeemHandlers
  <2>1. CASE SubmitRedeem
    BY <2>1, ChangeSent DEF SubmitRedeem
  <2>2. ASSUME NEW n \in DOMAIN calls, Redeemed(n)
        PROVE  AccountInv'
    <3>1. Resume(n, <<Profile("redeem")>>) /\ asked' = asked + 1 /\ UNCHANGED <<shown, balance>>
      BY <2>2 DEF Redeemed
    <3> QED
      BY <1>0, <3>1, ResumingOne, AskedAnew
  <2> QED
    BY <1>4, <2>1, <2>2 DEF RedeemHandlers
<1>5. CASE AccountNext
  BY <1>2, <1>3, <1>4, <1>5, ServerKeeps, AnswerKeeps, LoadKeeps, FailureKeeps
     DEF AccountNext, ConsoleAlertForm, ConsoleRedeemForm, ConsoleProfile, DemoAlertForm, DemoRedeemForm,
         DemoProfile
<1> QED
  BY <1>1, <1>5 DEF AccountStep, Denied, browserVars, accountVars

\* Once every answer is in and the profile drawn last is the one asked for last,
\* a success still reported is what the page shows, for any codes, thresholds
\* and unit of the dollar, with any number of submits, lost answers and failed
\* reloads (submitRedeem, submitBalanceAlert, loadProfile, app.js).
THEOREM SuccessShown == AccountSpec => []OkIsShown
<1>1. AccountInv => OkIsShown
  <2> SUFFICES ASSUME AccountInv, Quiet, shown = asked
               PROVE  /\ redeemMsg = "ok" => kpi[1] * MicroPerUsd + kpi[2] = balance
                      /\ alertMsg = "ok" /\ ~typing => form = ThresholdInput(threshold)
    BY DEF OkIsShown
  <2>1. \A x : Unseen(calls, x)
    BY QueueNone DEF Unseen, Quiet
  <2>2. (balance \div MicroPerUsd) * MicroPerUsd + (balance % MicroPerUsd) = balance
    BY AccountAssumption DEF AccountInv, Numbered
  <2>3. redeemMsg = "ok" => kpi = <<balance \div MicroPerUsd, balance % MicroPerUsd>>
    BY <2>1 DEF AccountInv, RedeemInv, UsdFromMicroStr
  <2>4. redeemMsg = "ok" => kpi[1] * MicroPerUsd + kpi[2] = balance
    <3> SUFFICES ASSUME redeemMsg = "ok" PROVE kpi[1] * MicroPerUsd + kpi[2] = balance
      OBVIOUS
    <3>1. kpi[1] = balance \div MicroPerUsd /\ kpi[2] = balance % MicroPerUsd
      BY <2>3
    <3> QED
      BY <2>2, <3>1
  <2>5. alertMsg = "ok" /\ ~typing => form = ThresholdInput(threshold)
    BY <2>1 DEF AccountInv, AlertInv
  <2> QED
    BY <2>4, <2>5
<1> QED
  BY <1>1, AccountInvInit, AccountInvStep, PTL DEF AccountSpec

-----------------------------------------------------------------------------
\* The chat test.

\* A row of the price list: of a listing, or added for a model that is restored
\* or preset.
Known(row) == row \in UNION Listings \/ \E m : row = [model |-> m, provider |-> "openai"]

\* A send, past or under way, that a user may have made with the form: in the
\* console its model suits its mode, but for the modes whose bodies name none.
Modes == ChatModes \cup {"openai", "responses"}
Suits(s, mode, m) == s = "console" /\ mode \notin GeminiModes => Suited(mode, m)
Fits(s, i) == i.mode \in Modes /\ Suits(s, i.mode, i.model)

FormFits ==
  /\ chatMode \in Modes
  /\ \A row \in priced : Known(row)
  /\ \A m \in chatOptions : Suits(site, chatMode, m)
  /\ chatModel # "" => Suits(site, chatMode, chatModel)

Sends == {"post", "repost", "stream", "text", "read"}
CallsFit == Queue(calls) /\ \A k \in DOMAIN calls : calls[k].op \in Sends => Fits(site, calls[k].arg)

StoreFits ==
  /\ Queue(history) /\ \A k \in DOMAIN history : Fits(site, history[k])
  /\ recent # Nil => Fits(site, recent)

\* A send out keeps the button off, and is alone, but for those that reference
\* images let cross each other.
Busy ==
  /\ ~crossed => Lone(Timed, calls) /\ (sendButton = "off" \/ Idle(Timed, calls))
  /\ site = "demo" => ~crossed

Sited == site \in {"console", "demo"}
ChatInv == Sited /\ FormFits /\ CallsFit /\ StoreFits /\ Busy

\* The page starts with an empty form, and in the console loads the price list.
LEMMA ChatInvInit == ChatStart => ChatInv
<1> SUFFICES ASSUME ChatStart PROVE ChatInv
  OBVIOUS
<1>1. Sited /\ FormFits
  BY DEF ChatStart, ChatTestInit, Sited, FormFits, Modes
<1>2. Queue(calls) /\ \A k \in DOMAIN calls : calls[k].op = "pricing"
  BY QueueOne, QueueNone, CallIsFetch DEF ChatStart
<1>3. StoreFits
  BY QueueNone DEF ChatStart, ChatTestInit, StoreFits
<1>4. Idle(Timed, calls) /\ Lone(Timed, calls)
  BY <1>2 DEF Idle, Lone, Timed
<1>5. ~crossed
  BY DEF ChatStart, ChatTestInit
<1> QED
  BY <1>1, <1>2, <1>3, <1>4, <1>5 DEF ChatInv, CallsFit, Sends, Busy

\* What is offered for a mode suits it.
LEMMA FittingSuits ==
  ASSUME NEW rows, \A row \in rows : Known(row), NEW mode, NEW m \in Fitting(rows, mode)
  PROVE  Suited(mode, m)
<1>1. PICK row \in rows : row.model = m /\ ModeToCapability(mode) \in Capabilities(row)
  BY DEF Fitting
<1>2. CASE row \in UNION Listings
  BY <1>1, <1>2 DEF Suited
<1>3. CASE \E name : row = [model |-> name, provider |-> "openai"]
  <2>1. PICK name : row = [model |-> name, provider |-> "openai"]
    BY <1>3
  <2>2. name = m
    BY <1>1, <2>1
  <2> DEFINE added == [model |-> m, provider |-> "openai"]
  <2>3. row = added
    BY <2>1, <2>2
  <2> HIDE DEF added
  <2>4. added.model = m /\ ModeToCapability(mode) \in Capabilities(added)
    BY <1>1, <2>3
  <2>5. PICK U : U = UNION Listings
    OBVIOUS
  <2>6. added \in U \cup {added}
    OBVIOUS
  <2>7. \E x \in U \cup {added} :
           x.model = m /\ ModeToCapability(mode) \in Capabilities(x)
    BY <2>4, <2>6
  <2>8. Suited(mode, m) <=> \E x \in U \cup {added} :
           x.model = m /\ ModeToCapability(mode) \in Capabilities(x)
    BY <2>5 DEF Suited, added
  <2> QED
    BY <2>7, <2>8
<1> QED
  BY <1>2, <1>3 DEF Known

\* A model made an option is a row that may be.
LEMMA EnsuredKnown ==
  ASSUME NEW rows, \A row \in rows : Known(row), NEW opts, NEW m
  PROVE  \A row \in Ensured(rows, opts, m) : Known(row)
BY DEF Ensured, Known

\* Drawing the options for a mode leaves a model that suits it, or none.
LEMMA SyncFits ==
  ASSUME Sited, UNCHANGED site, NEW rows, \A row \in rows : Known(row), NEW mode \in Modes,
         NEW prev, SyncApiMode(rows, mode, prev)
  PROVE  FormFits'
<1>1. CASE site = "console"
  <2>1. /\ chatMode' = mode /\ priced' = rows /\ chatOptions' = Fitting(rows, mode)
        /\ chatModel' \in chatOptions' \/ chatModel' = ""
    BY <1>1 DEF SyncApiMode, RenderModelOptions
  <2>2. \A m \in chatOptions' : Suited(mode, m)
    BY <2>1, FittingSuits
  <2> QED
    BY <2>1, <2>2 DEF FormFits, Suits, Known
<1>2. CASE site = "demo"
  BY <1>2 DEF SyncApiMode, FormFits, Suits, Known
<1> QED
  BY <1>1, <1>2 DEF Sited

\* So does restoring a past send.
LEMMA RestoreFits ==
  ASSUME Sited, FormFits, UNCHANGED site, NEW i, Fits(site, i), Restore(i.mode, i.model)
  PROVE  FormFits'
<1>1. \A row \in priced : Known(row)
  BY DEF FormFits
<1>2. CASE i.model = ""
  BY <1>1, <1>2, SyncFits DEF Restore, Fits
<1>3. CASE i.model # ""
  <2>1. RestoreModel(i.mode, i.model)
    BY <1>3 DEF Restore
  <2>2. \A m \in Fitting(priced, i.mode) : Suited(i.mode, m)
    BY <1>1, FittingSuits
  <2>3. \A row \in priced' : Known(row)
    BY <1>1, <2>1, EnsuredKnown DEF RestoreModel
  <2> QED
    BY <2>1, <2>2, <2>3 DEF Fits, RestoreModel, FormFits, Suits, Known
<1> QED
  BY <1>2, <1>3

\* A step that leaves the fetches and the stored sends alone, or part of them.
LEMMA FormStepKeeps ==
  ASSUME ChatInv, FormFits', UNCHANGED <<calls, site, sendButton, crossed, recent>>,
         history' = history \/ history' = <<>>
  PROVE  ChatInv'
<1>1. StoreFits'
  BY QueueNone DEF ChatInv, StoreFits
<1>2. CallsFit' /\ Busy' /\ Sited'
  BY DEF ChatInv, CallsFit, Busy, Sited, Timed
<1> QED
  BY <1>1, <1>2 DEF ChatInv

\* A handler of a fetch sends another one, of a request that fits.
LEMMA MovedOn ==
  ASSUME ChatInv, NEW n \in DOMAIN calls, NEW c, Resume(n, <<c>>), UNCHANGED <<site, sendButton, crossed>>,
         c.op \in Sends => Fits(site, c.arg), c.op \in Timed => calls[n].op \in Timed
  PROVE  CallsFit' /\ Busy'
<1>1. Queue(calls)
  BY DEF ChatInv, CallsFit
<1>2. /\ Queue(calls')
      /\ \A k \in DOMAIN calls' : calls'[k] = c \/ \E m \in DOMAIN calls : m # n /\ calls'[k] = calls[m]
  BY <1>1, ResumingOne
<1>3. CallsFit'
  BY <1>2 DEF ChatInv, CallsFit
<1>4. PICK T : T = Timed
  OBVIOUS
<1>5. Timed' = T
  BY <1>4 DEF Timed
<1>6. ~crossed => Lone(T, calls')
  BY <1>1, <1>4, LoneResumes DEF ChatInv, Busy
<1>7. ~crossed => sendButton' = "off" \/ Idle(T, calls')
  BY <1>2, <1>4 DEF ChatInv, Busy, Idle
<1> QED
  BY <1>3, <1>5, <1>6, <1>7 DEF ChatInv, Busy

\* It ends, and if it was a send, the button is on again, and nothing crosses
\* any more when no other is out.
LEMMA Ended ==
  ASSUME ChatInv, NEW n \in DOMAIN calls, Resume(n, <<>>), UNCHANGED site,
         \/ UNCHANGED <<sendButton, crossed>>
         \/ calls[n].op \in Timed /\ crossed' = (crossed /\ \E m \in DOMAIN calls \ {n} : Out(m))
  PROVE  CallsFit' /\ Busy'
<1>1. Queue(calls)
  BY DEF ChatInv, CallsFit
<1>2. /\ Queue(calls')
      /\ \A k \in DOMAIN calls' : \E m \in DOMAIN calls : m # n /\ calls'[k] = calls[m]
  BY <1>1, ResumingNone
<1>3. CallsFit'
  BY <1>2 DEF ChatInv, CallsFit
<1>4. PICK T : T = Timed
  OBVIOUS
<1>5. Timed' = T
  BY <1>4 DEF Timed
<1>6. CASE ~crossed
  <2>1. Lone(T, calls') /\ (calls[n].op \in T => Idle(T, calls'))
    BY <1>1, <1>4, <1>6, LoneEnds DEF ChatInv, Busy
  <2>2. sendButton' = "off" \/ Idle(T, calls')
    BY <1>2, <1>4, <1>6, <2>1 DEF ChatInv, Busy, Idle
  <2>3. ~crossed'
    BY <1>6
  <2> QED
    BY <1>3, <1>5, <2>1, <2>2, <2>3 DEF Busy
<1>7. CASE crossed
  <2>1. site # "demo"
    BY <1>7 DEF ChatInv, Busy
  <2>2. ASSUME ~crossed' PROVE Idle(T, calls')
    <3>1. \A m \in DOMAIN calls : m # n => calls[m].op \notin T
      BY <1>4, <1>7, <2>2 DEF Out
    <3> QED
      BY <1>2, <3>1 DEF Idle
  <2>3. Idle(T, calls') => Lone(T, calls')
    BY DEF Idle, Lone
  <2> QED
    BY <1>3, <1>5, <2>1, <2>2, <2>3 DEF Busy
<1> QED
  BY <1>6, <1>7

\* What is sent is what the form holds.
LEMMA RequestFits ==
  ASSUME FormFits, chatModel # "", NEW sse
  PROVE  Fits(site, Request(sse))
BY DEF FormFits, Fits, Request

\* A send starts with the button on, and keeps it on while it reads its images
\* in the console.
LEMMA SendKeeps ==
  ASSUME ChatInv, NEW c, Gesture(<<c>>), UNCHANGED <<formVars, crossed, history, recent>>, sendButton = "on",
         Fits(site, c.arg), sendButton' = "off" \/ c.op \notin Timed
  PROVE  ChatInv'
<1>1. Queue(calls) /\ UNCHANGED site
  BY DEF ChatInv, CallsFit, Gesture
<1>2. /\ Queue(calls')
      /\ \A k \in DOMAIN calls' : calls'[k] = c \/ \E m \in DOMAIN calls : calls'[k] = calls[m]
  BY <1>1, SendingOne
<1>3. CallsFit'
  BY <1>1, <1>2 DEF ChatInv, CallsFit
<1>4. PICK T : T = Timed
  OBVIOUS
<1>5. Timed' = T
  BY <1>1, <1>4 DEF Timed
<1>6. ~crossed => Lone(T, calls') /\ Idle(T, calls)
  BY <1>1, <1>4, LoneSends DEF ChatInv, Busy
<1>7. ~crossed => sendButton' = "off" \/ Idle(T, calls')
  BY <1>2, <1>4, <1>6 DEF Idle
<1>8. Busy'
  BY <1>1, <1>5, <1>6, <1>7 DEF ChatInv, Busy
<1>9. Sited' /\ FormFits' /\ StoreFits'
  BY <1>1 DEF ChatInv, Sited, FormFits, StoreFits, formVars
<1> QED
  BY <1>3, <1>8, <1>9 DEF ChatInv

\* The history keeps a send that fits, and drops the oldest.
LEMMA Remembered ==
  ASSUME FormFits, StoreFits, UNCHANGED site, NEW s, Fits(site, s), Remember(s)
  PROVE  StoreFits'
<1> DEFINE i == Item(s)
<1>1. Fits(site, i)
  BY DEF Fits, Suits, Item
<1> HIDE DEF i
<1>2. CASE site = "demo"
  BY <1>2 DEF Remember, StoreFits
<1>3. CASE site # "demo"
  <2> DEFINE S == {history[k] : k \in DOMAIN history} \cup {i}
             kept == IF i.model = "" THEN history ELSE <<i>> \o history
             most == IF Len(kept) > KeptSends THEN KeptSends ELSE Len(kept)
  <2>1. history \in Seq(S) /\ i \in S /\ \A x \in S : Fits(site, x)
    BY <1>1, SeqMonotone DEF StoreFits, Queue
  <2>2. history' = SubSeq(kept, 1, most) /\ recent' = i
    BY <1>3 DEF Remember, i
  <2> HIDE DEF S
  <2>3. kept \in Seq(S)
    <3>1. <<i>> \in Seq(S)
      BY <2>1
    <3>2. <<i>> \o history \in Seq(S)
      BY <2>1, <3>1
    <3> QED
      BY <2>1, <3>2
  <2> HIDE DEF kept
  <2>4. most \in Nat /\ most <= Len(kept)
    BY <2>3, ChatAssumption
  <2> HIDE DEF most
  <2>5. history' \in Seq(S)
    BY <2>2, <2>3, <2>4
  <2>6. Queue(history') /\ \A k \in DOMAIN history' : history'[k] \in S
    BY <2>5, QueueOver
  <2> QED
    BY <1>1, <2>1, <2>2, <2>6 DEF StoreFits
<1> QED
  BY <1>2, <1>3

\* The form is changed.
LEMMA FormKeeps ==
  ASSUME ChatInv,
         \/ ChooseMode \/ ChooseModel \/ PresetHealth \/ PresetSummary \/ HistoryApply \/ HistoryClear
         \/ ClearOutput \/ LoadModelHealthSnapshot
  PROVE  ChatInv'
<1>1. UNCHANGED <<calls, site, sendButton, crossed, recent>> /\ (history' = history \/ history' = <<>>)
  BY DEF ChooseMode, ChooseModel, PresetHealth, PresetSummary, Preset, HistoryApply, HistoryClear, ClearOutput,
         LoadModelHealthSnapshot, Local, Unsent, flight, browserVars
<1>2. FormFits'
  <2>0. Sited /\ FormFits /\ chatMode \in Modes /\ "responses" \in Modes /\ \A row \in priced : Known(row)
    BY DEF ChatInv, FormFits, Modes
  <2>1. CASE ChooseMode
    BY <1>1, <2>0, <2>1, SyncFits DEF ChooseMode, Modes
  <2>2. CASE ChooseModel
    <3>1. /\ chatModel' \in (IF site = "console" THEN chatOptions ELSE ChatModels) \cup {""}
          /\ UNCHANGED <<chatMode, chatOptions, priced>>
      BY <2>2 DEF ChooseModel
    <3> QED
      BY <1>1, <2>0, <3>1 DEF FormFits, Suits, Known
  <2>3. CASE PresetHealth \/ PresetSummary
    <3>1. PICK mode \in Modes : Preset(mode, "gpt")
      BY <2>0, <2>3 DEF PresetHealth, PresetSummary
    <3>2. PICK rows : rows = IF chatModel = "" THEN Ensured(priced, chatOptions, "gpt") ELSE priced
      OBVIOUS
    <3>3. \A row \in rows : Known(row)
      BY <2>0, <3>2, EnsuredKnown
    <3>4. SyncApiMode(rows, mode, IF chatModel = "" THEN "gpt" ELSE chatModel)
      BY <3>1, <3>2 DEF Preset
    <3> QED
      BY <1>1, <2>0, <3>3, <3>4, SyncFits
  <2>4. CASE HistoryApply
    <3>1. PICK k \in DOMAIN history : Restore(history[k].mode, history[k].model)
      BY <2>4 DEF HistoryApply
    <3> QED
      BY <1>1, <2>0, <3>1, RestoreFits DEF ChatInv, StoreFits
  <2>5. CASE HistoryClear \/ ClearOutput
    BY <1>1, <2>0, <2>5 DEF HistoryClear, ClearOutput, formVars, FormFits, Known
  <2>6. CASE LoadModelHealthSnapshot
    BY <1>1, <2>0, <2>6, SyncFits DEF LoadModelHealthSnapshot
  <2> QED
    BY <2>1, <2>2, <2>3, <2>4, <2>5, <2>6
<1> QED
  BY <1>1, <1>2, FormStepKeeps

\* The price list is drawn, or the recent configuration applied.
LEMMA LoadsKeep ==
  ASSUME ChatInv,
         RefreshPricing \/ \E n \in DOMAIN calls : LoadPricing(n) \/ ApplyRecentConfig(n) \/ InitFails(n)
  PROVE  ChatInv'
<1>0. Sited /\ FormFits /\ StoreFits /\ chatMode \in Modes /\ Queue(calls)
  BY DEF ChatInv, FormFits, CallsFit
<1>1. ASSUME DrawPricing, UNCHANGED site
      PROVE  FormFits' /\ StoreFits' /\ UNCHANGED <<sendButton, crossed, history, recent>>
  <2>1. PICK rows \in Listings \cup {{}} : SyncApiMode(rows, chatMode, chatModel)
    BY <1>1 DEF DrawPricing
  <2>2. \A row \in rows : Known(row)
    BY DEF Known
  <2>3. FormFits'
    BY <1>0, <1>1, <2>1, <2>2, SyncFits
  <2> QED
    BY <1>0, <1>1, <2>3 DEF DrawPricing, Unsent, flight, StoreFits
<1>2. CASE RefreshPricing
  <2>1. calls' = calls \o <<>> /\ UNCHANGED site
    BY <1>2 DEF RefreshPricing, Gesture
  <2>2. calls' = calls
    BY <1>0, <2>1 DEF Queue
  <2> QED
    BY <1>1, <1>2, <2>1, <2>2, FormStepKeeps DEF RefreshPricing
<1>3. ASSUME NEW n \in DOMAIN calls, LoadPricing(n)
      PROVE  ChatInv'
  <2>1. Resume(n, <<Call("rest", Nil)>>) /\ UNCHANGED site /\ DrawPricing
    BY <1>3 DEF LoadPricing, Resume
  <2>2. FormFits' /\ StoreFits' /\ UNCHANGED <<sendButton, crossed>>
    BY <1>1, <2>1
  <2>3. Call("rest", Nil).op \notin Sends /\ Call("rest", Nil).op \notin Timed
    BY CallIsFetch DEF Sends, Timed
  <2>4. CallsFit' /\ Busy'
    BY <2>1, <2>2, <2>3, MovedOn DEF Sends
  <2> QED
    BY <1>0, <2>1, <2>2, <2>4 DEF ChatInv, Sited
<1>4. ASSUME NEW n \in DOMAIN calls, ApplyRecentConfig(n) \/ InitFails(n)
      PROVE  ChatInv'
  <2>1. Resume(n, <<>>) /\ UNCHANGED <<site, sendButton, crossed, history, recent>>
    BY <1>4 DEF ApplyRecentConfig, InitFails, Resume, Unsent, chatVars, flight
  <2>2. CallsFit' /\ Busy'
    BY <2>1, Ended
  <2>3. FormFits'
    <3>1. CASE UNCHANGED formVars
      BY <1>0, <2>1, <3>1 DEF formVars, FormFits, Known
    <3>2. CASE recent # Nil /\ Restore(recent.mode, recent.model)
      BY <1>0, <2>1, <3>2, RestoreFits DEF StoreFits
    <3> QED
      BY <1>4, <3>1, <3>2 DEF ApplyRecentConfig, InitFails, chatVars
  <2> QED
    BY <1>0, <2>1, <2>2, <2>3 DEF ChatInv, Sited, StoreFits
<1> QED
  BY <1>2, <1>3, <1>4

\* The page is loaded again.
LEMMA ReloadKeeps ==
  ASSUME ChatInv, ReloadPage
  PROVE  ChatInv'
<1>1. calls' = (IF site = "console" THEN <<Call("pricing", Nil)>> ELSE <<>>)
      /\ chatMode' = "openai" /\ chatModel' = "" /\ chatOptions' = {} /\ priced' = {}
      /\ sendButton' = "on" /\ ~crossed' /\ UNCHANGED <<history, recent, site>>
  BY DEF ReloadPage
<1>2. Queue(calls') /\ \A k \in DOMAIN calls' : calls'[k].op = "pricing"
  <2>1. CASE site = "console"
    <3> DEFINE c == Call("pricing", Nil)
    <3>1. c.op = "pricing" /\ calls' = <<c>>
      BY <1>1, <2>1, CallIsFetch
    <3> HIDE DEF c
    <3> QED
      BY <3>1, QueueOne
  <2>2. CASE site # "console"
    BY <1>1, <2>2, QueueNone
  <2> QED
    BY <2>1, <2>2
<1>3. FormFits' /\ Sited' /\ StoreFits'
  BY <1>1 DEF ChatInv, FormFits, Modes, Sited, StoreFits
<1>4. CallsFit'
  BY <1>2 DEF CallsFit, Sends
<1>5. PICK T : T = Timed
  OBVIOUS
<1>6. Timed' = T /\ "pricing" \notin T
  BY <1>1, <1>5 DEF Timed
<1>7. Idle(T, calls') /\ Lone(T, calls')
  BY <1>2, <1>6 DEF Idle, Lone
<1>8. Busy'
  BY <1>1, <1>6, <1>7 DEF Busy
<1> QED
  BY <1>3, <1>4, <1>8 DEF ChatInv

\* A send is started.
LEMMA ClickKeeps ==
  ASSUME ChatInv, ClickSend \/ ClickSendImages
  PROVE  ChatInv'
<1>0. FormFits /\ Sited
  BY DEF ChatInv
<1>1. CASE ClickSend
  <2>1. PICK sse \in BOOLEAN : Gesture(<<Call("post", Request(sse))>>) /\ Started(Request(sse))
    BY <1>1 DEF ClickSend
  <2>2. sendButton = "on" /\ chatModel # "" /\ UNCHANGED <<formVars, crossed, history, recent>> /\ sendButton' = "off"
    BY <1>1, <2>1 DEF ClickSend, Started
  <2> DEFINE c == Call("post", Request(sse))
  <2>3. c.arg = Request(sse) /\ Gesture(<<c>>)
    BY <2>1, CallIsFetch
  <2> HIDE DEF c
  <2>4. Fits(site, c.arg)
    BY <1>0, <2>2, <2>3, RequestFits
  <2> QED
    BY <2>2, <2>3, <2>4, SendKeeps
<1>2. CASE ClickSendImages
  <2>1. /\ sendButton = "on" /\ chatModel # "" /\ Gesture(<<Call("read", Request(FALSE))>>)
        /\ IF site = "demo" THEN Started(Request(FALSE)) /\ UNCHANGED crossed ELSE UNCHANGED chatVars
    BY <1>2 DEF ClickSendImages
  <2>2. /\ UNCHANGED <<formVars, crossed, history, recent>>
        /\ sendButton' = "off" \/ (site = "console" /\ "read" \notin Timed)
    BY <1>0, <2>1 DEF Started, chatVars, flight, Sited, Timed
  <2> DEFINE c == Call("read", Request(FALSE))
  <2>3. c.op = "read" /\ c.arg = Request(FALSE)
    BY CallIsFetch
  <2>0. Gesture(<<c>>)
    BY <2>1
  <2> HIDE DEF c
  <2>4. Fits(site, c.arg)
    BY <1>0, <2>1, <2>3, RequestFits
  <2> QED
    BY <2>0, <2>1, <2>2, <2>3, <2>4, SendKeeps
<1> QED
  BY <1>1, <1>2

\* A send goes on.
LEMMA HandlersKeep ==
  ASSUME ChatInv, NEW n \in DOMAIN calls,
         \/ ImagesRead(n) \/ ImagesNotRead(n) \/ TimeOut(n) \/ FallBack(n)
         \/ SendFails(n) \/ Opened(n) \/ StreamDone(n) \/ TextRead(n)
  PROVE  ChatInv'
<1>0. Sited /\ FormFits /\ StoreFits /\ (calls[n].op \in Sends => Fits(site, calls[n].arg))
  BY DEF ChatInv, CallsFit
<1>1. ASSUME UNCHANGED <<formVars, site>>, CallsFit', Busy', StoreFits' \/ UNCHANGED <<history, recent>>
      PROVE  ChatInv'
  BY <1>0, <1>1 DEF ChatInv, Sited, formVars, FormFits, Known, StoreFits
<1>2. CASE ImagesRead(n)
  <2>1. /\ calls[n].op = "read" /\ Resume(n, <<Call("post", calls[n].arg)>>)
        /\ IF site = "console"
           THEN Started(calls[n].arg) /\ crossed' = (crossed \/ \E m \in DOMAIN calls : Out(m))
           ELSE UNCHANGED chatVars
    BY <1>2 DEF ImagesRead, Asked
  <2>2. UNCHANGED <<formVars, site, history, recent>>
    BY <2>1 DEF Started, chatVars, Resume
  <2>3. CASE site = "demo"
    <3>1. UNCHANGED <<sendButton, crossed>> /\ "read" \in Timed
      BY <2>1, <2>3 DEF Timed, chatVars, flight
    <3>2. Call("post", calls[n].arg).op = "post" /\ Call("post", calls[n].arg).arg = calls[n].arg
      BY CallIsFetch
    <3>3. CallsFit' /\ Busy'
      BY <1>0, <2>1, <2>2, <3>1, <3>2, MovedOn DEF Sends
    <3> QED
      BY <1>1, <2>2, <3>3
  <2>4. CASE site = "console"
    <3> DEFINE c == Call("post", calls[n].arg)
    <3>1. c.arg = calls[n].arg /\ Resume(n, <<c>>) /\ Queue(calls)
      BY <2>1, CallIsFetch DEF ChatInv, CallsFit
    <3> HIDE DEF c
    <3>2. CallsFit'
      BY <1>0, <2>1, <2>2, <3>1, ResumingOne DEF ChatInv, CallsFit, Sends
    <3>3. PICK T : T = Timed
      OBVIOUS
    <3>4. Timed' = T
      BY <2>2, <3>3 DEF Timed
    <3>5. ~crossed' => ~crossed /\ Idle(T, calls)
      BY <2>1, <2>4, <3>3 DEF Idle, Out
    <3>6. ~crossed' => Lone(T, calls')
      BY <3>1, <3>3, <3>5, LoneResumes DEF ChatInv, Busy
    <3>7. Busy'
      BY <2>1, <2>2, <2>4, <3>4, <3>6 DEF Busy, Started
    <3> QED
      BY <1>1, <2>2, <3>2, <3>7
  <2> QED
    BY <1>0, <2>3, <2>4 DEF Sited
<1>3. CASE ImagesNotRead(n)
  <2>1. calls[n].op = "read" /\ Resume(n, <<>>) /\ UNCHANGED <<formVars, history, recent>>
    BY <1>3 DEF ImagesNotRead, Asked, Over
  <2>2. \/ UNCHANGED <<sendButton, crossed>>
        \/ "read" \in Timed /\ crossed' = (crossed /\ \E m \in DOMAIN calls \ {n} : Out(m))
    BY <1>3 DEF ImagesNotRead, Over, flight, Timed
  <2> QED
    BY <1>1, <2>1, <2>2, Ended DEF Resume
<1>4. CASE TimeOut(n)
  BY <1>0, <1>4, FormStepKeeps DEF TimeOut, browserVars, formVars, FormFits, Known
<1>5. CASE FallBack(n)
  <2>1. calls[n].op = "post" /\ Resume(n, <<Call("repost", calls[n].arg)>>) /\ UNCHANGED chatVars
    BY <1>5 DEF FallBack, Asked
  <2> DEFINE c == Call("repost", calls[n].arg)
  <2>2. c.op = "repost" /\ c.arg = calls[n].arg /\ Resume(n, <<c>>)
    BY <2>1, CallIsFetch
  <2> HIDE DEF c
  <2>3. UNCHANGED <<formVars, site, sendButton, crossed, history, recent>>
    BY <2>1 DEF Resume, chatVars, flight
  <2>4. calls[n].op \in Sends /\ calls[n].op \in Timed
    BY <2>1 DEF Sends, Timed
  <2>5. CallsFit' /\ Busy'
    BY <1>0, <2>2, <2>3, <2>4, MovedOn
  <2> QED
    BY <1>1, <2>3, <2>5
<1>6. ASSUME calls[n].op \in {"post", "repost", "text", "stream"}, Over(n), UNCHANGED <<formVars>>,
             Remember(calls[n].arg) \/ UNCHANGED <<history, recent>>
      PROVE  ChatInv'
  <2>1. /\ Resume(n, <<>>) /\ calls[n].op \in Timed /\ calls[n].op \in Sends
        /\ crossed' = (crossed /\ \E m \in DOMAIN calls \ {n} : Out(m))
    BY <1>6 DEF Over, Timed, Sends
  <2>2. UNCHANGED site
    BY <2>1 DEF Resume
  <2>3. CallsFit' /\ Busy'
    BY <2>1, <2>2, Ended
  <2>4. StoreFits'
    <3>1. CASE Remember(calls[n].arg)
      BY <1>0, <2>1, <2>2, <3>1, Remembered
    <3>2. CASE UNCHANGED <<history, recent>>
      BY <1>0, <2>2, <3>2 DEF StoreFits
    <3> QED
      BY <1>6, <3>1, <3>2
  <2> QED
    BY <1>1, <1>6, <2>2, <2>3, <2>4
<1>7. CASE SendFails(n)
  BY <1>6, <1>7 DEF SendFails, SendFailed, Asked
<1>8. CASE Opened(n)
  <2>1. calls[n].op \in {"post", "repost"} /\ UNCHANGED <<formVars, sendButton, crossed, history, recent>>
    BY <1>8 DEF Opened, Asked, flight
  <2>2. PICK op \in {"stream", "text"} : Resume(n, <<Call(op, calls[n].arg)>>)
    BY <1>8 DEF Opened
  <2>3. Call(op, calls[n].arg).op = op /\ Call(op, calls[n].arg).arg = calls[n].arg
    BY CallIsFetch
  <2>4. CallsFit' /\ Busy'
    BY <1>0, <2>1, <2>2, <2>3, MovedOn DEF Resume, Sends, Timed
  <2> QED
    BY <1>1, <2>1, <2>2, <2>4 DEF Resume
<1>9. CASE StreamDone(n)
  BY <1>6, <1>9 DEF StreamDone, SendDone, Asked
<1>10. CASE TextRead(n)
  BY <1>6, <1>10 DEF TextRead, SendDone, Asked
<1> QED
  BY <1>2, <1>3, <1>4, <1>5, <1>7, <1>8, <1>9, <1>10

\* So the invariant holds through every step of the pane.
LEMMA ChatInvStep == ChatInv /\ [ChatStep]_<<browserVars, chatVars>> => ChatInv'
<1> SUFFICES ASSUME ChatInv, [ChatStep]_<<browserVars, chatVars>> PROVE ChatInv'
  OBVIOUS
<1>1. CASE UNCHANGED <<calls, site, chatVars>>
  BY <1>1, FormStepKeeps DEF ChatInv, FormFits, Known, chatVars, formVars, flight
<1>2. CASE ChatTestNext
  BY <1>2, FormKeeps, LoadsKeep, ReloadKeeps, ClickKeeps, HandlersKeep
     DEF ChatTestNext, ConsoleForm, ConsoleLoads, ConsoleChat, DemoChat, SendHandlers
<1> QED
  BY <1>1, <1>2 DEF ChatStep, Denied, browserVars

\* At most one of several is at most one.
LEMMA AtMostOne ==
  ASSUME NEW S, \A x, y \in S : x = y
  PROVE  Cardinality(S) <= 1
<1>1. CASE S = {}
  BY <1>1, FS_EmptySet
<1>2. CASE S # {}
  <2>1. PICK x : S = {x}
    BY <1>2
  <2> QED
    BY <2>1, FS_Singleton
<1> QED
  BY <1>1, <1>2

\* While a send is out the button is off and no second one starts, for any modes,
\* models and price lists, with a reload of the page, fallbacks and timeouts at
\* any moment; sends run side by side only after the console has read reference
\* images while another one was out, and until the last of them is over
\* (chatTestSendBtn's listener, app.js).
THEOREM SendAlone == ChatSpec => []OneSendAtATime
<1>1. ChatInv => OneSendAtATime
  <2> SUFFICES ASSUME ChatInv PROVE OneSendAtATime
    OBVIOUS
  <2>1. ~crossed => Lone(Timed, calls) /\ (sendButton = "off" \/ Idle(Timed, calls))
    BY DEF ChatInv, Busy
  <2>2. ~crossed => \A x, y \in InFlight : x = y
    BY <2>1 DEF InFlight, Out, Lone
  <2>3. ~crossed => (InFlight # {} => sendButton = "off")
    BY <2>1 DEF InFlight, Out, Idle
  <2> QED
    BY <2>2, <2>3, AtMostOne DEF OneSendAtATime, ChatInv, Busy
<1> QED
  BY <1>1, ChatInvInit, ChatInvStep, PTL DEF ChatSpec

\* In the console the history and the recent configuration of a mode whose
\* requests name their model hold a model that suits the mode, for any listings,
\* however the form is changed while a send is out
\* (rememberChatTestHistory, applyRecentChatTestConfig).
THEOREM RestoredSuits == ChatSpec => []HistoryReplays
<1>1. ChatInv => HistoryReplays
  BY DEF ChatInv, StoreFits, Fits, Suits, HistoryReplays
<1> QED
  BY <1>1, ChatInvInit, ChatInvStep, PTL DEF ChatSpec

-----------------------------------------------------------------------------
\* The stream of an answer.

Tokens == {"data", "other", "nl"} \cup SseModes \cup Texts

\* taken holds what TakeLines has after each token of the text.
Takes(taken, text, mode, pieces, m) ==
  /\ taken[0] = [open |-> <<>>, said |-> pieces]
  /\ \A i \in 1 .. m : taken[i] = TakeToken(mode, taken[i - 1], text[i])

\* The recursion of TakeLines has a solution, and may be unfolded.
LEMMA TakenIs ==
  ASSUME NEW text, NEW n \in Nat, Len(text) = n, NEW mode, NEW pieces
  PROVE  \E taken : Takes(taken, text, mode, pieces, n) /\ TakeLines(text, mode, pieces) = taken[n]
<1> DEFINE base == [open |-> <<>>, said |-> pieces]
           Unfold(t, m) == [i \in 0 .. m |-> IF i = 0 THEN base ELSE TakeToken(mode, t[i - 1], text[i])]
           Has(m) == \E t : t = Unfold(t, m)
           Bad == {m \in 0 .. n : ~ Has(m)}
<1>1. Bad = {}
  <2> SUFFICES ASSUME Bad # {} PROVE FALSE
    OBVIOUS
  <2>1. PICK m \in Bad : \A k \in Bad : m <= k
    <3>1. Bad \in SUBSET Nat
      OBVIOUS
    <3> HIDE DEF Bad
    <3> QED
      BY <3>1, LeastNatural
  <2>2. m # 0
    <3>1. [i \in {0} |-> base] = Unfold([i \in {0} |-> base], 0)
      OBVIOUS
    <3> QED
      BY <3>1
  <2>a. Has(m - 1)
    <3> HIDE DEF Has
    <3> QED
      BY <2>1, <2>2
  <2>3. PICK t : t = Unfold(t, m - 1)
    BY <2>a
  <2> DEFINE u == [i \in 0 .. m |-> IF i = m THEN TakeToken(mode, t[m - 1], text[m]) ELSE t[i]]
  <2>4. u = Unfold(u, m)
    <3> SUFFICES ASSUME NEW i \in 0 .. m
                 PROVE  u[i] = IF i = 0 THEN base ELSE TakeToken(mode, u[i - 1], text[i])
      OBVIOUS
    <3>1. CASE i = m
      BY <2>2, <3>1
    <3>2. CASE i # m
      <4>1. i \in 0 .. (m - 1)
        BY <3>2
      <4>2. u[i] = t[i] /\ t[i] = IF i = 0 THEN base ELSE TakeToken(mode, t[i - 1], text[i])
        BY <2>3, <3>2, <4>1
      <4>3. i # 0 => u[i - 1] = t[i - 1]
        BY <4>1
      <4> HIDE DEF u
      <4> QED
        BY <4>2, <4>3
    <3> QED
      BY <3>1, <3>2
  <2>5. Has(m)
    BY <2>4
  <2> HIDE DEF Has
  <2> QED
    BY <2>1, <2>5
<1>a. Has(n)
  <2> HIDE DEF Has
  <2> QED
    BY <1>1
<1>2. \E t : t = Unfold(t, n)
  BY <1>a
<1> DEFINE taken == CHOOSE t : t = Unfold(t, n)
<1>3. taken = Unfold(taken, n)
  <2> HIDE DEF Unfold
  <2> QED
    BY <1>2
<1>4. TakeLines(text, mode, pieces) = taken[n]
  BY DEF TakeLines
<1> HIDE DEF taken
<1>5. Takes(taken, text, mode, pieces, n)
  <2>1. taken[0] = base
    BY <1>3
  <2>2. ASSUME NEW i \in 1 .. n PROVE taken[i] = TakeToken(mode, taken[i - 1], text[i])
    <3>1. i \in 0 .. n /\ i # 0
      OBVIOUS
    <3> QED
      BY <1>3, <3>1
  <2> QED
    BY <2>1, <2>2 DEF Takes
<1> QED
  BY <1>4, <1>5

\* The same of what the body says.
LEMMA ToldIs ==
  ASSUME body \in Seq(Tokens)
  PROVE  /\ Told[0] = <<>>
         /\ \A i \in 1 .. Len(body) : Told[i] = IF i - 2 \in Sayings THEN Append(Told[i - 1], body[i]) ELSE Told[i - 1]
<1> DEFINE n == Len(body)
           Unfold(t, m) == [i \in 0 .. m |-> IF i = 0 THEN <<>> ELSE
                              IF i - 2 \in Sayings THEN Append(t[i - 1], body[i]) ELSE t[i - 1]]
           Has(m) == \E t : t = Unfold(t, m)
           Bad == {m \in 0 .. n : ~ Has(m)}
<1>b. n \in Nat
  OBVIOUS
<1> HIDE DEF n
<1>1. Bad = {}
  <2> SUFFICES ASSUME Bad # {} PROVE FALSE
    OBVIOUS
  <2>1. PICK m \in Bad : \A k \in Bad : m <= k
    <3>1. Bad \in SUBSET Nat
      BY <1>b
    <3> HIDE DEF Bad
    <3> QED
      BY <3>1, LeastNatural
  <2>2. m # 0
    <3>1. [i \in {0} |-> <<>>] = Unfold([i \in {0} |-> <<>>], 0)
      OBVIOUS
    <3> QED
      BY <3>1
  <2>a. Has(m - 1)
    <3> HIDE DEF Has
    <3> QED
      BY <1>b, <2>1, <2>2
  <2>3. PICK t : t = Unfold(t, m - 1)
    BY <2>a
  <2> DEFINE u == [i \in 0 .. m |-> IF i = m THEN IF i - 2 \in Sayings THEN Append(t[i - 1], body[i]) ELSE t[i - 1]
                                             ELSE t[i]]
  <2>4. u = Unfold(u, m)
    <3> SUFFICES ASSUME NEW i \in 0 .. m
                 PROVE  u[i] = IF i = 0 THEN <<>> ELSE IF i - 2 \in Sayings THEN Append(u[i - 1], body[i]) ELSE u[i - 1]
      OBVIOUS
    <3>1. CASE i = m
      BY <2>2, <3>1
    <3>2. CASE i # m
      <4>1. i \in 0 .. (m - 1)
        BY <3>2
      <4>2. u[i] = t[i] /\ t[i] = IF i = 0 THEN <<>> ELSE IF i - 2 \in Sayings THEN Append(t[i - 1], body[i]) ELSE t[i - 1]
        BY <2>3, <3>2, <4>1
      <4>3. i # 0 => u[i - 1] = t[i - 1]
        BY <4>1
      <4> HIDE DEF u
      <4> QED
        BY <4>2, <4>3
    <3> QED
      BY <3>1, <3>2
  <2>5. Has(m)
    BY <2>4
  <2> HIDE DEF Has
  <2> QED
    BY <2>1, <2>5
<1>a. Has(n)
  <2> HIDE DEF Has
  <2> QED
    BY <1>b, <1>1
<1>2. \E t : t = Unfold(t, n)
  BY <1>a
<1>3. Told = CHOOSE t : t = Unfold(t, n)
  BY DEF Told, n
<1>4. Told = Unfold(Told, n)
  <2> HIDE DEF Unfold
  <2> QED
    BY <1>2, <1>3, Zenon
<1> DEFINE p == Told
<1>5. p = Unfold(p, n)
  BY <1>4
<1> HIDE DEF p
<1>6. p[0] = <<>>
  BY <1>b, <1>5
<1>7. ASSUME NEW i \in 1 .. n PROVE p[i] = IF i - 2 \in Sayings THEN Append(p[i - 1], body[i]) ELSE p[i - 1]
  <2>1. i \in 0 .. n /\ i # 0
    OBVIOUS
  <2> QED
    BY <1>5, <2>1
<1> QED
  BY <1>6, <1>7 DEF p, n

\* A saying ends before the next line or with the body.
LEMMA SayingAt ==
  ASSUME NEW i \in Sayings, body \in Seq(Tokens), apiMode \in SseModes
  PROVE  /\ i \in Nat /\ i >= 1 /\ i + 2 <= Len(body)
         /\ body[i] = "data" /\ body[i + 1] = apiMode /\ body[i + 2] \in Texts
         /\ body[i] # "nl" /\ body[i + 1] # "nl" /\ body[i + 2] # "nl"
         /\ i = 1 \/ body[i - 1] = "nl"
         /\ i + 3 > Len(body) \/ body[i + 3] = "nl"
BY StreamAssumption DEF Sayings, SseModes

\* Where nothing more is said, nothing is added.
LEMMA ToldSame ==
  ASSUME body \in Seq(Tokens), NEW m \in 0 .. Len(body), NEW n \in m .. Len(body),
         \A j \in (m + 1) .. n : j - 2 \notin Sayings
  PROVE  Told[n] = Told[m]
<1> DEFINE Bad == {j \in m .. n : Told[j] # Told[m]}
<1> SUFFICES ASSUME Bad # {} PROVE FALSE
  OBVIOUS
<1>1. PICK k \in Bad : \A j \in Bad : k <= j
  <2>1. Bad \in SUBSET Nat
    OBVIOUS
  <2> HIDE DEF Bad
  <2> QED
    BY <2>1, LeastNatural
<1>2. k # m /\ k \in (m + 1) .. n /\ k - 1 \in m .. n /\ k \in 1 .. Len(body)
  BY <1>1
<1>3. Told[k - 1] = Told[m]
  BY <1>1, <1>2
<1>4. Told[k] = Told[k - 1]
  BY <1>2, ToldIs
<1> QED
  BY <1>1, <1>3, <1>4

\* One sequence begins another.
Begins(s, t) == \E k \in 0 .. Len(t) : s = SubSeq(t, 1, k)

\* What is said up to a token is texts, and the beginning of what is said later.
LEMMA ToldGrows ==
  ASSUME body \in Seq(Tokens), NEW m \in 0 .. Len(body)
  PROVE  \A n \in m .. Len(body) : Told[n] \in Seq(Texts) /\ Begins(Told[m], Told[n])
<1> DEFINE Odd == {j \in 0 .. Len(body) : Told[j] \notin Seq(Texts)}
           Bad == {j \in m .. Len(body) : ~ Begins(Told[m], Told[j])}
<1>1. Odd = {}
  <2> SUFFICES ASSUME Odd # {} PROVE FALSE
    OBVIOUS
  <2>1. PICK k \in Odd : \A j \in Odd : k <= j
    <3>1. Odd \in SUBSET Nat
      OBVIOUS
    <3> HIDE DEF Odd
    <3> QED
      BY <3>1, LeastNatural
  <2>2. k # 0
    <3>0. <<>> \in Seq(Texts)
      OBVIOUS
    <3>1. Told[0] \in Seq(Texts)
      BY <3>0, ToldIs
    <3> QED
      BY <2>1, <3>1
  <2>3. Told[k - 1] \in Seq(Texts)
    BY <2>1, <2>2
  <2>4. k - 2 \in Sayings => body[k] \in Texts
    BY <2>1 DEF Sayings
  <2>5. Told[k] = IF k - 2 \in Sayings THEN Append(Told[k - 1], body[k]) ELSE Told[k - 1]
    BY <2>1, <2>2, ToldIs
  <2>6. Told[k] \in Seq(Texts)
    <3> HIDE DEF Odd
    <3> QED
      BY <2>3, <2>4, <2>5
  <2> QED
    BY <2>1, <2>6
<1>2. Bad = {}
  <2> SUFFICES ASSUME Bad # {} PROVE FALSE
    OBVIOUS
  <2>1. PICK k \in Bad : \A j \in Bad : k <= j
    <3>1. Bad \in SUBSET Nat
      OBVIOUS
    <3> HIDE DEF Bad
    <3> QED
      BY <3>1, LeastNatural
  <2>2. k # m
    <3>1. Told[m] \in Seq(Texts)
      BY <1>1
    <3>2. Begins(Told[m], Told[m])
      <4>1. \A s \in Seq(Texts) : Len(s) \in 0 .. Len(s) /\ s = SubSeq(s, 1, Len(s))
        OBVIOUS
      <4> QED
        BY <3>1, <4>1 DEF Begins
    <3> QED
      BY <2>1, <3>2
  <2>3. Begins(Told[m], Told[k - 1]) /\ Told[m] \in Seq(Texts) /\ Told[k - 1] \in Seq(Texts)
    BY <1>1, <2>1, <2>2
  <2>4. k - 2 \in Sayings => body[k] \in Texts
    BY <2>1 DEF Sayings
  <2>5. Told[k] = IF k - 2 \in Sayings THEN Append(Told[k - 1], body[k]) ELSE Told[k - 1]
    BY <2>1, <2>2, ToldIs
  <2>6. Begins(Told[m], Told[k])
    <3>1. CASE k - 2 \in Sayings
      <4>1. PICK l \in 0 .. Len(Told[k - 1]) : Told[m] = SubSeq(Told[k - 1], 1, l)
        BY <2>3 DEF Begins
      <4>2. \A s \in Seq(Texts) : \A x \in Texts, j \in 0 .. Len(s) :
              j \in 0 .. Len(Append(s, x)) /\ SubSeq(Append(s, x), 1, j) = SubSeq(s, 1, j)
        OBVIOUS
      <4> QED
        BY <2>3, <2>4, <2>5, <3>1, <4>1, <4>2 DEF Begins
    <3>2. CASE k - 2 \notin Sayings
      BY <2>3, <2>5, <3>2
    <3> QED
      BY <3>1, <3>2
  <2> QED
    BY <2>1, <2>6
<1> QED
  BY <1>1, <1>2

\* What the page holds after n tokens: the line begun, and what was said before it.
Reads(n, open, heard) ==
  \E p \in 1 .. n + 1 :
    /\ open = SubSeq(body, p, n)
    /\ \A i \in p .. n : body[i] # "nl"
    /\ p = 1 \/ body[p - 1] = "nl"
    /\ heard = Told[p - 1]

\* What is left of a line after its first token.
LEMMA LongLine ==
  ASSUME NEW line \in Seq(Tokens)
  PROVE  /\ Len(line) = 3 => line # <<>>
         /\ line # <<>> => /\ Len(Tail(line)) = Len(line) - 1 /\ Len(line) \in Nat
                           /\ \A i \in 1 .. Len(line) - 1 : Tail(line)[i] = line[i + 1]
         /\ line # <<>> /\ Len(Tail(line)) = 2 =>
               Len(line) = 3 /\ Tail(line)[1] = line[2] /\ Tail(line)[2] = line[3]
         /\ Len(line) = 3 =>
               Len(Tail(line)) = 2 /\ Tail(line)[1] = line[2] /\ Tail(line)[2] = line[3]
<1>1. Len(<<>>) = 0
  OBVIOUS
<1>2. line # <<>> => /\ Len(Tail(line)) = Len(line) - 1 /\ Len(line) \in Nat
                     /\ \A i \in 1 .. Len(line) - 1 : Tail(line)[i] = line[i + 1]
  OBVIOUS
<1>3. Len(line) = 3 => line # <<>>
  BY <1>1
<1>4. line # <<>> /\ Len(line) = 3 => Tail(line)[1] = line[2] /\ Tail(line)[2] = line[3] /\ Len(Tail(line)) = 2
  BY <1>2
<1>5. line # <<>> /\ Len(Tail(line)) = 2 => Len(line) = 3
  BY <1>2
<1> QED
  BY <1>2, <1>3, <1>4, <1>5

\* A line ended says what the body says up to its end.
LEMMA LineEnds ==
  ASSUME body \in Seq(Tokens), apiMode \in SseModes, NEW n \in 0 .. Len(body), NEW open, NEW heard,
         Reads(n, open, heard), n = Len(body) \/ body[n + 1] = "nl"
  PROVE  heard \o StreamDelta(apiMode, open) = Told[n]
<1>1. PICK p \in 1 .. n + 1 : /\ open = SubSeq(body, p, n)
                              /\ \A i \in p .. n : body[i] # "nl"
                              /\ p = 1 \/ body[p - 1] = "nl"
                              /\ heard = Told[p - 1]
  BY DEF Reads
<1>2. /\ open \in Seq(Tokens) /\ Len(open) = n - p + 1
      /\ \A i \in 1 .. Len(open) : open[i] = body[p + i - 1]
  BY <1>1
<1>3. heard \in Seq(Texts)
  BY <1>1, ToldGrows
<1>4. ASSUME NEW j \in p .. n, j - 2 \in Sayings PROVE j = n /\ p = n - 2
  <2> DEFINE i == j - 2
  <2>1. /\ i \in Nat /\ i >= 1 /\ i + 2 <= Len(body)
        /\ body[i] # "nl" /\ body[i + 1] # "nl" /\ body[i + 2] # "nl"
        /\ i = 1 \/ body[i - 1] = "nl"
        /\ i + 3 > Len(body) \/ body[i + 3] = "nl"
    BY <1>4, SayingAt
  <2>2. j = n
    <3> SUFFICES ASSUME j < n PROVE FALSE
      OBVIOUS
    <3>1. i + 3 \in p .. n /\ i + 3 <= Len(body)
      OBVIOUS
    <3> QED
      BY <1>1, <2>1, <3>1
  <2>3. ~(p < i)
    <3> SUFFICES ASSUME p < i PROVE FALSE
      OBVIOUS
    <3>1. i - 1 \in p .. n /\ i # 1
      OBVIOUS
    <3> QED
      BY <1>1, <2>1, <3>1
  <2>4. ~(i < p)
    <3> SUFFICES ASSUME i < p PROVE FALSE
      OBVIOUS
    <3>1. p - 1 = i \/ p - 1 = i + 1
      OBVIOUS
    <3>2. p # 1
      BY <2>1
    <3> QED
      BY <1>1, <2>1, <3>1, <3>2
  <2> QED
    BY <2>1, <2>2, <2>3, <2>4
<1>5. CASE n - 2 \in Sayings /\ n >= p
  <2>1. p = n - 2 /\ n \in p .. n
    BY <1>4, <1>5
  <2>2. body[p] = "data" /\ body[p + 1] = apiMode /\ body[p + 2] \in Texts
    BY <1>5, <2>1, SayingAt
  <2>3. Len(open) = 3 /\ open[1] = "data" /\ open[2] = apiMode /\ open[3] = body[n] /\ body[n] \in Texts
    BY <1>2, <2>1, <2>2
  <2>4. StreamDelta(apiMode, open) = <<body[n]>>
    <3>0. open # <<>> /\ open \in Seq(Tokens)
      BY <1>2, <2>3, LongLine
    <3>1. Len(Tail(open)) = 2 /\ Tail(open)[1] = open[2] /\ Tail(open)[2] = open[3]
      BY <2>3, <3>0, LongLine
    <3> QED
      BY <2>3, <3>0, <3>1 DEF StreamDelta, SseJson
  <2>5. Told[n - 1] = Told[p - 1]
    <3>1. \A j \in ((p - 1) + 1) .. (n - 1) : j - 2 \notin Sayings
      BY <1>4
    <3>2. p - 1 \in 0 .. Len(body) /\ n - 1 \in (p - 1) .. Len(body)
      BY <2>1
    <3> QED
      BY <3>1, <3>2, ToldSame
  <2>6. Told[n] = Append(Told[n - 1], body[n])
    <3>1. n \in 1 .. Len(body)
      BY <2>1
    <3>2. Told[n] = IF n - 2 \in Sayings THEN Append(Told[n - 1], body[n]) ELSE Told[n - 1]
      BY <3>1, ToldIs
    <3> QED
      BY <1>5, <3>2
  <2> QED
    BY <1>1, <1>3, <2>3, <2>4, <2>5, <2>6
<1>6. CASE ~(n - 2 \in Sayings /\ n >= p)
  <2>1. Told[n] = Told[p - 1]
    <3>1. \A j \in ((p - 1) + 1) .. n : j - 2 \notin Sayings
      BY <1>4, <1>6
    <3>2. p - 1 \in 0 .. Len(body) /\ n \in (p - 1) .. Len(body)
      OBVIOUS
    <3> QED
      BY <3>1, <3>2, ToldSame
  <2>2. StreamDelta(apiMode, open) = <<>>
    <3> SUFFICES ASSUME StreamDelta(apiMode, open) # <<>> PROVE FALSE
      OBVIOUS
    <3>a. /\ Len(SseJson(open)) = 2
          /\ SseJson(open)[1] = apiMode /\ SseJson(open)[2] \in Texts
      BY DEF StreamDelta
    <3>b. open # <<>> /\ open[1] = "data"
      <4> SUFFICES ASSUME SseJson(open) = <<>> PROVE FALSE
        BY DEF SseJson
      <4>1. Len(SseJson(open)) = 0
        OBVIOUS
      <4> QED
        BY <3>a, <4>1
    <3>1. /\ open # <<>> /\ open[1] = "data" /\ Len(Tail(open)) = 2
          /\ Tail(open)[1] = apiMode /\ Tail(open)[2] \in Texts
      BY <3>a, <3>b DEF SseJson
    <3>c. open \in Seq(Tokens)
      BY <1>2
    <3>2. Len(open) = 3 /\ open[2] = apiMode /\ open[3] \in Texts
      BY <3>c, <3>1, LongLine
    <3>3. p = n - 2 /\ body[p] = "data" /\ body[p + 1] = apiMode /\ body[p + 2] \in Texts
      <4>0. Len(open) = n - p + 1 /\ Len(open) = 3
        BY <1>2, <3>2
      <4>a. n \in Nat /\ p \in Nat
        OBVIOUS
      <4>b. 3 = n - p + 1
        BY <4>0
      <4>c. p = n - 2
        BY <4>a, <4>b
      <4>1. p = n - 2 /\ 1 \in 1 .. Len(open) /\ 2 \in 1 .. Len(open) /\ 3 \in 1 .. Len(open)
        BY <4>0, <4>c
      <4>2. open[1] = body[p + 1 - 1] /\ open[2] = body[p + 2 - 1] /\ open[3] = body[p + 3 - 1]
        BY <1>2, <4>1
      <4>3. p + 1 - 1 = p /\ p + 2 - 1 = p + 1 /\ p + 3 - 1 = p + 2
        OBVIOUS
      <4> QED
        BY <3>1, <3>2, <4>1, <4>2, <4>3
    <3>4. p \in 1 .. Len(body) - 2 /\ (p + 3 > Len(body) \/ body[p + 3] = "nl")
      BY <3>3
    <3>5. p \in Sayings
      BY <1>1, <3>3, <3>4 DEF Sayings
    <3> QED
      BY <1>6, <3>3, <3>5
  <2> QED
    BY <1>1, <1>3, <2>1, <2>2
<1> QED
  BY <1>5, <1>6

\* One token more.
LEMMA TokenRead ==
  ASSUME body \in Seq(Tokens), apiMode \in SseModes, NEW n \in 0 .. Len(body) - 1, NEW acc,
         Reads(n, acc.open, acc.said)
  PROVE  Reads(n + 1, TakeToken(apiMode, acc, body[n + 1]).open, TakeToken(apiMode, acc, body[n + 1]).said)
<1> DEFINE c == body[n + 1]
<1>1. CASE c = "nl"
  <2>1. acc.said \o StreamDelta(apiMode, acc.open) = Told[n]
    <3>1. n \in 0 .. Len(body)
      OBVIOUS
    <3> QED
      BY <1>1, <3>1, LineEnds
  <2>2. n + 1 \in 1 .. Len(body) /\ n \in 0 .. Len(body)
    OBVIOUS
  <2>3. (n + 1) - 2 \notin Sayings
    <3>1. (n + 1) - 2 \in Sayings => body[((n + 1) - 2) + 2] # "nl"
      BY SayingAt
    <3> QED
      BY <1>1, <3>1
  <2>4. Told[n + 1] = Told[n]
    BY <2>2, <2>3, ToldIs
  <2>5. SubSeq(body, n + 2, n + 1) = <<>>
    OBVIOUS
  <2>6. Reads(n + 1, <<>>, Told[n])
    <3>1. n + 2 \in 1 .. (n + 1) + 1 /\ (n + 2) - 1 = n + 1 /\ (n + 2) .. (n + 1) = {}
      OBVIOUS
    <3> QED
      BY <1>1, <2>4, <2>5, <3>1 DEF Reads
  <2> QED
    BY <1>1, <2>1, <2>6 DEF TakeToken
<1>2. CASE c # "nl"
  <2>1. PICK p \in 1 .. n + 1 : /\ acc.open = SubSeq(body, p, n)
                                /\ \A i \in p .. n : body[i] # "nl"
                                /\ p = 1 \/ body[p - 1] = "nl"
                                /\ acc.said = Told[p - 1]
    BY DEF Reads
  <2>2. Append(acc.open, c) = SubSeq(body, p, n + 1)
    <3> DEFINE s == SubSeq(body, p, n)
               t == SubSeq(body, p, n + 1)
    <3>1. /\ s \in Seq(Tokens) /\ Len(s) = n - p + 1
          /\ \A i \in 1 .. n - p + 1 : s[i] = body[p + i - 1]
      OBVIOUS
    <3>2. /\ t \in Seq(Tokens) /\ Len(t) = n - p + 2
          /\ \A i \in 1 .. n - p + 2 : t[i] = body[p + i - 1]
      OBVIOUS
    <3>3. c \in Tokens /\ c = body[p + (n - p + 2) - 1]
      OBVIOUS
    <3> HIDE DEF s, t, c
    <3>4. Append(s, c) \in Seq(Tokens) /\ Len(Append(s, c)) = n - p + 2
      BY <3>1, <3>3
    <3>5. \A i \in 1 .. n - p + 2 : Append(s, c)[i] = t[i]
      BY <3>1, <3>2, <3>3
    <3>6. Append(s, c) = t
      BY <3>2, <3>4, <3>5
    <3> QED
      BY <2>1, <3>6 DEF s, t
  <2>3. p \in 1 .. (n + 1) + 1 /\ \A i \in p .. n + 1 : body[i] # "nl"
    BY <1>2, <2>1
  <2>4. Reads(n + 1, Append(acc.open, c), acc.said)
    BY <2>1, <2>2, <2>3 DEF Reads
  <2> QED
    BY <1>2, <2>4 DEF TakeToken
<1> QED
  BY <1>1, <1>2

\* So one chunk more, wherever it ends.
LEMMA ChunkRead ==
  ASSUME body \in Seq(Tokens), apiMode \in SseModes, NEW n \in 0 .. Len(body),
         NEW k \in (n + 1) .. Len(body), NEW open, NEW heard, Reads(n, open, heard)
  PROVE  LET taken == TakeLines(open \o SubSeq(body, n + 1, k), apiMode, heard)
         IN Reads(k, taken.open, taken.said)
<1>1. PICK p \in 1 .. n + 1 : /\ open = SubSeq(body, p, n)
                              /\ \A i \in p .. n : body[i] # "nl"
                              /\ p = 1 \/ body[p - 1] = "nl"
                              /\ heard = Told[p - 1]
  BY DEF Reads
<1> DEFINE text == open \o SubSeq(body, n + 1, k)
           m == k - p + 1
<1>2. text \in Seq(Tokens) /\ Len(text) = m /\ m \in Nat
  BY <1>1
<1>3. \A i \in 1 .. m : text[i] = body[p - 1 + i]
  BY <1>1
<1> HIDE DEF text
<1>4. PICK taken : Takes(taken, text, apiMode, heard, m) /\ TakeLines(text, apiMode, heard) = taken[m]
  BY <1>2, TakenIs
<1> DEFINE Bad == {i \in 0 .. m : ~ Reads(p - 1 + i, taken[i].open, taken[i].said)}
<1>5. Bad = {}
  <2> SUFFICES ASSUME Bad # {} PROVE FALSE
    OBVIOUS
  <2>1. PICK i \in Bad : \A j \in Bad : i <= j
    <3>1. Bad \in SUBSET Nat
      OBVIOUS
    <3> HIDE DEF Bad
    <3> QED
      BY <3>1, LeastNatural
  <2>2. i # 0
    <3>1. taken[0].open = <<>> /\ taken[0].said = heard
      BY <1>4 DEF Takes
    <3>2. SubSeq(body, p, p - 1) = <<>> /\ p \in 1 .. (p - 1) + 1 /\ p .. p - 1 = {}
      OBVIOUS
    <3>3. Reads(p - 1, <<>>, heard)
      BY <1>1, <3>2 DEF Reads
    <3> QED
      BY <2>1, <3>1, <3>3
  <2>3. i \in 1 .. m /\ i - 1 \in 0 .. m /\ i - 1 \notin Bad
    BY <2>1, <2>2
  <2>4. Reads(p - 1 + (i - 1), taken[i - 1].open, taken[i - 1].said)
    BY <2>3
  <2>5. p - 1 + (i - 1) \in 0 .. Len(body) - 1 /\ p - 1 + (i - 1) + 1 = p - 1 + i
    BY <2>3
  <2>6. taken[i] = TakeToken(apiMode, taken[i - 1], body[p - 1 + i])
    BY <1>3, <1>4, <2>3 DEF Takes
  <2>7. Reads(p - 1 + i, taken[i].open, taken[i].said)
    <3> DEFINE q == p - 1 + (i - 1)
    <3>1. q \in 0 .. Len(body) - 1 /\ q + 1 = p - 1 + i /\ Reads(q, taken[i - 1].open, taken[i - 1].said)
      BY <2>4, <2>5
    <3> HIDE DEF q
    <3>2. Reads(q + 1, TakeToken(apiMode, taken[i - 1], body[q + 1]).open,
                       TakeToken(apiMode, taken[i - 1], body[q + 1]).said)
      BY <3>1, TokenRead
    <3> QED
      BY <2>6, <3>1, <3>2
  <2> QED
    BY <2>1, <2>7
<1>6. m \in 0 .. m /\ p - 1 + m = k
  BY <1>2
<1>7. Reads(k, taken[m].open, taken[m].said)
  BY <1>5, <1>6
<1> QED
  BY <1>4, <1>7 DEF text

\* What the page shows is what was said before the line it has begun.
StreamInv ==
  /\ apiMode \in SseModes /\ body \in Seq(Tokens) /\ read \in 0 .. Len(body)
  /\ stream \in {"open", "done", "aborted"}
  /\ stream = "open" => Reads(read, buffer, said)
  /\ StreamWhole

\* The page starts in order.
LEMMA StreamInvInit ==
  BrowserInit({"console", "demo"}) /\ StreamInit(SseModes, Streams) => StreamInv
<1> SUFFICES ASSUME StreamInit(SseModes, Streams) PROVE StreamInv
  OBVIOUS
<1>1. /\ apiMode \in SseModes /\ body \in Seq(Tokens) /\ Len(body) \in Nat
      /\ read = 0 /\ buffer = <<>> /\ said = <<>> /\ stream = "open"
  BY StreamAssumption DEF StreamInit, Tokens
<1>2. Told[0] = <<>>
  BY <1>1, ToldIs
<1>3. Reads(0, <<>>, <<>>)
  <2>1. SubSeq(body, 1, 0) = <<>> /\ 1 \in 1 .. 0 + 1 /\ 1 - 1 = 0 /\ 1 .. 0 = {}
    BY <1>1
  <2> QED
    BY <1>2, <2>1 DEF Reads
<1>4. Begins(said, Transcript)
  <2>1. 0 \in 0 .. Len(body) /\ Len(body) \in 0 .. Len(body)
    BY <1>1
  <2> QED
    BY <1>1, <1>2, <2>1, ToldGrows DEF Transcript
<1> QED
  BY <1>1, <1>3, <1>4 DEF StreamInv, StreamWhole, Begins

\* What the page holds is a beginning of what the stream says.
LEMMA ReadsPrefix ==
  ASSUME body \in Seq(Tokens), NEW n \in 0 .. Len(body), NEW open, NEW heard, Reads(n, open, heard)
  PROVE  Begins(heard, Transcript)
<1>1. PICK p \in 1 .. n + 1 : heard = Told[p - 1]
  BY DEF Reads
<1>2. p - 1 \in 0 .. Len(body) /\ Len(body) \in (p - 1) .. Len(body)
  OBVIOUS
<1> QED
  BY <1>1, <1>2, ToldGrows DEF Transcript

\* The body and what it says are the same after a step of the reader.
LEMMA SameBody ==
  ASSUME UNCHANGED <<apiMode, body>>
  PROVE  /\ Told' = Told /\ Transcript' = Transcript
         /\ \A n, open, heard : Reads(n, open, heard)' <=> Reads(n, open, heard)
<1>1. Sayings' = Sayings
  BY DEF Sayings
<1>2. Told' = Told
  BY <1>1 DEF Told
<1> QED
  BY <1>2 DEF Transcript, Reads

\* Every step keeps the page in order.
LEMMA StreamInvStep ==
  ASSUME StreamInv, [StreamNext]_<<browserVars, streamVars>>
  PROVE  StreamInv'
<1>1. CASE UNCHANGED streamVars
  <2>1. UNCHANGED <<apiMode, body>>
    BY <1>1 DEF streamVars
  <2> QED
    BY <1>1, <2>1, SameBody DEF streamVars, StreamInv, StreamWhole, Reads
<1>2. CASE Chunk
  <2>1. PICK k \in (read + 1) .. Len(body) :
          LET taken == TakeLines(buffer \o SubSeq(body, read + 1, k), apiMode, said)
          IN read' = k /\ buffer' = taken.open /\ said' = taken.said
    BY <1>2 DEF Chunk
  <2>2. UNCHANGED <<apiMode, body, stream>> /\ stream = "open"
    BY <1>2 DEF Chunk
  <2>3. Reads(k, buffer', said')
    BY <2>1, <2>2, ChunkRead DEF StreamInv
  <2>4. k \in 0 .. Len(body)
    BY <2>1 DEF StreamInv
  <2>5. Begins(said', Transcript)
    BY <2>3, <2>4, ReadsPrefix DEF StreamInv
  <2> QED
    BY <2>1, <2>2, <2>3, <2>4, <2>5, SameBody DEF StreamInv, StreamWhole, Begins
<1>3. CASE EndOfStream
  <2>1. /\ read = Len(body) /\ stream = "open" /\ said' = said \o StreamDelta(apiMode, buffer)
        /\ stream' = "done" /\ UNCHANGED <<apiMode, body, read, buffer>>
    BY <1>3 DEF EndOfStream
  <2>2. said' = Transcript
    BY <2>1, LineEnds DEF StreamInv, Transcript
  <2>3. Begins(Transcript, Transcript)
    <3>1. Len(body) \in 0 .. Len(body) /\ Len(body) \in Len(body) .. Len(body)
      BY DEF StreamInv
    <3> QED
      BY <3>1, ToldGrows DEF StreamInv, Transcript
  <2> QED
    BY <2>1, <2>2, <2>3, SameBody DEF StreamInv, StreamWhole, Begins
<1>4. CASE AbortStream
  BY <1>4, SameBody DEF AbortStream, StreamInv, StreamWhole
<1> QED
  BY <1>1, <1>2, <1>3, <1>4 DEF StreamNext, ConsolePumpSse, DemoPumpSse, PumpSse, streamVars

\* However the network cuts the stream, what is shown is always a beginning of
\* what it says, and all of it at the end, the last unterminated line included:
\* for any bodies, texts, API modes and cuts (pumpChatTestSse, web/console/js/app.js).
THEOREM StreamShown == StreamSpec => []StreamWhole
<1>1. StreamInv => StreamWhole
  BY DEF StreamInv
<1> QED
  BY <1>1, StreamInvInit, StreamInvStep, PTL DEF StreamSpec

=============================================================================
