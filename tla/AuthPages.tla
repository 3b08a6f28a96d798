----------------------------- MODULE AuthPages -----------------------------
(***************************************************************************)
(* Login, administrator login, registration and password reset, in the     *)
(* console and in the demo.  A 401 here means wrong credentials: it clears *)
(* what is stored and the page stays.                                      *)
(***************************************************************************)
EXTENDS Browser

CONSTANTS
  Users, Admins,  \* who may type credentials; the administrators among them
  DefaultTtl, MaxTtl,  \* cooldown when the answer names none, and its cap
  Ttls  \* what the answer may name; Nil is no number

ASSUME TtlAssumption ==
  MaxTtl \in Nat /\ DefaultTtl \in 1 .. MaxTtl /\ Ttls \subseteq Nat \cup {Nil}

VARIABLES
  place,   \* the page shown
  access, refresh,  \* localStorage: the login each token comes from
  button,  \* "send code": "on", "off"
  ticking, left  \* its countdown: an interval runs, seconds left

authVars == <<place, access, refresh, button, ticking, left>>

\* What an earlier sign-in left.  Signing out and the 401 of the other pages
\* remove the access token only, so the console comes here with an old refresh
\* token, alone or, when the page is opened by its address, with its pair.
Earlier(u) == [who |-> u, login |-> 0]
LeftBehind ==
  {<<Nil, Nil>>} \cup (IF site = "console" THEN {<<Nil, Earlier(u)>> : u \in Users} ELSE {})
                 \cup {<<Earlier(u), IF site = "console" THEN Earlier(u) ELSE Nil>> : u \in Users}

AuthInit ==
  /\ place \in {"login", "register", "reset"} \cup (IF site = "console" THEN {"adminLogin"} ELSE {})
  /\ \E stored \in LeftBehind : access = stored[1] /\ refresh = stored[2]
  /\ button = "on" /\ ticking = FALSE /\ left = 0

Here(p) == place = p /\ session = "in"

\* Every form sends at each submit: nothing disables its button.
Submit(p, op) ==
  /\ Here(p)
  /\ \E u \in Users : Gesture(<<Call(op, [who |-> u, login |-> clicks + 1])>>)
  /\ UNCHANGED authVars

\* (Mutant: a refresh token that is there is kept.)
SaveTokensKeeping(login) ==
  /\ access' = login
  /\ refresh' = IF site = "console" /\ refresh = Nil THEN login ELSE refresh

SaveTokensFromData(login) ==
  /\ access' = login
  /\ refresh' = IF site = "console" THEN login ELSE refresh

ClearAuthStorage == access' = Nil /\ refresh' = Nil

\* apiPost: 401 clears both tokens; any other failure leaves them.  The demo's
\* send tells failures apart no further.
Refused(n, op) ==
  /\ Asked(n, op) /\ Resume(n, <<>>)
  /\ \/ site = "console" /\ ClearAuthStorage
     \/ UNCHANGED <<access, refresh>>
  /\ UNCHANGED <<place, button, ticking, left>>

LoggedIn(n) ==
  /\ Here("login") /\ Asked(n, "login") /\ Resume(n, <<>>)
  /\ SaveTokensFromData(calls[n].arg) /\ place' = "app"
  /\ UNCHANGED <<button, ticking, left>>

\* The administrator's page asks for the profile with the token just stored.
AdminLoggedIn(n) ==
  /\ Here("adminLogin") /\ Asked(n, "login")
  /\ SaveTokensFromData(calls[n].arg)
  /\ Resume(n, <<Call("profile", calls[n].arg)>>)
  /\ UNCHANGED <<place, button, ticking, left>>

ProfileFetched(n) ==
  /\ Here("adminLogin") /\ Asked(n, "profile") /\ Resume(n, <<>>)
  /\ IF calls[n].arg.who \in Admins
     THEN place' = "admin" /\ UNCHANGED <<access, refresh>>
     ELSE ClearAuthStorage /\ UNCHANGED place
  /\ UNCHANGED <<button, ticking, left>>

Registered(n) ==
  /\ Here("register") /\ Asked(n, "register") /\ Resume(n, <<>>)
  /\ SaveTokensFromData(calls[n].arg) /\ place' = "app"
  /\ UNCHANGED <<button, ticking, left>>

\* After a reset the page waits 800 ms, then goes to the login page.
PasswordReset(n) ==
  /\ Here("reset") /\ Asked(n, "reset")
  /\ Resume(n, <<Call("wait", Nil)>>)
  /\ UNCHANGED authVars

GoToLogin(n) ==
  /\ Here("reset") /\ Asked(n, "wait") /\ Resume(n, <<>>)
  /\ place' = "leaving"
  /\ UNCHANGED <<access, refresh, button, ticking, left>>

-----------------------------------------------------------------------------
\* The "send code" button of registration and reset.

\* (Mutant: only the cap is applied.)
CooldownSecondsCapped(ttl) ==
  IF ttl = Nil THEN DefaultTtl ELSE IF ttl > MaxTtl THEN MaxTtl ELSE ttl

CooldownSecondsFromData(ttl) ==
  IF ttl = Nil THEN DefaultTtl
  ELSE IF ttl < 1 THEN DefaultTtl ELSE IF ttl > MaxTtl THEN MaxTtl ELSE ttl

RestoreSendCodeButton == ticking' = FALSE /\ button' = "on" /\ left' = 0

\* The first tick runs at once, before the interval is set.
StartSendCodeCooldown(seconds) ==
  /\ ticking' = TRUE
  /\ IF seconds <= 0 THEN button' = "on" /\ left' = 0
                     ELSE button' = "off" /\ left' = seconds - 1

SendCode ==
  /\ Here("register") \/ Here("reset")
  /\ button = "on" /\ button' = "off"
  /\ Gesture(<<Call("code", Nil)>>)
  /\ UNCHANGED <<place, access, refresh, ticking, left>>

CodeSent(n) ==
  /\ Here("register") \/ Here("reset")
  /\ Asked(n, "code") /\ Resume(n, <<>>)
  /\ \E ttl \in Ttls : StartSendCodeCooldown(CooldownSecondsFromData(ttl))
  /\ UNCHANGED <<place, access, refresh>>

\* (Mutant: the button is forgotten when the code is refused.)
CodeNotSentSilently(n) ==
  /\ Asked(n, "code") /\ Resume(n, <<>>)
  /\ UNCHANGED <<place, access, refresh, button, ticking, left>>

\* A failure, or the demo's "already registered", gives the button back.
CodeNotSent(n) ==
  /\ Asked(n, "code") /\ Resume(n, <<>>)
  /\ RestoreSendCodeButton
  /\ \/ site = "console" /\ ClearAuthStorage
     \/ UNCHANGED <<access, refresh>>
  /\ UNCHANGED place

Tick ==
  /\ Here("register") \/ Here("reset")
  /\ ticking
  /\ IF left = 0 THEN RestoreSendCodeButton ELSE left' = left - 1 /\ UNCHANGED <<ticking, button>>
  /\ UNCHANGED <<place, access, refresh>> /\ UNCHANGED browserVars

-----------------------------------------------------------------------------
\* The pages.  Those of the demo know no administrator, keep no refresh token
\* and clear nothing when they are refused.

ConsolePage(p) == Here(p) /\ site = "console"
DemoPage(p) == Here(p) /\ site = "demo"

LoginHandlers ==
  Submit("login", "login") \/ \E n \in DOMAIN calls : LoggedIn(n) \/ Refused(n, "login")

AdminLoginPage ==
  /\ ConsolePage("adminLogin")
  /\ \/ Submit("adminLogin", "login")
     \/ \E n \in DOMAIN calls :
          AdminLoggedIn(n) \/ ProfileFetched(n) \/ Refused(n, "login") \/ Refused(n, "profile")

CodeHandlers == SendCode \/ Tick \/ \E n \in DOMAIN calls : CodeSent(n) \/ CodeNotSent(n)

RegisterHandlers ==
  \/ CodeHandlers \/ Submit("register", "register")
  \/ \E n \in DOMAIN calls : Registered(n) \/ Refused(n, "register")

ResetHandlers ==
  \/ CodeHandlers \/ Submit("reset", "reset")
  \/ \E n \in DOMAIN calls : PasswordReset(n) \/ GoToLogin(n) \/ Refused(n, "reset")

LoginPage == ConsolePage("login") /\ LoginHandlers
RegisterPage == ConsolePage("register") /\ RegisterHandlers
ResetPage == ConsolePage("reset") /\ ResetHandlers
DemoLoginPage == DemoPage("login") /\ LoginHandlers
DemoRegisterPage == DemoPage("register") /\ RegisterHandlers
DemoResetPage == DemoPage("reset") /\ ResetHandlers

AuthNext ==
  \/ LoginPage \/ AdminLoginPage \/ RegisterPage \/ ResetPage
  \/ DemoLoginPage \/ DemoRegisterPage \/ DemoResetPage

AuthSpec == BrowserInit({"console", "demo"}) /\ AuthInit /\ [][AuthNext]_<<browserVars, authVars>>

-----------------------------------------------------------------------------

\* An access token is stored only beside the refresh token of the same login,
\* however the answers of several submits, the profile and refusals follow each
\* other, and whatever refresh token an earlier session left behind.
TokensPaired == site = "console" /\ access # Nil => refresh = access

\* A countdown never runs under a button that can be clicked, whatever number
\* of seconds the server names: its ticks would fall into a later cooldown and
\* give the button back before that one is over.
NoStrayCountdown == ticking => button = "off"
=============================================================================
