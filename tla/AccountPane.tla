---------------------------- MODULE AccountPane ----------------------------
(***************************************************************************)
(* The user's account on the console: balance, balance alert, redemption.  *)
(***************************************************************************)
EXTENDS Browser

CONSTANTS
  MicroPerUsd,  \* 10^6 in the code
  Typed,        \* what the user may type, in tenths of a micro-dollar
  MinAlert,     \* $0.01, in the same unit
  DefaultAlert, \* $10, shown for a threshold that is not positive
  Codes, Worth  \* redeem codes and the micro-dollars each is worth

ASSUME AccountAssumption == MicroPerUsd \in Nat \ {0} /\ Worth \in Nat

VARIABLES
  balance, threshold, used,  \* server: micro-dollars, micro-dollars, spent codes
  kpi,          \* the balance as shown: dollars and six decimals
  form,         \* the threshold's input field
  typing,       \* the user has typed since it was filled
  alertMsg, redeemMsg,  \* "", "ok" or "err"
  asked, shown  \* number of the last profile asked for, and of the one drawn

accountVars == <<balance, threshold, used, kpi, form, typing, alertMsg, redeemMsg, asked, shown>>

UsdFromMicroStr(micro) == <<micro \div MicroPerUsd, micro % MicroPerUsd>>

\* Math.round: halves go up.
UsdInputToMicroStr(tenths) == (tenths + 5) \div 10
ThresholdInput(micro) == IF micro > 0 THEN micro * 10 ELSE DefaultAlert

AccountInit ==
  /\ balance = MicroPerUsd - 1 /\ threshold = MinAlert /\ used = {}
  /\ kpi = UsdFromMicroStr(balance) /\ form = ThresholdInput(threshold)
  /\ typing = FALSE /\ alertMsg = "" /\ redeemMsg = ""
  /\ asked = 0 /\ shown = 0

Profile(from) == Call("profile", [load |-> asked + 1, from |-> from])

\* "refresh" loads everything again.
RefreshAccount ==
  /\ Gesture(<<Profile("refresh")>>)
  /\ asked' = asked + 1
  /\ UNCHANGED <<balance, threshold, used, kpi, form, typing, alertMsg, redeemMsg, shown>>

TypeThreshold ==
  /\ Local /\ form' \in Typed /\ typing' = TRUE
  /\ UNCHANGED <<balance, threshold, used, kpi, alertMsg, redeemMsg, asked, shown>>

SubmitBalanceAlert ==
  \/ /\ form < MinAlert /\ Local
     /\ alertMsg' = "err"
     /\ UNCHANGED <<balance, threshold, used, kpi, form, typing, redeemMsg, asked, shown>>
  \/ /\ form >= MinAlert
     /\ Gesture(<<Call("alert", UsdInputToMicroStr(form))>>)
     /\ UNCHANGED accountVars

SubmitRedeem ==
  /\ \E c \in Codes : Gesture(<<Call("redeem", c)>>)
  /\ UNCHANGED accountVars

AccountServer(n) ==
  /\ \/ /\ Asked(n, "alert")
        /\ threshold' = calls[n].arg /\ UNCHANGED <<balance, used>>
     \/ /\ Asked(n, "redeem") /\ calls[n].arg \notin used
        /\ used' = used \cup {calls[n].arg} /\ balance' = balance + Worth
        /\ UNCHANGED threshold
  /\ \E st \in {"ok", "lost"} : Reply(n, st, Nil)
  /\ UNCHANGED <<kpi, form, typing, alertMsg, redeemMsg, asked, shown>>

AnswerProfile(n) ==
  /\ Asked(n, "profile")
  /\ Reply(n, "ok", [balance |-> balance, threshold |-> threshold])
  /\ UNCHANGED accountVars

\* The profile also fills the alert's form, over what the user is typing.
LoadProfile(n) ==
  /\ Answered(n, "profile", "ok") /\ Resume(n, <<>>)
  /\ kpi' = UsdFromMicroStr(calls[n].val.balance)
  /\ form' = ThresholdInput(calls[n].val.threshold)
  /\ typing' = FALSE /\ shown' = calls[n].arg.load
  /\ UNCHANGED <<balance, threshold, used, alertMsg, redeemMsg, asked>>

\* The message says "ok" as soon as the change is done; a failure of the
\* reload that follows overwrites it.
AlertSaved(n) ==
  /\ Answered(n, "alert", "ok") /\ Resume(n, <<Profile("alert")>>)
  /\ alertMsg' = "ok" /\ asked' = asked + 1
  /\ UNCHANGED <<balance, threshold, used, kpi, form, typing, redeemMsg, shown>>

\* (Mutant: the profile is not loaded again.)
RedeemedUnloaded(n) ==
  /\ Answered(n, "redeem", "ok") /\ Resume(n, <<>>)
  /\ redeemMsg' = "ok"
  /\ UNCHANGED <<balance, threshold, used, kpi, form, typing, alertMsg, asked, shown>>

Redeemed(n) ==
  /\ Answered(n, "redeem", "ok") /\ Resume(n, <<Profile("redeem")>>)
  /\ redeemMsg' = "ok" /\ asked' = asked + 1
  /\ UNCHANGED <<balance, threshold, used, kpi, form, typing, alertMsg, shown>>

Blame(from) ==
  /\ alertMsg' = IF from = "alert" THEN "err" ELSE alertMsg
  /\ redeemMsg' = IF from = "redeem" THEN "err" ELSE redeemMsg

AccountFails(n) ==
  /\ \/ \E op \in {"alert", "redeem"} : (Asked(n, op) \/ Answered(n, op, "lost")) /\ Blame(op)
     \/ Asked(n, "profile") /\ Blame(calls[n].arg.from)
  /\ Resume(n, <<>>)
  /\ UNCHANGED <<balance, threshold, used, kpi, form, typing, asked, shown>>

AlertHandlers ==
  TypeThreshold \/ SubmitBalanceAlert \/ \E n \in DOMAIN calls : AlertSaved(n)

RedeemHandlers == SubmitRedeem \/ \E n \in DOMAIN calls : Redeemed(n)

ConsoleAlertForm == site = "console" /\ AlertHandlers
ConsoleRedeemForm == site = "console" /\ RedeemHandlers
ConsoleProfile == site = "console" /\ \E n \in DOMAIN calls : LoadProfile(n)
DemoAlertForm == site = "demo" /\ AlertHandlers
DemoRedeemForm == site = "demo" /\ RedeemHandlers
DemoProfile == site = "demo" /\ \E n \in DOMAIN calls : LoadProfile(n)

AccountNext ==
  \/ RefreshAccount
  \/ ConsoleAlertForm \/ ConsoleRedeemForm \/ ConsoleProfile
  \/ DemoAlertForm \/ DemoRedeemForm \/ DemoProfile
  \/ \E n \in DOMAIN calls : AccountServer(n) \/ AnswerProfile(n) \/ AccountFails(n)

\* The pane on its own page; any fetch may end the session.
AccountStep ==
  \/ AccountNext
  \/ (\E n \in DOMAIN calls : Denied(n)) /\ UNCHANGED accountVars
AccountSpec == BrowserInit({"console", "demo"}) /\ AccountInit /\ [][AccountStep]_<<browserVars, accountVars>>

-----------------------------------------------------------------------------

\* Once every answer is in and the profile drawn last is the one asked for
\* last, a success the page still reports is what it shows: the redeemed amount
\* is in the balance, to the micro-dollar, and the saved threshold is in the
\* form.  Two submits at once, lost answers and reloads that fail included.
OkIsShown ==
  Quiet /\ shown = asked =>
    /\ redeemMsg = "ok" => kpi[1] * MicroPerUsd + kpi[2] = balance
    /\ alertMsg = "ok" /\ ~typing => form = ThresholdInput(threshold)
=============================================================================
