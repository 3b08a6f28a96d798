------------------------------ MODULE Browser ------------------------------
(***************************************************************************)
(* What the pages of the two consoles share.  A page is single-threaded:   *)
(* a handler runs without interruption up to its next await.  Every await  *)
(* of a fetch is an entry of calls: the handler's segment sends it, the    *)
(* server answers it at a moment of its own, and the rest of the handler   *)
(* runs when the answer is delivered.  Nothing orders the answers of two   *)
(* fetches.  The panes (modules that extend this one) use different DOM    *)
(* nodes and meet only here, in the session.                               *)
(***************************************************************************)
EXTENDS Naturals, Sequences, FiniteSets

CONSTANTS
  MaxClicks,  \* bound: gestures that send a fetch
  MaxOpen,    \* bound: fetches open when a gesture that only reads sends one
  Nil         \* no argument, no value

VARIABLES
  calls,   \* the fetches under way, in the order they were sent
  clicks,  \* gestures spent
  session, \* "in", or "out" once a 401 has sent the page to the login page
  site     \* the front end: "console", or "demo", an older copy of it

browserVars == <<calls, clicks, session, site>>
callOps == [n \in DOMAIN calls |-> calls[n].op]  \* every answer delivered changes it

Call(op, arg) == [op |-> op, arg |-> arg, st |-> "sent", val |-> Nil]

BrowserInit(sites) == calls = <<>> /\ clicks = 0 /\ session = "in" /\ site \in sites

\* A gesture whose handler sends these fetches before its first await.
Gesture(sent) ==
  /\ session = "in" /\ clicks < MaxClicks
  /\ clicks' = clicks + 1 /\ calls' = calls \o sent
  /\ UNCHANGED <<session, site>>

\* A gesture that only reads: it may be repeated for ever.
Look(sent) ==
  /\ session = "in" /\ Len(calls) < MaxOpen
  /\ calls' = calls \o sent
  /\ UNCHANGED <<clicks, session, site>>

\* A gesture that stays inside the page.
Local == session = "in" /\ UNCHANGED browserVars

Asked(n, op) == session = "in" /\ calls[n].op = op /\ calls[n].st = "sent"
Answered(n, op, st) == session = "in" /\ calls[n].op = op /\ calls[n].st = st

\* The server's side of a fetch: it is carried out and its answer arrives
\* ("ok", with a value) or does not ("lost").  A fetch that is still only sent
\* when its handler resumes has failed without being carried out.
Reply(n, st, v) ==
  /\ calls' = [calls EXCEPT ![n].st = st, ![n].val = v]
  /\ UNCHANGED <<clicks, session, site>>

\* The rest of the handler runs, and may send further fetches.
Resume(n, sent) ==
  /\ calls' = SubSeq(calls, 1, n - 1) \o SubSeq(calls, n + 1, Len(calls)) \o sent
  /\ UNCHANGED <<clicks, session, site>>

Quiet == calls = <<>>

\* A fetch is answered 401: api() drops the access token, sets the page's
\* address to the login page's and returns null, and its handler goes on with
\* that null.  It does so on a page that is being left, where everything else
\* it asks for is refused too, so one step is all of it; its fetch stays listed,
\* and nothing more comes of it.  What outlasts the page or is reported is
\* followed by the panes of the tokens and of the routes; what the other panes
\* still draw is not, nor is an answer that comes in time for the page that is
\* being left.
Denied(n) ==
  /\ calls[n].st = "sent"
  /\ session' = "out"
  /\ UNCHANGED <<calls, clicks, site>>
=============================================================================
