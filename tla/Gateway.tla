------------------------------ MODULE Gateway -------------------------------
(***************************************************************************)
(* The path of a request through the data plane: route, limit, check and   *)
(* reserve the balance, call the upstream with fallback to other accounts, *)
(* settle in a goroutine that outlives the handler.                        *)
(* The wallet, the limiter and the breaker are the abstract ones: a wallet *)
(* with one atomic reservation (module Wallet), a number of slots, a set   *)
(* of open accounts (modules RateLimiter and CircuitBreaker detail them).  *)
(***************************************************************************)
EXTENDS Integers, FiniteSets, Tally

CONSTANTS
  NumRequests,
  Asks,         \* request -> what it may ask for: [kind, want] records, want a set of models
  Accounts, Models,
  ModelOf,      \* account -> model
  Estimate,     \* model -> what is reserved for a call
  PerCall,      \* models billed per call, at their estimate
  Usages,       \* what a call may cost on a model billed per token
  Opening,      \* the balance of the user
  Slots,        \* the concurrency limit
  MayLeave,     \* requests whose client may leave (bounds the departures)
  MaxAttempts

Requests == 1..NumRequests

ASSUME GatewayAssumption ==
  /\ IsFiniteSet(Accounts) /\ Accounts # {}
  /\ NumRequests \in Nat /\ Opening \in Nat /\ Slots \in Nat /\ MayLeave \subseteq Requests
  /\ MaxAttempts \in Nat \ {0}
  /\ ModelOf \in [Accounts -> Models] /\ Estimate \in [Models -> Nat]
  /\ PerCall \subseteq Models /\ Usages \subseteq Nat /\ 0 \in Usages
  /\ Asks \in [Requests -> SUBSET [kind : {"chat", "stream", "other"}, want : SUBSET Models]]

VARIABLES
  ask,       \* request -> what it asks for
  gone,      \* requests whose client left: their context is cancelled
  pc,        \* request -> what its handler does next
  route,     \* request -> the account of its route
  shown,     \* request -> that route's model was listed when it was read
  attempt,   \* request -> calls made to an upstream
  tried,     \* request -> the accounts called
  held,      \* request -> the amount pre-deducted and not settled
  job,       \* request -> the cost its settlement goroutine was given, or -1
  paid,      \* request -> the amount settled
  used,      \* request -> what a stream provided, at its price
  logged,    \* requests with a row in usage_logs
  balance, slots, open, listed

client == <<ask, gone>>
handler == <<pc, route, shown, attempt, tried>>
money == <<balance, held, paid, job, used, logged>>
vars == <<client, handler, money, slots, open, listed>>

Init ==
  /\ ask \in {f \in [Requests -> UNION {Asks[r] : r \in Requests}] :
                \A r \in Requests : f[r] \in Asks[r]}
  /\ gone = {}
  /\ pc = [r \in Requests |-> "route"]
  /\ route = [r \in Requests |-> CHOOSE a \in Accounts : TRUE]
  /\ shown = [r \in Requests |-> "no"]
  /\ attempt = [r \in Requests |-> 0] /\ tried = [r \in Requests |-> {}]
  /\ held = [r \in Requests |-> 0] /\ job = [r \in Requests |-> -1]
  /\ paid = [r \in Requests |-> 0] /\ used = [r \in Requests |-> 0]
  /\ logged = {}
  /\ balance = Opening /\ slots = {} /\ open = {} /\ listed = Models

Go(r, stage) == pc' = [pc EXCEPT ![r] = stage]

\* The handler returns, and the deferred Release with it.  Release has the
\* context of the request: when the client left, the DECR fails and is logged.
Return(r) == Go(r, "done") /\ slots' = IF r \in gone THEN slots ELSE slots \ {r}

\* An auto route (several models wanted) considers listed models only.
IsAuto(r) == Cardinality(ask[r].want) > 1

\* The accounts of the models wanted.
Offered(r) ==
  {a \in Accounts : ModelOf[a] \in ask[r].want /\ (IsAuto(r) => ModelOf[a] \in listed)}

\* (Mutant: the accounts already tried are not excluded.)
CandidatesAgain(r) == Offered(r) \ open

\* What SelectRoute may choose: the breaker lets the account through and the
\* request has not tried it.
Candidates(r) == Offered(r) \ (open \cup tried[r])

Seen(a) == IF ModelOf[a] \in listed THEN "yes" ELSE "no"

Choose(r, a) ==
  /\ route' = [route EXCEPT ![r] = a]
  /\ shown' = [shown EXCEPT ![r] = Seen(a)]

Model(r) == ModelOf[route[r]]

CostOf(m, usage) == IF m \in PerCall THEN Estimate[m] ELSE usage

\* settleAndLog starts the goroutine and the handler returns.
Finish(r, usage) ==
  /\ job' = [job EXCEPT ![r] = CostOf(Model(r), usage)]
  /\ Return(r)

-----------------------------------------------------------------------------
(* Before the upstream.                                                    *)

\* No candidate, or the database fails, as it does for a client that left.
Route(r) ==
  /\ pc[r] = "route"
  /\ \/ r \notin gone /\ \E a \in Candidates(r) : Choose(r, a) /\ Go(r, "limit")
     \/ Go(r, "done") /\ UNCHANGED <<route, shown>>
  /\ UNCHANGED <<client, attempt, tried, money, slots, open, listed>>

\* A limiter that can't be asked lets the request pass, without a slot.
Limit(r) ==
  /\ pc[r] = "limit"
  /\ \/ /\ r \notin gone
        /\ IF Cardinality(slots) < Slots
             THEN slots' = slots \cup {r} /\ Go(r, "check")
             ELSE Go(r, "done") /\ UNCHANGED slots
     \/ r \in gone /\ Go(r, "check") /\ UNCHANGED slots
  /\ UNCHANGED <<client, route, shown, attempt, tried, money, open, listed>>

\* IsListed of the model as the route read it, then CheckBalance.
Check(r) ==
  /\ pc[r] = "check"
  /\ IF shown[r] = "yes" /\ balance >= Estimate[Model(r)] /\ r \notin gone
       THEN Go(r, "reserve") /\ UNCHANGED slots
       ELSE Return(r)
  /\ UNCHANGED <<client, route, shown, attempt, tried, money, open, listed>>

\* (Mutant: what CheckBalance saw is relied on.)
ReserveUnchecked(r) ==
  /\ pc[r] = "reserve"
  /\ balance' = balance - Estimate[Model(r)]
  /\ held' = [held EXCEPT ![r] = Estimate[Model(r)]]
  /\ Go(r, "send")
  /\ UNCHANGED <<client, route, shown, attempt, tried, paid, job, used, logged, slots, open, listed>>

\* PreDeduct, which may find less than CheckBalance saw, or a cancelled context.
Reserve(r) ==
  /\ pc[r] = "reserve"
  /\ IF balance >= Estimate[Model(r)] /\ r \notin gone
       THEN /\ balance' = balance - Estimate[Model(r)]
            /\ held' = [held EXCEPT ![r] = Estimate[Model(r)]]
            /\ Go(r, "send") /\ UNCHANGED slots
       ELSE Return(r) /\ UNCHANGED <<balance, held>>
  /\ UNCHANGED <<client, route, shown, attempt, tried, paid, job, used, logged, open, listed>>

-----------------------------------------------------------------------------
(* The fallback loop.                                                      *)

\* The request is built and sent, or can't be built.
Send(r) ==
  /\ pc[r] = "send"
  /\ \/ /\ attempt' = [attempt EXCEPT ![r] = @ + 1]
        /\ tried' = [tried EXCEPT ![r] = @ \cup {route[r]}]
        /\ Go(r, "wait") /\ UNCHANGED <<job, slots>>
     \/ Finish(r, 0) /\ UNCHANGED <<attempt, tried>>
  /\ UNCHANGED <<client, route, shown, balance, held, paid, used, logged, open, listed>>

\* The proxies other than chat completions make one call and report nothing.
Single(r) == ask[r].kind = "other"

\* A report to the breaker, which may then change state; it is lost with the
\* context of the request.
Silent(r) == Single(r) \/ r \in gone
MayOpen(r) == open' \in {open, IF Silent(r) THEN open ELSE open \cup {route[r]}}
MayClose(r) == open' \in {open, IF Silent(r) THEN open ELSE open \ {route[r]}}

Bound(r) == IF ask[r].kind = "chat" THEN MaxAttempts ELSE 1

\* An error that another account may not have.
Retry(r) ==
  /\ pc[r] = "wait"
  /\ IF attempt[r] < Bound(r)
       THEN Go(r, "again") /\ UNCHANGED <<job, slots>>
       ELSE Finish(r, 0)

\* Dial, TLS, timeout, 5xx and 429 count for the breaker; an unknown transport
\* error is retried and not counted.
UpstreamFails(r) ==
  /\ Retry(r)
  /\ MayOpen(r)
  /\ UNCHANGED <<client, route, shown, attempt, tried, balance, held, paid, used, logged, listed>>

\* A 4xx, or a client that left.
FinalError(r) ==
  /\ pc[r] = "wait"
  /\ Finish(r, 0)
  /\ UNCHANGED <<client, route, shown, attempt, tried, balance, held, paid, used, logged, open, listed>>

\* A 200 with its usage; an answer that can't be read is settled as an error,
\* at zero.  (A client may leave while it is read: its answer counts.)
Answer(r) ==
  /\ pc[r] = "wait" /\ ask[r].kind # "stream"
  /\ \E u \in Usages : Finish(r, u)
  /\ MayClose(r)
  /\ UNCHANGED <<client, route, shown, attempt, tried, balance, held, paid, used, logged, listed>>

StreamStarts(r) ==
  /\ pc[r] = "wait" /\ ask[r].kind # "chat"
  /\ Go(r, "stream") /\ MayClose(r)
  /\ UNCHANGED <<client, route, shown, attempt, tried, money, slots, listed>>

\* The usage is in the last frame: a stream that is cut settles without it.
StreamEnds(r) ==
  /\ pc[r] = "stream"
  /\ \E u \in Usages :
       /\ used' = [used EXCEPT ![r] = CostOf(Model(r), u)]
       /\ Finish(r, u) \/ Finish(r, 0)
  /\ UNCHANGED <<client, route, shown, attempt, tried, balance, held, paid, logged, open, listed>>

\* (Mutant: a fallback that finds no account leaves without settling.)
GiveUpUnsettled(r) ==
  /\ pc[r] = "again"
  /\ Return(r)
  /\ UNCHANGED <<client, route, shown, attempt, tried, money, open, listed>>

\* No candidate is left, or the database fails, or the model was unlisted in
\* the meantime: the request is settled as an error of the last account.
GiveUp(r) ==
  /\ pc[r] = "again"
  /\ Finish(r, 0)
  /\ UNCHANGED <<client, route, shown, attempt, tried, balance, held, paid, used, logged, open, listed>>

\* Another account of the same model.
SameModel(r) ==
  /\ pc[r] = "again" /\ r \notin gone
  /\ \E a \in Candidates(r) :
       /\ ModelOf[a] = Model(r) /\ ModelOf[a] \in listed
       /\ Choose(r, a) /\ Go(r, "send")
  /\ UNCHANGED <<client, attempt, tried, money, slots, open, listed>>

\* (Mutant: the new route is taken and the reservation kept.)
OtherModelUnpriced(r) ==
  /\ pc[r] = "again"
  /\ \E a \in Candidates(r) :
       /\ ModelOf[a] # Model(r) /\ ModelOf[a] \in listed
       /\ Choose(r, a) /\ Go(r, "send")
  /\ UNCHANGED <<client, attempt, tried, money, slots, open, listed>>

\* An account of another model: the reservation is given back, and the next
\* one goes through CheckBalance and PreDeduct again.  (A client that leaves
\* between the choice and the refund loses it in the cache, not in the row: the
\* drift that module Billing follows.)
OtherModel(r) ==
  /\ pc[r] = "again" /\ r \notin gone
  /\ \E a \in Candidates(r) :
       /\ ModelOf[a] # Model(r) /\ ModelOf[a] \in listed
       /\ Choose(r, a) /\ Go(r, "check")
  /\ balance' = balance + held[r] /\ held' = [held EXCEPT ![r] = 0]
  /\ UNCHANGED <<client, attempt, tried, paid, job, used, logged, slots, open, listed>>

-----------------------------------------------------------------------------
(* The goroutine, and the others.                                          *)

\* (Mutant: the reservation is not set off against the cost.)
SettleTwice(r) ==
  /\ job[r] >= 0
  /\ LET due == IF job[r] > balance THEN 0 ELSE job[r]
     IN  balance' = balance - due /\ paid' = [paid EXCEPT ![r] = due]
  /\ held' = [held EXCEPT ![r] = 0]
  /\ job' = [job EXCEPT ![r] = -1] /\ logged' = logged \cup {r}
  /\ UNCHANGED <<client, handler, used, slots, open, listed>>

\* Settle: the rest comes back, or the excess is taken when the balance has
\* it in full; then the usage log.
Settle(r) ==
  /\ job[r] >= 0
  /\ LET due == IF job[r] - held[r] > balance THEN held[r] ELSE job[r]
     IN  /\ balance' = balance + held[r] - due
         /\ paid' = [paid EXCEPT ![r] = due]
  /\ held' = [held EXCEPT ![r] = 0]
  /\ job' = [job EXCEPT ![r] = -1]
  /\ logged' = logged \cup {r}
  /\ UNCHANGED <<client, handler, used, slots, open, listed>>

\* A cooldown ends.
Cool ==
  /\ \E a \in open : open' = open \ {a}
  /\ UNCHANGED <<client, handler, money, slots, listed>>

\* An administrator lists or unlists a model.
Edit ==
  /\ \E m \in Models : listed' = IF m \in listed THEN listed \ {m} ELSE listed \cup {m}
  /\ UNCHANGED <<client, handler, money, slots, open>>

\* The client of a request that is still served closes its connection.
Leave(r) ==
  /\ pc[r] # "done" /\ r \notin gone /\ r \in MayLeave
  /\ gone' = gone \cup {r}
  /\ UNCHANGED <<ask, handler, money, slots, open, listed>>

\* The counter expires, ten minutes after the last INCR, and only slots of
\* handlers that returned are in it.  (RateLimiter has the expiry that meets a
\* request still served, and the traffic that puts it off.)
Expire ==
  /\ slots # {} /\ \A r \in slots : pc[r] = "done"
  /\ slots' = {}
  /\ UNCHANGED <<client, handler, money, open, listed>>

Handle(r) ==
  \/ Route(r) \/ Limit(r) \/ Check(r) \/ Reserve(r) \/ Send(r)
  \/ UpstreamFails(r) \/ FinalError(r) \/ Answer(r) \/ StreamStarts(r) \/ StreamEnds(r)
  \/ GiveUp(r) \/ SameModel(r) \/ OtherModel(r)

Next ==
  \/ \E r \in Requests : Handle(r) \/ Settle(r) \/ Leave(r)
  \/ Cool \/ Edit \/ Expire

\* Every call of a handler returns or times out, goroutines run, and Redis
\* drops the counter once the requests are over.
Spec ==
  /\ Init /\ [][Next]_vars /\ WF_vars(Expire)
  /\ \A r \in Requests : WF_vars(Handle(r)) /\ WF_vars(Settle(r))

-----------------------------------------------------------------------------
(* Properties.                                                             *)

TypeOK ==
  /\ (\A r \in Requests : ask[r] \in Asks[r]) /\ gone \subseteq Requests
  /\ pc \in [Requests -> {"route", "limit", "check", "reserve", "send", "wait", "stream",
                          "again", "done"}]
  /\ route \in [Requests -> Accounts] /\ shown \in [Requests -> {"yes", "no"}]
  /\ attempt \in [Requests -> Nat] /\ tried \in [Requests -> SUBSET Accounts]
  /\ held \in [Requests -> Nat] /\ job \in [Requests -> Nat \cup {-1}]
  /\ paid \in [Requests -> Nat] /\ used \in [Requests -> Nat]
  /\ logged \subseteq Requests
  /\ balance \in Nat /\ slots \subseteq Requests
  /\ open \subseteq Accounts /\ listed \subseteq Models

\* Whatever fails and however often a request changes models, the balance, the
\* reservations and the settled amounts add up to what the user had.
MoneyKept == balance + Total(held, NumRequests) + Total(paid, NumRequests) = Opening

\* A call that is out, or about to be sent, has reserved the estimate of the
\* very model it goes to, whichever model the request began with.
ReservedForModel ==
  \A r \in Requests : pc[r] \in {"send", "wait", "stream", "again"} => held[r] = Estimate[Model(r)]

\* A request calls no account twice, keeps to its number of attempts, and a
\* stream is not retried.
NoAccountTwice ==
  \A r \in Requests : /\ attempt[r] = Cardinality(tried[r])
                      /\ attempt[r] <= Bound(r)

\* Where a request has passed the limiter and not returned.
Serving == {"check", "reserve", "send", "wait", "stream", "again"}

\* What the invariants above rest on: an amount is held only between the
\* pre-deduction and the settlement, which comes once ...
HoldingAt(r) ==
  /\ pc[r] \in {"route", "limit", "check", "reserve"} => held[r] = 0
  /\ job[r] # -1 => pc[r] = "done"
  /\ pc[r] # "done" \/ job[r] # -1 => paid[r] = 0
  /\ pc[r] = "done" /\ job[r] = -1 => held[r] = 0

\* ... and a route that was not called yet is to an untried account, with an
\* attempt left.
UntriedAt(r) ==
  /\ pc[r] = "route" => tried[r] = {}
  /\ pc[r] \in {"limit", "check", "reserve", "send"} => route[r] \notin tried[r]
  /\ pc[r] \in {"route", "limit", "check", "reserve", "send", "again"} => attempt[r] < Bound(r)

Steadfast == \A r \in Requests : HoldingAt(r) /\ UntriedAt(r)

\* A slot is held from the limiter to the return of the handler; one that
\* stays after that is of a client that left, and no more are held than the
\* limit.  An amount is held only while the request is with an upstream or its
\* settlement is still to come, whether the client left or not.
NothingLeft ==
  /\ \A r \in Requests :
       /\ pc[r] \in Serving => r \in slots \/ r \in gone
       /\ r \in slots => pc[r] \in Serving \/ (pc[r] = "done" /\ r \in gone)
       /\ held[r] > 0 => pc[r] \in {"send", "wait", "stream", "again"} \/ job[r] # -1
  /\ Cardinality(slots) <= Slots

\* Every way out of the handler gives the reservation back, the settlement
\* being free of the request's context, and the slot comes back too: with the
\* handler, or with the expiry of the counter when the client left.
Concludes ==
  \A r \in Requests : (held[r] > 0 \/ r \in slots) ~> (held[r] = 0 /\ r \notin slots)

\* The comment over the loop: settleAndLog is called in the final outcome.  So
\* a request that reached an upstream and is over has a usage log.
LoggedAtTheEnd ==
  \A r \in Requests : pc[r] = "done" /\ attempt[r] > 0 /\ job[r] = -1 => r \in logged

\* The product document on streams that are cut: what was consumed is paid,
\* the rest of the reservation comes back.
ConsumptionPaid ==
  \A r \in logged : ask[r].kind = "stream" /\ used[r] <= Estimate[Model(r)] => paid[r] >= used[r]

\* Where a request is with its reservation.
PhaseOf(r) ==
  CASE pc[r] \in {"route", "limit", "check", "reserve"} -> "open"
    [] pc[r] \in {"send", "wait", "stream", "again"} \/ job[r] >= 0 -> "held"
    [] OTHER -> IF r \in logged THEN "closed" ELSE "refused"

WalletView == INSTANCE Wallet WITH
  Clients <- Requests, Deposit <- Opening, Amounts <- {Estimate[m] : m \in Models} \cup Usages,
  available <- balance,
  secured <- [r \in Requests |-> held[r] + paid[r]],
  phase <- [r \in Requests |-> PhaseOf(r)]

\* Fallback, errors and settlement included, the path of a request uses the
\* wallet as the wallet is meant: a model changed cancels its reservation.
UsesWallet == WalletView!WalletSpec

=============================================================================
