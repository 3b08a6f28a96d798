------------------------------ MODULE Billing -------------------------------
(***************************************************************************)
(* The money of ONE user, kept twice: the Redis key balance:{user} that    *)
(* the data plane debits before it calls an upstream, and the MySQL row    *)
(* user_balances that the ledger writes reach later, each in a goroutine   *)
(* of its own.  Every Redis or MySQL round trip is one action, so the      *)
(* round trips of concurrent requests, redeemed codes and administrator    *)
(* charges interleave as they do in the two processes.  Keys and rows are  *)
(* per user and nothing links two users, so one user is enough.            *)
(***************************************************************************)
EXTENDS Integers, Tally

CONSTANTS
  NumRequests,   \* API calls of the user, numbered 1..NumRequests
  Redeemers,     \* console calls that redeem a code
  Chargers,      \* administrator charges
  Codes,         \* redeem codes issued
  Estimates,     \* amounts the gateway may pre-deduct
  Costs,         \* amounts a finished call may really cost
  Opening,       \* balance of the row at the start
  CodeValue,     \* amount of a redeem code
  ChargeValue,   \* amount of an administrator charge
  Warm,          \* TRUE when Redis holds the key at the start
  Faults         \* the failures considered

Requests == 1..NumRequests
TopUps == Redeemers \cup Chargers
Proc == Requests \cup TopUps

ASSUME BillingAssumption ==
  /\ NumRequests \in Nat
  /\ Requests \cap TopUps = {} /\ Redeemers \cap Chargers = {}
  /\ "free" \notin Redeemers
  /\ Estimates \subseteq Nat /\ Costs \subseteq Nat
  /\ Opening \in Nat /\ CodeValue \in Nat /\ ChargeValue \in Nat
  /\ Warm \in BOOLEAN
  /\ Faults \subseteq {"redis", "mysql", "crash", "evict"}

VARIABLES
  cache,     \* value of the Redis key (0 while the key does not exist)
  key,       \* "present" or "absent": whether the Redis key exists
  row,       \* user_balances.balance
  charged,   \* user_balances.total_charged
  consumed,  \* user_balances.total_consumed
  credited,  \* sum of the committed top-ups
  used,      \* codes whose status is "used"
  holder,    \* code -> redeemer holding its row lock, or "free"
  pc,        \* where each call stands
  fill,      \* progress of its read-through cache fill
  snap,      \* the MySQL balance it read last
  want,      \* redeemer -> code
  est,       \* request -> pre-deducted amount
  cost,      \* request -> settled amount
  write      \* request -> its two ledger writes

wallet == <<cache, key>>
ledger == <<row, charged, consumed, credited>>
codes == <<used, holder, want>>
local == <<pc, fill, snap>>
vars == <<wallet, ledger, codes, local, est, cost, write>>

Writes == {"hold", "adjust"}
WriteStates == {"none", "queued", "applied", "logged", "lost", "unlogged"}
Landed == {"applied", "logged", "unlogged"}
RequestStages == {"new", "check", "ensure", "decr", "undo", "serving", "settleUndo",
                  "settled", "short", "denied", "abandoned"}
TopUpStages == {"idle", "lock", "locked", "charge", "add", "sync", "done", "failed"}
Stages == RequestStages \cup TopUpStages

Init ==
  /\ cache = (IF Warm THEN Opening ELSE 0) /\ key = (IF Warm THEN "present" ELSE "absent")
  /\ row = Opening /\ charged = Opening /\ consumed = 0 /\ credited = 0
  /\ used = {} /\ holder = [c \in Codes |-> "free"]
  /\ want \in [Redeemers -> Codes]
  /\ pc = [p \in Proc |-> IF p \in Requests THEN "new" ELSE "idle"]
  /\ fill = [p \in Proc |-> "get"] /\ snap = [p \in Proc |-> 0]
  /\ est = [r \in Requests |-> 0] /\ cost = [r \in Requests |-> 0]
  /\ write = [r \in Requests |-> [w \in Writes |-> "none"]]

At(p, stage) == pc[p] = stage
Go(p, stage) == pc' = [pc EXCEPT ![p] = stage]
Fault(kind) == kind \in Faults

-----------------------------------------------------------------------------
(* Read-through fill: GET misses, SELECT the row, SET the key.             *)

\* The balance p decides with: what it filled in, or what GET returned.
Resolved(p) == fill[p] = "filled" \/ (fill[p] = "get" /\ key = "present")
Seen(p) == IF fill[p] = "filled" THEN snap[p] ELSE cache

\* A Redis error counts as a miss, except in ensureCache, which gives up.
CacheMiss(p) ==
  /\ pc[p] \in {"check", "ensure", "charge"} /\ fill[p] = "get"
  /\ key = "absent" \/ (Fault("redis") /\ ~At(p, "ensure"))
  /\ fill' = [fill EXCEPT ![p] = "read"]
  /\ UNCHANGED <<wallet, ledger, codes, pc, snap, est, cost, write>>

ReadRow(p) ==
  /\ fill[p] = "read"
  /\ snap' = [snap EXCEPT ![p] = row]
  /\ fill' = [fill EXCEPT ![p] = "set"]
  /\ UNCHANGED <<wallet, ledger, codes, pc, est, cost, write>>

\* addAndSync ignores the error of getBalance; a request is refused.
ReadFails(p) ==
  /\ Fault("mysql") /\ fill[p] = "read"
  /\ Go(p, IF p \in Requests THEN "denied" ELSE "add")
  /\ fill' = [fill EXCEPT ![p] = "get"]
  /\ UNCHANGED <<wallet, ledger, codes, snap, est, cost, write>>

\* The error of SET is ignored, so under a Redis fault it may not happen.
FillCache(p) ==
  /\ fill[p] = "set"
  /\ \/ cache' = snap[p] /\ key' = "present"
     \/ Fault("redis") /\ UNCHANGED wallet
  /\ fill' = [fill EXCEPT ![p] = "filled"]
  /\ UNCHANGED <<ledger, codes, pc, snap, est, cost, write>>

-----------------------------------------------------------------------------
(* A request: CheckBalance, PreDeduct, the upstream call, Settle.          *)

Arrive(r) ==
  /\ At(r, "new")
  /\ \E e \in Estimates : est' = [est EXCEPT ![r] = e]
  /\ Go(r, "check")
  /\ UNCHANGED <<wallet, ledger, codes, fill, snap, cost, write>>

CheckBalance(r) ==
  /\ At(r, "check") /\ Resolved(r)
  /\ Go(r, IF Seen(r) < est[r] THEN "denied" ELSE "ensure")
  /\ fill' = [fill EXCEPT ![r] = "get"]
  /\ UNCHANGED <<wallet, ledger, codes, snap, est, cost, write>>

EnsureCache(r) ==
  /\ At(r, "ensure") /\ Resolved(r)
  /\ Go(r, "decr")
  /\ fill' = [fill EXCEPT ![r] = "get"]
  /\ UNCHANGED <<wallet, ledger, codes, snap, est, cost, write>>

EnsureFails(r) ==
  /\ Fault("redis") /\ At(r, "ensure") /\ fill[r] = "get"
  /\ Go(r, "denied")
  /\ UNCHANGED <<wallet, ledger, codes, fill, snap, est, cost, write>>

\* (Mutant: the sign of the result is not looked at.)
PreDeductUnchecked(r) ==
  /\ At(r, "decr")
  /\ cache' = cache - est[r] /\ key' = "present"
  /\ Go(r, "serving")
  /\ write' = [write EXCEPT ![r]["hold"] = "queued"]
  /\ UNCHANGED <<ledger, codes, fill, snap, est, cost>>

\* DECRBY, which creates a missing key at 0; a negative result is undone by
\* a second round trip, a result that stands queues the ledger write.
PreDeduct(r) ==
  /\ At(r, "decr")
  /\ cache' = cache - est[r] /\ key' = "present"
  /\ IF cache' < 0
       THEN Go(r, "undo") /\ UNCHANGED write
       ELSE /\ Go(r, "serving")
            /\ write' = [write EXCEPT ![r]["hold"] = "queued"]
  /\ UNCHANGED <<ledger, codes, fill, snap, est, cost>>

\* Any error of DECRBY refuses the request, whether Redis executed it or not.
PreDeductFails(r) ==
  /\ Fault("redis") /\ At(r, "decr")
  /\ \/ UNCHANGED wallet
     \/ cache' = cache - est[r] /\ key' = "present"
  /\ Go(r, "denied")
  /\ UNCHANGED <<ledger, codes, fill, snap, est, cost, write>>

\* (Mutant: the refused debit is never given back.)
UndoForgotten(r) ==
  /\ At(r, "undo")
  /\ Go(r, "denied")
  /\ UNCHANGED <<wallet, ledger, codes, fill, snap, est, cost, write>>

\* The error of the compensating INCRBY is ignored.
Undo(r) ==
  /\ At(r, "undo")
  /\ \/ cache' = cache + est[r] /\ key' = "present"
     \/ Fault("redis") /\ UNCHANGED wallet
  /\ Go(r, "denied")
  /\ UNCHANGED <<ledger, codes, fill, snap, est, cost, write>>

\* (Mutant: the difference never goes to the ledger.)
SettledUnqueued(r, c, stage) ==
  /\ cost' = [cost EXCEPT ![r] = c]
  /\ Go(r, stage)
  /\ UNCHANGED write

\* Bookkeeping shared by the outcomes of Settle: the cost is fixed and, when
\* it differs from the estimate, the difference is queued for the ledger.
Settled(r, c, stage) ==
  /\ cost' = [cost EXCEPT ![r] = c]
  /\ Go(r, stage)
  /\ write' = IF c = est[r] THEN write
              ELSE [write EXCEPT ![r]["adjust"] = "queued"]

\* The cost does not exceed the estimate: INCRBY gives the rest back.
SettleRefund(r) ==
  /\ At(r, "serving")
  /\ \E c \in Costs :
       /\ c <= est[r]
       /\ IF c = est[r] THEN UNCHANGED wallet
          ELSE cache' = cache + (est[r] - c) /\ key' = "present"
       /\ Settled(r, c, "settled")
  /\ UNCHANGED <<ledger, codes, fill, snap, est>>

\* (Mutant: the rest is taken whether it is there or not.)
SettleExtraUnchecked(r) ==
  /\ At(r, "serving")
  /\ \E c \in Costs :
       /\ c > est[r]
       /\ cache' = cache - (c - est[r]) /\ key' = "present"
       /\ Settled(r, c, "settled")
  /\ UNCHANGED <<ledger, codes, fill, snap, est>>

\* The cost exceeds the estimate: DECRBY takes the rest if it is there.
SettleExtra(r) ==
  /\ At(r, "serving")
  /\ \E c \in Costs :
       /\ c > est[r]
       /\ cache' = cache - (c - est[r]) /\ key' = "present"
       /\ IF cache' < 0
            THEN /\ cost' = [cost EXCEPT ![r] = c]
                 /\ Go(r, "settleUndo") /\ UNCHANGED write
            ELSE Settled(r, c, "settled")
  /\ UNCHANGED <<ledger, codes, fill, snap, est>>

\* The rest was not there: the debit is undone, the ledger still takes it.
SettleUndo(r) ==
  /\ At(r, "settleUndo")
  /\ \/ cache' = cache + (cost[r] - est[r]) /\ key' = "present"
     \/ Fault("redis") /\ UNCHANGED wallet
  /\ Settled(r, cost[r], "short")
  /\ UNCHANGED <<ledger, codes, fill, snap, est>>

\* Settle only logs a Redis error (executed or not) and goes on.
SettleFails(r) ==
  /\ Fault("redis") /\ At(r, "serving")
  /\ \E c \in Costs :
       /\ c # est[r]
       /\ \/ UNCHANGED wallet
          \/ cache' = cache + (est[r] - c) /\ key' = "present"
       /\ Settled(r, c, IF c > est[r] THEN "short" ELSE "settled")
  /\ UNCHANGED <<ledger, codes, fill, snap, est>>

-----------------------------------------------------------------------------
(* asyncWriteLog: the balance first, the log line after it.                *)

\* (Mutant: the adjustment charges the price, not the difference.)
AmountInFull(r, w) == IF w = "hold" THEN -est[r] ELSE -cost[r]

Amount(r, w) == IF w = "hold" THEN -est[r] ELSE est[r] - cost[r]

\* (Mutant: total_consumed moves with the sign of the amount.)
AddBalanceSigned(amount) ==
  /\ row' = row + amount
  /\ IF amount >= 0
       THEN charged' = charged + amount /\ UNCHANGED consumed
       ELSE consumed' = consumed + amount /\ UNCHANGED charged

\* AddBalance: one transaction on the row and on one of its two totals.
AddBalance(amount) ==
  /\ row' = row + amount
  /\ IF amount >= 0
       THEN charged' = charged + amount /\ UNCHANGED consumed
       ELSE consumed' = consumed - amount /\ UNCHANGED charged

\* (Mutant: a write that was done is retried.)
ApplyWriteRetried(r) ==
  /\ \E w \in Writes :
       /\ write[r][w] \in {"queued", "applied"}
       /\ AddBalance(Amount(r, w))
       /\ write' = [write EXCEPT ![r][w] = "applied"]
  /\ UNCHANGED <<wallet, credited, codes, local, est, cost>>

ApplyWrite(r) ==
  /\ \E w \in Writes :
       /\ write[r][w] = "queued"
       /\ AddBalance(Amount(r, w))
       /\ write' = [write EXCEPT ![r][w] = "applied"]
  /\ UNCHANGED <<wallet, credited, codes, local, est, cost>>

LogWrite(r) ==
  /\ \E w \in Writes :
       /\ write[r][w] = "applied"
       /\ write' = [write EXCEPT ![r][w] = "logged"]
  /\ UNCHANGED <<wallet, ledger, codes, local, est, cost>>

\* Errors are logged and never retried; a stop of the process, which does
\* not wait for these goroutines, loses them the same way.
WriteFails(r) ==
  /\ Fault("mysql") \/ Fault("crash")
  /\ \E w \in Writes :
       \/ /\ write[r][w] = "queued"
          /\ write' = [write EXCEPT ![r][w] = "lost"]
       \/ /\ write[r][w] = "applied"
          /\ write' = [write EXCEPT ![r][w] = "unlogged"]
  /\ UNCHANGED <<wallet, ledger, codes, local, est, cost>>

-----------------------------------------------------------------------------
(* Top-ups: Redeem and AdminCharge, both ending in an unconditional SET.   *)

RedeemStart(p) ==
  /\ At(p, "idle")
  /\ Go(p, "lock")
  /\ UNCHANGED <<wallet, ledger, codes, fill, snap, est, cost, write>>

\* (Mutant: SELECT without FOR UPDATE.)
RedeemUnlocked(p) ==
  /\ At(p, "lock")
  /\ IF want[p] \in used
       THEN Go(p, "failed") /\ UNCHANGED holder
       ELSE Go(p, "locked") /\ holder' = [holder EXCEPT ![want[p]] = p]
  /\ UNCHANGED <<wallet, ledger, used, want, fill, snap, est, cost, write>>

\* SELECT ... FOR UPDATE waits for the row lock; a used code ends the call.
RedeemLock(p) ==
  /\ At(p, "lock") /\ holder[want[p]] = "free"
  /\ IF want[p] \in used
       THEN Go(p, "failed") /\ UNCHANGED holder
       ELSE Go(p, "locked") /\ holder' = [holder EXCEPT ![want[p]] = p]
  /\ UNCHANGED <<wallet, ledger, used, want, fill, snap, est, cost, write>>

\* The rest of the transaction, which becomes visible with its commit.
RedeemCommit(p) ==
  /\ At(p, "locked")
  /\ used' = used \cup {want[p]}
  /\ holder' = [holder EXCEPT ![want[p]] = "free"]
  /\ row' = row + CodeValue /\ charged' = charged + CodeValue
  /\ credited' = credited + CodeValue
  /\ snap' = [snap EXCEPT ![p] = row']
  /\ Go(p, "sync")
  /\ UNCHANGED <<wallet, consumed, want, fill, est, cost, write>>

\* A failed statement or commit, a deadlock abort or a stop of the process:
\* everything rolls back.
RedeemRollback(p) ==
  /\ Fault("mysql") \/ Fault("crash")
  /\ At(p, "locked")
  /\ holder' = [holder EXCEPT ![want[p]] = "free"]
  /\ Go(p, "failed")
  /\ UNCHANGED <<wallet, ledger, used, want, fill, snap, est, cost, write>>

ChargeStart(p) ==
  /\ At(p, "idle")
  /\ Go(p, "charge")
  /\ UNCHANGED <<wallet, ledger, codes, fill, snap, est, cost, write>>

\* getBalance has answered (its answer only reaches the log line).
ChargeRead(p) ==
  /\ At(p, "charge") /\ Resolved(p)
  /\ Go(p, "add")
  /\ fill' = [fill EXCEPT ![p] = "get"]
  /\ UNCHANGED <<wallet, ledger, codes, snap, est, cost, write>>

ChargeAdd(p) ==
  /\ At(p, "add")
  /\ \/ /\ AddBalance(ChargeValue)
        /\ credited' = credited + ChargeValue
        /\ snap' = [snap EXCEPT ![p] = row']
        /\ Go(p, "sync")
     \/ Fault("mysql") /\ Go(p, "failed") /\ UNCHANGED <<ledger, snap>>
  /\ UNCHANGED <<wallet, codes, fill, est, cost, write>>

\* balanceCache.Set with the balance the transaction returned.
SyncCache(p) ==
  /\ At(p, "sync")
  /\ \/ cache' = snap[p] /\ key' = "present"
     \/ (Fault("redis") \/ Fault("crash")) /\ UNCHANGED wallet
  /\ Go(p, "done")
  /\ UNCHANGED <<ledger, codes, fill, snap, est, cost, write>>

-----------------------------------------------------------------------------
(* The environment.                                                        *)

\* The gateway process stops while the request is in it.
Abandon(r) ==
  /\ Fault("crash")
  /\ pc[r] \in {"check", "ensure", "decr", "undo", "serving", "settleUndo"}
  /\ Go(r, "abandoned")
  /\ fill' = [fill EXCEPT ![r] = "get"]
  /\ UNCHANGED <<wallet, ledger, codes, snap, est, cost, write>>

\* Redis loses the key (restart without persistence, eviction).
Evict ==
  /\ Fault("evict") /\ key = "present"
  /\ cache' = 0 /\ key' = "absent"
  /\ UNCHANGED <<ledger, codes, local, est, cost, write>>

RequestStep(r) ==
  \/ CheckBalance(r) \/ EnsureCache(r) \/ PreDeduct(r) \/ Undo(r)
  \/ SettleRefund(r) \/ SettleExtra(r) \/ SettleUndo(r)
  \/ EnsureFails(r) \/ PreDeductFails(r) \/ SettleFails(r)

FillStep(p) == CacheMiss(p) \/ ReadRow(p) \/ ReadFails(p) \/ FillCache(p)

LedgerStep(r) == ApplyWrite(r) \/ LogWrite(r) \/ WriteFails(r)

RedeemStep(p) ==
  RedeemStart(p) \/ RedeemLock(p) \/ RedeemCommit(p) \/ RedeemRollback(p) \/ SyncCache(p)

ChargeStep(p) == ChargeStart(p) \/ ChargeRead(p) \/ ChargeAdd(p) \/ SyncCache(p)

Next ==
  \/ \E r \in Requests : Arrive(r) \/ RequestStep(r) \/ LedgerStep(r) \/ Abandon(r)
  \/ \E p \in Proc : FillStep(p)
  \/ \E p \in Redeemers : RedeemStep(p)
  \/ \E p \in Chargers : ChargeStep(p)
  \/ Evict

\* A call that entered the program goes on, and so does a started goroutine:
\* every wait in them is bounded by a timeout.
Fairness ==
  /\ \A r \in Requests : WF_vars(RequestStep(r)) /\ WF_vars(LedgerStep(r))
  /\ \A p \in Proc : WF_vars(FillStep(p))
  /\ \A p \in Redeemers : WF_vars(RedeemStep(p))
  /\ \A p \in Chargers : WF_vars(ChargeStep(p))

Spec == Init /\ [][Next]_vars /\ Fairness

-----------------------------------------------------------------------------
(* Properties.                                                             *)

TypeOK ==
  /\ cache \in Int /\ key \in {"present", "absent"}
  /\ row \in Int /\ charged \in Nat /\ consumed \in Nat /\ credited \in Nat
  /\ used \subseteq Codes /\ holder \in [Codes -> Redeemers \cup {"free"}]
  /\ want \in [Redeemers -> Codes]
  /\ pc \in [Proc -> Stages]
  /\ fill \in [Proc -> {"get", "read", "set", "filled"}]
  /\ snap \in [Proc -> Int]
  /\ est \in [Requests -> Nat] /\ cost \in [Requests -> Nat]
  /\ write \in [Requests -> [Writes -> WriteStates]]

\* What the ledger has taken for request r so far.
Booked(r) ==
  (IF write[r]["hold"] \in Landed THEN -Amount(r, "hold") ELSE 0)
  + (IF write[r]["adjust"] \in Landed THEN -Amount(r, "adjust") ELSE 0)

\* What request r owes once it is over.
Billed(r) == IF pc[r] \in {"settled", "short"} THEN cost[r] ELSE 0

\* What the Redis debits of request r that stand add up to.
Secured(r) ==
  CASE pc[r] \in {"serving", "settleUndo", "short"} -> est[r]
    [] pc[r] = "settled" -> cost[r]
    [] OTHER -> 0

\* A debit already executed that is about to be undone.
Excess(r) ==
  CASE pc[r] = "undo" -> est[r]
    [] pc[r] = "settleUndo" -> cost[r] - est[r]
    [] OTHER -> 0

\* The part of the price Redis could not take.
Shortfall(r) == IF pc[r] = "short" THEN cost[r] - est[r] ELSE 0

TotalBooked == Total([r \in Requests |-> Booked(r)], NumRequests)
TotalSecured == Total([r \in Requests |-> Secured(r)], NumRequests)
TotalExcess == Total([r \in Requests |-> Excess(r)], NumRequests)
TotalShortfall == Total([r \in Requests |-> Shortfall(r)], NumRequests)

\* The row is the opening balance plus the committed top-ups minus exactly
\* the ledger writes that landed, whatever is lost, retried or reordered
\* (asyncWriteLog, Redeem and addAndSync against AddBalance).
LedgerConserved == row = Opening + credited - TotalBooked

Over(r) == pc[r] \in {"new", "settled", "short", "denied"}
Flushed(r) == \A w \in Writes : write[r][w] \in {"none"} \cup Landed

\* When no request is under way and no write was lost, each request has cost
\* the row its price and a refused one nothing, in whatever order its
\* pre-deduction and its adjustment reached MySQL.
BooksClose ==
  \A r \in Requests : Over(r) /\ Flushed(r) => Booked(r) = Billed(r)

\* How far a request has come fixes which of its ledger writes exist: none
\* before the debit stands, the adjustment only when the price differs.
LinkedAt(r) ==
  /\ pc[r] \in RequestStages
  /\ fill[r] # "get" => pc[r] \in {"check", "ensure"}
  /\ pc[r] \in {"new", "check", "ensure", "decr", "undo", "denied"}
       => write[r]["hold"] = "none"
  /\ pc[r] \in {"serving", "settleUndo", "settled", "short"}
       => write[r]["hold"] # "none"
  /\ pc[r] \notin {"settled", "short"} => write[r]["adjust"] = "none"
  /\ pc[r] \in {"settled", "short"} /\ cost[r] # est[r]
       => write[r]["adjust"] # "none"

Linked == \A r \in Requests : LinkedAt(r)

Paid(p) == pc[p] \in {"sync", "done"}

\* A locked code is not used yet, its lock has one holder, and whoever was
\* paid for a code left it used.
CodesGuarded ==
  \A p \in Redeemers :
    /\ At(p, "locked") => holder[want[p]] = p /\ want[p] \notin used
    /\ Paid(p) => want[p] \in used

\* Two console calls racing with the same code: at most one is credited
\* (the FOR UPDATE lock of Redeem is held from the status check to commit).
OneCreditPerCode ==
  \A p, q \in Redeemers : Paid(p) /\ Paid(q) /\ want[p] = want[q] => p = q

\* Requests never hold or spend more than was deposited: no DECRBY lets two
\* of them share the same money, however their round trips interleave.
NoOverspend == TotalSecured <= Opening + credited

Quiet ==
  /\ \A r \in Requests :
       /\ Over(r)
       /\ \A w \in Writes : write[r][w] \notin {"queued", "applied"}
  /\ \A p \in TopUps : pc[p] \in {"idle", "done", "failed"}

\* Settle only logs that the key could not take the rest of a price, "will sync
\* from mysql", and docs/project-doc.md:163 promises a job that compares the
\* two stores every five minutes and repairs a difference: when nothing is
\* under way any more, key and row come to agree.  (They do not.)
Reconciled == <>[]Quiet => <>[](key = "present" => cache = row)

\* How large the difference is that stays, as nothing repairs it: without
\* top-ups and failures the key at rest is above the row by exactly the
\* excess prices it could not take, and nothing else is lost or gained by the
\* order in which debits, undos and ledger writes ran (the rolled back DECRBY
\* of Settle, the goroutines of asyncWriteLog).
DriftIsShortfall == Quiet => cache = row + TotalShortfall

\* A request that is served is paid for: its price reaches the row, both
\* ledger writes included.
PriceReachesLedger ==
  \A r \in Requests :
    At(r, "serving") ~> (pc[r] \in {"settled", "short"} /\ Booked(r) = cost[r])

\* The failure-free life of a user whose key is in Redis and who does not
\* top up: there the two-round-trip debit is as good as an atomic one.
Steady == Warm /\ Faults = {} /\ TopUps = {}

\* The same life with a MySQL that fails and a process that stops anywhere.
KeyKept == Warm /\ Faults \cap {"redis", "evict"} = {} /\ TopUps = {}

CoveredAt(r) ==
  /\ pc[r] \in RequestStages /\ fill[r] = "get"
  /\ pc[r] # "new" => est[r] \in Estimates
  /\ pc[r] \in {"settleUndo", "short"} => cost[r] \in Costs /\ cost[r] > est[r]

\* There the key is at most what the debits left of the deposit: those of an
\* abandoned request are lost, never shared.
Covered ==
  /\ \A r \in Requests : CoveredAt(r)
  /\ key = "present" /\ credited = 0
  /\ cache <= Opening - TotalSecured - TotalExcess
  /\ TotalSecured <= Opening

SteadyAt(r) ==
  /\ CoveredAt(r) /\ pc[r] # "abandoned"
  /\ \A w \in Writes : write[r][w] \notin {"lost", "unlogged"}

\* Without failures the key is just that, the debits about to be undone
\* included, and the debits that stand never exceed the deposit.
Backed ==
  /\ \A r \in Requests : SteadyAt(r)
  /\ key = "present" /\ credited = 0
  /\ cache = Opening - TotalSecured - TotalExcess
  /\ TotalSecured <= Opening

PhaseOf(r) ==
  CASE pc[r] \in {"serving", "settleUndo"} -> "held"
    [] pc[r] \in {"settled", "short"} -> "closed"
    [] pc[r] = "denied" -> "refused"
    [] pc[r] = "abandoned" -> "lost"
    [] OTHER -> "open"

WalletView == INSTANCE Wallet WITH
  Clients <- Requests, Deposit <- Opening, Amounts <- Estimates \cup Costs,
  available <- cache + TotalExcess,
  secured <- [r \in Requests |-> Secured(r)],
  phase <- [r \in Requests |-> PhaseOf(r)]

\* PreDeduct and Settle implement the atomic wallet, debits about to be
\* undone counted as available until the process that would undo them stops.
ImplementsWallet == WalletView!WalletSpec

=============================================================================
