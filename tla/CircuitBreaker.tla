--------------------------- MODULE CircuitBreaker ---------------------------
(***************************************************************************)
(* The circuit breaker of ONE upstream account: a Redis hash shared by all *)
(* gateway requests, read with HGETALL and written in a later round trip,  *)
(* so that every decision is taken on a snapshot.  Callers are gateway     *)
(* requests that ask Allow, may be routed to the account, and report.      *)
(* Time is kept as ages: how long ago an instant in the hash was.          *)
(***************************************************************************)
EXTENDS Integers, FiniteSetsExt

CONSTANTS
  Callers,
  MinSamples,      \* MinRequestCount
  CloseAfter,      \* SuccessThresholdToClose
  Window,          \* WindowSec
  CooldownBase, CooldownMax,
  TTL,             \* KeyTTLSec
  MaxLag,          \* how long a call of the breaker may take
  MaxSamples,      \* bound of the model on calls counted in a window
  MaxErrors,       \* bound of the model on Redis errors
  Unlucky          \* callers who may meet one: any one of them, with MaxErrors = 1

ASSUME BreakerAssumption ==
  /\ MinSamples \in Nat \ {0} /\ CloseAfter \in Nat \ {0} /\ Window \in Nat
  /\ CooldownBase \in Nat \ {0} /\ CooldownMax \in Nat /\ CooldownBase <= CooldownMax
  /\ IsFiniteSet(Callers)
  /\ MaxLag \in Nat /\ MaxLag <= Window /\ MaxLag <= CooldownMax
  /\ TTL \in Nat /\ CooldownMax + MaxLag < TTL
  /\ MaxSamples \in Nat /\ MaxErrors \in Nat /\ Unlucky \subseteq Callers

VARIABLES
  h,        \* the hash
  unused,   \* time since its last EXPIRE
  pc,       \* caller -> the Redis command it sends next
  lag,      \* caller -> time since it read the clock
  next,     \* caller -> the cooldown it is about to write
  errors    \* Redis errors so far

vars == <<h, unused, pc, lag, next, errors>>

\* A missing key reads as closed, with no window and no counters.
Fresh == [state |-> "closed", failures |-> 0, samples |-> 0, winAge |-> Window + 1,
          openAge |-> 0, cooldown |-> 0, ok |-> 0]

Init ==
  /\ h = Fresh /\ unused = 0
  /\ pc = [c \in Callers |-> "idle"] /\ lag = [c \in Callers |-> 0]
  /\ next = [c \in Callers |-> 0]
  /\ errors = 0

Go(c, stage) == pc' = [pc EXCEPT ![c] = stage]

\* The call of the breaker returns, with the caller at a stage of its own.
Return(c, stage) ==
  /\ Go(c, stage)
  /\ lag' = [lag EXCEPT ![c] = 0] /\ next' = [next EXCEPT ![c] = 0]

\* A cooldown that is not stored reads as the base.
Cooled == h.openAge >= IF h.cooldown = 0 THEN CooldownBase ELSE h.cooldown
WindowOver == h.winAge > Window
TooManyFailures == h.samples >= MinSamples /\ 2 * h.failures >= h.samples
Limit(n, top) == IF n > top THEN top ELSE n

\* A pipeline that writes the hash and renews its expiry.
Write(hash) == h' = hash /\ unused' = 0

-----------------------------------------------------------------------------
(* Allow, called by the routing layer for each candidate account.          *)

\* HGETALL, then the clock.  Half open admits with a probability.
Allow(c) ==
  /\ pc[c] = "idle"
  /\ \/ h.state = "closed" /\ Go(c, "admitted")
     \/ h.state = "open" /\ Cooled /\ Go(c, "half")
     \/ h.state = "open" /\ ~Cooled /\ Go(c, "idle")
     \/ h.state = "half_open" /\ Go(c, "idle")
  /\ UNCHANGED <<h, unused, lag, next, errors>>

AllowProbe(c) ==
  /\ pc[c] = "idle" /\ h.state = "half_open"
  /\ Go(c, "admitted")
  /\ UNCHANGED <<h, unused, lag, next, errors>>

\* (Mutant: the probe is admitted and the state never written.)
OpenToHalfUnwritten(c) ==
  /\ pc[c] = "half"
  /\ Return(c, "admitted")
  /\ UNCHANGED <<h, unused, errors>>

\* The cooldown is over in the snapshot: the call becomes the first probe.
OpenToHalf(c) ==
  /\ pc[c] = "half"
  /\ Write([h EXCEPT !.state = "half_open", !.ok = 0])
  /\ Return(c, "admitted")
  /\ UNCHANGED errors

\* Allow admitted the account but another was chosen, or the answer of the
\* upstream is of a kind that is not reported.
NotReported(c) ==
  /\ pc[c] = "admitted"
  /\ Go(c, "idle")
  /\ UNCHANGED <<h, unused, lag, next, errors>>

-----------------------------------------------------------------------------
(* RecordSuccess.                                                          *)

MayCount == h.samples < MaxSamples \/ WindowOver \/ h.state # "closed"

\* HGETALL, then the clock, then the branch on the snapshot.
RecordSuccess(c) ==
  /\ pc[c] = "admitted" /\ MayCount
  /\ \/ h.state = "half_open" /\ Go(c, "countProbe")
     \/ h.state = "open" /\ Go(c, "idle")
     \/ h.state = "closed" /\ WindowOver /\ Go(c, "firstSuccess")
     \/ h.state = "closed" /\ ~WindowOver /\ Go(c, "countSuccess")
  /\ UNCHANGED <<h, unused, lag, next, errors>>

\* HINCRBY half_open_ok decides by the value it returns.
CountProbe(c) ==
  /\ pc[c] = "countProbe"
  /\ Write([h EXCEPT !.ok = Limit(@ + 1, CloseAfter)])
  /\ IF h.ok + 1 >= CloseAfter
       THEN Go(c, "close") /\ UNCHANGED <<lag, next>>
       ELSE Return(c, "idle")
  /\ UNCHANGED errors

HalfToClosed(c) ==
  /\ pc[c] = "close"
  /\ Write([h EXCEPT !.state = "closed", !.failures = 0, !.samples = 0,
                     !.winAge = lag[c], !.cooldown = CooldownBase, !.ok = 0])
  /\ Return(c, "idle")
  /\ UNCHANGED errors

FirstSuccess(c) ==
  /\ pc[c] = "firstSuccess"
  /\ Write([h EXCEPT !.failures = 0, !.samples = 1, !.winAge = lag[c]])
  /\ Return(c, "idle")
  /\ UNCHANGED errors

CountSuccess(c) ==
  /\ pc[c] = "countSuccess"
  /\ Write([h EXCEPT !.samples = @ + 1])
  /\ Return(c, "idle")
  /\ UNCHANGED errors

-----------------------------------------------------------------------------
(* RecordFailure.                                                          *)

\* (Mutant: the maximum is forgotten.)
BackoffUnlimited == 2 * Max({h.cooldown, CooldownBase})

\* Twice the cooldown of the snapshot, between the base and the maximum.
Backoff == Limit(2 * Max({h.cooldown, CooldownBase}), CooldownMax)

RecordFailure(c) ==
  /\ pc[c] = "admitted" /\ MayCount
  /\ \/ /\ h.state = "half_open" /\ Go(c, "reopen")
        /\ next' = [next EXCEPT ![c] = Backoff] /\ UNCHANGED unused
     \/ h.state = "open" /\ Go(c, "idle") /\ unused' = 0 /\ UNCHANGED next
     \/ h.state = "closed" /\ WindowOver /\ Go(c, "firstFailure") /\ UNCHANGED <<next, unused>>
     \/ h.state = "closed" /\ ~WindowOver /\ Go(c, "countFailure") /\ UNCHANGED <<next, unused>>
  /\ UNCHANGED <<h, lag, errors>>

\* (Mutant: the expiry is not renewed.)
HalfToOpenUnrenewed(c) ==
  /\ pc[c] = "reopen"
  /\ h' = [h EXCEPT !.state = "open", !.openAge = lag[c], !.cooldown = next[c], !.ok = 0]
  /\ Return(c, "idle")
  /\ UNCHANGED <<unused, errors>>

HalfToOpen(c) ==
  /\ pc[c] = "reopen"
  /\ Write([h EXCEPT !.state = "open", !.openAge = lag[c], !.cooldown = next[c], !.ok = 0])
  /\ Return(c, "idle")
  /\ UNCHANGED errors

\* (Mutant: the new window starts with a failure and no sample.)
FirstFailureUnsampled(c) ==
  /\ pc[c] = "firstFailure"
  /\ Write([h EXCEPT !.failures = 1, !.samples = 0, !.winAge = lag[c]])
  /\ Go(c, "reread")
  /\ UNCHANGED <<lag, next, errors>>

FirstFailure(c) ==
  /\ pc[c] = "firstFailure"
  /\ Write([h EXCEPT !.failures = 1, !.samples = 1, !.winAge = lag[c]])
  /\ Go(c, "reread")
  /\ UNCHANGED <<lag, next, errors>>

\* The two HINCRBY of one pipeline, which other clients may come between.
CountFailure(c) ==
  /\ pc[c] = "countFailure"
  /\ h' = [h EXCEPT !.failures = @ + 1]
  /\ Go(c, "countSample")
  /\ UNCHANGED <<unused, lag, next, errors>>

CountSample(c) ==
  /\ pc[c] = "countSample"
  /\ Write([h EXCEPT !.samples = @ + 1])
  /\ Go(c, "reread")
  /\ UNCHANGED <<lag, next, errors>>

\* The second HGETALL looks at the counters only.
Reread(c) ==
  /\ pc[c] = "reread"
  /\ IF TooManyFailures
       THEN Go(c, "trip") /\ UNCHANGED <<lag, next>>
       ELSE Return(c, "idle")
  /\ UNCHANGED <<h, unused, errors>>

\* opened_at is the clock read before the first round trip.
ClosedToOpen(c) ==
  /\ pc[c] = "trip"
  /\ Write([h EXCEPT !.state = "open", !.openAge = lag[c], !.cooldown = CooldownBase, !.ok = 0])
  /\ Return(c, "idle")
  /\ UNCHANGED errors

-----------------------------------------------------------------------------
(* The environment.                                                        *)

Busy == {"half", "countProbe", "close", "firstSuccess", "countSuccess", "reopen",
         "firstFailure", "countFailure", "countSample", "reread", "trip"}

\* A Redis error ends the call: Allow then admits, a report is dropped.
RedisError(c) ==
  /\ c \in Unlucky /\ errors < MaxErrors /\ errors' = errors + 1
  /\ \/ pc[c] \in {"idle", "half"} /\ Return(c, "admitted")
     \/ pc[c] \in (Busy \cup {"admitted"}) \ {"half"} /\ Return(c, "idle")
  /\ UNCHANGED <<h, unused>>

\* A call of the breaker lasts MaxLag at most (the Redis timeouts).
Tick ==
  /\ \A c \in Callers : pc[c] \in Busy => lag[c] < MaxLag
  /\ h' = [h EXCEPT !.winAge = Limit(@ + 1, Window + 1),
                    !.openAge = Limit(@ + 1, CooldownMax)]
  /\ unused' = Limit(unused + 1, TTL)
  /\ lag' = [c \in Callers |-> IF pc[c] \in Busy THEN lag[c] + 1 ELSE 0]
  /\ UNCHANGED <<pc, next, errors>>

Expire ==
  /\ unused >= TTL /\ h # Fresh
  /\ h' = Fresh
  /\ UNCHANGED <<unused, pc, lag, next, errors>>

Finish(c) ==
  \/ OpenToHalf(c) \/ CountProbe(c) \/ HalfToClosed(c)
  \/ FirstSuccess(c) \/ CountSuccess(c)
  \/ HalfToOpen(c) \/ FirstFailure(c) \/ CountFailure(c) \/ CountSample(c)
  \/ Reread(c) \/ ClosedToOpen(c)

Report(c) == RecordSuccess(c) \/ RecordFailure(c)

Next ==
  \/ \E c \in Callers : \/ Allow(c) \/ AllowProbe(c) \/ NotReported(c) \/ Report(c)
                        \/ Finish(c) \/ RedisError(c)
  \/ Tick \/ Expire

\* Requests keep coming and time passes; a command is answered or times out.
\* The upstream answers as it likes.  The random draw of half open admits again and again, and so does the
\* routing choose the account again and again.
Fairness ==
  /\ WF_vars(Tick)
  /\ \A c \in Callers :
       /\ WF_vars(Allow(c) \/ Finish(c))
       /\ SF_vars(AllowProbe(c)) /\ SF_vars(Report(c))

Spec == Init /\ [][Next]_vars /\ Fairness

-----------------------------------------------------------------------------
(* Properties.                                                             *)

TypeOK ==
  /\ h \in [state : {"closed", "open", "half_open"}, failures : Nat, samples : Nat,
            winAge : 0..(Window + 1), openAge : 0..CooldownMax,
            cooldown : {0} \cup CooldownBase..CooldownMax, ok : 0..CloseAfter]
  /\ unused \in 0..TTL
  /\ pc \in [Callers -> Busy \cup {"idle", "admitted"}]
  /\ lag \in [Callers -> 0..MaxLag]
  /\ next \in [Callers -> {0} \cup CooldownBase..CooldownMax]
  /\ errors \in 0..MaxErrors

\* However the pipelines, the window resets and the expiry interleave, the
\* failures counted exceed the samples by no more than the reports that are
\* between their two HINCRBY or were cut off there.
FailuresCounted ==
  h.failures <= h.samples + Cardinality({c \in Callers : pc[c] = "countSample"}) + errors

\* The hash of an open breaker does not expire before its cooldown is over:
\* every write renews it.
NoAmnesia == h.state = "open" /\ ~Cooled => unused < TTL

\* An open account is probed again as long as requests for it keep coming.
ProbedAgain == h.state = "open" ~> h.state # "open"

\* Once no failure is counted any more, neither by a window nor by half open,
\* the account comes back for good.
Recovers ==
  <>[](\A c \in Callers : pc[c] \notin {"reopen", "firstFailure", "countFailure"})
    => <>[](h.state = "closed")

\* The state machine of domain/routing/circuit.go, closed to open to half open
\* to closed: an open breaker whose cooldown runs is not closed.
OpenNeverCloses == [][h.state = "open" /\ ~Cooled => h'.state # "closed"]_h

=============================================================================
