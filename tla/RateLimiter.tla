---------------------------- MODULE RateLimiter -----------------------------
(***************************************************************************)
(* The multi-level rate limiter: every request walks the checks of the     *)
(* rules that match it, one Redis round trip at a time, takes concurrency  *)
(* slots on the way and returns them by reading the rules again.           *)
(* A tick is the unit of time; a minute is Minute ticks.                   *)
(***************************************************************************)
EXTENDS Integers, SequencesExt

CONSTANTS
  Requests,
  Who,          \* request -> scope -> value, "" when the request has none
  Tokens,       \* request -> estimated tokens
  RuleSets,     \* what the database may hold: a set of sequences of rules
  Minute, TTL,  \* the window and the expiry of a concurrency key
  MaxLag,       \* how long Allow may take
  MaxAge,       \* how long a request may take, from Allow to Release
  MaxErrors,    \* bound of the model on Redis errors
  MaxCount      \* bound of the model on the counters: no request is cut off
                \* while one has reached it

Scopes == <<"global", "user", "api_key", "model">>     \* CheckOrder

Dims == {"rpm", "conc", "tpm"}
Rules == [scope : STRING, value : STRING, rpm : Int, conc : Int, tpm : Int]

ASSUME LimiterAssumption ==
  /\ IsFiniteSet(Requests)
  /\ RuleSets # {} /\ IsFiniteSet(RuleSets) /\ \A rs \in RuleSets : rs \in Seq(Rules)
  /\ \A r \in Requests : Tokens[r] \in Nat /\ Who[r]["global"] = "global"
  /\ Minute \in Nat \ {0} /\ MaxLag \in 0..(Minute - 1)
  /\ MaxAge \in Nat /\ MaxLag <= MaxAge /\ MaxAge < TTL /\ TTL \in Nat
  /\ MaxErrors \in Nat /\ MaxCount \in Nat

VARIABLES
  rules,    \* the active rules in the memory of the process
  pc,       \* request -> what it does next
  todo,     \* request -> the checks, or the slots, it has left
  age,      \* request -> time since Allow read the clock
  count,    \* key -> the concurrency counter (0 when there is no key)
  ttl,      \* key -> time until that counter expires, 0 when it never does
  hits,     \* key -> age -> members of the sorted set
  tokens,   \* key -> tokens of this minute, the last and the one before
  second,   \* position in the current minute
  errors    \* Redis errors so far

redis == <<count, ttl, hits, tokens>>
vars == <<rules, pc, todo, age, redis, second, errors>>

-----------------------------------------------------------------------------
(* Rules.                                                                  *)

KeyOf(scope, r) == <<scope, Who[r][scope]>>
Keys == {KeyOf(Scopes[s], r) : s \in 1..4, r \in Requests}

Matches(rule, scope, r) ==
  /\ rule.scope = scope /\ Who[r][scope] # ""
  /\ scope = "global" \/ rule.value = Who[r][scope]

\* The limit one rule sets on r in a dimension; a limit of 0 is none.
Limit(rule, dim, scope, r) ==
  IF Matches(rule, scope, r) /\ rule[dim] > 0
  THEN <<[dim |-> dim, key |-> KeyOf(scope, r), max |-> rule[dim]]>>
  ELSE <<>>

\* No estimate, no check of the tokens.
Limits(rule, scope, r) ==
  Limit(rule, "rpm", scope, r) \o Limit(rule, "conc", scope, r)
    \o (IF Tokens[r] > 0 THEN Limit(rule, "tpm", scope, r) ELSE <<>>)

\* The checks of Allow in their order: scope by scope, rule by rule.
ChecksUnder(rs, r) ==
  FlattenSeq([s \in 1..4 |-> FlattenSeq([i \in DOMAIN rs |-> Limits(rs[i], Scopes[s], r)])])

\* The slots Release returns, on the same walk.
SlotsUnder(rs, r) ==
  FlattenSeq([s \in 1..4 |-> FlattenSeq([i \in DOMAIN rs |-> Limit(rs[i], "conc", Scopes[s], r)])])

ChecksOf(r) == ChecksUnder(rules, r)
SlotsOf(r) == SlotsUnder(rules, r)

\* Reloading the rules may change rates, but no concurrency limit.
SlotsFixed == \A rs1, rs2 \in RuleSets, r \in Requests : SlotsUnder(rs1, r) = SlotsUnder(rs2, r)

\* The rules that are ever looked up for a key, and the largest limit any of
\* them sets on it.
RulesOn(k) ==
  {rule \in UNION {ToSet(rs) : rs \in RuleSets} :
     \E r \in Requests : Matches(rule, k[1], r) /\ KeyOf(k[1], r) = k}

Caps == [dim \in Dims |-> [k \in Keys |-> Max({0} \cup {rule[dim] : rule \in RulesOn(k)})]]
Cap(dim, k) == Caps[dim][k]

-----------------------------------------------------------------------------
Span == Minute + MaxLag

Init ==
  /\ rules \in RuleSets
  /\ pc = [r \in Requests |-> "idle"] /\ todo = [r \in Requests |-> <<>>]
  /\ age = [r \in Requests |-> 0]
  /\ count = [k \in Keys |-> 0] /\ ttl = [k \in Keys |-> 0]
  /\ hits = [k \in Keys |-> [a \in 0..(Span - 1) |-> 0]]
  /\ tokens = [k \in Keys |-> <<0, 0, 0>>]
  /\ second = 0 /\ errors = 0

Inside == {"check", "add", "overflow"}       \* Allow has not returned

Go(r, stage, left) == pc' = [pc EXCEPT ![r] = stage] /\ todo' = [todo EXCEPT ![r] = left]

\* The check passed: the next one, or the request is served.
Pass(r) ==
  LET left == Tail(todo[r])
  IN  Go(r, IF left = <<>> THEN "served" ELSE "check", left)

\* (Mutant: a refused request calls Release too.)
RejectAndRelease(r) ==
  IF SlotsOf(r) = <<>> THEN Go(r, "idle", <<>>) ELSE Go(r, "release", SlotsOf(r))

\* The error returns from Allow as it is: what was taken is kept.
Reject(r) == Go(r, "idle", <<>>)

At(r, stage, dim) == pc[r] = stage /\ Head(todo[r]).dim = dim
Key(r) == Head(todo[r]).key
TopOf(r) == Head(todo[r]).max

-----------------------------------------------------------------------------
(* Allow.                                                                  *)

Allow(r) ==
  /\ pc[r] = "idle"
  /\ Go(r, IF ChecksOf(r) = <<>> THEN "served" ELSE "check", ChecksOf(r))
  /\ age' = [age EXCEPT ![r] = 0]
  /\ UNCHANGED <<rules, redis, second, errors>>

\* (Mutant: the limit itself is let through.)
CheckRPMBeyond(r) ==
  LET kept == [a \in 0..(Span - 1) |-> IF a < Minute + age[r] THEN hits[Key(r)][a] ELSE 0]
  IN  /\ At(r, "check", "rpm")
      /\ hits' = [hits EXCEPT ![Key(r)] = kept]
      /\ IF SumFunction(kept) > TopOf(r) THEN Reject(r) ELSE Go(r, "add", todo[r])
      /\ UNCHANGED <<rules, age, count, ttl, tokens, second, errors>>

\* ZREMRANGEBYSCORE by the clock of the request, and ZCARD.
CheckRPM(r) ==
  LET kept == [a \in 0..(Span - 1) |-> IF a < Minute + age[r] THEN hits[Key(r)][a] ELSE 0]
  IN  /\ At(r, "check", "rpm")
      /\ hits' = [hits EXCEPT ![Key(r)] = kept]
      /\ IF SumFunction(kept) >= TopOf(r) THEN Reject(r) ELSE Go(r, "add", todo[r])
      /\ UNCHANGED <<rules, age, count, ttl, tokens, second, errors>>

\* ZADD with the clock of the request as score.
AddHit(r) ==
  /\ At(r, "add", "rpm")
  /\ hits' = [hits EXCEPT ![Key(r)][age[r]] = @ + 1]
  /\ Pass(r)
  /\ UNCHANGED <<rules, age, count, ttl, tokens, second, errors>>

\* INCR, whose value decides, and EXPIRE, whose error is ignored.
Acquire(r, renewed) ==
  /\ At(r, "check", "conc")
  /\ count' = [count EXCEPT ![Key(r)] = @ + 1]
  /\ ttl' = IF renewed THEN [ttl EXCEPT ![Key(r)] = TTL] ELSE ttl
  /\ IF count[Key(r)] + 1 > TopOf(r) THEN Go(r, "overflow", todo[r]) ELSE Pass(r)
  /\ UNCHANGED <<rules, age, hits, tokens, second>>

\* (Mutant: only the request that creates the key sets its expiry.)
AcquireUnrenewed(r) == Acquire(r, count[Key(r)] = 0) /\ UNCHANGED errors

AcquireConcurrent(r) == Acquire(r, TRUE) /\ UNCHANGED errors

\* DECR of a slot over the limit.
GiveUp(r) ==
  /\ pc[r] = "overflow"
  /\ count' = [count EXCEPT ![Key(r)] = @ - 1]
  /\ Reject(r)
  /\ UNCHANGED <<rules, age, ttl, hits, tokens, second, errors>>

\* The bucket of the minute in which Allow read the clock, and how far into
\* that minute it was.
Bucket(r) == IF age[r] > second THEN 2 ELSE 1
Elapsed(r) == second - age[r] + Minute * (Bucket(r) - 1)

Weighted(r) ==
  LET of == tokens[Key(r)]
  IN  (of[Bucket(r) + 1] * (Minute - Elapsed(r))) \div Minute + of[Bucket(r)]

\* (Mutant: the tokens of the request itself are not counted.)
CheckTPMBefore(r) ==
  /\ At(r, "check", "tpm")
  /\ IF Weighted(r) > TopOf(r) THEN Reject(r) ELSE Go(r, "add", todo[r])
  /\ UNCHANGED <<rules, age, redis, second, errors>>

CheckTPM(r) ==
  /\ At(r, "check", "tpm")
  /\ IF Weighted(r) + Tokens[r] > TopOf(r) THEN Reject(r) ELSE Go(r, "add", todo[r])
  /\ UNCHANGED <<rules, age, redis, second, errors>>

\* INCRBY on the bucket of the request's own minute.
AddTokens(r) ==
  /\ At(r, "add", "tpm")
  /\ tokens' = [tokens EXCEPT ![Key(r)][Bucket(r)] = @ + Tokens[r]]
  /\ Pass(r)
  /\ UNCHANGED <<rules, age, count, ttl, hits, second, errors>>

-----------------------------------------------------------------------------
(* Release, deferred by the gateway when Allow returned no error.          *)

\* The rules are read anew.
Release(r) ==
  /\ pc[r] = "served"
  /\ IF SlotsOf(r) = <<>> THEN Go(r, "idle", <<>>) ELSE Go(r, "release", SlotsOf(r))
  /\ UNCHANGED <<rules, age, redis, second, errors>>

Left(r) ==
  LET left == Tail(todo[r])
  IN  Go(r, IF left = <<>> THEN "idle" ELSE "release", left)

\* One DECR; on a key that is gone it makes one that never expires.
ReleaseSlot(r) ==
  /\ pc[r] = "release"
  /\ count' = [count EXCEPT ![Key(r)] = @ - 1]
  /\ Left(r)
  /\ UNCHANGED <<rules, age, ttl, hits, tokens, second, errors>>

-----------------------------------------------------------------------------
(* The environment.                                                        *)

\* loadRules, at start, every 30 seconds and after an edit of a rule.
Reload ==
  /\ rules' \in RuleSets \ {rules}
  /\ UNCHANGED <<pc, todo, age, redis, second, errors>>

\* Redis failing lets the request through, drops the record of it, or loses a
\* slot that was to be returned; or only the EXPIRE after the INCR is lost.
RedisError(r) ==
  /\ errors < MaxErrors /\ errors' = errors + 1
  /\ \/ /\ \/ pc[r] \in {"check", "add"} /\ Pass(r)
           \/ pc[r] = "overflow" /\ Reject(r)
           \/ pc[r] = "release" /\ Left(r)
        /\ UNCHANGED <<rules, age, redis, second>>
     \/ Acquire(r, FALSE)

\* The gateway dies, or the client leaves and the context of the request,
\* which Release is given too, refuses every command from there on: what was
\* taken is kept.  (A stop between INCR and EXPIRE is an error first.)
CutOff(r) ==
  /\ \A k \in Keys : count[k] < MaxCount
  /\ pc[r] # "idle" /\ Go(r, "idle", <<>>)
  /\ UNCHANGED <<rules, age, redis, second, errors>>

\* Allow and the whole request are bounded by timeouts.
Tick ==
  /\ \A r \in Requests : pc[r] # "idle" =>
       age[r] < MaxAge /\ (pc[r] \in Inside => age[r] < MaxLag)
  /\ age' = [r \in Requests |-> IF pc[r] = "idle" THEN 0 ELSE age[r] + 1]
  /\ ttl' = [k \in Keys |-> IF ttl[k] = 0 THEN 0 ELSE ttl[k] - 1]
  /\ count' = [k \in Keys |-> IF ttl[k] = 1 THEN 0 ELSE count[k]]
  /\ hits' = [k \in Keys |-> [a \in 0..(Span - 1) |-> IF a = 0 THEN 0 ELSE hits[k][a - 1]]]
  /\ second' = (second + 1) % Minute
  /\ tokens' = IF second' # 0 THEN tokens
               ELSE [k \in Keys |-> <<0, tokens[k][1], tokens[k][2]>>]
  /\ UNCHANGED <<rules, pc, todo, errors>>

Step(r) ==
  \/ CheckRPM(r) \/ AddHit(r) \/ AcquireConcurrent(r) \/ GiveUp(r)
  \/ CheckTPM(r) \/ AddTokens(r) \/ Release(r) \/ ReleaseSlot(r)

Next ==
  \/ \E r \in Requests : Allow(r) \/ Step(r) \/ RedisError(r) \/ CutOff(r)
  \/ Reload \/ Tick

\* Redis answers or times out, the upstream does too, and time passes; nobody
\* has to send a request.
Spec == Init /\ [][Next]_vars /\ WF_vars(Tick) /\ \A r \in Requests : WF_vars(Step(r))

-----------------------------------------------------------------------------
(* Properties.                                                             *)

\* A counter falls below zero by no more than the Redis errors there were: a
\* slot is returned by those who took it.
TypeOK ==
  /\ rules \in RuleSets
  /\ pc \in [Requests -> Inside \cup {"idle", "served", "release"}]
  /\ \A r \in Requests : (todo[r] = <<>>) = (pc[r] \in {"idle", "served"})
  /\ age \in [Requests -> 0..MaxAge]
  /\ \A k \in Keys : count[k] \in Int /\ count[k] + errors >= 0
  /\ ttl \in [Keys -> 0..TTL]
  /\ hits \in [Keys -> [0..(Span - 1) -> Nat]]
  /\ \A k \in Keys : tokens[k] \in Nat \X Nat \X Nat
  /\ second \in 0..(Minute - 1) /\ errors \in 0..MaxErrors

Served(k) == {r \in Requests : pc[r] = "served" /\ \E s \in 1..4 : KeyOf(Scopes[s], r) = k}

\* However the round trips interleave, no more requests are served on a key
\* than its concurrency limit, but for one more per Redis error.  (The rules
\* of the instances change no concurrency limit: SlotsFixed.)
ConcurrencyRespected ==
  \A k \in Keys : Cap("conc", k) > 0 =>
    Cardinality(Served(k)) <= Cap("conc", k) + errors

\* The window is read in one round trip and written in another: it exceeds
\* the limit by at most one for each of the other requests.
RateRespected ==
  \A k \in Keys : Cap("rpm", k) > 0 =>
    \A from \in 0..MaxLag :
      SumFunctionOnSet(hits[k], from..(from + Minute - 1)) <= Cap("rpm", k) - 1 + Cardinality(Requests)

\* And likewise for the tokens of a minute, each of the other requests having
\* added its own estimate at most once since the limit was read.
TokensRespected ==
  \A k \in Keys : Cap("tpm", k) > 0 =>
    \A b \in 1..3 :
      tokens[k][b] <= Cap("tpm", k) + (Cardinality(Requests) - 1) * Max({Tokens[r] : r \in Requests})

\* Whatever refusals, clients that left and processes that died keep of a
\* counter goes with its expiry: without a Redis error, a counter that is not
\* zero always has one running, and no DECR reaches a key that is gone, which
\* would make one that stays below zero for good.
LeaksExpire == errors = 0 => \A k \in Keys : count[k] # 0 => ttl[k] # 0

\* Requests that have taken a slot of k and not returned it.
Ahead(r, k) == \E i \in DOMAIN todo[r] : todo[r][i].dim = "conc" /\ todo[r][i].key = k

Holders(k) ==
  {r \in Requests : (\E s \in 1..4 : KeyOf(Scopes[s], r) = k)
                    /\ \/ pc[r] = "served"
                       \/ pc[r] = "release" /\ Ahead(r, k)
                       \/ pc[r] = "overflow" /\ Key(r) = k
                       \/ pc[r] \in Inside /\ ~Ahead(r, k)}

\* The comment on the expiry: it keeps a slot that was never released from
\* leaking for good.
LeakHeals ==
  \A k \in Keys : Cap("conc", k) > 0 =>
    (count[k] > Cardinality(Holders(k)) ~> count[k] <= Cardinality(Holders(k)))

=============================================================================
