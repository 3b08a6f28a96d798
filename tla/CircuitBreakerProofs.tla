------------------------ MODULE CircuitBreakerProofs ------------------------
(***************************************************************************)
(* What holds of the circuit breaker for any number of callers, any errors *)
(* and any thresholds, cooldowns and lags the assumption allows.           *)
(***************************************************************************)
EXTENDS CircuitBreaker, FiniteSetTheorems, TLAPS

\* What a cooldown may be: none yet, or in range.
Cooldowns == {0} \cup CooldownBase..CooldownMax

\* What the hash may hold.
Hash == [state : {"closed", "open", "half_open"}, failures : Nat, samples : Nat,
         winAge : 0..(Window + 1), openAge : 0..CooldownMax,
         cooldown : Cooldowns, ok : 0..CloseAfter]

-----------------------------------------------------------------------------
\* Types.

\* Doubling a cooldown that is none or in range gives one in range.
LEMMA BackoffInRange ==
  ASSUME h.cooldown \in Cooldowns
  PROVE  Backoff \in CooldownBase..CooldownMax
<1> DEFINE S == {h.cooldown, CooldownBase}
<1>1. \E x \in S : \A y \in S : x >= y
  BY BreakerAssumption DEF Cooldowns
<1>2. Max(S) \in S /\ \A y \in S : Max(S) >= y
  BY <1>1 DEF Max
<1>3. Max(S) \in Nat /\ Max(S) >= CooldownBase
  BY <1>2, BreakerAssumption DEF Cooldowns
<1>4. QED
  BY <1>3, BreakerAssumption DEF Backoff, Limit

\* The breaker starts well typed.
LEMMA TypeInit == Init => TypeOK
BY BreakerAssumption DEF Init, TypeOK, Fresh, Busy

\* Every round trip of a caller keeps the types.
LEMMA TypeCaller ==
  ASSUME TypeOK, NEW c \in Callers,
         \/ Allow(c) \/ AllowProbe(c) \/ NotReported(c) \/ Report(c)
         \/ Finish(c) \/ RedisError(c)
  PROVE  TypeOK'
<1> USE BreakerAssumption DEF TypeOK, Go, Return, Write, Busy
<1>0. /\ h.state \in {"closed", "open", "half_open"} /\ h.failures \in Nat /\ h.samples \in Nat
      /\ h.winAge \in 0..(Window + 1) /\ h.openAge \in 0..CooldownMax
      /\ h.cooldown \in Cooldowns /\ h.ok \in 0..CloseAfter /\ h \in Hash
      /\ lag[c] \in 0..(Window + 1) /\ lag[c] \in 0..CooldownMax /\ next[c] \in Cooldowns
      /\ CooldownBase \in Cooldowns /\ 0 \in 0..CloseAfter
  BY DEF Hash, Cooldowns
<1>1. CASE Allow(c) \/ AllowProbe(c) \/ NotReported(c)
  BY <1>1 DEF Allow, AllowProbe, NotReported
<1>2. CASE RecordSuccess(c)
  BY <1>2 DEF RecordSuccess
<1>3. CASE RecordFailure(c)
  <2>1. Backoff \in CooldownBase..CooldownMax
    BY BackoffInRange DEF Cooldowns
  <2>2. QED
    BY <1>3, <2>1 DEF RecordFailure
<1>4. CASE OpenToHalf(c) \/ HalfToClosed(c) \/ HalfToOpen(c) \/ ClosedToOpen(c)
  <2>1. /\ pc' = [pc EXCEPT ![c] = pc'[c]] /\ pc'[c] \in {"idle", "admitted"}
        /\ lag' = [lag EXCEPT ![c] = 0] /\ next' = [next EXCEPT ![c] = 0]
        /\ unused' = 0 /\ UNCHANGED errors
    BY <1>4 DEF OpenToHalf, HalfToClosed, HalfToOpen, ClosedToOpen
  <2>2. h' \in Hash
    <3>1. CASE OpenToHalf(c)
      <4>1. h' = [state |-> "half_open", failures |-> h.failures, samples |-> h.samples, winAge |-> h.winAge,
                  openAge |-> h.openAge, cooldown |-> h.cooldown, ok |-> 0]
        BY <1>0, <3>1 DEF OpenToHalf, Hash
      <4>2. QED
        BY <1>0, <4>1 DEF Hash
    <3>2. CASE HalfToClosed(c)
      <4>1. h' = [state |-> "closed", failures |-> 0, samples |-> 0, winAge |-> lag[c],
                  openAge |-> h.openAge, cooldown |-> CooldownBase, ok |-> 0]
        BY <1>0, <3>2 DEF HalfToClosed, Hash
      <4>2. QED
        BY <1>0, <4>1 DEF Hash
    <3>3. CASE HalfToOpen(c)
      <4>1. h' = [state |-> "open", failures |-> h.failures, samples |-> h.samples, winAge |-> h.winAge,
                  openAge |-> lag[c], cooldown |-> next[c], ok |-> 0]
        BY <1>0, <3>3 DEF HalfToOpen, Hash
      <4>2. QED
        BY <1>0, <4>1 DEF Hash
    <3>4. CASE ClosedToOpen(c)
      <4>1. h' = [state |-> "open", failures |-> h.failures, samples |-> h.samples, winAge |-> h.winAge,
                  openAge |-> lag[c], cooldown |-> CooldownBase, ok |-> 0]
        BY <1>0, <3>4 DEF ClosedToOpen, Hash
      <4>2. QED
        BY <1>0, <4>1 DEF Hash
    <3>5. QED
      BY <1>4, <3>1, <3>2, <3>3, <3>4
  <2>3. QED
    BY <2>1, <2>2 DEF Hash, Cooldowns
<1>5. CASE CountProbe(c)
  <2>1. Limit(h.ok + 1, CloseAfter) \in 0..CloseAfter
    BY DEF Limit
  <2>2. QED
    BY <1>5, <2>1 DEF CountProbe
<1>6. CASE FirstSuccess(c) \/ FirstFailure(c)
  <2>1. h' \in Hash
    <3>1. CASE FirstSuccess(c)
      <4>1. h' = [state |-> h.state, failures |-> 0, samples |-> 1, winAge |-> lag[c],
                  openAge |-> h.openAge, cooldown |-> h.cooldown, ok |-> h.ok]
        BY <1>0, <3>1 DEF FirstSuccess, Hash
      <4>2. QED
        BY <1>0, <4>1 DEF Hash
    <3>2. CASE FirstFailure(c)
      <4>1. h' = [state |-> h.state, failures |-> 1, samples |-> 1, winAge |-> lag[c],
                  openAge |-> h.openAge, cooldown |-> h.cooldown, ok |-> h.ok]
        BY <1>0, <3>2 DEF FirstFailure, Hash
      <4>2. QED
        BY <1>0, <4>1 DEF Hash
    <3>3. QED
      BY <1>6, <3>1, <3>2
  <2>2. CASE FirstSuccess(c)
    BY <2>1, <2>2 DEF FirstSuccess, Hash, Cooldowns
  <2>3. CASE FirstFailure(c)
    BY <2>1, <2>3 DEF FirstFailure, Hash, Cooldowns
  <2>4. QED
    BY <1>6, <2>2, <2>3
<1>7. CASE CountSuccess(c) \/ CountFailure(c) \/ CountSample(c)
  BY <1>7 DEF CountSuccess, CountFailure, CountSample
<1>8. CASE Reread(c)
  BY <1>8 DEF Reread
<1>9. CASE RedisError(c)
  BY <1>9 DEF RedisError
<1>10. QED
  BY <1>1, <1>2, <1>3, <1>4, <1>5, <1>6, <1>7, <1>8, <1>9 DEF Report, Finish

\* Every step keeps the types: a lag grows only while it is below its bound.
LEMMA TypeStep ==
  ASSUME TypeOK, [Next]_vars
  PROVE  TypeOK'
<1>1. CASE \E c \in Callers : \/ Allow(c) \/ AllowProbe(c) \/ NotReported(c) \/ Report(c)
                              \/ Finish(c) \/ RedisError(c)
  BY <1>1, TypeCaller
<1>2. CASE Tick
  <2>1. /\ Limit(h.winAge + 1, Window + 1) \in 0..(Window + 1)
        /\ Limit(h.openAge + 1, CooldownMax) \in 0..CooldownMax
        /\ Limit(unused + 1, TTL) \in 0..TTL
    BY BreakerAssumption DEF Limit, TypeOK
  <2>2. lag' \in [Callers -> 0..MaxLag]
    BY <1>2, BreakerAssumption DEF Tick, TypeOK
  <2>3. QED
    BY <1>2, <2>1, <2>2 DEF Tick, TypeOK
<1>3. CASE Expire
  BY <1>3, BreakerAssumption DEF Expire, Fresh, TypeOK
<1>4. CASE UNCHANGED vars
  BY <1>4 DEF vars, TypeOK
<1>5. QED
  BY <1>1, <1>2, <1>3, <1>4 DEF Next

\* Cooldowns, ages and counters stay in their ranges, whatever snapshot a
\* backoff is computed from.
THEOREM Typing == Spec => []TypeOK
BY TypeInit, TypeStep, PTL DEF Spec

-----------------------------------------------------------------------------
\* The counters of a window.

Counting == {c \in Callers : pc[c] = "countSample"}

\* The callers between their two HINCRBY are finitely many, also after a step.
LEMMA CountingFinite ==
  ASSUME TRUE
  PROVE  /\ IsFiniteSet(Counting) /\ Cardinality(Counting) \in Nat
         /\ IsFiniteSet(Counting') /\ Cardinality(Counting') \in Nat
<1>1. IsFiniteSet(Counting) /\ IsFiniteSet(Counting')
  BY FS_Subset, BreakerAssumption DEF Counting
<1>2. QED
  BY <1>1, FS_CardinalityType

\* A caller between its two HINCRBY is one more.
LEMMA CountingEntered ==
  ASSUME TypeOK, NEW c \in Callers, pc[c] # "countSample", pc' = [pc EXCEPT ![c] = "countSample"]
  PROVE  Cardinality(Counting') = Cardinality(Counting) + 1
<1>1. Counting' = Counting \cup {c} /\ c \notin Counting
  BY DEF Counting, TypeOK
<1>2. QED
  BY <1>1, CountingFinite, FS_AddElement

\* A caller past its second HINCRBY, or cut off before it, is one less.
LEMMA CountingLeft ==
  ASSUME TypeOK, NEW c \in Callers, NEW stage, pc[c] = "countSample",
         stage # "countSample", pc' = [pc EXCEPT ![c] = stage]
  PROVE  Cardinality(Counting') = Cardinality(Counting) - 1
<1>1. Counting' = Counting \ {c} /\ c \in Counting
  BY DEF Counting, TypeOK
<1>2. QED
  BY <1>1, CountingFinite, FS_RemoveElement

\* Any other step of a caller leaves their number alone.
LEMMA CountingStayed ==
  ASSUME TypeOK, NEW c \in Callers, NEW stage, pc[c] # "countSample",
         stage # "countSample", pc' = [pc EXCEPT ![c] = stage]
  PROVE  Cardinality(Counting') = Cardinality(Counting)
<1>1. Counting' = Counting
  BY DEF Counting, TypeOK
<1>2. QED
  BY <1>1

\* The hash is a record.
LEMMA HashFields == TypeOK => DOMAIN h = {"state", "failures", "samples", "winAge", "openAge", "cooldown", "ok"}
BY DEF TypeOK

\* Every round trip of a caller keeps the failures within the samples, the
\* callers between their two HINCRBY and the errors.
LEMMA CountedCaller ==
  ASSUME TypeOK, FailuresCounted, NEW c \in Callers,
         \/ Allow(c) \/ AllowProbe(c) \/ NotReported(c) \/ Report(c)
         \/ Finish(c) \/ RedisError(c)
  PROVE  FailuresCounted'
<1> DEFINE n == Cardinality(Counting)
<1>0. /\ h.failures \in Nat /\ h.samples \in Nat /\ errors \in Nat /\ n \in Nat
      /\ h.failures <= h.samples + n + errors
  BY CountingFinite, BreakerAssumption DEF TypeOK, FailuresCounted, Counting
<1> SUFFICES h'.failures <= h'.samples + Cardinality(Counting') + errors'
  BY DEF FailuresCounted, Counting
<1> USE DEF Go, Return, Write
\* The counters and the errors stay, and the caller is not at its second HINCRBY.
<1>1. ASSUME NEW stage, stage # "countSample", pc[c] # "countSample", pc' = [pc EXCEPT ![c] = stage],
             h'.failures = h.failures, h'.samples = h.samples, errors' = errors
      PROVE  h'.failures <= h'.samples + Cardinality(Counting') + errors'
  <2>1. Cardinality(Counting') = Cardinality(Counting)
    BY <1>1, CountingStayed
  <2>2. QED
    BY <1>0, <1>1, <2>1
\* A new window: no failure more than its samples.
<1>2. ASSUME h'.failures \in Nat, h'.samples \in Nat, h'.failures <= h'.samples, errors' = errors
      PROVE  h'.failures <= h'.samples + Cardinality(Counting') + errors'
  BY <1>0, <1>2, CountingFinite
<1>3. CASE Allow(c) \/ AllowProbe(c) \/ NotReported(c)
  BY <1>1, <1>3 DEF Allow, AllowProbe, NotReported
<1>4. CASE Report(c)
  BY <1>1, <1>4 DEF Report, RecordSuccess, RecordFailure
<1>5. CASE OpenToHalf(c) \/ HalfToOpen(c) \/ ClosedToOpen(c) \/ CountProbe(c) \/ Reread(c)
  BY <1>1, <1>5 DEF OpenToHalf, HalfToOpen, ClosedToOpen, CountProbe, Reread, TypeOK
<1>6. CASE HalfToClosed(c) \/ FirstSuccess(c) \/ FirstFailure(c)
  <2>1. /\ h'.failures \in {0, 1} /\ h'.samples \in {0, 1} /\ h'.failures <= h'.samples
        /\ errors' = errors
    <3>1. CASE HalfToClosed(c)
      BY <3>1, HashFields DEF HalfToClosed
    <3>2. CASE FirstSuccess(c)
      BY <3>2, HashFields DEF FirstSuccess
    <3>3. CASE FirstFailure(c)
      BY <3>3, HashFields DEF FirstFailure
    <3>4. QED
      BY <1>6, <3>1, <3>2, <3>3
  <2>2. QED
    BY <1>2, <2>1
<1>7. CASE CountSuccess(c)
  <2>1. /\ h'.failures = h.failures /\ h'.samples = h.samples + 1 /\ errors' = errors
        /\ pc[c] # "countSample" /\ pc' = [pc EXCEPT ![c] = "idle"]
    BY <1>7 DEF CountSuccess, TypeOK
  <2>2. Cardinality(Counting') = Cardinality(Counting)
    BY <2>1, CountingStayed
  <2>3. QED
    BY <1>0, <2>1, <2>2
<1>8. CASE CountFailure(c)
  <2>1. /\ h'.failures = h.failures + 1 /\ h'.samples = h.samples /\ errors' = errors
        /\ pc[c] # "countSample" /\ pc' = [pc EXCEPT ![c] = "countSample"]
    BY <1>8 DEF CountFailure, TypeOK
  <2>2. Cardinality(Counting') = Cardinality(Counting) + 1
    BY <2>1, CountingEntered
  <2>3. QED
    BY <1>0, <2>1, <2>2
<1>9. CASE CountSample(c)
  <2>1. /\ h'.failures = h.failures /\ h'.samples = h.samples + 1 /\ errors' = errors
        /\ pc[c] = "countSample" /\ pc' = [pc EXCEPT ![c] = "reread"]
    BY <1>9 DEF CountSample, TypeOK
  <2>2. Cardinality(Counting') = Cardinality(Counting) - 1
    BY <2>1, CountingLeft
  <2>3. QED
    BY <1>0, <2>1, <2>2
<1>10. CASE RedisError(c)
  <2>1. PICK stage \in {"admitted", "idle"} : pc' = [pc EXCEPT ![c] = stage]
    BY <1>10 DEF RedisError
  <2>2. h' = h /\ errors' = errors + 1
    BY <1>10 DEF RedisError
  <2>3. Cardinality(Counting') = Cardinality(Counting) \/ Cardinality(Counting') = Cardinality(Counting) - 1
    BY <2>1, CountingStayed, CountingLeft
  <2>4. QED
    BY <1>0, <2>2, <2>3
<1>11. QED
  BY <1>3, <1>4, <1>5, <1>6, <1>7, <1>8, <1>9, <1>10 DEF Finish

\* Every step keeps it; an expired hash has counted nothing.
LEMMA CountedStep ==
  ASSUME TypeOK, FailuresCounted, [Next]_vars
  PROVE  FailuresCounted'
<1>1. CASE \E c \in Callers : \/ Allow(c) \/ AllowProbe(c) \/ NotReported(c) \/ Report(c)
                              \/ Finish(c) \/ RedisError(c)
  BY <1>1, CountedCaller
<1>2. CASE Expire
  <2>1. Cardinality(Counting) \in Nat /\ errors \in Nat
    BY CountingFinite, BreakerAssumption DEF TypeOK
  <2>2. QED
    BY <1>2, <2>1 DEF Expire, Fresh, FailuresCounted, Counting
<1>3. CASE Tick \/ UNCHANGED vars
  <2>1. /\ h'.failures = h.failures /\ h'.samples = h.samples
        /\ pc' = pc /\ errors' = errors
    BY <1>3 DEF Tick, vars, TypeOK
  <2>2. QED
    BY <2>1 DEF FailuresCounted
<1>4. QED
  BY <1>1, <1>2, <1>3 DEF Next

\* Failures never exceed the samples by more than the reports that are, or
\* were cut off, between the two increments of their pipeline.
THEOREM Counted == Spec => []FailuresCounted
<1>1. Init => FailuresCounted
  <2> SUFFICES ASSUME Init PROVE FailuresCounted
    OBVIOUS
  <2>1. {c \in Callers : pc[c] = "countSample"} = {}
    BY DEF Init
  <2>2. Cardinality({}) = 0
    BY FS_EmptySet
  <2>3. QED
    BY <2>1, <2>2 DEF Init, Fresh, FailuresCounted
<1>2. QED
  BY <1>1, Typing, CountedStep, PTL DEF Spec

-----------------------------------------------------------------------------
\* The expiry of an open breaker.

\* While the breaker is open its key has been renewed since it was opened, or
\* every cooldown is over.
Renewed == h.state = "open" => unused <= h.openAge \/ h.openAge >= CooldownMax

\* A step of a caller that leaves the breaker open renews the key or leaves
\* both ages alone; only a tick moves them, and it moves them together.
LEMMA RenewedStep ==
  ASSUME TypeOK, Renewed, [Next]_vars
  PROVE  Renewed'
<1> USE BreakerAssumption DEF Renewed, TypeOK
<1>1. CASE Tick
  <2>1. h'.state = h.state /\ h'.openAge = Limit(h.openAge + 1, CooldownMax)
        /\ unused' = Limit(unused + 1, TTL)
    BY <1>1 DEF Tick
  <2>2. h.openAge \in Nat /\ unused \in Nat /\ CooldownMax \in Nat /\ TTL \in Nat
    OBVIOUS
  <2>3. QED
    BY <2>1, <2>2 DEF Limit
<1>2. CASE Expire
  BY <1>2 DEF Expire, Fresh
<1>3. CASE UNCHANGED vars
  BY <1>3 DEF vars
<1>4. ASSUME NEW c \in Callers,
             \/ Allow(c) \/ AllowProbe(c) \/ NotReported(c) \/ Report(c)
             \/ Finish(c) \/ RedisError(c)
      PROVE  Renewed'
  <2>1. \/ UNCHANGED <<h, unused>>
        \/ unused' = 0 /\ h'.openAge \in Nat
        \/ h' = [h EXCEPT !.failures = @ + 1] /\ unused' = unused
    <3>1. CASE Allow(c) \/ AllowProbe(c) \/ NotReported(c) \/ Reread(c) \/ RedisError(c)
      BY <3>1 DEF Allow, AllowProbe, NotReported, Reread, RedisError
    <3>2. CASE Report(c)
      BY <3>2 DEF Report, RecordSuccess, RecordFailure
    <3>3. CASE CountFailure(c)
      BY <3>3 DEF CountFailure
    <3>4. CASE \/ OpenToHalf(c) \/ CountProbe(c) \/ HalfToClosed(c) \/ FirstSuccess(c) \/ CountSuccess(c)
               \/ HalfToOpen(c) \/ FirstFailure(c) \/ CountSample(c) \/ ClosedToOpen(c)
      <4>0. lag[c] \in Nat /\ h.openAge \in Nat
        OBVIOUS
      <4>1. CASE HalfToOpen(c)
        BY <4>0, <4>1 DEF HalfToOpen, Write
      <4>2. CASE ClosedToOpen(c)
        BY <4>0, <4>2 DEF ClosedToOpen, Write
      <4>3. CASE OpenToHalf(c) \/ HalfToClosed(c)
        BY <4>0, <4>3 DEF OpenToHalf, HalfToClosed, Write
      <4>4. CASE CountProbe(c)
        BY <4>0, <4>4 DEF CountProbe, Write
      <4>5. CASE FirstSuccess(c) \/ FirstFailure(c)
        BY <4>0, <4>5 DEF FirstSuccess, FirstFailure, Write
      <4>6. CASE CountSuccess(c) \/ CountSample(c)
        BY <4>0, <4>6 DEF CountSuccess, CountSample, Write
      <4>7. QED
        BY <3>4, <4>1, <4>2, <4>3, <4>4, <4>5, <4>6
    <3>5. QED
      BY <1>4, <3>1, <3>2, <3>3, <3>4 DEF Finish
  <2>2. CASE UNCHANGED <<h, unused>>
    BY <2>2
  <2>3. CASE unused' = 0 /\ h'.openAge \in Nat
    BY <2>3
  <2>4. CASE h' = [h EXCEPT !.failures = @ + 1] /\ unused' = unused
    <3>1. h'.state = h.state /\ h'.openAge = h.openAge
      BY <2>4
    <3>2. QED
      BY <2>4, <3>1
  <2>5. QED
    BY <2>1, <2>2, <2>3, <2>4
<1>5. QED
  BY <1>1, <1>2, <1>3, <1>4 DEF Next

\* An open breaker is not forgotten while its cooldown runs, for every
\* cooldown that is shorter than the expiry of the key by a call.
THEOREM Remembered == Spec => []NoAmnesia
<1>1. Init => Renewed
  BY DEF Init, Fresh, Renewed
<1>2. TypeOK /\ Renewed => NoAmnesia
  BY BreakerAssumption DEF TypeOK, Renewed, NoAmnesia, Cooled
<1>3. QED
  BY <1>1, <1>2, Typing, RenewedStep, PTL DEF Spec
=============================================================================
