-------------------------- MODULE RateLimiterProofs --------------------------
(***************************************************************************)
(* Theorems of RateLimiter, for any number of requests, any rules and any  *)
(* number of Redis errors and of requests that are cut off.                *)
(***************************************************************************)
EXTENDS RateLimiter, TallyLemmas

USE LimiterAssumption

(***************************************************************************)
(* What the limits of the rules come to.                                   *)
(***************************************************************************)

\* The image of a finite set is finite.
LEMMA ImageFinite ==
  ASSUME NEW S, IsFiniteSet(S), NEW f
  PROVE  IsFiniteSet({f[x] : x \in S})
<1> DEFINE Image(T) == {f[x] : x \in T}
           Good == {T \in SUBSET S : IsFiniteSet(Image(T))}
<1>1. {} \in Good
  <2>1. Image({}) = {}
    OBVIOUS
  <2> QED
    BY <2>1, FS_EmptySet
<1>2. ASSUME NEW T \in SUBSET S, NEW x \in S, T \in Good PROVE T \cup {x} \in Good
  <2>1. Image(T \cup {x}) = Image(T) \cup {f[x]}
    OBVIOUS
  <2>2. IsFiniteSet(Image(T))
    BY <1>2
  <2>3. IsFiniteSet(Image(T) \cup {f[x]})
    <3> HIDE DEF Image
    <3> QED
      BY <2>2, FS_AddElement
  <2>4. IsFiniteSet(Image(T \cup {x}))
    BY <2>1, <2>3
  <2> QED
    BY <2>4
<1>3. S \in Good
  <2> HIDE DEF Good
  <2> QED
    BY <1>1, <1>2, SetInduction
<1> QED
  BY <1>3

\* The rules that ever reach a counter are finitely many.
LEMMA RulesFinite ==
  ASSUME NEW k
  PROVE  IsFiniteSet(RulesOn(k)) /\ RulesOn(k) \in SUBSET Rules
<1> DEFINE All == {ToSet(rs) : rs \in RuleSets}
           f == [rs \in RuleSets |-> ToSet(rs)]
<1>1. All = {f[rs] : rs \in RuleSets}
  OBVIOUS
<1>2. IsFiniteSet(All)
  <2> HIDE DEF All, f
  <2> QED
    BY <1>1, ImageFinite
<1>3. ASSUME NEW rs \in RuleSets PROVE IsFiniteSet(ToSet(rs)) /\ ToSet(rs) \in SUBSET Rules
  <2>1. rs \in Seq(Rules) /\ Len(rs) \in Nat /\ DOMAIN rs = 1..Len(rs)
    OBVIOUS
  <2>2. ToSet(rs) = {rs[i] : i \in 1..Len(rs)}
    BY <2>1 DEF ToSet
  <2>3. IsFiniteSet(1..Len(rs))
    BY <2>1, FS_Interval
  <2>4. IsFiniteSet(ToSet(rs))
    BY <2>2, <2>3, ImageFinite
  <2> QED
    BY <2>1, <2>2, <2>4
<1>4. IsFiniteSet(UNION All)
  <2>1. \A T \in All : IsFiniteSet(T)
    BY <1>3
  <2> HIDE DEF All
  <2> QED
    BY <1>2, <2>1, FS_UNION
<1>5. RulesOn(k) \in SUBSET (UNION All)
  BY DEF RulesOn
<1>6. UNION All \in SUBSET Rules
  BY <1>3
<1> HIDE DEF All
<1> QED
  BY <1>4, <1>5, <1>6, FS_Subset

\* A cap is a natural that a rule of the key sets, and none sets more.
LEMMA CapIs ==
  ASSUME NEW k \in Keys, NEW dim \in Dims
  PROVE  /\ Cap(dim, k) \in Nat /\ \A rule \in RulesOn(k) : rule[dim] <= Cap(dim, k)
         /\ Cap(dim, k) = 0 \/ \E rule \in RulesOn(k) : rule[dim] = Cap(dim, k)
<1> DEFINE f == [rule \in RulesOn(k) |-> rule[dim]]
           S == {0} \cup {rule[dim] : rule \in RulesOn(k)}
<1>1. {rule[dim] : rule \in RulesOn(k)} = {f[rule] : rule \in RulesOn(k)}
  OBVIOUS
<1>2. IsFiniteSet({f[rule] : rule \in RulesOn(k)})
  <2> HIDE DEF f
  <2> QED
    BY RulesFinite, ImageFinite
<1>3. S = {f[rule] : rule \in RulesOn(k)} \cup {0}
  BY <1>1
<1>4. IsFiniteSet(S)
  <2> HIDE DEF S, f
  <2> QED
    BY <1>2, <1>3, FS_AddElement
<1>5. \A rule \in RulesOn(k) : rule[dim] \in Int
  <2> SUFFICES ASSUME NEW rule \in RulesOn(k) PROVE rule[dim] \in Int
    OBVIOUS
  <2>1. rule \in Rules
    BY RulesFinite
  <2> QED
    BY <2>1 DEF Rules, Dims
<1>6. S \in SUBSET Int /\ 0 \in S /\ \A rule \in RulesOn(k) : rule[dim] \in S
  BY <1>5
<1>7. Cap(dim, k) = CHOOSE x \in S : \A y \in S : x >= y
  BY DEF Cap, Caps, Max
<1> HIDE DEF S
<1>8. \E x \in S : \A y \in S : x >= y
  BY <1>4, <1>6, LargestExists
<1>9. Cap(dim, k) \in S /\ \A y \in S : Cap(dim, k) >= y
  BY <1>7, <1>8
<1>10. Cap(dim, k) \in Nat
  <2> DEFINE c == Cap(dim, k)
  <2>1. c \in Int /\ c >= 0
    BY <1>6, <1>9
  <2> HIDE DEF c
  <2>2. c \in Nat
    BY <2>1
  <2> QED
    BY <2>2 DEF c
<1>11. \A x \in S : x = 0 \/ \E rule \in RulesOn(k) : rule[dim] = x
  BY DEF S
<1> QED
  BY <1>6, <1>9, <1>10, <1>11

\* The estimates are bounded.
Heaviest == Max({Tokens[r] : r \in Requests})

\* The heaviest request bounds the tokens of every request.
LEMMA HeaviestIs ==
  ASSUME NEW r \in Requests
  PROVE  Heaviest \in Nat /\ \A q \in Requests : Tokens[q] \in Nat /\ Tokens[q] <= Heaviest
<1> DEFINE S == {Tokens[q] : q \in Requests}
<1>1. IsFiniteSet(S) /\ S # {} /\ S \in SUBSET Int
  BY ImageFinite
<1>2. Heaviest = CHOOSE x \in S : \A y \in S : x >= y
  BY DEF Heaviest, Max
<1>3. \E x \in S : \A y \in S : x >= y
  <2> HIDE DEF S
  <2> QED
    BY <1>1, LargestExists
<1>4. Heaviest \in S /\ \A y \in S : Heaviest >= y
  <2> HIDE DEF S
  <2> QED
    BY <1>2, <1>3
<1> QED
  BY <1>4

(***************************************************************************)
(* The walk over the rules.                                                *)
(***************************************************************************)

\* FlattenSeq joins the sequences one by one.
JoinsTo(F, ss, m) == F[0] = <<>> /\ \A i \in 1..m : F[i] = F[i - 1] \o ss[i]

\* The flattened sequence is what joining its parts one by one gives.
LEMMA FlattenIs ==
  ASSUME NEW S, NEW ss \in Seq(Seq(S))
  PROVE  \E F \in [0..Len(ss) -> Seq(S)] : JoinsTo(F, ss, Len(ss)) /\ FlattenSeq(ss) = F[Len(ss)]
<1> DEFINE n == Len(ss)
<1>0. n \in Nat /\ \A i \in 1..n : ss[i] \in Seq(S)
  OBVIOUS
<1>a. n = 0 => FlattenSeq(ss) = <<>>
  BY DEF FlattenSeq
<1> DEFINE Unfold(it) == [i \in 1..n |-> IF i = 1 THEN ss[i] ELSE it[i - 1] \o ss[i]]
           flat == CHOOSE it : it = Unfold(it)
<1>b. n # 0 => FlattenSeq(ss) = flat[n]
  BY DEF FlattenSeq
<1> DEFINE Bad == {m \in 0..n : ~ \E F \in [0..m -> Seq(S)] : JoinsTo(F, ss, m)}
<1> HIDE DEF n
<1>1. Bad = {}
  <2> SUFFICES ASSUME Bad # {} PROVE FALSE
    OBVIOUS
  <2>1. PICK m \in Bad : \A k \in Bad : m <= k
    <3>1. Bad \in SUBSET Nat
      BY <1>0
    <3> HIDE DEF Bad
    <3> QED
      BY <3>1, LeastNatural
  <2>2. m # 0
    <3> DEFINE z == [i \in {0} |-> <<>>]
    <3>1. z \in [0..0 -> Seq(S)] /\ z[0] = <<>>
      OBVIOUS
    <3> HIDE DEF z
    <3>2. JoinsTo(z, ss, 0)
      BY <3>1 DEF JoinsTo
    <3> QED
      BY <3>1, <3>2
  <2>3. m \in 1..n /\ m - 1 \in 0..n /\ m - 1 \notin Bad
    <3>1. m \in 0..n
      BY <2>1
    <3> HIDE DEF Bad
    <3>2. m \in 1..n /\ m - 1 \in 0..n /\ ~ (m <= m - 1)
      BY <1>0, <2>2, <3>1
    <3> QED
      BY <2>1, <3>2
  <2>4. PICK F \in [0..(m - 1) -> Seq(S)] : JoinsTo(F, ss, m - 1)
    BY <2>3
  <2> DEFINE G == [i \in 0..m |-> IF i = m THEN F[m - 1] \o ss[m] ELSE F[i]]
  <2>5. F[m - 1] \o ss[m] \in Seq(S)
    BY <1>0, <2>3
  <2>6. G \in [0..m -> Seq(S)] /\ G[0] = <<>>
    BY <1>0, <2>3, <2>4, <2>5, SMTT(30) DEF JoinsTo
  <2>7. ASSUME NEW i \in 1..m PROVE G[i] = G[i - 1] \o ss[i]
    <3>1. CASE i = m
      <4>1. i \in 0..m /\ i - 1 \in 0..m /\ i - 1 # m
        BY <1>0, <2>3, <3>1
      <4>2. G[i] = F[m - 1] \o ss[m]
        BY <3>1, <4>1
      <4>3. G[i - 1] = F[i - 1]
        BY <4>1, SMTT(30)
      <4> QED
        BY <3>1, <4>2, <4>3
    <3>2. CASE i # m
      <4>1. G[i] = F[i] /\ G[i - 1] = F[i - 1] /\ i \in 1..(m - 1)
        BY <1>0, <2>3, <3>2
      <4> QED
        BY <2>4, <4>1 DEF JoinsTo
    <3> QED
      BY <3>1, <3>2
  <2> HIDE DEF G
  <2>8. JoinsTo(G, ss, m)
    BY <2>6, <2>7 DEF JoinsTo
  <2> QED
    BY <2>1, <2>6, <2>8
<1>2. PICK F \in [0..n -> Seq(S)] : JoinsTo(F, ss, n)
  BY <1>0, <1>1
<1>3. CASE n = 0
  BY <1>a, <1>2, <1>3 DEF JoinsTo, n
<1>4. CASE n # 0
  <2> DEFINE f == [i \in 1..n |-> F[i]]
  <2>1. ASSUME NEW i \in 1..n PROVE f[i] = IF i = 1 THEN ss[i] ELSE f[i - 1] \o ss[i]
    <3>1. F[i] = F[i - 1] \o ss[i] /\ F[0] = <<>> /\ ss[i] \in Seq(S)
      BY <1>0, <1>2 DEF JoinsTo
    <3>2. CASE i = 1
      <4>1. i - 1 = 0 /\ f[i] = F[i]
        BY <3>2
      <4>2. <<>> \o ss[i] = ss[i]
        BY <3>1
      <4> QED
        BY <3>1, <3>2, <4>1, <4>2
    <3>3. CASE i # 1
      <4>1. i - 1 \in 1..n
        BY <1>0, <3>3
      <4> QED
        BY <3>1, <3>3, <4>1
    <3> QED
      BY <3>2, <3>3
  <2>2. f = Unfold(f)
    BY <2>1
  <2>3. flat = Unfold(flat)
    <3> HIDE DEF Unfold, f
    <3> QED
      BY <2>2, Zenon
  <2> HIDE DEF flat
  <2>4. ASSUME NEW i \in 1..n PROVE flat[i] = IF i = 1 THEN ss[i] ELSE flat[i - 1] \o ss[i]
    BY <2>3
  <2> HIDE DEF Unfold
  <2> DEFINE Diff == {i \in 1..n : flat[i] # f[i]}
  <2>5. Diff = {}
    <3> SUFFICES ASSUME Diff # {} PROVE FALSE
      OBVIOUS
    <3>1. PICK m \in Diff : \A k \in Diff : m <= k
      <4>1. Diff \in SUBSET Nat
        BY <1>0
      <4> HIDE DEF Diff
      <4> QED
        BY <4>1, LeastNatural
    <3> HIDE DEF f
    <3>2. m \in 1..n /\ flat[m] # f[m]
      BY <3>1
    <3>3. m # 1
      BY <2>1, <2>4, <3>2
    <3>4. m - 1 \in 1..n /\ m - 1 \notin Diff
      BY <1>0, <3>1, <3>2, <3>3
    <3>5. flat[m - 1] = f[m - 1]
      BY <3>4
    <3> QED
      BY <2>1, <2>4, <3>2, <3>3, <3>5
  <2>6. n \in 1..n
    BY <1>0, <1>4
  <2>7. flat[n] = F[n]
    BY <2>5, <2>6
  <2> QED
    BY <1>b, <1>2, <1>4, <2>7 DEF n
<1> QED
  BY <1>3, <1>4

\* Joining sequences over a set gives one over that set.
LEMMA FlattenTyped ==
  ASSUME NEW S, NEW ss \in Seq(Seq(S))
  PROVE  FlattenSeq(ss) \in Seq(S)
<1>1. PICK F \in [0..Len(ss) -> Seq(S)] : FlattenSeq(ss) = F[Len(ss)]
  BY FlattenIs
<1>2. Len(ss) \in 0..Len(ss)
  <2>1. Len(ss) \in Nat
    OBVIOUS
  <2> QED
    BY <2>1
<1> QED
  BY <1>1, <1>2

\* What Allow may have to check: no limit is 0 and none is above the cap.
Checks == {c \in [dim : Dims, key : Keys, max : Nat \ {0}] : c.max <= Cap(c.dim, c.key)}
SlotChecks == {c \in Checks : c.dim = "conc"}

\* A rule gives checks, and in the dimension "conc" checks of slots.
LEMMA LimitTyped ==
  ASSUME NEW rs \in RuleSets, NEW i \in DOMAIN rs, NEW s \in 1..4, NEW r \in Requests,
         NEW dim \in Dims
  PROVE  /\ Limit(rs[i], dim, Scopes[s], r) \in Seq(Checks)
         /\ dim = "conc" => Limit(rs[i], dim, Scopes[s], r) \in Seq(SlotChecks)
<1> DEFINE rule == rs[i]
           c == [dim |-> dim, key |-> KeyOf(Scopes[s], r), max |-> rule[dim]]
<1>1. rule \in Rules /\ rule[dim] \in Int
  <2>1. rule \in Rules
    OBVIOUS
  <2> QED
    BY <2>1 DEF Rules, Dims
<1>2. KeyOf(Scopes[s], r) \in Keys
  BY DEF Keys
<1>3. CASE Matches(rule, Scopes[s], r) /\ rule[dim] > 0
  <2>1. KeyOf(Scopes[s], r)[1] = Scopes[s]
    BY DEF KeyOf
  <2>2. rule \in ToSet(rs)
    BY DEF ToSet
  <2>3. rule \in RulesOn(KeyOf(Scopes[s], r))
    BY <1>3, <2>1, <2>2 DEF RulesOn
  <2>4. rule[dim] <= Cap(dim, KeyOf(Scopes[s], r))
    BY <1>2, <2>3, CapIs
  <2> HIDE DEF rule
  <2>5. c \in Checks /\ (dim = "conc" => c \in SlotChecks)
    BY <1>1, <1>2, <1>3, <2>4 DEF Checks, SlotChecks
  <2>6. Limit(rule, dim, Scopes[s], r) = <<c>>
    BY <1>3 DEF Limit
  <2> HIDE DEF c
  <2>7. Limit(rule, dim, Scopes[s], r) \in Seq(Checks)
    BY <2>5, <2>6
  <2>8. dim = "conc" => Limit(rule, dim, Scopes[s], r) \in Seq(SlotChecks)
    BY <2>5, <2>6
  <2> QED
    BY <2>7, <2>8 DEF rule
<1>4. CASE ~(Matches(rule, Scopes[s], r) /\ rule[dim] > 0)
  BY <1>4 DEF Limit
<1> QED
  BY <1>3, <1>4

\* The checks to make and the slots to release are sequences of checks.
LEMMA ChecksTyped ==
  ASSUME NEW rs \in RuleSets, NEW r \in Requests
  PROVE  ChecksUnder(rs, r) \in Seq(Checks) /\ SlotsUnder(rs, r) \in Seq(SlotChecks)
<1> DEFINE all(s) == [i \in DOMAIN rs |-> Limits(rs[i], Scopes[s], r)]
           slots(s) == [i \in DOMAIN rs |-> Limit(rs[i], "conc", Scopes[s], r)]
<1>0. rs \in Seq(Rules) /\ DOMAIN rs = 1..Len(rs) /\ Len(rs) \in Nat
  OBVIOUS
<1>1. ASSUME NEW s \in 1..4, NEW i \in DOMAIN rs
      PROVE  /\ Limits(rs[i], Scopes[s], r) \in Seq(Checks)
             /\ Limit(rs[i], "conc", Scopes[s], r) \in Seq(SlotChecks)
  <2>1. \A dim \in Dims : Limit(rs[i], dim, Scopes[s], r) \in Seq(Checks)
    BY LimitTyped
  <2>2. Limit(rs[i], "conc", Scopes[s], r) \in Seq(SlotChecks)
    BY LimitTyped DEF Dims
  <2> QED
    BY <2>1, <2>2 DEF Limits, Dims
<1>2. ASSUME NEW s \in 1..4
      PROVE  all(s) \in Seq(Seq(Checks)) /\ slots(s) \in Seq(Seq(SlotChecks))
  <2>1. all(s) \in [1..Len(rs) -> Seq(Checks)] /\ slots(s) \in [1..Len(rs) -> Seq(SlotChecks)]
    BY <1>0, <1>1
  <2>2. \A T : \A g \in [1..Len(rs) -> T] : g \in Seq(T)
    BY <1>0
  <2> HIDE DEF all, slots
  <2> QED
    BY <2>1, <2>2
<1>3. ASSUME NEW s \in 1..4
      PROVE  FlattenSeq(all(s)) \in Seq(Checks) /\ FlattenSeq(slots(s)) \in Seq(SlotChecks)
  <2> HIDE DEF all, slots
  <2> QED
    BY <1>2, FlattenTyped
<1> DEFINE alls == [s \in 1..4 |-> FlattenSeq(all(s))]
           slotss == [s \in 1..4 |-> FlattenSeq(slots(s))]
<1>4. alls \in Seq(Seq(Checks)) /\ slotss \in Seq(Seq(SlotChecks))
  <2> HIDE DEF all, slots
  <2> QED
    BY <1>3
<1>5. FlattenSeq(alls) \in Seq(Checks) /\ FlattenSeq(slotss) \in Seq(SlotChecks)
  <2> HIDE DEF alls, slotss
  <2> QED
    BY <1>4, FlattenTyped
<1> QED
  BY <1>5 DEF ChecksUnder, SlotsUnder

(***************************************************************************)
(* Types, whatever the rules are changed to.                               *)
(***************************************************************************)

Stages == Inside \cup {"idle", "served", "release"}

\* What a request has left, and the stage it is in.
TodoTyped ==
  /\ pc \in [Requests -> Stages]
  /\ todo \in [Requests -> Seq(Checks)]
  /\ \A r \in Requests : (todo[r] = <<>>) <=> (pc[r] \in {"idle", "served"})
  /\ \A r \in Requests : pc[r] = "add" => Head(todo[r]).dim \in {"rpm", "tpm"}
  /\ \A r \in Requests : pc[r] = "overflow" => Head(todo[r]).dim = "conc"
  /\ \A r \in Requests : pc[r] = "release" => todo[r] \in Seq(SlotChecks)

ClockTyped ==
  /\ age \in [Requests -> 0..MaxAge]
  /\ \A r \in Requests : pc[r] \in Inside => age[r] <= MaxLag
  /\ second \in 0..(Minute - 1) /\ errors \in 0..MaxErrors

RedisTyped ==
  /\ count \in [Keys -> Int] /\ ttl \in [Keys -> 0..TTL]
  /\ hits \in [Keys -> [0..(Span - 1) -> Nat]]
  /\ tokens \in [Keys -> Nat \X Nat \X Nat]

Typed == rules \in RuleSets /\ TodoTyped /\ ClockTyped /\ RedisTyped

\* The limiter starts well typed.
LEMMA TypedInit == Init => Typed
<1> SUFFICES ASSUME Init PROVE Typed
  OBVIOUS
<1> USE DEF Init
<1>1. TodoTyped
  <2>1. \A r \in Requests : pc[r] = "idle" /\ todo[r] = <<>>
    OBVIOUS
  <2> QED
    BY <2>1 DEF TodoTyped, Stages
<1>2. ClockTyped
  BY DEF ClockTyped, Inside
<1>3. RedisTyped
  BY DEF RedisTyped
<1> QED
  BY <1>1, <1>2, <1>3 DEF Typed

\* The check or slot a request is at.
LEMMA HeadTyped ==
  ASSUME TodoTyped, NEW r \in Requests, pc[r] \notin {"idle", "served"}
  PROVE  /\ todo[r] # <<>> /\ Head(todo[r]) \in Checks /\ Tail(todo[r]) \in Seq(Checks)
         /\ Key(r) \in Keys /\ TopOf(r) \in Nat /\ 1 <= TopOf(r)
         /\ TopOf(r) <= Cap(Head(todo[r]).dim, Key(r))
<1>1. todo[r] \in Seq(Checks) /\ todo[r] # <<>>
  BY DEF TodoTyped
<1>2. Head(todo[r]) \in Checks /\ Tail(todo[r]) \in Seq(Checks)
  BY <1>1
<1> QED
  BY <1>1, <1>2 DEF Checks, Key, TopOf

\* The steps of a request move it alone.
LEMMA GoTyped ==
  ASSUME TodoTyped, NEW r \in Requests, NEW stage \in Stages, NEW left \in Seq(Checks),
         Go(r, stage, left),
         (left = <<>>) <=> (stage \in {"idle", "served"}),
         stage = "add" => Head(left).dim \in {"rpm", "tpm"},
         stage = "overflow" => Head(left).dim = "conc",
         stage = "release" => left \in Seq(SlotChecks)
  PROVE  TodoTyped'
<1>1. pc' = [pc EXCEPT ![r] = stage] /\ todo' = [todo EXCEPT ![r] = left]
  BY DEF Go
<1>2. pc' \in [Requests -> Stages] /\ todo' \in [Requests -> Seq(Checks)]
  BY <1>1 DEF TodoTyped
<1>3. \A q \in Requests : /\ pc'[q] = IF q = r THEN stage ELSE pc[q]
                          /\ todo'[q] = IF q = r THEN left ELSE todo[q]
  BY <1>1 DEF TodoTyped
<1> QED
  BY <1>2, <1>3, ZenonT(60) DEF TodoTyped

\* A check passed leaves the others to make.
LEMMA PassTyped ==
  ASSUME TodoTyped, NEW r \in Requests, pc[r] \notin {"idle", "served"}, Pass(r)
  PROVE  TodoTyped'
<1> DEFINE left == Tail(todo[r])
           stage == IF left = <<>> THEN "served" ELSE "check"
<1>1. left \in Seq(Checks) /\ Go(r, stage, left) /\ stage \in Stages
  BY HeadTyped DEF Pass, Stages, Inside
<1>2. (left = <<>>) <=> (stage \in {"idle", "served"})
  OBVIOUS
<1>3. stage \notin {"add", "overflow", "release"}
  OBVIOUS
<1> HIDE DEF left, stage
<1> QED
  BY <1>1, <1>2, <1>3, GoTyped

\* A rejected request has nothing left to do.
LEMMA RejectTyped ==
  ASSUME TodoTyped, NEW r \in Requests, Go(r, "idle", <<>>)
  PROVE  TodoTyped'
<1>1. <<>> \in Seq(Checks) /\ "idle" \in Stages
  BY DEF Stages
<1> QED
  BY <1>1, GoTyped

\* A slot released leaves the others to release.
LEMMA LeftTyped ==
  ASSUME TodoTyped, NEW r \in Requests, pc[r] = "release", Left(r)
  PROVE  TodoTyped'
<1> DEFINE left == Tail(todo[r])
           stage == IF left = <<>> THEN "idle" ELSE "release"
<1>1. left \in Seq(Checks) /\ Go(r, stage, left) /\ stage \in Stages
  BY HeadTyped DEF Left, Stages
<1>2. left \in Seq(SlotChecks)
  <2>1. todo[r] \in Seq(SlotChecks) /\ todo[r] # <<>>
    BY DEF TodoTyped
  <2> QED
    BY <2>1
<1>3. /\ (left = <<>>) <=> (stage \in {"idle", "served"})
      /\ stage \notin {"add", "overflow"}
  OBVIOUS
<1> HIDE DEF left, stage
<1> QED
  BY <1>1, <1>2, <1>3, GoTyped

\* Every step keeps the stages and what is left to do well typed.
LEMMA TodoStep ==
  ASSUME Typed, [Next]_vars
  PROVE  TodoTyped'
<1>0. TodoTyped /\ rules \in RuleSets
  BY DEF Typed
<1>1. ASSUME NEW r \in Requests, Allow(r) PROVE TodoTyped'
  <2> DEFINE left == ChecksOf(r)
             stage == IF left = <<>> THEN "served" ELSE "check"
  <2>1. left \in Seq(Checks)
    BY <1>0, ChecksTyped DEF ChecksOf
  <2>2. Go(r, stage, left)
    BY <1>1 DEF Allow
  <2>3. /\ stage \in Stages /\ ((left = <<>>) <=> (stage \in {"idle", "served"}))
        /\ stage \notin {"add", "overflow", "release"}
    BY DEF Stages, Inside
  <2> HIDE DEF left, stage
  <2> QED
    BY <1>0, <2>1, <2>2, <2>3, GoTyped
<1>2. ASSUME NEW r \in Requests, CheckRPM(r) \/ CheckTPM(r) PROVE TodoTyped'
  <2>1. pc[r] = "check" /\ Head(todo[r]).dim \in {"rpm", "tpm"}
    BY <1>2 DEF CheckRPM, CheckTPM, At
  <2>2. Reject(r) \/ Go(r, "add", todo[r])
    BY <1>2 DEF CheckRPM, CheckTPM
  <2>3. todo[r] \in Seq(Checks) /\ todo[r] # <<>> /\ "add" \in Stages
    BY <1>0, <2>1, HeadTyped DEF TodoTyped, Stages, Inside
  <2> QED
    BY <1>0, <2>1, <2>2, <2>3, GoTyped, RejectTyped DEF Reject
<1>3. ASSUME NEW r \in Requests, AddHit(r) \/ AddTokens(r) PROVE TodoTyped'
  <2>1. pc[r] = "add" /\ Pass(r)
    BY <1>3 DEF AddHit, AddTokens, At
  <2> QED
    BY <1>0, <2>1, PassTyped
<1>4. ASSUME NEW r \in Requests, NEW b \in BOOLEAN, Acquire(r, b) PROVE TodoTyped'
  <2>1. pc[r] = "check" /\ Head(todo[r]).dim = "conc"
    BY <1>4 DEF Acquire, At
  <2>2. Pass(r) \/ Go(r, "overflow", todo[r])
    BY <1>4 DEF Acquire
  <2>3. todo[r] \in Seq(Checks) /\ todo[r] # <<>> /\ "overflow" \in Stages
    BY <1>0, <2>1, HeadTyped DEF TodoTyped, Stages, Inside
  <2> QED
    BY <1>0, <2>1, <2>2, <2>3, GoTyped, PassTyped
<1>5. ASSUME NEW r \in Requests, GiveUp(r) PROVE TodoTyped'
  BY <1>0, <1>5, RejectTyped DEF GiveUp, Reject
<1>6. ASSUME NEW r \in Requests, Release(r) PROVE TodoTyped'
  <2> DEFINE left == SlotsOf(r)
  <2>1. left \in Seq(SlotChecks)
    BY <1>0, ChecksTyped DEF SlotsOf
  <2>2. IF left = <<>> THEN Go(r, "idle", <<>>) ELSE Go(r, "release", left)
    BY <1>6 DEF Release
  <2> HIDE DEF left
  <2>3. left \in Seq(Checks)
    BY <2>1 DEF SlotChecks
  <2>4. "release" \in Stages
    BY DEF Stages
  <2> QED
    BY <1>0, <2>1, <2>2, <2>3, <2>4, GoTyped, RejectTyped
<1>7. ASSUME NEW r \in Requests, ReleaseSlot(r) PROVE TodoTyped'
  BY <1>0, <1>7, LeftTyped DEF ReleaseSlot
<1>8. ASSUME NEW r \in Requests, RedisError(r) PROVE TodoTyped'
  <2>1. CASE pc[r] \in {"check", "add"} /\ Pass(r)
    BY <1>0, <2>1, PassTyped
  <2>2. CASE pc[r] = "overflow" /\ Reject(r)
    BY <1>0, <2>2, RejectTyped DEF Reject
  <2>3. CASE pc[r] = "release" /\ Left(r)
    BY <1>0, <2>3, LeftTyped
  <2>4. CASE Acquire(r, FALSE)
    BY <1>4, <2>4
  <2> QED
    BY <1>8, <2>1, <2>2, <2>3, <2>4 DEF RedisError
<1>9. ASSUME NEW r \in Requests, CutOff(r) PROVE TodoTyped'
  BY <1>0, <1>9, RejectTyped DEF CutOff
<1>10. CASE Reload \/ Tick \/ UNCHANGED vars
  <2>1. pc' = pc /\ todo' = todo
    BY <1>10 DEF Reload, Tick, vars
  <2> QED
    BY <1>0, <2>1 DEF TodoTyped
<1> QED
  BY <1>1, <1>2, <1>3, <1>4, <1>5, <1>6, <1>7, <1>8, <1>9, <1>10
     DEF Next, Step, AcquireConcurrent

\* What a step of a request does to the stages and to the clocks: it goes on
\* inside Allow only from inside Allow.
LEMMA GoIs ==
  ASSUME TodoTyped, NEW r \in Requests, NEW stage, NEW left, Go(r, stage, left)
  PROVE  /\ pc'[r] = stage /\ todo'[r] = left
         /\ \A q \in Requests \ {r} : pc'[q] = pc[q] /\ todo'[q] = todo[q]
BY DEF Go, TodoTyped

\* The steps of request r but the first.
Later(r) == Step(r) \/ RedisError(r) \/ CutOff(r)

\* Once under way, a request moves no other, and enters a check only from within its own.
LEMMA LaterMoves ==
  ASSUME TodoTyped, NEW r \in Requests, Later(r)
  PROVE  /\ UNCHANGED <<rules, age, second>>
         /\ \A q \in Requests \ {r} : pc'[q] = pc[q] /\ todo'[q] = todo[q]
         /\ pc'[r] \in Inside => pc[r] \in Inside
<1>1. UNCHANGED <<rules, age, second>>
  BY DEF Later, Step, CheckRPM, AddHit, AcquireConcurrent, Acquire, GiveUp, CheckTPM,
         AddTokens, Release, ReleaseSlot, RedisError, CutOff
<1>2. \E stage, left : Go(r, stage, left) /\ (stage \in Inside => pc[r] \in Inside)
  <2>1. CASE pc[r] \in Inside
    BY <2>1 DEF Later, Step, CheckRPM, AddHit, AcquireConcurrent, Acquire, GiveUp, CheckTPM,
         AddTokens, Release, ReleaseSlot, RedisError, CutOff, Pass, Reject, Left
  <2>2. CASE pc[r] \notin Inside
    <3>1. \/ Release(r) \/ ReleaseSlot(r) \/ CutOff(r)
          \/ pc[r] = "release" /\ Left(r)
      BY <2>2 DEF Later, Step, CheckRPM, AddHit, AcquireConcurrent, Acquire, GiveUp, CheckTPM,
         AddTokens, RedisError, Inside, At
    <3>2. Go(r, "idle", <<>>) \/ (\E left : Go(r, "release", left))
      BY <3>1 DEF Release, ReleaseSlot, CutOff, Left
    <3> QED
      BY <3>2 DEF Inside
  <2> QED
    BY <2>1, <2>2
<1>3. PICK stage, left : Go(r, stage, left) /\ (stage \in Inside => pc[r] \in Inside)
  BY <1>2
<1> QED
  BY <1>1, <1>3, GoIs

\* Every step is one of these.
LEMMA NextIs ==
  ASSUME [Next]_vars
  PROVE  \/ \E r \in Requests : Allow(r) \/ Later(r)
         \/ Reload \/ Tick \/ UNCHANGED vars
BY DEF Next, Later

\* Every step keeps the clocks within their bounds.
LEMMA ClockStep ==
  ASSUME Typed, [Next]_vars
  PROVE  ClockTyped'
<1>0. TodoTyped /\ ClockTyped
  BY DEF Typed
<1>1. ASSUME NEW r \in Requests, Allow(r) PROVE ClockTyped'
  <2>1. UNCHANGED <<second, errors>> /\ age' = [age EXCEPT ![r] = 0]
    BY <1>1 DEF Allow
  <2>2. \A q \in Requests \ {r} : pc'[q] = pc[q]
    BY <1>0, <1>1, GoIs DEF Allow
  <2> QED
    BY <1>0, <2>1, <2>2, SMTT(30) DEF ClockTyped
<1>2. ASSUME NEW r \in Requests, Later(r) PROVE ClockTyped'
  <2>1. errors' \in 0..MaxErrors
    <3>1. errors' = errors \/ (errors < MaxErrors /\ errors' = errors + 1)
      BY <1>2 DEF Later, Step, CheckRPM, AddHit, AcquireConcurrent, Acquire, GiveUp, CheckTPM,
         AddTokens, Release, ReleaseSlot, RedisError, CutOff
    <3> QED
      BY <1>0, <3>1 DEF ClockTyped
  <2> QED
    BY <1>0, <1>2, <2>1, LaterMoves DEF ClockTyped
<1>3. CASE Reload \/ UNCHANGED vars
  BY <1>0, <1>3 DEF ClockTyped, Reload, vars
<1>4. CASE Tick
  <2>1. /\ age' = [r \in Requests |-> IF pc[r] = "idle" THEN 0 ELSE age[r] + 1]
        /\ \A r \in Requests : pc[r] # "idle" =>
             age[r] < MaxAge /\ (pc[r] \in Inside => age[r] < MaxLag)
        /\ second' = (second + 1) % Minute /\ UNCHANGED <<pc, errors>>
    BY <1>4 DEF Tick
  <2>2. second' \in 0..(Minute - 1)
    BY <1>0, <2>1 DEF ClockTyped
  <2>3. \A r \in Requests : age[r] \in 0..MaxAge
    BY <1>0 DEF ClockTyped
  <2>4. age' \in [Requests -> 0..MaxAge]
    BY <2>1, <2>3
  <2>5. \A r \in Requests : pc[r] \in Inside => age'[r] <= MaxLag
    BY <2>1, <2>3
  <2> QED
    BY <1>0, <2>1, <2>2, <2>4, <2>5 DEF ClockTyped
<1> QED
  BY <1>1, <1>2, <1>3, <1>4, NextIs

\* The entries of the window that CheckRPM keeps.
Kept(r) == [a \in 0..(Span - 1) |-> IF a < Minute + age[r] THEN hits[Key(r)][a] ELSE 0]

\* A request writes the tokens of this minute or the one before.
LEMMA BucketIs ==
  ASSUME ClockTyped, NEW r \in Requests
  PROVE  Bucket(r) \in 1..2
BY DEF Bucket

\* Every step keeps the counters in Redis well typed.
LEMMA RedisStep ==
  ASSUME Typed, [Next]_vars
  PROVE  RedisTyped'
<1>0. TodoTyped /\ ClockTyped /\ RedisTyped
  BY DEF Typed
<1> USE DEF redis
<1>1. ASSUME NEW r \in Requests, Allow(r) \/ Release(r) \/ CutOff(r) \/ CheckTPM(r)
      PROVE  RedisTyped'
  BY <1>0, <1>1 DEF RedisTyped, Allow, Release, CutOff, CheckTPM
<1>2. ASSUME NEW r \in Requests, CheckRPM(r) PROVE RedisTyped'
  <2>1. Key(r) \in Keys
    BY <1>0, <1>2, HeadTyped DEF CheckRPM, At
  <2>2. hits' = [hits EXCEPT ![Key(r)] = Kept(r)] /\ UNCHANGED <<count, ttl, tokens>>
    BY <1>2 DEF CheckRPM, Kept
  <2>3. Kept(r) \in [0..(Span - 1) -> Nat]
    BY <1>0, <2>1 DEF Kept, RedisTyped
  <2> QED
    BY <1>0, <2>1, <2>2, <2>3 DEF RedisTyped
<1>3. ASSUME NEW r \in Requests, AddHit(r) PROVE RedisTyped'
  <2>1. Key(r) \in Keys /\ pc[r] \in Inside
    BY <1>0, <1>3, HeadTyped DEF AddHit, At, Inside
  <2>2. age[r] \in 0..(Span - 1)
    BY <1>0, <2>1 DEF ClockTyped, Span
  <2>3. hits' = [hits EXCEPT ![Key(r)][age[r]] = @ + 1] /\ UNCHANGED <<count, ttl, tokens>>
    BY <1>3 DEF AddHit
  <2> DEFINE h == hits[Key(r)]
             g == [h EXCEPT ![age[r]] = @ + 1]
  <2>4. g \in [0..(Span - 1) -> Nat]
    <3>1. h \in [0..(Span - 1) -> Nat]
      BY <1>0, <2>1 DEF RedisTyped
    <3> HIDE DEF h
    <3>2. h[age[r]] + 1 \in Nat
      BY <2>2, <3>1
    <3> QED
      BY <3>1, <3>2
  <2>5. hits' = [hits EXCEPT ![Key(r)] = g]
    BY <2>3
  <2> HIDE DEF g
  <2> QED
    BY <1>0, <2>1, <2>3, <2>4, <2>5, ZenonT(60) DEF RedisTyped
<1>4. ASSUME NEW r \in Requests, NEW b \in BOOLEAN, Acquire(r, b) PROVE RedisTyped'
  <2>1. Key(r) \in Keys
    BY <1>0, <1>4, HeadTyped DEF Acquire, At
  <2>2. /\ count' = [count EXCEPT ![Key(r)] = @ + 1]
        /\ ttl' = IF b THEN [ttl EXCEPT ![Key(r)] = TTL] ELSE ttl
        /\ UNCHANGED <<hits, tokens>>
    BY <1>4 DEF Acquire
  <2> QED
    BY <1>0, <2>1, <2>2, SMTT(30) DEF RedisTyped
<1>5. ASSUME NEW r \in Requests, GiveUp(r) \/ ReleaseSlot(r) PROVE RedisTyped'
  <2>1. Key(r) \in Keys
    BY <1>0, <1>5, HeadTyped DEF GiveUp, ReleaseSlot
  <2>2. count' = [count EXCEPT ![Key(r)] = @ - 1] /\ UNCHANGED <<ttl, hits, tokens>>
    BY <1>5 DEF GiveUp, ReleaseSlot
  <2> QED
    BY <1>0, <2>1, <2>2, SMTT(30) DEF RedisTyped
<1>6. ASSUME NEW r \in Requests, AddTokens(r) PROVE RedisTyped'
  <2>1. Key(r) \in Keys
    BY <1>0, <1>6, HeadTyped DEF AddTokens, At
  <2>2. tokens' = [tokens EXCEPT ![Key(r)][Bucket(r)] = @ + Tokens[r]] /\ UNCHANGED <<count, ttl, hits>>
    BY <1>6 DEF AddTokens
  <2>3. Bucket(r) \in 1..2 /\ Tokens[r] \in Nat
    BY <1>0, BucketIs
  <2> DEFINE t == tokens[Key(r)]
             u == [t EXCEPT ![Bucket(r)] = @ + Tokens[r]]
  <2>4. t \in Nat \X Nat \X Nat
    BY <1>0, <2>1 DEF RedisTyped
  <2>5. u \in Nat \X Nat \X Nat
    <3> HIDE DEF t
    <3>1. CASE Bucket(r) = 1
      BY <2>3, <2>4, <3>1
    <3>2. CASE Bucket(r) = 2
      BY <2>3, <2>4, <3>2
    <3> QED
      BY <2>3, <3>1, <3>2
  <2>6. tokens' = [tokens EXCEPT ![Key(r)] = u]
    BY <2>2
  <2> HIDE DEF u
  <2> QED
    BY <1>0, <2>1, <2>2, <2>5, <2>6 DEF RedisTyped
<1>7. ASSUME NEW r \in Requests, RedisError(r) PROVE RedisTyped'
  <2>1. CASE UNCHANGED redis
    BY <1>0, <2>1 DEF RedisTyped
  <2>2. CASE Acquire(r, FALSE)
    BY <1>4, <2>2
  <2> QED
    BY <1>7, <2>1, <2>2 DEF RedisError
<1>8. CASE Reload \/ UNCHANGED vars
  BY <1>0, <1>8 DEF RedisTyped, Reload, vars
<1>9. CASE Tick
  <2>1. /\ ttl' = [k \in Keys |-> IF ttl[k] = 0 THEN 0 ELSE ttl[k] - 1]
        /\ count' = [k \in Keys |-> IF ttl[k] = 1 THEN 0 ELSE count[k]]
        /\ hits' = [k \in Keys |-> [a \in 0..(Span - 1) |-> IF a = 0 THEN 0 ELSE hits[k][a - 1]]]
        /\ tokens' = IF second' # 0 THEN tokens
                     ELSE [k \in Keys |-> <<0, tokens[k][1], tokens[k][2]>>]
    BY <1>9 DEF Tick
  <2>2. ttl' \in [Keys -> 0..TTL] /\ count' \in [Keys -> Int]
    <3>1. \A k \in Keys : ttl[k] \in 0..TTL /\ count[k] \in Int
      BY <1>0 DEF RedisTyped
    <3>2. \A k \in Keys : (IF ttl[k] = 0 THEN 0 ELSE ttl[k] - 1) \in 0..TTL
      BY <3>1
    <3> QED
      BY <2>1, <3>1, <3>2
  <2>3. hits' \in [Keys -> [0..(Span - 1) -> Nat]]
    <3>1. Span \in Nat
      BY DEF Span
    <3>2. \A k \in Keys, a \in 0..(Span - 1) : a # 0 => hits[k][a - 1] \in Nat
      BY <1>0, <3>1 DEF RedisTyped
    <3> QED
      BY <2>1, <3>2
  <2>4. tokens' \in [Keys -> Nat \X Nat \X Nat]
    BY <1>0, <2>1 DEF RedisTyped
  <2> QED
    BY <2>2, <2>3, <2>4 DEF RedisTyped
<1> QED
  BY <1>1, <1>2, <1>3, <1>4, <1>5, <1>6, <1>7, <1>8, <1>9
     DEF Next, Step, AcquireConcurrent

\* Every step keeps the types.
LEMMA TypedStep == Typed /\ [Next]_vars => Typed'
<1> SUFFICES ASSUME Typed, [Next]_vars PROVE Typed'
  OBVIOUS
<1>1. rules' \in RuleSets
  <2>1. rules \in RuleSets /\ TodoTyped
    BY DEF Typed
  <2>2. rules' = rules \/ rules' \in RuleSets
    BY <2>1, NextIs, LaterMoves DEF Allow, Reload, Tick, vars
  <2> QED
    BY <2>1, <2>2
<1> QED
  BY <1>1, TodoStep, ClockStep, RedisStep DEF Typed

(***************************************************************************)
(* The rate: what is in the window and what is about to be added to it.    *)
(***************************************************************************)

AddingTo(k) == {r \in Requests : At(r, "add", "rpm") /\ Key(r) = k}
Window(k, from) == SumFunctionOnSet(hits[k], from..(from + Minute - 1))

\* A request that adds itself to the window was admitted to it.
RateGuarded ==
  \A k \in Keys : Cap("rpm", k) > 0 =>
    \A from \in 0..MaxLag :
      Window(k, from) + Cardinality(AddingTo(k)) <= Cap("rpm", k) - 1 + Cardinality(Requests)

\* The requests about to add a hit are at most all requests.
LEMMA AddingFinite ==
  ASSUME NEW k
  PROVE  /\ IsFiniteSet(AddingTo(k)) /\ Cardinality(AddingTo(k)) \in Nat
         /\ Cardinality(AddingTo(k)) <= Cardinality(Requests) /\ Cardinality(Requests) \in Nat
<1>1. AddingTo(k) \in SUBSET Requests
  BY DEF AddingTo
<1> QED
  BY <1>1, FS_Subset, FS_CardinalityType

\* A window is a finite stretch of recorded moments, each with a count.
LEMMA WindowInt ==
  ASSUME RedisTyped, NEW k \in Keys, NEW from \in 0..MaxLag
  PROVE  /\ from..(from + Minute - 1) \in SUBSET (0..(Span - 1))
         /\ IsFiniteSet(from..(from + Minute - 1))
         /\ \A a \in from..(from + Minute - 1) : hits[k][a] \in Nat
         /\ Window(k, from) \in Nat
<1>1. from..(from + Minute - 1) \in SUBSET (0..(Span - 1))
  BY DEF Span
<1>2. IsFiniteSet(from..(from + Minute - 1))
  BY FS_Interval
<1>3. \A a \in from..(from + Minute - 1) : hits[k][a] \in Nat
  BY <1>1 DEF RedisTyped
<1> QED
  BY <1>1, <1>2, <1>3, SumNat DEF Window

\* Fewer hits, fewer to be added: the guard stays.
LEMMA RateEases ==
  ASSUME RedisTyped, RedisTyped', RateGuarded,
         \A k \in Keys, a \in 0..(Span - 1) : hits'[k][a] <= hits[k][a],
         \A k \in Keys : AddingTo(k)' \subseteq AddingTo(k)
  PROVE  RateGuarded'
<1> SUFFICES ASSUME NEW k \in Keys, Cap("rpm", k) > 0, NEW from \in 0..MaxLag
             PROVE  Window(k, from)' + Cardinality(AddingTo(k)')
                      <= Cap("rpm", k) - 1 + Cardinality(Requests)
  BY DEF RateGuarded
<1>1. Window(k, from)' <= Window(k, from)
  <2>1. \A a \in from..(from + Minute - 1) : hits[k][a] \in Nat /\ hits'[k][a] \in Nat
    BY WindowInt DEF RedisTyped
  <2>2. \A a \in from..(from + Minute - 1) : hits'[k][a] <= hits[k][a]
    BY WindowInt
  <2> QED
    BY <2>1, <2>2, WindowInt, SumMonotone, SMTT(30) DEF Window
<1>2. Window(k, from) \in Nat /\ Window(k, from)' \in Nat
  <2>1. IsFiniteSet(from..(from + Minute - 1)) /\ \A a \in from..(from + Minute - 1) : hits'[k][a] \in Nat
    BY WindowInt DEF RedisTyped
  <2> QED
    BY <2>1, WindowInt, SumNat DEF Window
<1>3. Cardinality(AddingTo(k)') <= Cardinality(AddingTo(k)) /\ Cardinality(AddingTo(k)') \in Nat
  BY AddingFinite, FS_Subset, FS_CardinalityType
<1>4. Window(k, from) + Cardinality(AddingTo(k)) <= Cap("rpm", k) - 1 + Cardinality(Requests)
  BY DEF RateGuarded
<1>5. Cap("rpm", k) \in Nat
  BY CapIs DEF Dims
<1> QED
  BY <1>1, <1>2, <1>3, <1>4, <1>5, AddingFinite

\* The steps that do not go to "add".
LEMMA StageOf ==
  ASSUME NEW r, \/ Pass(r) \/ Left(r) \/ Reject(r) \/ Allow(r) \/ Release(r)
                \/ Go(r, "overflow", todo[r])
  PROVE  \E stage \in {"served", "check", "idle", "release", "overflow"} : \E left : Go(r, stage, left)
<1>1. ASSUME Pass(r) PROVE \E stage \in {"served", "check"} : Go(r, stage, Tail(todo[r]))
  BY <1>1 DEF Pass
<1>2. ASSUME Left(r) PROVE \E stage \in {"idle", "release"} : Go(r, stage, Tail(todo[r]))
  BY <1>2 DEF Left
<1>3. ASSUME Allow(r) PROVE \E stage \in {"served", "check"} : Go(r, stage, ChecksOf(r))
  BY <1>3 DEF Allow
<1>4. ASSUME Release(r) PROVE Go(r, "idle", <<>>) \/ Go(r, "release", SlotsOf(r))
  BY <1>4 DEF Release
<1>5. ASSUME Reject(r) PROVE Go(r, "idle", <<>>)
  BY <1>5 DEF Reject
<1> QED
  BY <1>1, <1>2, <1>3, <1>4, <1>5

\* Only a check that passes makes a request add to a window.
LEMMA AddingMoves ==
  ASSUME TodoTyped, NEW r \in Requests, Allow(r) \/ Later(r),
         ~ (CheckRPM(r) /\ Go(r, "add", todo[r]))
  PROVE  \A k : AddingTo(k)' \subseteq AddingTo(k) \ {r}
<1>1. \A q \in Requests \ {r} : pc'[q] = pc[q] /\ todo'[q] = todo[q]
  BY LaterMoves, GoIs DEF Allow
<1>2. pc'[r] # "add" \/ Head(todo'[r]).dim # "rpm"
  <2>1. CASE CheckTPM(r) /\ Go(r, "add", todo[r])
    <3>1. todo'[r] = todo[r] /\ Head(todo[r]).dim = "tpm"
      BY <2>1, GoIs DEF CheckTPM, At
    <3> QED
      BY <3>1
  <2>2. CASE ~(CheckTPM(r) /\ Go(r, "add", todo[r]))
    <3>1. \/ Pass(r) \/ Left(r) \/ Reject(r) \/ Allow(r) \/ Release(r)
          \/ Go(r, "overflow", todo[r])
      BY <2>2 DEF Later, Step, CheckRPM, AddHit, AcquireConcurrent, Acquire, GiveUp, CheckTPM,
         AddTokens, ReleaseSlot, RedisError, CutOff, Reject
    <3>2. \E stage \in {"served", "check", "idle", "release", "overflow"} : \E left : Go(r, stage, left)
      BY <3>1, StageOf
    <3> QED
      BY <3>2, GoIs
  <2> QED
    BY <2>1, <2>2
<1> QED
  BY <1>1, <1>2 DEF AddingTo, At, Key

\* What CheckRPM keeps of a window, and counts.
LEMMA KeptIs ==
  ASSUME ClockTyped, RedisTyped, NEW r \in Requests, Key(r) \in Keys
  PROVE  /\ DOMAIN Kept(r) = 0..(Span - 1) /\ IsFiniteSet(0..(Span - 1))
         /\ \A a \in 0..(Span - 1) : Kept(r)[a] \in Nat /\ Kept(r)[a] <= hits[Key(r)][a]
         /\ SumFunction(Kept(r)) \in Int
<1>1. DOMAIN Kept(r) = 0..(Span - 1)
  BY DEF Kept
<1>2. IsFiniteSet(0..(Span - 1))
  BY FS_Interval DEF Span
<1>3. \A a \in 0..(Span - 1) : hits[Key(r)][a] \in Nat
  BY DEF RedisTyped
<1>4. \A a \in 0..(Span - 1) : Kept(r)[a] \in Nat /\ Kept(r)[a] <= hits[Key(r)][a]
  BY <1>3 DEF Kept
<1>5. \A a \in 0..(Span - 1) : Kept(r)[a] \in Int
  BY <1>4
<1>6. SumFunctionOnSet(Kept(r), 0..(Span - 1)) \in Int
  BY <1>2, <1>5, SumInt
<1> QED
  BY <1>1, <1>2, <1>4, <1>6 DEF SumFunction

\* No step takes a window, with the hits about to be added, over its guard.
LEMMA RateStep ==
  ASSUME Typed, RateGuarded, [Next]_vars
  PROVE  RateGuarded'
<1>0. /\ TodoTyped /\ ClockTyped /\ RedisTyped /\ RedisTyped'
  BY TypedStep DEF Typed
<1>a. \A k \in Keys, a \in 0..(Span - 1) : hits[k][a] \in Nat
  BY <1>0 DEF RedisTyped
<1>1. ASSUME NEW r \in Requests, Allow(r) \/ Later(r), ~ CheckRPM(r), ~ AddHit(r)
      PROVE  RateGuarded'
  <2>1. hits' = hits
    BY <1>1 DEF Allow, Later, Step, AcquireConcurrent, Acquire, GiveUp, CheckTPM,
         AddTokens, Release, ReleaseSlot, RedisError, CutOff, redis
  <2>2. \A k \in Keys : AddingTo(k)' \subseteq AddingTo(k)
    BY <1>0, <1>1, AddingMoves
  <2> QED
    BY <1>0, <1>a, <2>1, <2>2, RateEases
<1>2. ASSUME NEW r \in Requests, CheckRPM(r) PROVE RateGuarded'
  <2>0. Key(r) \in Keys /\ age[r] \in 0..MaxLag /\ Head(todo[r]).dim = "rpm"
    BY <1>0, <1>2, HeadTyped DEF CheckRPM, At, ClockTyped, Inside
  <2>1. hits' = [hits EXCEPT ![Key(r)] = Kept(r)]
    BY <1>2 DEF CheckRPM, Kept
  <2>2. \A k \in Keys, a \in 0..(Span - 1) : hits'[k][a] <= hits[k][a]
    <3> SUFFICES ASSUME NEW k \in Keys, NEW a \in 0..(Span - 1) PROVE hits'[k][a] <= hits[k][a]
      OBVIOUS
    <3>1. hits'[k] = IF k = Key(r) THEN Kept(r) ELSE hits[k]
      BY <1>0, <2>1 DEF RedisTyped
    <3> QED
      BY <1>0, <1>a, <2>0, <3>1, KeptIs
  <2>3. CASE ~ Go(r, "add", todo[r])
    <3>1. \A k \in Keys : AddingTo(k)' \subseteq AddingTo(k)
      BY <1>0, <1>2, <2>3, AddingMoves DEF Later, Step
    <3> QED
      BY <1>0, <2>2, <3>1, RateEases
  <2>4. CASE Go(r, "add", todo[r])
    <3>1. SumFunction(Kept(r)) < TopOf(r)
      <4>1. ~ (SumFunction(Kept(r)) >= TopOf(r))
        <5>1. pc'[r] = "add"
          BY <1>0, <2>4, GoIs
        <5>2. ~ Reject(r)
          BY <1>0, <5>1, GoIs DEF Reject
        <5> QED
          BY <1>2, <5>2 DEF CheckRPM, Kept
      <4>2. SumFunction(Kept(r)) \in Int
        BY <1>0, <2>0, KeptIs
      <4> QED
        BY <1>0, <1>2, <4>1, <4>2, HeadTyped DEF CheckRPM, At
    <3>2. \A k \in Keys \ {Key(r)} : AddingTo(k)' = AddingTo(k) /\ hits'[k] = hits[k]
      <4>1. ASSUME NEW q \in Requests, NEW k \in Keys \ {Key(r)}
            PROVE  q \in AddingTo(k)' <=> q \in AddingTo(k)
        BY <1>0, <2>4, GoIs DEF AddingTo, At, Key
      <4> QED
        BY <1>0, <2>1, <4>1 DEF AddingTo, RedisTyped
    <3> SUFFICES ASSUME NEW k \in Keys, Cap("rpm", k) > 0, NEW from \in 0..MaxLag
                 PROVE  Window(k, from)' + Cardinality(AddingTo(k)')
                          <= Cap("rpm", k) - 1 + Cardinality(Requests)
      BY DEF RateGuarded
    <3>3. CASE k # Key(r)
      BY <3>2, <3>3 DEF RateGuarded, Window
    <3>4. CASE k = Key(r)
      <4>1. hits'[k] = Kept(r)
        BY <1>0, <2>0, <2>1, <3>4 DEF RedisTyped
      <4>2. Window(k, from)' = SumFunctionOnSet(Kept(r), from..(from + Minute - 1))
        BY <4>1 DEF Window
      <4>3. SumFunctionOnSet(Kept(r), from..(from + Minute - 1)) <= SumFunction(Kept(r))
        BY <1>0, <2>0, KeptIs, WindowInt, SumSubset DEF SumFunction
      <4>4. Window(k, from)' \in Nat
        <5>1. \A a \in from..(from + Minute - 1) : Kept(r)[a] \in Nat
          BY <1>0, <2>0, WindowInt, KeptIs
        <5> QED
          BY <1>0, <4>2, <5>1, WindowInt, SumNat
      <4>5. SumFunction(Kept(r)) \in Int
        BY <1>0, <2>0, KeptIs
      <4>6. TopOf(r) <= Cap("rpm", k) /\ TopOf(r) \in Nat /\ Cap("rpm", k) \in Nat
        BY <1>0, <1>2, <2>0, <3>4, HeadTyped, CapIs DEF CheckRPM, At, Dims
      <4>7. /\ Cardinality(AddingTo(k)') \in Nat /\ Cardinality(Requests) \in Nat
            /\ Cardinality(AddingTo(k)') <= Cardinality(Requests)
        <5>1. AddingTo(k)' \in SUBSET Requests
          BY DEF AddingTo
        <5> QED
          BY <5>1, FS_Subset, FS_CardinalityType
      <4> QED
        BY <3>1, <4>2, <4>3, <4>4, <4>5, <4>6, <4>7
    <3> QED
      BY <3>3, <3>4
  <2> QED
    BY <2>3, <2>4
<1>3. ASSUME NEW r \in Requests, AddHit(r) PROVE RateGuarded'
  <2>0. Key(r) \in Keys /\ age[r] \in 0..(Span - 1) /\ r \in AddingTo(Key(r))
    BY <1>0, <1>3, HeadTyped, SMTT(30) DEF AddHit, At, ClockTyped, Inside, Span, AddingTo
  <2>1. hits' = [hits EXCEPT ![Key(r)][age[r]] = @ + 1]
    BY <1>3 DEF AddHit
  <2>2. \A k \in Keys : AddingTo(k)' \subseteq AddingTo(k) \ {r}
    <3>1. ~ CheckRPM(r)
      BY <1>3 DEF AddHit, CheckRPM, At
    <3> QED
      BY <1>0, <1>3, <3>1, AddingMoves DEF Later, Step
  <2> SUFFICES ASSUME NEW k \in Keys, Cap("rpm", k) > 0, NEW from \in 0..MaxLag
               PROVE  Window(k, from)' + Cardinality(AddingTo(k)')
                        <= Cap("rpm", k) - 1 + Cardinality(Requests)
    BY DEF RateGuarded
  <2> DEFINE W == from..(from + Minute - 1)
  <2>3. Window(k, from) + Cardinality(AddingTo(k)) <= Cap("rpm", k) - 1 + Cardinality(Requests)
    BY DEF RateGuarded
  <2>4. \A a \in W : hits[k][a] \in Nat /\ hits'[k][a] \in Nat
    BY <1>0, WindowInt DEF RedisTyped
  <2>5. IsFiniteSet(W) /\ W \in SUBSET (0..(Span - 1)) /\ Window(k, from) \in Nat
    BY <1>0, WindowInt
  <2>6. Window(k, from)' \in Nat
    BY <2>4, <2>5, SumNat DEF Window
  <2>7. CASE k # Key(r)
    <3>1. hits'[k] = hits[k]
      BY <1>0, <2>1, <2>7 DEF RedisTyped
    <3>2. Window(k, from)' = Window(k, from)
      BY <3>1 DEF Window
    <3>3. Cardinality(AddingTo(k)') <= Cardinality(AddingTo(k)) /\ Cardinality(AddingTo(k)') \in Nat
      BY <2>2, AddingFinite, FS_Subset, FS_CardinalityType
    <3> QED
      BY <2>3, <2>6, <3>2, <3>3, AddingFinite, CapIs, SMTT(30) DEF Dims
  <2>8. CASE k = Key(r)
    <3>1. \A a \in 0..(Span - 1) : hits'[k][a] = IF a = age[r] THEN hits[k][a] + 1 ELSE hits[k][a]
      BY <1>0, <2>0, <2>1, <2>8 DEF RedisTyped
    <3>2. Window(k, from)' <= Window(k, from) + 1
      <4>1. \A a \in W : /\ hits[k][a] \in Int
                         /\ hits'[k][a] = IF a = age[r] THEN hits[k][a] + 1 ELSE hits[k][a]
        BY <2>4, <2>5, <3>1
      <4> HIDE DEF W
      <4>2. SumFunctionOnSet(hits'[k], W) <= SumFunctionOnSet(hits[k], W) + 1
        BY <2>5, <4>1, SumRaised, ZenonT(60)
      <4> QED
        BY <4>2 DEF Window, W
    <3>3. Cardinality(AddingTo(k)') <= Cardinality(AddingTo(k)) - 1 /\ Cardinality(AddingTo(k)') \in Nat
      <4>1. IsFiniteSet(AddingTo(k) \ {r}) /\ Cardinality(AddingTo(k) \ {r}) = Cardinality(AddingTo(k)) - 1
        BY <2>0, <2>8, AddingFinite, FS_RemoveElement
      <4> QED
        BY <2>2, <4>1, FS_Subset, FS_CardinalityType
    <3> QED
      BY <2>3, <2>5, <2>6, <3>2, <3>3, AddingFinite, CapIs, SMTT(30) DEF Dims
  <2> QED
    BY <2>7, <2>8
<1>4. CASE Reload \/ UNCHANGED vars
  <2>1. hits' = hits /\ pc' = pc /\ todo' = todo
    BY <1>4 DEF Reload, vars, redis
  <2> QED
    BY <2>1 DEF RateGuarded, Window, AddingTo, At, Key
<1>5. CASE Tick
  <2>1. hits' = [k \in Keys |-> [a \in 0..(Span - 1) |-> IF a = 0 THEN 0 ELSE hits[k][a - 1]]]
    BY <1>5 DEF Tick
  <2>2. \A k \in Keys : AddingTo(k)' = AddingTo(k)
    BY <1>5 DEF Tick, AddingTo, At, Key
  <2> SUFFICES ASSUME NEW k \in Keys, Cap("rpm", k) > 0, NEW from \in 0..MaxLag
               PROVE  Window(k, from)' + Cardinality(AddingTo(k)')
                        <= Cap("rpm", k) - 1 + Cardinality(Requests)
    BY DEF RateGuarded
  <2>3. \A a \in 0..(Span - 1) : hits'[k][a] = IF a = 0 THEN 0 ELSE hits[k][a - 1]
    BY <2>1
  <2>4. \E f \in 0..MaxLag : Window(k, from)' <= Window(k, f)
    <3>1. CASE from = 0
      <4> DEFINE W == 0..(Minute - 1)
                 V == 1..(Minute - 1)
                 U == 0..(Minute - 2)
      <4>1. W \in SUBSET (0..(Span - 1)) /\ IsFiniteSet(W) /\ IsFiniteSet(V) /\ V = W \ {0} /\ 0 \in W
        <5>1. V = W \ {0} /\ 0 \in W
          OBVIOUS
        <5>2. IsFiniteSet(W) /\ IsFiniteSet(V)
          BY FS_Interval, SMTT(30)
        <5>3. W \in SUBSET (0..(Span - 1))
          BY DEF Span
        <5> QED
          BY <5>1, <5>2, <5>3
      <4>2. \A a \in W : hits[k][a] \in Nat /\ hits'[k][a] \in Nat /\ hits'[k][a] \in Int
        <5> SUFFICES ASSUME NEW a \in W PROVE hits[k][a] \in Nat /\ hits'[k][a] \in Nat
          OBVIOUS
        <5>1. a \in 0..(Span - 1)
          BY <4>1
        <5> QED
          BY <1>0, <5>1 DEF RedisTyped
      <4>3. hits'[k][0] = 0
        BY <2>3, <4>1
      <4>4. SumFunctionOnSet(hits'[k], W) = hits'[k][0] + SumFunctionOnSet(hits'[k], W \ {0})
        <5> HIDE DEF W
        <5> QED
          BY <4>1, <4>2, SumSplit
      <4>5. SumFunctionOnSet(hits'[k], V) = SumFunctionOnSet(hits[k], U)
        <5>1. \A a \in 0..(Minute - 2) : hits[k][a] \in Int
          BY <4>2
        <5>2. \A a \in (0 + 1)..((Minute - 2) + 1) : hits'[k][a] = hits[k][a - 1]
          BY <2>3, <4>1
        <5> DEFINE m == 0
                   n == Minute - 2
        <5>3. m \in Int /\ n \in Int /\ m + 1 = 1 /\ n + 1 = Minute - 1
          OBVIOUS
        <5>4. /\ \A a \in m..n : hits[k][a] \in Int
              /\ \A a \in (m + 1)..(n + 1) : hits'[k][a] = hits[k][a - 1]
          BY <5>1, <5>2
        <5>5. V = (m + 1)..(n + 1) /\ U = m..n
          BY <5>3
        <5> HIDE DEF m, n, U, V
        <5>6. SumFunctionOnSet(hits'[k], (m + 1)..(n + 1)) = SumFunctionOnSet(hits[k], m..n)
          BY <5>3, <5>4, SumShift, ZenonT(60)
        <5> QED
          BY <5>5, <5>6
      <4>6. SumFunctionOnSet(hits[k], U) <= SumFunctionOnSet(hits[k], W)
        <5>1. U \in SUBSET W
          OBVIOUS
        <5> HIDE DEF U, W
        <5> QED
          BY <4>1, <4>2, <5>1, SumSubset
      <4>7. SumFunctionOnSet(hits'[k], V) \in Int
        <5>1. \A a \in V : hits'[k][a] \in Int
          BY <4>1, <4>2
        <5> HIDE DEF V
        <5> QED
          BY <4>1, <5>1, SumInt
      <4>8. SumFunctionOnSet(hits'[k], W) <= SumFunctionOnSet(hits[k], W)
        <5> HIDE DEF U, V, W
        <5> QED
          BY <4>1, <4>3, <4>4, <4>5, <4>6, <4>7
      <4>9. Window(k, from)' <= Window(k, 0)
        BY <3>1, <4>8 DEF Window
      <4> QED
        BY <4>9
    <3>2. CASE from # 0
      <4>1. from - 1 \in 0..MaxLag
        BY <3>2
      <4> DEFINE m == from - 1
                 n == from + Minute - 2
      <4>2. m \in Int /\ n \in Int /\ m..n = (from - 1)..((from - 1) + Minute - 1)
            /\ (m + 1)..(n + 1) = from..(from + Minute - 1)
        OBVIOUS
      <4>3. \A a \in m..n : hits[k][a] \in Int
        <5>1. \A a \in (from - 1)..((from - 1) + Minute - 1) : hits[k][a] \in Int
          <6> DEFINE f == from - 1
          <6>1. f \in 0..MaxLag
            BY <4>1
          <6> HIDE DEF f, m, n
          <6>2. \A a \in f..(f + Minute - 1) : hits[k][a] \in Nat
            BY <1>0, <6>1, WindowInt
          <6>3. \A a \in f..(f + Minute - 1) : hits[k][a] \in Int
            BY <6>2
          <6> QED
            BY <6>3 DEF f
        <5> HIDE DEF m, n
        <5> QED
          BY <4>2, <5>1
      <4>4. \A a \in (m + 1)..(n + 1) : hits'[k][a] = hits[k][a - 1]
        <5>1. \A a \in (m + 1)..(n + 1) : a \in 0..(Span - 1) /\ a # 0
          BY <3>2 DEF Span
        <5> QED
          BY <2>3, <5>1
      <4> HIDE DEF m, n
      <4>5. SumFunctionOnSet(hits'[k], (m + 1)..(n + 1)) = SumFunctionOnSet(hits[k], m..n)
        BY <4>2, <4>3, <4>4, SumShift, ZenonT(60)
      <4>6. Window(k, from)' = Window(k, from - 1)
        BY <4>2, <4>5 DEF Window
      <4> QED
        BY <1>0, <4>1, <4>6, WindowInt
    <3> QED
      BY <3>1, <3>2
  <2>5. PICK f \in 0..MaxLag : Window(k, from)' <= Window(k, f)
    BY <2>4
  <2>6. Window(k, f) + Cardinality(AddingTo(k)) <= Cap("rpm", k) - 1 + Cardinality(Requests)
    BY DEF RateGuarded
  <2>7. Window(k, from)' \in Nat /\ Window(k, f) \in Nat
    <3>1. \A a \in from..(from + Minute - 1) : hits'[k][a] \in Nat
      BY <1>0, WindowInt DEF RedisTyped
    <3> QED
      BY <1>0, <3>1, WindowInt, SumNat DEF Window
  <2> QED
    BY <2>2, <2>5, <2>6, <2>7, AddingFinite, CapIs, SMTT(30) DEF Dims
<1> QED
  BY <1>1, <1>2, <1>3, <1>4, <1>5, NextIs

\* No hit is recorded at the start.
LEMMA RateInit == Init => RateGuarded
<1> SUFFICES ASSUME Init, NEW k \in Keys, Cap("rpm", k) > 0, NEW from \in 0..MaxLag
             PROVE  Window(k, from) + Cardinality(AddingTo(k)) <= Cap("rpm", k) - 1 + Cardinality(Requests)
  BY DEF RateGuarded
<1> DEFINE W == from..(from + Minute - 1)
<1>1. RedisTyped
  BY TypedInit DEF Typed
<1>2. IsFiniteSet(W) /\ \A a \in W : hits[k][a] = 0
  <2>1. \A a \in 0..(Span - 1) : hits[k][a] = 0
    BY DEF Init
  <2>2. IsFiniteSet(W) /\ W \in SUBSET (0..(Span - 1))
    BY <1>1, WindowInt
  <2> HIDE DEF W
  <2> QED
    BY <2>1, <2>2
<1>3. Window(k, from) = 0
  <2>1. SumFunctionOnSet(hits[k], W) = 0
    <3> HIDE DEF W
    <3> QED
      BY <1>2, SumZero
  <2> QED
    BY <2>1 DEF Window
<1>4. AddingTo(k) = {}
  BY DEF AddingTo, At, Init
<1>5. Cardinality(AddingTo(k)) = 0
  BY <1>4, FS_EmptySet
<1> QED
  BY <1>3, <1>5, AddingFinite, CapIs DEF Dims

\* However the requests interleave, whatever is reloaded, fails or dies: the
\* window of a minute never holds more than the limit and, for each request
\* but one, a hit that was let in on the same reading.
THEOREM RateLimited == Spec => []RateRespected
<1>1. Init => Typed /\ RateGuarded
  BY TypedInit, RateInit
<1>2. Typed /\ RateGuarded /\ [Next]_vars => (Typed /\ RateGuarded)'
  BY TypedStep, RateStep
<1>3. Typed /\ RateGuarded => RateRespected
  <2> SUFFICES ASSUME Typed, RateGuarded, NEW k \in Keys, Cap("rpm", k) > 0, NEW from \in 0..MaxLag
               PROVE  Window(k, from) <= Cap("rpm", k) - 1 + Cardinality(Requests)
    BY DEF RateRespected, Window
  <2>1. Window(k, from) + Cardinality(AddingTo(k)) <= Cap("rpm", k) - 1 + Cardinality(Requests)
    BY DEF RateGuarded
  <2>2. Window(k, from) \in Nat
    BY WindowInt DEF Typed
  <2> QED
    BY <2>1, <2>2, AddingFinite, CapIs DEF Dims
<1> QED
  BY <1>1, <1>2, <1>3, PTL DEF Spec

(***************************************************************************)
(* The tokens: what a bucket holds and what is about to be added to it.    *)
(***************************************************************************)

Raising(k, b) == {r \in Requests : At(r, "add", "tpm") /\ Key(r) = k /\ Bucket(r) = b}
Bound(k) == Cap("tpm", k) + (Cardinality(Requests) - 1) * Heaviest

\* A request that raises a bucket found room for its estimate.
TokensGuarded ==
  \A k \in Keys : Cap("tpm", k) > 0 =>
    \A b \in 1..3 : tokens[k][b] + SumFunctionOnSet(Tokens, Raising(k, b)) <= Bound(k)

\* The estimates of a set of requests are a natural, and no more than the
\* heaviest for each.
LEMMA EstimatesOf ==
  ASSUME NEW S \in SUBSET Requests, NEW r \in Requests
  PROVE  /\ IsFiniteSet(S) /\ \A q \in S : Tokens[q] \in Nat
         /\ SumFunctionOnSet(Tokens, S) \in Nat
         /\ r \in S => SumFunctionOnSet(Tokens, S) = Tokens[r] + SumFunctionOnSet(Tokens, S \ {r})
         /\ r \notin S => SumFunctionOnSet(Tokens, S) <= (Cardinality(Requests) - 1) * Heaviest
<1>1. IsFiniteSet(S) /\ \A q \in S : Tokens[q] \in Nat
  BY FS_Subset
<1>2. SumFunctionOnSet(Tokens, S) \in Nat
  BY <1>1, SumNat
<1>3. ASSUME r \in S
      PROVE  SumFunctionOnSet(Tokens, S) = Tokens[r] + SumFunctionOnSet(Tokens, S \ {r})
  <2>1. \A q \in S : Tokens[q] \in Int
    BY <1>1
  <2> QED
    BY <1>1, <1>3, <2>1, SumSplit
<1>4. ASSUME r \notin S
      PROVE  SumFunctionOnSet(Tokens, S) <= (Cardinality(Requests) - 1) * Heaviest
  <2> DEFINE R == Requests \ {r}
  <2>1. IsFiniteSet(R) /\ Cardinality(R) = Cardinality(Requests) - 1 /\ S \in SUBSET R
    BY <1>4, FS_RemoveElement
  <2>2. Heaviest \in Int /\ \A q \in R : Tokens[q] \in Nat /\ Tokens[q] \in Int /\ Tokens[q] <= Heaviest
    BY HeaviestIs
  <2> HIDE DEF R
  <2>3. SumFunctionOnSet(Tokens, S) <= SumFunctionOnSet(Tokens, R)
    BY <2>1, <2>2, SumSubset
  <2>4. SumFunctionOnSet(Tokens, R) <= Cardinality(R) * Heaviest
    BY <2>1, <2>2, SumBound
  <2>5. SumFunctionOnSet(Tokens, R) \in Int /\ Cardinality(R) * Heaviest \in Int
    BY <2>1, <2>2, SumInt, FS_CardinalityType
  <2> QED
    BY <1>2, <2>1, <2>3, <2>4, <2>5
<1> QED
  BY <1>1, <1>2, <1>3, <1>4

\* The guard of the tokens is a natural number, the limit or more.
LEMMA BoundInt ==
  ASSUME NEW k \in Keys
  PROVE  Bound(k) \in Nat /\ Cap("tpm", k) <= Bound(k) /\ (Cardinality(Requests) - 1) * Heaviest \in Nat
<1>1. PICK r \in Requests : TRUE
  BY DEF Keys
<1>2. Heaviest \in Nat /\ Cap("tpm", k) \in Nat
  BY HeaviestIs, CapIs DEF Dims
<1>3. Cardinality(Requests) - 1 \in Nat
  <2>1. Cardinality(Requests) \in Nat /\ Cardinality(Requests) # 0
    BY FS_CardinalityType, FS_EmptySet
  <2> QED
    BY <2>1
<1>4. \A a, b \in Nat : a * b \in Nat
  OBVIOUS
<1> QED
  BY <1>2, <1>3, <1>4 DEF Bound

\* Only a token check that passes makes a request raise a bucket.
LEMMA RaisingMoves ==
  ASSUME Typed, NEW r \in Requests, Allow(r) \/ Later(r),
         ~ (CheckTPM(r) /\ Go(r, "add", todo[r]))
  PROVE  \A k, b : Raising(k, b)' \subseteq Raising(k, b) \ {r}
<1>0. TodoTyped
  BY DEF Typed
<1>1. \A q \in Requests \ {r} : pc'[q] = pc[q] /\ todo'[q] = todo[q]
  BY <1>0, LaterMoves, GoIs DEF Allow
<1>2. pc'[r] # "add" \/ Head(todo'[r]).dim # "tpm"
  <2>1. CASE CheckRPM(r) /\ Go(r, "add", todo[r])
    <3>1. todo'[r] = todo[r] /\ Head(todo[r]).dim = "rpm"
      BY <1>0, <2>1, GoIs DEF CheckRPM, At
    <3> QED
      BY <3>1
  <2>2. CASE ~(CheckRPM(r) /\ Go(r, "add", todo[r]))
    <3>1. \/ Pass(r) \/ Left(r) \/ Reject(r) \/ Allow(r) \/ Release(r)
          \/ Go(r, "overflow", todo[r])
      BY <2>2 DEF Later, Step, CheckRPM, AddHit, AcquireConcurrent, Acquire, GiveUp, CheckTPM,
         AddTokens, ReleaseSlot, RedisError, CutOff, Reject
    <3>2. \E stage \in {"served", "check", "idle", "release", "overflow"} : \E left : Go(r, stage, left)
      BY <3>1, StageOf
    <3> QED
      BY <1>0, <3>2, GoIs
  <2> QED
    BY <2>1, <2>2
<1>3. second' = second /\ \A q \in Requests \ {r} : age'[q] = age[q]
  BY <1>0, LaterMoves DEF Allow, Typed, ClockTyped
<1> QED
  BY <1>1, <1>2, <1>3 DEF Raising, At, Key, Bucket

\* Less to be added, no more held: the guard stays.
LEMMA TokensEase ==
  ASSUME NEW k \in Keys, NEW S \in SUBSET Requests, NEW T \in SUBSET S,
         NEW held \in Nat, NEW now \in Nat, now <= held,
         held + SumFunctionOnSet(Tokens, S) <= Bound(k)
  PROVE  now + SumFunctionOnSet(Tokens, T) <= Bound(k)
<1>1. PICK r \in Requests : TRUE
  BY DEF Keys
<1>2. T \in SUBSET Requests
  OBVIOUS
<1>3. SumFunctionOnSet(Tokens, S) \in Nat /\ SumFunctionOnSet(Tokens, T) \in Nat
  BY <1>1, <1>2, EstimatesOf
<1>4. IsFiniteSet(S) /\ \A q \in S : Tokens[q] \in Nat
  BY <1>1, EstimatesOf
<1>5. SumFunctionOnSet(Tokens, T) <= SumFunctionOnSet(Tokens, S)
  BY <1>4, SumSubset
<1> QED
  BY <1>3, <1>5, BoundInt

\* The weighted count is at least what the current bucket holds.
LEMMA WeightedIs ==
  ASSUME ClockTyped, RedisTyped, NEW r \in Requests, Key(r) \in Keys, age[r] <= MaxLag
  PROVE  Weighted(r) \in Int /\ tokens[Key(r)][Bucket(r)] <= Weighted(r)
<1> DEFINE x == tokens[Key(r)][Bucket(r) + 1]
           y == tokens[Key(r)][Bucket(r)]
           w == Minute - Elapsed(r)
<1>1. Bucket(r) \in 1..2
  BY BucketIs
<1>2. x \in Nat /\ y \in Nat
  <2>1. tokens[Key(r)] \in Nat \X Nat \X Nat
    BY DEF RedisTyped
  <2>2. CASE Bucket(r) = 1
    BY <2>1, <2>2
  <2>3. CASE Bucket(r) = 2
    BY <2>1, <2>3
  <2> QED
    BY <1>1, <2>2, <2>3
<1>3. w \in Nat
  <2>1. age[r] \in Nat /\ second \in 0..(Minute - 1)
    BY DEF ClockTyped
  <2>2. CASE age[r] > second
    <3>1. Elapsed(r) = second - age[r] + Minute
      BY <2>1, <2>2 DEF Elapsed, Bucket
    <3> QED
      BY <2>1, <2>2, <3>1
  <2>3. CASE ~(age[r] > second)
    <3>1. Elapsed(r) = second - age[r]
      BY <2>1, <2>3 DEF Elapsed, Bucket
    <3> QED
      BY <2>1, <2>3, <3>1
  <2> QED
    BY <2>2, <2>3
<1>4. Weighted(r) = (x * w) \div Minute + y
  BY DEF Weighted
<1>5. x * w \in Nat
  <2>1. \A a, b \in Nat : a * b \in Nat
    OBVIOUS
  <2> HIDE DEF x, w
  <2> QED
    BY <1>2, <1>3, <2>1
<1>6. (x * w) \div Minute \in Nat
  <2>1. \A a \in Nat, m \in Nat \ {0} : a \div m \in Nat
    OBVIOUS
  <2> HIDE DEF x, w
  <2> QED
    BY <1>5, <2>1
<1> HIDE DEF x, y, w
<1>7. Weighted(r) \in Int /\ y <= Weighted(r)
  BY <1>2, <1>4, <1>6
<1> QED
  BY <1>7 DEF y

\* No step takes a bucket, with the tokens about to be added, over its guard.
LEMMA TokensStep ==
  ASSUME Typed, TokensGuarded, [Next]_vars
  PROVE  TokensGuarded'
<1>0. TodoTyped /\ ClockTyped /\ RedisTyped /\ RedisTyped' /\ ClockTyped'
  BY TypedStep DEF Typed
<1>a. \A k \in Keys, b \in 1..3 : tokens[k][b] \in Nat /\ tokens'[k][b] \in Nat
  BY <1>0, SMTT(30) DEF RedisTyped
<1>b. \A k, b : Raising(k, b) \in SUBSET Requests
  BY DEF Raising
<1> SUFFICES ASSUME NEW k \in Keys, Cap("tpm", k) > 0, NEW b \in 1..3
             PROVE  tokens'[k][b] + SumFunctionOnSet(Tokens, Raising(k, b)') <= Bound(k)
  BY DEF TokensGuarded, Bound
<1>c. tokens[k][b] + SumFunctionOnSet(Tokens, Raising(k, b)) <= Bound(k)
  BY DEF TokensGuarded
<1>d. ASSUME tokens'[k][b] <= tokens[k][b], Raising(k, b)' \subseteq Raising(k, b)
      PROVE  tokens'[k][b] + SumFunctionOnSet(Tokens, Raising(k, b)') <= Bound(k)
  <2> DEFINE S == Raising(k, b)
             T == Raising(k, b)'
             held == tokens[k][b]
             now == tokens'[k][b]
  <2>1. /\ S \in SUBSET Requests /\ T \in SUBSET S /\ held \in Nat /\ now \in Nat /\ now <= held
        /\ held + SumFunctionOnSet(Tokens, S) <= Bound(k)
    BY <1>a, <1>b, <1>c, <1>d
  <2> HIDE DEF S, T, held, now
  <2>2. now + SumFunctionOnSet(Tokens, T) <= Bound(k)
    BY <2>1, TokensEase
  <2> QED
    BY <2>2 DEF T, now
<1>1. ASSUME NEW r \in Requests, Allow(r) \/ Later(r), ~ AddTokens(r),
             ~ (CheckTPM(r) /\ Go(r, "add", todo[r]))
      PROVE  tokens'[k][b] + SumFunctionOnSet(Tokens, Raising(k, b)') <= Bound(k)
  <2>1. tokens' = tokens
    BY <1>1 DEF Allow, Later, Step, CheckRPM, AddHit, AcquireConcurrent, Acquire, GiveUp,
         CheckTPM, Release, ReleaseSlot, RedisError, CutOff, redis
  <2>2. Raising(k, b)' \subseteq Raising(k, b)
    BY <1>1, RaisingMoves
  <2> QED
    BY <1>a, <1>d, <2>1, <2>2
<1>2. ASSUME NEW r \in Requests, CheckTPM(r), Go(r, "add", todo[r])
      PROVE  tokens'[k][b] + SumFunctionOnSet(Tokens, Raising(k, b)') <= Bound(k)
  <2>1. /\ pc[r] = "check" /\ Head(todo[r]).dim = "tpm" /\ Key(r) \in Keys /\ age[r] <= MaxLag
        /\ pc'[r] = "add" /\ todo'[r] = todo[r]
        /\ \A q \in Requests \ {r} : pc'[q] = pc[q] /\ todo'[q] = todo[q]
        /\ tokens' = tokens /\ age' = age /\ second' = second
    BY <1>0, <1>2, HeadTyped, GoIs DEF CheckTPM, At, redis, ClockTyped, Inside
  <2>2. ASSUME NEW q \in Requests \ {r} PROVE q \in Raising(k, b)' <=> q \in Raising(k, b)
    BY <2>1 DEF Raising, At, Key, Bucket
  <2>3. r \in Raising(k, b)' <=> (k = Key(r) /\ b = Bucket(r))
    BY <2>1 DEF Raising, At, Key, Bucket
  <2>4. CASE ~(k = Key(r) /\ b = Bucket(r))
    <3>1. Raising(k, b)' \subseteq Raising(k, b)
      <4>1. Raising(k, b)' \subseteq Requests
        BY DEF Raising
      <4> QED
        BY <2>2, <2>3, <2>4, <4>1
    <3> QED
      BY <1>a, <1>d, <2>1, <3>1
  <2>5. CASE k = Key(r) /\ b = Bucket(r)
    <3> DEFINE T == Raising(k, b)'
    <3>1. T \in SUBSET Requests /\ r \in T /\ T \ {r} \in SUBSET Requests /\ r \notin T \ {r}
      BY <2>3, <2>5 DEF Raising
    <3>2. Weighted(r) + Tokens[r] <= TopOf(r)
      <4>1. ~ Reject(r)
        BY <1>0, <2>1, GoIs DEF Reject
      <4>2. ~ (Weighted(r) + Tokens[r] > TopOf(r))
        BY <1>2, <4>1 DEF CheckTPM
      <4> QED
        BY <1>0, <2>1, <4>2, HeadTyped, WeightedIs
    <3>3. tokens[k][b] <= Weighted(r) /\ Weighted(r) \in Int
      BY <1>0, <2>1, <2>5, WeightedIs
    <3>4. TopOf(r) <= Cap("tpm", k) /\ TopOf(r) \in Nat /\ Cap("tpm", k) \in Nat
      BY <1>0, <2>1, <2>5, HeadTyped, CapIs DEF Dims
    <3> HIDE DEF T
    <3>5. SumFunctionOnSet(Tokens, T) = Tokens[r] + SumFunctionOnSet(Tokens, T \ {r})
      BY <3>1, EstimatesOf
    <3>6. SumFunctionOnSet(Tokens, T \ {r}) <= (Cardinality(Requests) - 1) * Heaviest
      BY <3>1, EstimatesOf
    <3>7. SumFunctionOnSet(Tokens, T \ {r}) \in Nat
      BY <3>1, EstimatesOf
    <3> DEFINE others == SumFunctionOnSet(Tokens, T \ {r})
               most == (Cardinality(Requests) - 1) * Heaviest
    <3>8. most \in Nat /\ Bound(k) = Cap("tpm", k) + most /\ others <= most /\ others \in Nat
          /\ SumFunctionOnSet(Tokens, T) = Tokens[r] + others
      BY <3>5, <3>6, <3>7, BoundInt DEF Bound
    <3> HIDE DEF others, most
    <3>9. tokens[k][b] + SumFunctionOnSet(Tokens, T) <= Bound(k)
      <4> DEFINE held == tokens[k][b]
                 read == Weighted(r)
                 mine == Tokens[r]
                 top == TopOf(r)
                 cap == Cap("tpm", k)
                 all == SumFunctionOnSet(Tokens, T)
                 bound == Bound(k)
      <4>1. held \in Nat /\ mine \in Nat /\ read \in Int /\ top \in Nat /\ cap \in Nat /\ others \in Nat /\ most \in Nat
        BY <1>a, <3>1, <3>3, <3>4, <3>8, EstimatesOf
      <4>2. held <= read /\ read + mine <= top /\ top <= cap /\ others <= most
            /\ all = mine + others /\ bound = cap + most
        BY <3>2, <3>3, <3>4, <3>8
      <4> HIDE DEF held, read, mine, top, cap, all, bound
      <4>3. held + all <= bound
        BY <4>1, <4>2
      <4> QED
        BY <4>3 DEF held, all, bound
    <3> QED
      BY <2>1, <3>9 DEF T
  <2> QED
    BY <2>4, <2>5
<1>3. ASSUME NEW r \in Requests, AddTokens(r)
      PROVE  tokens'[k][b] + SumFunctionOnSet(Tokens, Raising(k, b)') <= Bound(k)
  <2>1. /\ r \in Raising(Key(r), Bucket(r)) /\ Key(r) \in Keys
        /\ tokens' = [tokens EXCEPT ![Key(r)][Bucket(r)] = @ + Tokens[r]]
    BY <1>0, <1>3, HeadTyped DEF AddTokens, At, Raising
  <2>2. Raising(k, b)' \subseteq Raising(k, b) \ {r}
    <3>1. ~ CheckTPM(r)
      BY <1>3 DEF AddTokens, CheckTPM, At
    <3> QED
      BY <1>3, <3>1, RaisingMoves DEF Later, Step
  <2>3. tokens[Key(r)] \in Nat \X Nat \X Nat /\ Bucket(r) \in 1..2 /\ tokens \in [Keys -> Nat \X Nat \X Nat]
    BY <1>0, <2>1, BucketIs DEF RedisTyped
  <2>4. CASE ~(k = Key(r) /\ b = Bucket(r))
    <3>1. tokens'[k][b] = tokens[k][b]
      <4>1. CASE k # Key(r)
        BY <2>1, <2>3, <4>1
      <4>2. CASE k = Key(r) /\ b # Bucket(r)
        <5>1. tokens'[k] = [tokens[k] EXCEPT ![Bucket(r)] = @ + Tokens[r]]
          BY <2>1, <2>3, <4>2
        <5>2. tokens[k] \in Nat \X Nat \X Nat
          BY <2>3
        <5> QED
          BY <2>3, <4>2, <5>1, <5>2
      <4> QED
        BY <2>4, <4>1, <4>2
    <3> QED
      BY <1>a, <1>d, <2>2, <3>1
  <2>5. CASE k = Key(r) /\ b = Bucket(r)
    <3> DEFINE S == Raising(k, b)
               T == Raising(k, b)'
    <3>1. tokens'[k][b] = tokens[k][b] + Tokens[r]
      <4>1. tokens'[k] = [tokens[k] EXCEPT ![b] = @ + Tokens[r]]
        BY <2>1, <2>3, <2>5
      <4>2. tokens[k] \in Nat \X Nat \X Nat /\ b \in 1..2
        BY <2>3, <2>5
      <4>3. CASE b = 1
        BY <4>1, <4>2, <4>3
      <4>4. CASE b = 2
        BY <4>1, <4>2, <4>4
      <4> QED
        BY <4>2, <4>3, <4>4
    <3>2. S \in SUBSET Requests /\ r \in S /\ T \in SUBSET (S \ {r}) /\ S \ {r} \in SUBSET Requests
      BY <1>b, <2>1, <2>2, <2>5
    <3> HIDE DEF S, T
    <3>3. SumFunctionOnSet(Tokens, S) = Tokens[r] + SumFunctionOnSet(Tokens, S \ {r})
      BY <3>2, EstimatesOf
    <3>4. SumFunctionOnSet(Tokens, S \ {r}) \in Nat /\ Tokens[r] \in Nat
      BY <3>2, EstimatesOf
    <3> DEFINE held == tokens[k][b] + Tokens[r]
    <3>5. held \in Nat /\ held + SumFunctionOnSet(Tokens, S \ {r}) <= Bound(k)
      <4>1. tokens[k][b] + SumFunctionOnSet(Tokens, S) <= Bound(k)
        BY <1>c DEF S
      <4> QED
        BY <1>a, <3>3, <3>4, <4>1, BoundInt, SMTT(30)
    <3> HIDE DEF held
    <3>6. held + SumFunctionOnSet(Tokens, T) <= Bound(k)
      BY <3>2, <3>5, TokensEase
    <3> QED
      BY <3>1, <3>6 DEF held, T
  <2> QED
    BY <2>4, <2>5
<1>4. CASE Reload \/ UNCHANGED vars
  <2>1. tokens' = tokens /\ pc' = pc /\ todo' = todo /\ age' = age /\ second' = second
    BY <1>4 DEF Reload, vars, redis
  <2>2. Raising(k, b)' = Raising(k, b)
    BY <2>1 DEF Raising, At, Key, Bucket
  <2> QED
    BY <1>c, <2>1, <2>2
<1>5. CASE Tick
  <2>1. /\ second' = (second + 1) % Minute
        /\ tokens' = IF second' # 0 THEN tokens ELSE [q \in Keys |-> <<0, tokens[q][1], tokens[q][2]>>]
        /\ pc' = pc /\ todo' = todo
        /\ \A r \in Requests : pc[r] = "add" => age[r] < MaxLag /\ age'[r] = age[r] + 1
    BY <1>5 DEF Tick, Inside
  <2>2. second \in 0..(Minute - 1) /\ \A r \in Requests : age[r] \in Nat
    BY <1>0 DEF ClockTyped
  <2>3. CASE second' # 0
    <3>1. second' = second + 1
      BY <2>1, <2>2, <2>3
    <3>2. Raising(k, b)' \subseteq Raising(k, b)
      BY <2>1, <2>2, <3>1 DEF Raising, At, Key, Bucket
    <3> QED
      BY <1>a, <1>d, <2>1, <2>3, <3>2
  <2>4. CASE second' = 0
    <3>1. second = Minute - 1
      <4>1. CASE second + 1 < Minute
        <5>1. (second + 1) % Minute = second + 1
          BY <2>2, <4>1
        <5> QED
          BY <2>1, <2>2, <2>4, <5>1
      <4> QED
        BY <2>2, <4>1
    <3>2. \A r \in Requests : pc[r] = "add" => Bucket(r) = 1 /\ Bucket(r)' = 2
      BY <2>1, <2>2, <2>4, <3>1 DEF Bucket
    <3>3. tokens'[k] = <<0, tokens[k][1], tokens[k][2]>>
      BY <2>1, <2>4
    <3>4. CASE b = 1
      <4>1. tokens'[k][b] = 0
        BY <3>3, <3>4
      <4>2. Raising(k, b)' = {}
        BY <2>1, <3>2, <3>4 DEF Raising, At
      <4> QED
        BY <1>a, <1>d, <4>1, <4>2
    <3>5. CASE b \in {2, 3}
      <4> DEFINE S == Raising(k, b - 1)
                 T == Raising(k, b)'
                 held == tokens[k][b - 1]
                 now == tokens'[k][b]
      <4>1. now = held
        BY <3>3, <3>5
      <4>2. T \subseteq S
        <5>1. CASE b = 2
          <6>1. b - 1 = 1
            BY <5>1
          <6> QED
            BY <2>1, <3>2, <5>1, <6>1 DEF Raising, At, Key
        <5>2. CASE b = 3
          BY <2>1, <3>2, <5>2 DEF Raising, At, Key
        <5> QED
          BY <3>5, <5>1, <5>2
      <4>3. S \in SUBSET Requests /\ T \in SUBSET S /\ held \in Nat /\ now \in Nat
        BY <1>a, <1>b, <3>5, <4>2
      <4>4. held + SumFunctionOnSet(Tokens, S) <= Bound(k)
        BY <3>5 DEF TokensGuarded
      <4> HIDE DEF S, T, held, now
      <4>5. now + SumFunctionOnSet(Tokens, T) <= Bound(k)
        <5>1. now <= held
          BY <4>1, <4>3
        <5> QED
          BY <4>3, <4>4, <5>1, TokensEase
      <4> QED
        BY <4>5 DEF T, now
    <3> QED
      BY <3>4, <3>5
  <2> QED
    BY <2>3, <2>4
<1> QED
  BY <1>1, <1>2, <1>3, <1>4, <1>5, NextIs

\* No token is recorded at the start.
LEMMA TokensInit == Init => TokensGuarded
<1> SUFFICES ASSUME Init, NEW k \in Keys, Cap("tpm", k) > 0, NEW b \in 1..3
             PROVE  tokens[k][b] + SumFunctionOnSet(Tokens, Raising(k, b)) <= Bound(k)
  BY DEF TokensGuarded
<1>1. tokens[k][b] = 0
  BY DEF Init
<1>2. Raising(k, b) = {}
  BY DEF Raising, At, Init
<1>3. SumFunctionOnSet(Tokens, Raising(k, b)) = 0
  BY <1>2, SumEmpty
<1> QED
  BY <1>1, <1>3, BoundInt

\* However the requests interleave, whatever is reloaded, fails or dies: no
\* bucket of a minute holds more than the limit and the heaviest estimate of
\* each request but one.
THEOREM TokensLimited == Spec => []TokensRespected
<1>1. Init => Typed /\ TokensGuarded
  BY TypedInit, TokensInit
<1>2. Typed /\ TokensGuarded /\ [Next]_vars => (Typed /\ TokensGuarded)'
  BY TypedStep, TokensStep
<1>3. Typed /\ TokensGuarded => TokensRespected
  <2> SUFFICES ASSUME Typed, TokensGuarded, NEW k \in Keys, Cap("tpm", k) > 0, NEW b \in 1..3
               PROVE  tokens[k][b] <= Bound(k)
    BY DEF TokensRespected, Bound, Heaviest
  <2>1. tokens[k][b] + SumFunctionOnSet(Tokens, Raising(k, b)) <= Bound(k)
    BY DEF TokensGuarded
  <2>2. tokens[k][b] \in Nat
    BY DEF Typed, RedisTyped
  <2>3. SumFunctionOnSet(Tokens, Raising(k, b)) \in Nat
    <3>1. Raising(k, b) \in SUBSET Requests
      BY DEF Raising
    <3>2. PICK r \in Requests : TRUE
      BY DEF Keys
    <3> QED
      BY <3>1, <3>2, EstimatesOf
  <2> QED
    BY <2>1, <2>2, <2>3, BoundInt
<1> QED
  BY <1>1, <1>2, <1>3, PTL DEF Spec

(***************************************************************************)
(* The slots: what is counted, who holds what, and what an error leaves.   *)
(***************************************************************************)

\* The slots of key k among the checks s.
IsSlot(c, k) == c.dim = "conc" /\ c.key = k
SlotsAt(s, k) == [i \in 1..Len(s) |-> IF IsSlot(s[i], k) THEN 1 ELSE 0]
SlotsIn(s, k) == Total(SlotsAt(s, k), Len(s))

\* They are a number; there is none in nothing.
LEMMA SlotsNat ==
  ASSUME NEW s \in Seq(Checks), NEW k
  PROVE  /\ Len(s) \in Nat /\ SlotsAt(s, k) \in [1..Len(s) -> Int]
         /\ SlotsIn(s, k) \in Nat
<1>1. Len(s) \in Nat /\ SlotsAt(s, k) \in [1..Len(s) -> Nat]
  BY DEF SlotsAt
<1>2. SlotsAt(s, k) \in [1..Len(s) -> Int]
  BY <1>1
<1>3. SlotsIn(s, k) \in Int /\ SlotsIn(s, k) >= 0
  BY <1>1, <1>2, TotalType, TotalNat DEF SlotsIn
<1> QED
  BY <1>1, <1>2, <1>3

\* There are none where no check is a slot of k.
LEMMA SlotsNone ==
  ASSUME NEW s \in Seq(Checks), NEW k, \A i \in 1..Len(s) : ~ IsSlot(s[i], k)
  PROVE  SlotsIn(s, k) = 0
<1>1. Len(s) \in Nat /\ SlotsAt(s, k) \in [1..Len(s) -> Int]
  BY SlotsNat
<1>2. \A i \in 1..Len(s) : SlotsAt(s, k)[i] = 0
  BY DEF SlotsAt
<1> QED
  BY <1>1, <1>2, TotalZero DEF SlotsIn

\* A single check is a slot of k or it is not.
LEMMA SlotsOne ==
  ASSUME NEW c \in Checks, NEW k
  PROVE  SlotsIn(<<c>>, k) = IF IsSlot(c, k) THEN 1 ELSE 0
<1> DEFINE one == SlotsAt(<<c>>, k)
           s == [i \in 0..1 |-> IF i = 0 THEN 0 ELSE one[1]]
<1>1. Len(<<c>>) = 1 /\ one \in [1..1 -> Int] /\ one[1] = IF IsSlot(c, k) THEN 1 ELSE 0
  BY DEF SlotsAt
<1>2. Accumulates(s, one, 1)
  <2> HIDE DEF one
  <2>1. s[0] = 0 /\ s[1] = one[1]
    OBVIOUS
  <2>2. s \in [0..1 -> Int]
    BY <1>1
  <2> HIDE DEF s
  <2>3. \A i \in 1..1 : s[i] = s[i - 1] + one[i]
    <3>1. s[1] = s[1 - 1] + one[1]
      BY <1>1, <2>1
    <3> QED
      BY <3>1
  <2> QED
    BY <1>1, <2>1, <2>2, <2>3 DEF Accumulates
<1>3. Total(one, 1) = s[1]
  <2> HIDE DEF one, s
  <2> QED
    BY <1>1, <1>2, TotalIs
<1> QED
  BY <1>1, <1>3 DEF SlotsIn

\* Sequences joined, slots added.
LEMMA SlotsJoin ==
  ASSUME NEW s \in Seq(Checks), NEW t \in Seq(Checks), NEW k
  PROVE  s \o t \in Seq(Checks) /\ SlotsIn(s \o t, k) = SlotsIn(s, k) + SlotsIn(t, k)
<1> DEFINE m == Len(s)
           n == Len(t)
           f == SlotsAt(s, k)
           g == SlotsAt(t, k)
           h == SlotsAt(s \o t, k)
<1>1. s \o t \in Seq(Checks) /\ Len(s \o t) = m + n /\ m \in Nat /\ n \in Nat
  OBVIOUS
<1>2. f \in [1..m -> Int] /\ g \in [1..n -> Int] /\ h \in [1..(m + n) -> Int]
  BY <1>1, SlotsNat
<1>3. \A i \in 1..m : h[i] = f[i]
  <2>1. \A i \in 1..m : (s \o t)[i] = s[i] /\ i \in 1..(m + n)
    BY <1>1
  <2> QED
    BY <1>1, <2>1 DEF SlotsAt
<1>4. \A i \in 1..n : h[m + i] = g[i]
  <2>1. \A i \in 1..n : (s \o t)[m + i] = t[i] /\ m + i \in 1..(m + n)
    BY <1>1
  <2> QED
    BY <1>1, <2>1 DEF SlotsAt
<1>5. Total(h, m + n) = Total(f, m) + Total(g, n)
  <2> HIDE DEF f, g, h, m, n
  <2>1. m \in Nat /\ n \in Nat
    BY <1>1
  <2> QED
    BY <1>2, <1>3, <1>4, <2>1, TotalJoin, ZenonT(60)
<1> QED
  BY <1>1, <1>5 DEF SlotsIn

\* The first check and the others.
LEMMA SlotsHead ==
  ASSUME NEW s \in Seq(Checks), s # <<>>, NEW k
  PROVE  SlotsIn(s, k) = SlotsIn(Tail(s), k) + (IF IsSlot(Head(s), k) THEN 1 ELSE 0)
<1>1. Head(s) \in Checks /\ Tail(s) \in Seq(Checks) /\ <<Head(s)>> \in Seq(Checks)
      /\ s = <<Head(s)>> \o Tail(s)
  OBVIOUS
<1>2. SlotsIn(<<Head(s)>> \o Tail(s), k) = SlotsIn(<<Head(s)>>, k) + SlotsIn(Tail(s), k)
  BY <1>1, SlotsJoin, ZenonT(30)
<1>3. SlotsIn(<<Head(s)>>, k) = IF IsSlot(Head(s), k) THEN 1 ELSE 0
  BY <1>1, SlotsOne
<1>4. SlotsIn(Tail(s), k) \in Nat /\ SlotsIn(<<Head(s)>>, k) \in Nat
  BY <1>1, SlotsNat
<1> DEFINE rest == SlotsIn(Tail(s), k)
           first == SlotsIn(<<Head(s)>>, k)
<1>5. SlotsIn(s, k) = first + rest /\ first \in Nat /\ rest \in Nat
  BY <1>1, <1>2, <1>4
<1> HIDE DEF first, rest
<1>6. SlotsIn(s, k) = rest + first
  BY <1>5
<1> QED
  BY <1>3, <1>6 DEF first, rest

\* Sequences of sequences with the same slots part by part have the same
\* slots when flattened.
LEMMA FlattenSlots ==
  ASSUME NEW ss \in Seq(Seq(Checks)), NEW tt \in Seq(Seq(Checks)), Len(ss) = Len(tt), NEW k,
         \A i \in 1..Len(ss) : SlotsIn(ss[i], k) = SlotsIn(tt[i], k)
  PROVE  SlotsIn(FlattenSeq(ss), k) = SlotsIn(FlattenSeq(tt), k)
<1> DEFINE n == Len(ss)
<1>0. n \in Nat /\ \A i \in 1..n : ss[i] \in Seq(Checks) /\ tt[i] \in Seq(Checks)
  OBVIOUS
<1>1. PICK F \in [0..n -> Seq(Checks)] : JoinsTo(F, ss, n) /\ FlattenSeq(ss) = F[n]
  BY FlattenIs
<1>2. PICK G \in [0..n -> Seq(Checks)] : JoinsTo(G, tt, n) /\ FlattenSeq(tt) = G[n]
  BY FlattenIs
<1> DEFINE Bad == {m \in 0..n : SlotsIn(F[m], k) # SlotsIn(G[m], k)}
<1>4. \A i \in 1..n : SlotsIn(ss[i], k) = SlotsIn(tt[i], k)
  OBVIOUS
<1> HIDE DEF n
<1>3. Bad = {}
  <2> SUFFICES ASSUME Bad # {} PROVE FALSE
    OBVIOUS
  <2>1. PICK m \in Bad : \A j \in Bad : m <= j
    <3>1. Bad \in SUBSET Nat
      BY <1>0
    <3> HIDE DEF Bad
    <3> QED
      BY <3>1, LeastNatural
  <2>2. m # 0
    BY <1>1, <1>2, <2>1 DEF JoinsTo
  <2>3. m \in 1..n /\ m - 1 \in 0..n /\ m - 1 \notin Bad
    <3>1. m \in 0..n
      BY <2>1
    <3> HIDE DEF Bad
    <3>2. m \in 1..n /\ m - 1 \in 0..n /\ ~ (m <= m - 1)
      BY <1>0, <2>2, <3>1
    <3> QED
      BY <2>1, <3>2
  <2>4. SlotsIn(F[m - 1], k) = SlotsIn(G[m - 1], k)
    BY <2>3
  <2>5. F[m] = F[m - 1] \o ss[m] /\ G[m] = G[m - 1] \o tt[m]
    BY <1>1, <1>2, <2>3 DEF JoinsTo
  <2>6. /\ F[m - 1] \in Seq(Checks) /\ G[m - 1] \in Seq(Checks)
        /\ ss[m] \in Seq(Checks) /\ tt[m] \in Seq(Checks)
    BY <1>0, <1>1, <1>2, <2>3
  <2>7. SlotsIn(F[m], k) = SlotsIn(F[m - 1], k) + SlotsIn(ss[m], k)
    BY <2>5, <2>6, SlotsJoin
  <2>8. SlotsIn(G[m], k) = SlotsIn(G[m - 1], k) + SlotsIn(tt[m], k)
    BY <2>5, <2>6, SlotsJoin
  <2>9. SlotsIn(F[m], k) = SlotsIn(G[m], k)
    BY <1>4, <2>3, <2>4, <2>7, <2>8
  <2> QED
    BY <2>1, <2>9
<1>5. n \in 0..n
  BY <1>0
<1>6. SlotsIn(F[n], k) = SlotsIn(G[n], k)
  BY <1>3, <1>5
<1> QED
  BY <1>1, <1>2, <1>6

\* A flattened sequence has the slots of each of its parts.
LEMMA FlattenCovers ==
  ASSUME NEW ss \in Seq(Seq(Checks)), NEW k, NEW i \in 1..Len(ss)
  PROVE  SlotsIn(FlattenSeq(ss), k) >= SlotsIn(ss[i], k)
<1> DEFINE n == Len(ss)
<1>0. n \in Nat /\ i \in 1..n /\ \A j \in 1..n : ss[j] \in Seq(Checks)
  OBVIOUS
<1>1. PICK F \in [0..n -> Seq(Checks)] : JoinsTo(F, ss, n) /\ FlattenSeq(ss) = F[n]
  BY FlattenIs
<1> DEFINE Bad == {m \in i..n : ~ (SlotsIn(F[m], k) >= SlotsIn(ss[i], k))}
<1> HIDE DEF n
<1>2. \A m \in 1..n : /\ SlotsIn(F[m], k) = SlotsIn(F[m - 1], k) + SlotsIn(ss[m], k)
                      /\ SlotsIn(F[m - 1], k) \in Nat /\ SlotsIn(ss[m], k) \in Nat
  <2> SUFFICES ASSUME NEW m \in 1..n
               PROVE  /\ SlotsIn(F[m], k) = SlotsIn(F[m - 1], k) + SlotsIn(ss[m], k)
                      /\ SlotsIn(F[m - 1], k) \in Nat /\ SlotsIn(ss[m], k) \in Nat
    OBVIOUS
  <2>1. m - 1 \in 0..n
    BY <1>0
  <2>2. F[m] = F[m - 1] \o ss[m]
    BY <1>1 DEF JoinsTo
  <2>3. F[m - 1] \in Seq(Checks) /\ ss[m] \in Seq(Checks)
    BY <1>0, <1>1, <2>1
  <2>4. SlotsIn(F[m], k) = SlotsIn(F[m - 1], k) + SlotsIn(ss[m], k)
    BY <2>2, <2>3, SlotsJoin
  <2> QED
    BY <2>3, <2>4, SlotsNat
<1>3. Bad = {}
  <2> SUFFICES ASSUME Bad # {} PROVE FALSE
    OBVIOUS
  <2>1. PICK m \in Bad : \A j \in Bad : m <= j
    <3>1. Bad \in SUBSET Nat
      BY <1>0
    <3> HIDE DEF Bad
    <3> QED
      BY <3>1, LeastNatural
  <2>2. m \in i..n /\ m \in 1..n /\ ~ (SlotsIn(F[m], k) >= SlotsIn(ss[i], k))
    BY <1>0, <2>1
  <2>3. m # i
    BY <1>2, <2>2
  <2>4. m - 1 \in i..n /\ m - 1 \notin Bad
    <3> HIDE DEF Bad
    <3>1. m - 1 \in i..n /\ ~ (m <= m - 1)
      BY <1>0, <2>2, <2>3
    <3> QED
      BY <2>1, <3>1
  <2>5. SlotsIn(F[m - 1], k) >= SlotsIn(ss[i], k)
    BY <2>4
  <2>6. SlotsIn(ss[i], k) \in Nat
    BY <1>0, <1>2
  <2> DEFINE now == SlotsIn(F[m], k)
             before == SlotsIn(F[m - 1], k)
             part == SlotsIn(ss[m], k)
             mine == SlotsIn(ss[i], k)
  <2>7. now = before + part /\ before \in Nat /\ part \in Nat /\ mine \in Nat
        /\ before >= mine /\ ~ (now >= mine)
    BY <1>2, <2>2, <2>5, <2>6
  <2> HIDE DEF now, before, part, mine
  <2> QED
    BY <2>7
<1>4. n \in i..n
  BY <1>0
<1> QED
  BY <1>1, <1>3, <1>4

\* A rule's limits hold as many slots of a key as its concurrency limit does.
LEMMA LimitSlots ==
  ASSUME NEW rs \in RuleSets, NEW i \in DOMAIN rs, NEW s \in 1..4, NEW r \in Requests, NEW k
  PROVE  SlotsIn(Limits(rs[i], Scopes[s], r), k) = SlotsIn(Limit(rs[i], "conc", Scopes[s], r), k)
<1> DEFINE L(dim) == Limit(rs[i], dim, Scopes[s], r)
           last == IF Tokens[r] > 0 THEN L("tpm") ELSE <<>>
<1>1. L("rpm") \in Seq(Checks) /\ L("conc") \in Seq(Checks) /\ L("tpm") \in Seq(Checks)
  BY LimitTyped DEF Dims
<1>2. ASSUME NEW dim \in {"rpm", "tpm"}
      PROVE  \A j \in 1..Len(L(dim)) : ~ IsSlot(L(dim)[j], k)
  BY DEF Limit, IsSlot
<1>3. SlotsIn(L("rpm"), k) = 0 /\ SlotsIn(L("tpm"), k) = 0
  <2>1. /\ \A j \in 1..Len(L("rpm")) : ~ IsSlot(L("rpm")[j], k)
        /\ \A j \in 1..Len(L("tpm")) : ~ IsSlot(L("tpm")[j], k)
    BY <1>2
  <2> HIDE DEF L
  <2> QED
    BY <1>1, <2>1, SlotsNone
<1>4. last \in Seq(Checks) /\ SlotsIn(last, k) = 0
  <2>1. <<>> \in Seq(Checks) /\ SlotsIn(<<>>, k) = 0
    <3>1. <<>> \in Seq(Checks) /\ \A j \in 1..Len(<<>>) : ~ IsSlot(<<>>[j], k)
      OBVIOUS
    <3> QED
      BY <3>1, SlotsNone
  <2> HIDE DEF L
  <2> QED
    BY <1>1, <1>3, <2>1
<1>5. Limits(rs[i], Scopes[s], r) = (L("rpm") \o L("conc")) \o last
  BY DEF Limits
<1> HIDE DEF L, last
<1>6. /\ L("rpm") \o L("conc") \in Seq(Checks)
      /\ SlotsIn(L("rpm") \o L("conc"), k) = SlotsIn(L("rpm"), k) + SlotsIn(L("conc"), k)
  BY <1>1, SlotsJoin
<1>7. SlotsIn((L("rpm") \o L("conc")) \o last, k) = SlotsIn(L("rpm") \o L("conc"), k) + SlotsIn(last, k)
  BY <1>4, <1>6, SlotsJoin
<1>8. SlotsIn(L("conc"), k) \in Nat
  BY <1>1, SlotsNat
<1>9. SlotsIn((L("rpm") \o L("conc")) \o last, k) = SlotsIn(L("conc"), k)
  BY <1>3, <1>4, <1>6, <1>7, <1>8
<1> QED
  BY <1>5, <1>9 DEF L

\* Release returns as many slots of a key as Allow takes, and at least one
\* for a rule that limits the key.
LEMMA SlotsBack ==
  ASSUME NEW rs \in RuleSets, NEW r \in Requests, NEW k
  PROVE  /\ SlotsIn(ChecksUnder(rs, r), k) = SlotsIn(SlotsUnder(rs, r), k)
         /\ \A s \in 1..4, i \in DOMAIN rs :
              SlotsIn(SlotsUnder(rs, r), k) >= SlotsIn(Limit(rs[i], "conc", Scopes[s], r), k)
<1> DEFINE all(s) == [i \in DOMAIN rs |-> Limits(rs[i], Scopes[s], r)]
           slots(s) == [i \in DOMAIN rs |-> Limit(rs[i], "conc", Scopes[s], r)]
           alls == [s \in 1..4 |-> FlattenSeq(all(s))]
           slotss == [s \in 1..4 |-> FlattenSeq(slots(s))]
<1>0. rs \in Seq(Rules) /\ DOMAIN rs = 1..Len(rs) /\ Len(rs) \in Nat
  OBVIOUS
<1>1. ASSUME NEW s \in 1..4, NEW i \in DOMAIN rs
      PROVE  /\ Limits(rs[i], Scopes[s], r) \in Seq(Checks)
             /\ Limit(rs[i], "conc", Scopes[s], r) \in Seq(Checks)
             /\ SlotsIn(Limits(rs[i], Scopes[s], r), k) = SlotsIn(Limit(rs[i], "conc", Scopes[s], r), k)
  <2>1. \A dim \in Dims : Limit(rs[i], dim, Scopes[s], r) \in Seq(Checks)
    BY LimitTyped
  <2>2. /\ Limit(rs[i], "rpm", Scopes[s], r) \in Seq(Checks)
        /\ Limit(rs[i], "conc", Scopes[s], r) \in Seq(Checks)
        /\ Limit(rs[i], "tpm", Scopes[s], r) \in Seq(Checks)
    BY <2>1 DEF Dims
  <2>3. Limits(rs[i], Scopes[s], r) \in Seq(Checks)
    BY <2>2 DEF Limits
  <2>4. SlotsIn(Limits(rs[i], Scopes[s], r), k) = SlotsIn(Limit(rs[i], "conc", Scopes[s], r), k)
    BY LimitSlots, SMTT(30)
  <2> QED
    BY <2>2, <2>3, <2>4
<1>2. ASSUME NEW s \in 1..4
      PROVE  /\ all(s) \in Seq(Seq(Checks)) /\ slots(s) \in Seq(Seq(Checks))
             /\ Len(all(s)) = Len(rs) /\ Len(slots(s)) = Len(rs)
             /\ \A i \in 1..Len(rs) : SlotsIn(all(s)[i], k) = SlotsIn(slots(s)[i], k)
  <2>1. all(s) \in [1..Len(rs) -> Seq(Checks)] /\ slots(s) \in [1..Len(rs) -> Seq(Checks)]
    BY <1>0, <1>1
  <2>2. \A T : \A g \in [1..Len(rs) -> T] : g \in Seq(T) /\ Len(g) = Len(rs)
    BY <1>0
  <2>3. \A i \in 1..Len(rs) : SlotsIn(all(s)[i], k) = SlotsIn(slots(s)[i], k)
    BY <1>0, <1>1
  <2> HIDE DEF all, slots
  <2> QED
    BY <2>1, <2>2, <2>3
<1>3. ASSUME NEW s \in 1..4
      PROVE  /\ FlattenSeq(all(s)) \in Seq(Checks) /\ FlattenSeq(slots(s)) \in Seq(Checks)
             /\ SlotsIn(FlattenSeq(all(s)), k) = SlotsIn(FlattenSeq(slots(s)), k)
             /\ \A i \in 1..Len(rs) : SlotsIn(FlattenSeq(slots(s)), k) >= SlotsIn(slots(s)[i], k)
  <2> HIDE DEF all, slots
  <2>1. FlattenSeq(all(s)) \in Seq(Checks) /\ FlattenSeq(slots(s)) \in Seq(Checks)
    BY <1>2, FlattenTyped
  <2>2. SlotsIn(FlattenSeq(all(s)), k) = SlotsIn(FlattenSeq(slots(s)), k)
    BY <1>2, FlattenSlots
  <2>3. \A i \in 1..Len(rs) : SlotsIn(FlattenSeq(slots(s)), k) >= SlotsIn(slots(s)[i], k)
    BY <1>2, FlattenCovers
  <2> QED
    BY <2>1, <2>2, <2>3
<1>4. /\ alls \in Seq(Seq(Checks)) /\ slotss \in Seq(Seq(Checks)) /\ Len(alls) = 4 /\ Len(slotss) = 4
      /\ \A s \in 1..4 : /\ SlotsIn(alls[s], k) = SlotsIn(slotss[s], k)
                         /\ \A i \in 1..Len(rs) : SlotsIn(slotss[s], k) >= SlotsIn(slots(s)[i], k)
  <2> HIDE DEF all, slots
  <2>1. alls \in Seq(Seq(Checks)) /\ Len(alls) = 4
    BY <1>3
  <2>2. slotss \in Seq(Seq(Checks)) /\ Len(slotss) = 4
    BY <1>3
  <2>3. \A s \in 1..4 : alls[s] = FlattenSeq(all(s)) /\ slotss[s] = FlattenSeq(slots(s))
    OBVIOUS
  <2> HIDE DEF alls, slotss
  <2> QED
    BY <1>3, <2>1, <2>2, <2>3
<1>5. SlotsIn(FlattenSeq(alls), k) = SlotsIn(FlattenSeq(slotss), k)
  <2> HIDE DEF alls, slotss, slots
  <2> QED
    BY <1>4, FlattenSlots, ZenonT(30)
<1>6. ASSUME NEW s \in 1..4, NEW i \in DOMAIN rs
      PROVE  SlotsIn(FlattenSeq(slotss), k) >= SlotsIn(slots(s)[i], k)
  <2> HIDE DEF alls, slotss, slots
  <2>1. SlotsIn(FlattenSeq(slotss), k) >= SlotsIn(slotss[s], k)
    BY <1>4, FlattenCovers
  <2>2. SlotsIn(slotss[s], k) >= SlotsIn(slots(s)[i], k)
    BY <1>0, <1>4
  <2>3. SlotsIn(FlattenSeq(slotss), k) \in Nat /\ SlotsIn(slotss[s], k) \in Nat
    <3>1. FlattenSeq(slotss) \in Seq(Checks)
      BY <1>4, FlattenTyped
    <3>2. slotss[s] \in Seq(Checks)
      <4>1. slotss \in Seq(Seq(Checks)) /\ s \in 1..Len(slotss)
        BY <1>4
      <4> QED
        BY <4>1
    <3> QED
      BY <3>1, <3>2, SlotsNat
  <2>4. SlotsIn(slots(s)[i], k) \in Nat
    <3>1. slots(s)[i] \in Seq(Checks)
      BY <1>1 DEF slots
    <3> QED
      BY <3>1, SlotsNat
  <2> QED
    BY <2>1, <2>2, <2>3, <2>4
<1>7. \A s \in 1..4, i \in DOMAIN rs : slots(s)[i] = Limit(rs[i], "conc", Scopes[s], r)
  OBVIOUS
<1>8. ChecksUnder(rs, r) = FlattenSeq(alls) /\ SlotsUnder(rs, r) = FlattenSeq(slotss)
  BY DEF ChecksUnder, SlotsUnder
<1> HIDE DEF alls, slotss, slots, all
<1> QED
  BY <1>5, <1>6, <1>7, <1>8

\* Where a key has a cap, each request of that key takes a slot of it.
LEMMA SlotDue ==
  ASSUME SlotsFixed, rules \in RuleSets, NEW r \in Requests, NEW k \in Keys, Cap("conc", k) > 0,
         NEW s \in 1..4, KeyOf(Scopes[s], r) = k
  PROVE  SlotsIn(SlotsOf(r), k) >= 1
<1>1. PICK rule \in RulesOn(k) : rule.conc = Cap("conc", k)
  BY CapIs DEF Dims
<1>2. PICK rs \in RuleSets : rule \in ToSet(rs)
  BY DEF RulesOn
<1>3. PICK q \in Requests : Matches(rule, k[1], q) /\ KeyOf(k[1], q) = k
  BY DEF RulesOn
<1>4. PICK i \in DOMAIN rs : rs[i] = rule
  BY <1>2 DEF ToSet
<1>5. k[1] = Scopes[s] /\ Who[r][Scopes[s]] = Who[q][Scopes[s]]
  <2>1. k = <<Scopes[s], Who[r][Scopes[s]]>>
    BY DEF KeyOf
  <2>2. k[1] = Scopes[s] /\ k[2] = Who[r][Scopes[s]]
    BY <2>1
  <2>3. k = <<Scopes[s], Who[q][Scopes[s]]>>
    BY <1>3, <2>2 DEF KeyOf
  <2> QED
    BY <2>2, <2>3
<1>6. Matches(rule, Scopes[s], r)
  BY <1>3, <1>5 DEF Matches
<1> DEFINE c == [dim |-> "conc", key |-> k, max |-> rule["conc"]]
<1>7. Limit(rule, "conc", Scopes[s], r) = <<c>>
  BY <1>1, <1>6 DEF Limit
<1>8. c \in Checks /\ IsSlot(c, k)
  <2>1. Limit(rs[i], "conc", Scopes[s], r) \in Seq(Checks)
    BY LimitTyped DEF Dims
  <2>2. <<c>> \in Seq(Checks)
    BY <1>4, <1>7, <2>1
  <2>3. IsSlot(c, k)
    BY DEF IsSlot
  <2> HIDE DEF c
  <2>4. <<c>>[1] \in Checks
    BY <2>2
  <2> QED
    BY <2>3, <2>4
<1>9. SlotsIn(Limit(rs[i], "conc", Scopes[s], r), k) = 1
  <2> HIDE DEF c
  <2> QED
    BY <1>4, <1>7, <1>8, SlotsOne
<1>10. SlotsIn(SlotsUnder(rs, r), k) >= 1
  BY <1>9, SlotsBack
<1> QED
  BY <1>10 DEF SlotsFixed, SlotsOf

\* What a request has taken of a key and not returned: what is behind it on
\* the way through Allow, what is ahead of it on the way through Release.
Due(r, k) == SlotsIn(SlotsOf(r), k)

Taken(r, k) ==
  IF pc[r] \in Inside \cup {"served"} THEN Due(r, k) - SlotsIn(todo[r], k)
  ELSE IF pc[r] = "release" THEN SlotsIn(todo[r], k) ELSE 0

\* The slot over the limit that it counts until it gives it up.
Over(r, k) == IF pc[r] = "overflow" /\ Key(r) = k THEN 1 ELSE 0

Held(r, k) == Taken(r, k) + Over(r, k)

TakenBy(k) == [r \in Requests |-> Taken(r, k)]
HeldBy(k) == [r \in Requests |-> Held(r, k)]

\* Held by a request that is too young for its slots to have set the expiry
\* of the key: the expiry was lost.
LateBy(k) == [r \in Requests |-> IF ttl[k] + age[r] < TTL THEN Held(r, k) ELSE 0]

\* Nobody returns what it has not taken; what is held is counted, what is
\* held past the expiry of its key stems from an error, and what was taken is
\* within the limit, all but for one slot per error.
SlotsGuarded ==
  /\ \A r \in Requests, k \in Keys : Taken(r, k) >= 0
  /\ \A k \in Keys :
       /\ SumFunctionOnSet(HeldBy(k), Requests) <= count[k] + errors
       /\ SumFunctionOnSet(LateBy(k), Requests) <= errors
       /\ Cap("conc", k) > 0 => SumFunctionOnSet(TakenBy(k), Requests) <= Cap("conc", k) + errors

\* They are integers.
LEMMA TakenInt ==
  ASSUME rules \in RuleSets, TodoTyped, NEW r \in Requests, NEW k
  PROVE  /\ Due(r, k) \in Nat /\ SlotsIn(todo[r], k) \in Nat
         /\ Taken(r, k) \in Int /\ Over(r, k) \in {0, 1} /\ Held(r, k) \in Int
<1>1. SlotsOf(r) \in Seq(Checks)
  <2>1. SlotsOf(r) \in Seq(SlotChecks)
    BY ChecksTyped DEF SlotsOf
  <2> QED
    BY <2>1 DEF SlotChecks
<1>2. todo[r] \in Seq(Checks)
  BY DEF TodoTyped
<1>3. Due(r, k) \in Nat /\ SlotsIn(todo[r], k) \in Nat
  BY <1>1, <1>2, SlotsNat DEF Due
<1>4. Taken(r, k) \in Int
  BY <1>3 DEF Taken
<1>5. Over(r, k) \in {0, 1}
  BY DEF Over
<1> QED
  BY <1>3, <1>4, <1>5 DEF Held

\* A reload changes nothing of what a request has to return.
LEMMA DueKeeps ==
  ASSUME SlotsFixed, rules \in RuleSets, rules' \in RuleSets, NEW r \in Requests, NEW k
  PROVE  Due(r, k)' = Due(r, k)
<1>1. SlotsUnder(rules', r) = SlotsUnder(rules, r)
  BY DEF SlotsFixed
<1>2. SlotsOf(r)' = SlotsOf(r)
  BY <1>1 DEF SlotsOf
<1> QED
  BY <1>2 DEF Due

\* A request that does not move keeps its slots.
LEMMA Unmoved ==
  ASSUME SlotsFixed, rules \in RuleSets, rules' \in RuleSets, NEW r \in Requests, NEW k,
         pc'[r] = pc[r], todo'[r] = todo[r]
  PROVE  Taken(r, k)' = Taken(r, k) /\ Over(r, k)' = Over(r, k) /\ Held(r, k)' = Held(r, k)
<1>1. Taken(r, k)' = Taken(r, k)
  BY DueKeeps DEF Taken
<1>2. Over(r, k)' = Over(r, k)
  BY DEF Over, Key
<1> QED
  BY <1>1, <1>2 DEF Held

\* What the moves of a request do to its slots of a key: passing a check of
\* the key takes one, ...
LEMMA PassTakes ==
  ASSUME SlotsFixed, rules \in RuleSets, rules' \in RuleSets, TodoTyped,
         NEW r \in Requests, NEW k, pc[r] \in {"check", "add"}, Pass(r)
  PROVE  /\ Taken(r, k)' = Taken(r, k) + (IF IsSlot(Head(todo[r]), k) THEN 1 ELSE 0)
         /\ Over(r, k) = 0 /\ Over(r, k)' = 0
<1> DEFINE left == Tail(todo[r])
           one == IF IsSlot(Head(todo[r]), k) THEN 1 ELSE 0
<1>1. todo[r] \in Seq(Checks) /\ todo[r] # <<>> /\ left \in Seq(Checks)
  BY HeadTyped DEF TodoTyped
<1>2. SlotsIn(todo[r], k) = SlotsIn(left, k) + one
  BY <1>1, SlotsHead
<1>3. pc'[r] \in {"served", "check"} /\ todo'[r] = left
  BY GoIs DEF Pass
<1>4. Due(r, k)' = Due(r, k) /\ Due(r, k) \in Nat /\ SlotsIn(left, k) \in Nat /\ one \in Int
  <2>1. Due(r, k)' = Due(r, k)
    BY DueKeeps
  <2>2. Due(r, k) \in Nat
    BY TakenInt
  <2>3. one \in Int
    OBVIOUS
  <2> HIDE DEF left, one
  <2>4. SlotsIn(left, k) \in Nat
    BY <1>1, SlotsNat
  <2> QED
    BY <2>1, <2>2, <2>3, <2>4
<1>5. Taken(r, k) = Due(r, k) - SlotsIn(todo[r], k) /\ Taken(r, k)' = Due(r, k)' - SlotsIn(todo'[r], k)
  BY <1>3 DEF Taken, Inside
<1>6. Over(r, k) = 0 /\ Over(r, k)' = 0
  BY <1>3 DEF Over
<1> HIDE DEF left, one
<1>7. Taken(r, k)' = Taken(r, k) + one
  BY <1>2, <1>3, <1>4, <1>5
<1> QED
  BY <1>6, <1>7 DEF one

\* ... leaving for the next slot returns one, ...
LEMMA LeftReturns ==
  ASSUME rules \in RuleSets, TodoTyped, NEW r \in Requests, NEW k, pc[r] = "release", Left(r)
  PROVE  /\ Taken(r, k) = Taken(r, k)' + (IF Key(r) = k THEN 1 ELSE 0)
         /\ Over(r, k) = 0 /\ Over(r, k)' = 0
<1> DEFINE left == Tail(todo[r])
           one == IF Key(r) = k THEN 1 ELSE 0
<1>1. todo[r] \in Seq(Checks) /\ todo[r] # <<>> /\ left \in Seq(Checks)
  BY HeadTyped DEF TodoTyped
<1>2. SlotsIn(todo[r], k) = SlotsIn(left, k) + one
  <2>1. todo[r] \in Seq(SlotChecks)
    BY DEF TodoTyped
  <2>2. Head(todo[r]) \in SlotChecks
    BY <1>1, <2>1
  <2>3. IsSlot(Head(todo[r]), k) <=> Key(r) = k
    BY <2>2 DEF SlotChecks, IsSlot, Key
  <2> QED
    BY <1>1, <2>3, SlotsHead
<1>3. pc'[r] = (IF left = <<>> THEN "idle" ELSE "release") /\ todo'[r] = left
  BY GoIs, SMTT(30) DEF Left
<1>4. left = <<>> => SlotsIn(left, k) = 0
  <2> HIDE DEF left
  <2>1. left = <<>> => Len(left) = 0
    OBVIOUS
  <2>2. left = <<>> => \A j \in 1..Len(left) : ~ IsSlot(left[j], k)
    BY <2>1
  <2> QED
    BY <1>1, <2>2, SlotsNone
<1>5. Taken(r, k) = SlotsIn(todo[r], k)
  BY DEF Taken, Inside
<1>6. Taken(r, k)' = SlotsIn(left, k)
  <2> HIDE DEF left
  <2>1. CASE left = <<>>
    BY <1>3, <1>4, <2>1 DEF Taken, Inside
  <2>2. CASE left # <<>>
    BY <1>3, <2>2 DEF Taken, Inside
  <2> QED
    BY <2>1, <2>2
<1>7. Over(r, k) = 0 /\ Over(r, k)' = 0
  BY <1>3 DEF Over
<1> QED
  BY <1>2, <1>5, <1>6, <1>7

\* ... and a refusal, or being cut off, keeps none to return.
LEMMA RejectForgets ==
  ASSUME TodoTyped, NEW r \in Requests, NEW k, Go(r, "idle", <<>>)
  PROVE  Taken(r, k)' = 0 /\ Over(r, k)' = 0
<1>1. pc'[r] = "idle"
  BY GoIs
<1> QED
  BY <1>1 DEF Taken, Over, Inside

\* A step of a request: what it takes is counted, unless there is an error.
SlotMove(r, k) ==
  /\ Taken(r, k)' >= 0
  /\ Held(r, k)' + count[k] + errors <= Held(r, k) + count'[k] + errors'
  /\ \/ ttl'[k] = TTL
     \/ ttl'[k] = ttl[k] /\ Held(r, k)' + errors <= Held(r, k) + errors'
  /\ \/ Taken(r, k)' + errors <= Taken(r, k) + errors'
     \/ Taken(r, k)' <= Taken(r, k) + 1 /\ count[k] + 1 <= Cap("conc", k)

\* With nothing counted, nothing taken.
LEMMA CalmMove ==
  ASSUME Typed, NEW r \in Requests, NEW k \in Keys, Taken(r, k) >= 0,
         count'[k] = count[k], ttl'[k] = ttl[k], errors' \in Int, errors <= errors',
         Taken(r, k)' \in Nat, Taken(r, k)' <= Taken(r, k) + (errors' - errors),
         Over(r, k)' = 0
  PROVE  SlotMove(r, k)
<1>1. Taken(r, k) \in Int /\ Over(r, k) \in {0, 1} /\ Held(r, k) = Taken(r, k) + Over(r, k)
  BY TakenInt DEF Typed, Held
<1>2. Taken(r, k)' \in Int /\ Held(r, k)' = Taken(r, k)' + 0
  BY DEF Held
<1>3. count[k] \in Int /\ errors \in Int
  BY DEF Typed, RedisTyped, ClockTyped
<1>4. Held(r, k)' + errors <= Held(r, k) + errors'
  BY <1>1, <1>2, <1>3
<1>5. Held(r, k) \in Int /\ Held(r, k)' \in Int
  BY <1>1, <1>2
<1>6. Held(r, k)' + count[k] + errors <= Held(r, k) + count'[k] + errors'
  BY <1>3, <1>4, <1>5, SMTT(30)
<1> QED
  BY <1>1, <1>2, <1>3, <1>4, <1>6 DEF SlotMove

\* The steps of a request after its first are such moves.
LEMMA SlotMoves ==
  ASSUME SlotsFixed, Typed, Typed', NEW r \in Requests, Later(r), NEW k \in Keys, Taken(r, k) >= 0
  PROVE  /\ SlotMove(r, k) /\ Taken(r, k)' \in Int /\ Held(r, k)' \in Int
         /\ errors' = errors \/ errors' = errors + 1
<1> DEFINE slot == IF IsSlot(Head(todo[r]), k) THEN 1 ELSE 0
           mine == IF Key(r) = k THEN 1 ELSE 0
<1>0. /\ rules \in RuleSets /\ rules' \in RuleSets /\ TodoTyped /\ ClockTyped /\ RedisTyped
  BY DEF Typed
<1>a. /\ Due(r, k) \in Nat /\ SlotsIn(todo[r], k) \in Nat /\ Taken(r, k) \in Nat
      /\ Over(r, k) \in {0, 1} /\ Held(r, k) = Taken(r, k) + Over(r, k)
  BY <1>0, TakenInt DEF Held
<1>b. count[k] \in Int /\ ttl[k] \in Int /\ errors \in Int
  BY <1>0 DEF RedisTyped, ClockTyped
<1>c. Held(r, k)' = Taken(r, k)' + Over(r, k)' /\ Over(r, k)' \in {0, 1}
  BY DEF Held, Over
<1>d. slot \in {0, 1} /\ mine \in {0, 1}
  OBVIOUS
<1>e. errors' = errors \/ errors' = errors + 1
  BY DEF Later, Step, CheckRPM, AddHit, AcquireConcurrent, Acquire, GiveUp, CheckTPM,
         AddTokens, Release, ReleaseSlot, RedisError, CutOff
<1>f. Due(r, k)' = Due(r, k)
  BY <1>0, DueKeeps
<1>1. ASSUME Go(r, "idle", <<>>), UNCHANGED <<count, ttl>>
      PROVE  SlotMove(r, k) /\ Taken(r, k)' \in Int
  <2>1. Taken(r, k)' = 0 /\ Over(r, k)' = 0
    BY <1>0, <1>1, RejectForgets
  <2> QED
    BY <1>1, <1>a, <1>b, <1>e, <2>1, CalmMove, SMTT(30)
<1>2. ASSUME pc[r] = "check", Go(r, "add", todo[r]), UNCHANGED <<count, ttl>>
      PROVE  SlotMove(r, k) /\ Taken(r, k)' \in Int
  <2>1. pc'[r] = "add" /\ todo'[r] = todo[r]
    BY <1>0, <1>2, GoIs
  <2>2. Taken(r, k)' = Taken(r, k)
    BY <1>2, <1>f, <2>1 DEF Taken, Inside
  <2>3. Over(r, k)' = 0
    BY <2>1 DEF Over
  <2> QED
    BY <1>2, <1>a, <1>b, <1>e, <2>2, <2>3, CalmMove, SMTT(30)
<1>3. ASSUME pc[r] \in {"check", "add"}, Pass(r), UNCHANGED <<count, ttl>>,
             slot = 0 \/ errors' = errors + 1
      PROVE  SlotMove(r, k) /\ Taken(r, k)' \in Int
  <2>1. Taken(r, k)' = Taken(r, k) + slot /\ Over(r, k)' = 0
    BY <1>0, <1>3, PassTakes
  <2> HIDE DEF slot
  <2>2. Taken(r, k)' \in Nat /\ Taken(r, k)' <= Taken(r, k) + (errors' - errors)
    BY <1>3, <1>a, <1>b, <1>d, <1>e, <2>1
  <2> QED
    BY <1>3, <1>a, <1>b, <1>e, <2>1, <2>2, CalmMove
<1>4. ASSUME NEW renewed \in BOOLEAN, Acquire(r, renewed), renewed \/ errors' = errors + 1
      PROVE  SlotMove(r, k) /\ Taken(r, k)' \in Int
  <2>1. pc[r] = "check" /\ Head(todo[r]).dim = "conc" /\ Key(r) \in Keys
    BY <1>0, <1>4, HeadTyped DEF Acquire, At
  <2>2. slot = mine
    BY <2>1 DEF IsSlot, Key
  <2>3. count'[k] = count[k] + mine
    <3>1. count' = [count EXCEPT ![Key(r)] = @ + 1]
      BY <1>4 DEF Acquire
    <3>2. count \in [Keys -> Int]
      BY <1>0 DEF RedisTyped
    <3>3. count'[k] = IF Key(r) = k THEN count[k] + 1 ELSE count[k]
      BY <2>1, <3>1, <3>2
    <3> QED
      BY <1>b, <3>3
  <2>4. \/ mine = 1 /\ renewed /\ ttl'[k] = TTL
        \/ ttl'[k] = ttl[k] /\ (mine = 0 \/ errors' = errors + 1)
    BY <1>0, <1>4, <2>1 DEF Acquire, RedisTyped
  <2>5. CASE Pass(r) /\ ~(count[Key(r)] + 1 > TopOf(r))
    <3>1. Taken(r, k)' = Taken(r, k) + mine /\ Over(r, k)' = 0 /\ Over(r, k) = 0
      BY <1>0, <2>1, <2>2, <2>5, PassTakes
    <3>2. mine = 1 => count[k] + 1 <= Cap("conc", k)
      <4>1. TopOf(r) <= Cap("conc", Key(r)) /\ TopOf(r) \in Nat
        BY <1>0, <2>1, HeadTyped
      <4>2. Cap("conc", Key(r)) \in Nat
        BY <2>1, CapIs DEF Dims
      <4> QED
        BY <1>b, <2>5, <4>1, <4>2
    <3> HIDE DEF mine, slot
    <3>3. Held(r, k)' + count[k] + errors <= Held(r, k) + count'[k] + errors'
      BY <1>a, <1>b, <1>c, <1>d, <1>e, <2>3, <3>1, SMTT(30)
    <3>4. \/ ttl'[k] = TTL
          \/ ttl'[k] = ttl[k] /\ Held(r, k)' + errors <= Held(r, k) + errors'
      BY <1>a, <1>b, <1>c, <1>d, <1>e, <2>4, <3>1
    <3>5. \/ Taken(r, k)' + errors <= Taken(r, k) + errors'
          \/ Taken(r, k)' <= Taken(r, k) + 1 /\ count[k] + 1 <= Cap("conc", k)
      BY <1>a, <1>b, <1>d, <1>e, <3>1, <3>2
    <3>6. Taken(r, k)' \in Int /\ Taken(r, k)' >= 0
      BY <1>a, <1>d, <3>1
    <3> QED
      BY <3>3, <3>4, <3>5, <3>6 DEF SlotMove
  <2>6. CASE Go(r, "overflow", todo[r])
    <3>1. pc'[r] = "overflow" /\ todo'[r] = todo[r]
      BY <1>0, <2>6, GoIs
    <3>2. Taken(r, k)' = Taken(r, k)
      BY <1>f, <2>1, <3>1 DEF Taken, Inside
    <3>3. Over(r, k)' = mine /\ Over(r, k) = 0
      BY <2>1, <3>1 DEF Over, Key
    <3> HIDE DEF mine, slot
    <3>4. Held(r, k)' + count[k] + errors <= Held(r, k) + count'[k] + errors'
      BY <1>a, <1>b, <1>c, <1>d, <1>e, <2>3, <3>2, <3>3, SMTT(30)
    <3>5. \/ ttl'[k] = TTL
          \/ ttl'[k] = ttl[k] /\ Held(r, k)' + errors <= Held(r, k) + errors'
      BY <1>a, <1>b, <1>c, <1>d, <1>e, <2>4, <3>2, <3>3
    <3>6. Taken(r, k)' + errors <= Taken(r, k) + errors'
      BY <1>a, <1>b, <1>e, <3>2
    <3>7. Taken(r, k)' \in Int /\ Taken(r, k)' >= 0
      BY <1>a, <3>2
    <3> QED
      BY <3>4, <3>5, <3>6, <3>7 DEF SlotMove
  <2> QED
    BY <1>4, <2>5, <2>6 DEF Acquire
<1>5. ASSUME GiveUp(r) \/ ReleaseSlot(r)
      PROVE  SlotMove(r, k) /\ Taken(r, k)' \in Int
  <2>1. pc[r] \in {"overflow", "release"} /\ Key(r) \in Keys
    BY <1>0, <1>5, HeadTyped DEF GiveUp, ReleaseSlot
  <2>2. count'[k] = count[k] - mine /\ UNCHANGED <<ttl, errors>>
    BY <1>0, <1>5, <2>1, SMTT(30) DEF GiveUp, ReleaseSlot, RedisTyped
  <2>3. Held(r, k)' <= Held(r, k) - mine /\ Taken(r, k)' <= Taken(r, k) /\ Taken(r, k)' \in Nat
    <3>1. CASE GiveUp(r)
      <4>1. Taken(r, k)' = 0 /\ Over(r, k)' = 0
        BY <1>0, <3>1, RejectForgets DEF GiveUp, Reject
      <4>2. Over(r, k) = mine
        BY <3>1 DEF GiveUp, Over
      <4> HIDE DEF mine
      <4> QED
        BY <1>a, <1>c, <1>d, <4>1, <4>2
    <3>2. CASE ReleaseSlot(r)
      <4>1. Taken(r, k) = Taken(r, k)' + mine /\ Over(r, k) = 0 /\ Over(r, k)' = 0
        BY <1>0, <3>2, LeftReturns DEF ReleaseSlot
      <4>2. Taken(r, k)' \in Nat
        <5>1. todo'[r] \in Seq(Checks) /\ pc'[r] \in {"idle", "release"}
          <6>1. todo'[r] \in Seq(Checks)
            BY DEF Typed, TodoTyped
          <6>2. pc'[r] \in {"idle", "release"}
            BY <1>0, <3>2, GoIs DEF ReleaseSlot, Left
          <6> QED
            BY <6>1, <6>2
        <5>2. SlotsIn(todo'[r], k) \in Nat
          BY <5>1, SlotsNat
        <5> QED
          BY <5>1, <5>2 DEF Taken, Inside
      <4> HIDE DEF mine
      <4> QED
        BY <1>a, <1>c, <1>d, <4>1, <4>2
    <3> QED
      BY <1>5, <3>1, <3>2
  <2> HIDE DEF mine, slot
  <2>4. Held(r, k) \in Int /\ Held(r, k)' \in Int
    BY <1>a, <1>c, <2>3
  <2>5. Held(r, k)' + count[k] + errors <= Held(r, k) + count'[k] + errors'
    BY <1>b, <1>d, <2>2, <2>3, <2>4
  <2>6. Held(r, k)' + errors <= Held(r, k) + errors'
    BY <1>b, <1>d, <2>2, <2>3, <2>4
  <2>7. Taken(r, k)' + errors <= Taken(r, k) + errors'
    BY <1>a, <1>b, <2>2, <2>3
  <2> QED
    BY <2>2, <2>3, <2>5, <2>6, <2>7 DEF SlotMove
<1>6. ASSUME Release(r)
      PROVE  SlotMove(r, k) /\ Taken(r, k)' \in Int
  <2>1. pc[r] = "served" /\ UNCHANGED <<count, ttl>>
    BY <1>6 DEF Release, redis
  <2>2. Taken(r, k) = Due(r, k)
    <3>1. todo[r] = <<>> /\ todo[r] \in Seq(Checks)
      BY <1>0, <2>1 DEF TodoTyped
    <3>2. \A j \in 1..Len(todo[r]) : ~ IsSlot(todo[r][j], k)
      BY <3>1
    <3>3. SlotsIn(todo[r], k) = 0
      BY <3>1, <3>2, SlotsNone
    <3> QED
      BY <1>a, <2>1, <3>3 DEF Taken
  <2>3. Taken(r, k)' \in Nat /\ Taken(r, k)' <= Taken(r, k) /\ Over(r, k)' = 0
    <3>1. CASE Go(r, "idle", <<>>)
      <4>1. Taken(r, k)' = 0 /\ Over(r, k)' = 0
        BY <1>0, <3>1, RejectForgets
      <4> QED
        BY <1>a, <4>1
    <3>2. CASE Go(r, "release", SlotsOf(r))
      <4>1. pc'[r] = "release" /\ todo'[r] = SlotsOf(r)
        BY <1>0, <3>2, GoIs
      <4>2. Taken(r, k)' = Due(r, k)
        BY <4>1 DEF Taken, Due, Inside
      <4>3. Over(r, k)' = 0
        BY <4>1 DEF Over
      <4> QED
        BY <1>a, <2>2, <4>2, <4>3
    <3> QED
      BY <1>6, <3>1, <3>2 DEF Release
  <2>4. errors' = errors
    BY <1>6 DEF Release
  <2> QED
    BY <1>a, <1>b, <2>1, <2>3, <2>4, CalmMove
<1>7. ASSUME pc[r] = "release", Left(r), UNCHANGED <<count, ttl>>
      PROVE  SlotMove(r, k) /\ Taken(r, k)' \in Int
  <2>1. Taken(r, k) = Taken(r, k)' + mine /\ Over(r, k)' = 0
    BY <1>0, <1>7, LeftReturns
  <2>2. Taken(r, k)' \in Nat
    <3>1. todo'[r] \in Seq(Checks)
      BY DEF Typed, TodoTyped
    <3>2. pc'[r] \in {"idle", "release"}
      BY <1>0, <1>7, GoIs DEF Left
    <3>3. SlotsIn(todo'[r], k) \in Nat
      BY <3>1, SlotsNat
    <3> QED
      BY <3>2, <3>3 DEF Taken, Inside
  <2> HIDE DEF mine
  <2>3. Taken(r, k)' <= Taken(r, k) + (errors' - errors)
    BY <1>a, <1>b, <1>d, <1>e, <2>1, <2>2
  <2> QED
    BY <1>7, <1>a, <1>b, <1>e, <2>1, <2>2, <2>3, CalmMove
<1>8. ASSUME RedisError(r)
      PROVE  SlotMove(r, k) /\ Taken(r, k)' \in Int
  <2>1. errors' = errors + 1
    BY <1>8 DEF RedisError
  <2>2. CASE Acquire(r, FALSE)
    BY <1>4, <2>1, <2>2
  <2>3. CASE UNCHANGED redis
    <3>1. \/ pc[r] \in {"check", "add"} /\ Pass(r)
          \/ pc[r] = "overflow" /\ Reject(r)
          \/ pc[r] = "release" /\ Left(r)
          \/ Acquire(r, FALSE)
      BY <1>8 DEF RedisError
    <3>2. UNCHANGED <<count, ttl>>
      BY <2>3 DEF redis
    <3> QED
      BY <1>1, <1>3, <1>7, <2>1, <2>2, <3>1, <3>2 DEF Reject
  <2> QED
    BY <1>8, <2>2, <2>3 DEF RedisError
<1>9. SlotMove(r, k) /\ Taken(r, k)' \in Int
  <2>1. CASE CheckRPM(r) \/ CheckTPM(r) \/ CutOff(r)
    <3>1. /\ UNCHANGED <<count, ttl>>
          /\ Go(r, "idle", <<>>) \/ (pc[r] = "check" /\ Go(r, "add", todo[r]))
      BY <2>1 DEF CheckRPM, CheckTPM, CutOff, Reject, At, redis
    <3> QED
      BY <1>1, <1>2, <3>1
  <2>2. CASE AddHit(r) \/ AddTokens(r)
    <3>1. pc[r] \in {"check", "add"} /\ Pass(r) /\ UNCHANGED <<count, ttl>> /\ slot = 0
      BY <2>2 DEF AddHit, AddTokens, At, IsSlot
    <3> QED
      BY <1>3, <3>1
  <2>3. CASE AcquireConcurrent(r)
    BY <1>4, <2>3 DEF AcquireConcurrent
  <2> QED
    BY <1>5, <1>6, <1>8, <2>1, <2>2, <2>3 DEF Later, Step
<1>10. Held(r, k)' \in Int
  BY <1>9, <1>c
<1> QED
  BY <1>9, <1>10, <1>e

\* The three sums over the requests.
LEMMA SlotSums ==
  ASSUME Typed, NEW k \in Keys
  PROVE  /\ \A r \in Requests : /\ HeldBy(k)[r] = Held(r, k) /\ HeldBy(k)[r] \in Int
                                /\ TakenBy(k)[r] = Taken(r, k) /\ TakenBy(k)[r] \in Int
                                /\ LateBy(k)[r] \in Int
         /\ SumFunctionOnSet(HeldBy(k), Requests) \in Int
         /\ SumFunctionOnSet(TakenBy(k), Requests) \in Int
         /\ SumFunctionOnSet(LateBy(k), Requests) \in Int
         /\ count[k] \in Int /\ errors \in Int /\ errors >= 0 /\ ttl[k] \in 0..TTL
<1>1. ASSUME NEW r \in Requests PROVE Held(r, k) \in Int /\ Taken(r, k) \in Int
  BY TakenInt DEF Typed
<1>2. \A r \in Requests : /\ HeldBy(k)[r] = Held(r, k) /\ HeldBy(k)[r] \in Int
                          /\ TakenBy(k)[r] = Taken(r, k) /\ TakenBy(k)[r] \in Int
                          /\ LateBy(k)[r] \in Int
  BY <1>1 DEF HeldBy, TakenBy, LateBy
<1>3. /\ SumFunctionOnSet(HeldBy(k), Requests) \in Int
      /\ SumFunctionOnSet(TakenBy(k), Requests) \in Int
      /\ SumFunctionOnSet(LateBy(k), Requests) \in Int
  BY <1>2, SumInt
<1>4. count[k] \in Int /\ errors \in Int /\ errors >= 0 /\ ttl[k] \in 0..TTL
  BY DEF Typed, RedisTyped, ClockTyped
<1> QED
  BY <1>2, <1>3, <1>4

\* What was taken is held.
LEMMA TakenIsHeld ==
  ASSUME Typed, NEW k \in Keys
  PROVE  SumFunctionOnSet(TakenBy(k), Requests) <= SumFunctionOnSet(HeldBy(k), Requests)
<1>1. \A r \in Requests : TakenBy(k)[r] <= HeldBy(k)[r]
  <2> SUFFICES ASSUME NEW r \in Requests PROVE TakenBy(k)[r] <= HeldBy(k)[r]
    OBVIOUS
  <2>1. Held(r, k) = Taken(r, k) + Over(r, k) /\ Over(r, k) \in {0, 1} /\ Taken(r, k) \in Int
    BY TakenInt DEF Typed, Held
  <2> QED
    BY <2>1, SlotSums
<1>2. \A r \in Requests : TakenBy(k)[r] \in Int /\ HeldBy(k)[r] \in Int
  BY SlotSums
<1> QED
  BY <1>1, <1>2, SumMonotone

\* A step of one request changes the sums by what it changes itself.
LEMMA SlotsMoved ==
  ASSUME SlotsFixed, Typed, Typed', SlotsGuarded, NEW r \in Requests, Later(r), NEW k \in Keys
  PROVE  /\ SumFunctionOnSet(HeldBy(k)', Requests) <= count'[k] + errors'
         /\ SumFunctionOnSet(LateBy(k)', Requests) <= errors'
         /\ Cap("conc", k) > 0 =>
              SumFunctionOnSet(TakenBy(k)', Requests) <= Cap("conc", k) + errors'
<1>0. /\ rules \in RuleSets /\ rules' \in RuleSets /\ TodoTyped /\ Taken(r, k) >= 0
      /\ \A q \in Requests : age[q] \in Nat
  BY DEF Typed, SlotsGuarded, ClockTyped
<1>1. /\ SlotMove(r, k) /\ Taken(r, k)' \in Int /\ Held(r, k)' \in Int
      /\ errors' = errors \/ errors' = errors + 1
  BY <1>0, SlotMoves
<1>2. age' = age /\ \A q \in Requests \ {r} : pc'[q] = pc[q] /\ todo'[q] = todo[q]
  BY <1>0, LaterMoves
<1>3. \A q \in Requests \ {r} : Taken(q, k)' = Taken(q, k) /\ Held(q, k)' = Held(q, k)
  BY <1>0, <1>2, Unmoved
<1> DEFINE held == HeldBy(k)
           taken == TakenBy(k)
           late == LateBy(k)
           held2 == HeldBy(k)'
           taken2 == TakenBy(k)'
           late2 == LateBy(k)'
<1>4. \A q \in Requests : /\ held[q] = Held(q, k) /\ held[q] \in Int
                          /\ taken[q] = Taken(q, k) /\ taken[q] \in Int /\ late[q] \in Int
  BY SlotSums
<1>5. \A q \in Requests : held2[q] = Held(q, k)' /\ taken2[q] = Taken(q, k)'
  BY DEF HeldBy, TakenBy
<1>6. \A q \in Requests : held2[q] \in Int /\ taken2[q] \in Int
  <2> SUFFICES ASSUME NEW q \in Requests PROVE Held(q, k)' \in Int /\ Taken(q, k)' \in Int
    BY <1>5
  <2>1. CASE q = r
    BY <1>1, <2>1
  <2>2. CASE q # r
    BY <1>3, <1>4, <2>2
  <2> QED
    BY <2>1, <2>2
<1>7. \A q \in Requests : q # r => held2[q] = held[q] /\ taken2[q] = taken[q]
  BY <1>3, <1>4, <1>5
<1>8. /\ SumFunctionOnSet(held, Requests) <= count[k] + errors
      /\ SumFunctionOnSet(late, Requests) <= errors
      /\ Cap("conc", k) > 0 => SumFunctionOnSet(taken, Requests) <= Cap("conc", k) + errors
  BY DEF SlotsGuarded
<1>9. /\ SumFunctionOnSet(held, Requests) \in Int /\ SumFunctionOnSet(taken, Requests) \in Int
      /\ SumFunctionOnSet(late, Requests) \in Int /\ count[k] \in Int /\ errors \in Int /\ errors >= 0
      /\ ttl[k] \in 0..TTL
  BY SlotSums
<1>10. count'[k] \in Int /\ errors' \in Int
  BY DEF Typed, RedisTyped, ClockTyped
<1>11. late2 = [q \in Requests |-> IF ttl'[k] + age[q] < TTL THEN held2[q] ELSE 0]
  BY <1>2, <1>5 DEF LateBy
<1>12. late = [q \in Requests |-> IF ttl[k] + age[q] < TTL THEN held[q] ELSE 0]
  BY <1>4 DEF LateBy
<1>13. taken[r] = Taken(r, k) /\ held[r] = Held(r, k) /\ held2[r] = Held(r, k)' /\ taken2[r] = Taken(r, k)'
  BY <1>4, <1>5
<1>14. SumFunctionOnSet(taken, Requests) <= SumFunctionOnSet(held, Requests)
  BY TakenIsHeld
<1> HIDE DEF held, taken, late, held2, taken2, late2
<1>15. SumFunctionOnSet(held2, Requests) <= count'[k] + errors'
  <2> DEFINE d == (count'[k] + errors') - (count[k] + errors)
  <2>1. d \in Int /\ held2[r] <= held[r] + d
    <3>1. \A a, b, c, e, x, y \in Int :
            a + c + x <= b + e + y => a <= b + ((e + y) - (c + x)) /\ (e + y) - (c + x) \in Int
      BY SMTT(30)
    <3>2. held2[r] + count[k] + errors <= held[r] + count'[k] + errors'
      BY <1>1, <1>13 DEF SlotMove
    <3>3. held2[r] \in Int /\ held[r] \in Int
      BY <1>4, <1>6
    <3> QED
      BY <1>9, <1>10, <3>1, <3>2, <3>3
  <2>2. count'[k] + errors' = (count[k] + errors) + d
    BY <1>9, <1>10, SMTT(30)
  <2> HIDE DEF d
  <2>3. SumFunctionOnSet(held2, Requests) <= SumFunctionOnSet(held, Requests) + d
    BY <1>4, <1>6, <1>7, <2>1, SumChanged
  <2>4. SumFunctionOnSet(held2, Requests) \in Int
    BY <1>6, SumInt
  <2> QED
    BY <1>8, <1>9, <1>10, <2>1, <2>2, <2>3, <2>4
<1>16. SumFunctionOnSet(late2, Requests) <= errors'
  <2>1. CASE ttl'[k] = TTL
    <3>1. \A q \in Requests : late2[q] = 0
      BY <1>0, <1>11, <2>1
    <3>2. SumFunctionOnSet(late2, Requests) = 0
      BY <3>1, SumZero
    <3> QED
      BY <1>1, <1>9, <3>2
  <2>2. CASE ttl'[k] = ttl[k] /\ Held(r, k)' + errors <= Held(r, k) + errors'
    <3> DEFINE d == errors' - errors
    <3>1. d \in {0, 1} /\ held2[r] <= held[r] + d /\ errors' = errors + d /\ d \in Int
      <4>1. held2[r] + errors <= held[r] + errors' /\ held2[r] \in Int /\ held[r] \in Int
        BY <1>4, <1>6, <1>13, <2>2
      <4>2. CASE errors' = errors
        BY <1>9, <4>1, <4>2
      <4>3. CASE errors' = errors + 1
        BY <1>9, <4>1, <4>3, SMTT(30)
      <4> QED
        BY <1>1, <4>2, <4>3
    <3> HIDE DEF d
    <3>2. \A q \in Requests : late2[q] \in Int
      BY <1>6, <1>11
    <3>3. \A q \in Requests : q # r => late2[q] = late[q]
      BY <1>7, <1>11, <1>12, <2>2
    <3>4. late2[r] <= late[r] + d
      BY <1>4, <1>6, <1>11, <1>12, <2>2, <3>1
    <3>5. SumFunctionOnSet(late2, Requests) <= SumFunctionOnSet(late, Requests) + d
      BY <1>4, <3>1, <3>2, <3>3, <3>4, SumChanged
    <3>6. SumFunctionOnSet(late2, Requests) \in Int
      BY <3>2, SumInt
    <3> QED
      BY <1>8, <1>9, <3>1, <3>5, <3>6, SMTT(30)
  <2> QED
    BY <1>1, <2>1, <2>2 DEF SlotMove
<1>17. Cap("conc", k) > 0 => SumFunctionOnSet(taken2, Requests) <= Cap("conc", k) + errors'
  <2> SUFFICES ASSUME Cap("conc", k) > 0
               PROVE  SumFunctionOnSet(taken2, Requests) <= Cap("conc", k) + errors'
    OBVIOUS
  <2> DEFINE cap == Cap("conc", k)
  <2>1. cap \in Nat
    BY CapIs DEF Dims
  <2>2. SumFunctionOnSet(taken2, Requests) \in Int
    BY <1>6, SumInt
  <2>3. CASE Taken(r, k)' + errors <= Taken(r, k) + errors'
    <3> DEFINE d == errors' - errors
    <3>1. taken2[r] <= taken[r] + d /\ errors' = errors + d /\ d \in Int
      <4>1. taken2[r] + errors <= taken[r] + errors' /\ taken2[r] \in Int /\ taken[r] \in Int
        BY <1>4, <1>6, <1>13, <2>3
      <4>2. CASE errors' = errors
        BY <1>9, <4>1, <4>2, SMTT(30)
      <4>3. CASE errors' = errors + 1
        BY <1>9, <4>1, <4>3, SMTT(30)
      <4> QED
        BY <1>1, <4>2, <4>3
    <3> HIDE DEF d
    <3>2. SumFunctionOnSet(taken2, Requests) <= SumFunctionOnSet(taken, Requests) + d
      BY <1>4, <1>6, <1>7, <3>1, SumChanged
    <3>3. SumFunctionOnSet(taken, Requests) <= cap + errors
      BY <1>8
    <3> HIDE DEF cap
    <3>4. SumFunctionOnSet(taken2, Requests) <= cap + errors'
      BY <1>9, <2>1, <2>2, <3>1, <3>2, <3>3, SMTT(30)
    <3> QED
      BY <3>4 DEF cap
  <2>4. CASE Taken(r, k)' <= Taken(r, k) + 1 /\ count[k] + 1 <= Cap("conc", k)
    <3> DEFINE d == 1
    <3>1. taken2[r] <= taken[r] + d /\ d \in Int
      BY <1>13, <2>4
    <3> HIDE DEF d
    <3>2. SumFunctionOnSet(taken2, Requests) <= SumFunctionOnSet(taken, Requests) + d
      BY <1>4, <1>6, <1>7, <3>1, SumChanged
    <3>3. count[k] + 1 <= cap
      BY <2>4
    <3> HIDE DEF cap
    <3>4. SumFunctionOnSet(taken2, Requests) <= cap + errors'
      BY <1>1, <1>8, <1>9, <1>14, <2>1, <2>2, <3>2, <3>3, SMTT(30) DEF d
    <3> QED
      BY <3>4 DEF cap
  <2> QED
    BY <1>1, <2>3, <2>4 DEF SlotMove
<1> QED
  BY <1>15, <1>16, <1>17 DEF held2, taken2, late2

\* The other steps: the first of a request takes nothing, a reload neither;
\* when a counter expires, what was held of it stems from errors.
LEMMA SlotsStep ==
  ASSUME SlotsFixed, Typed, SlotsGuarded, [Next]_vars
  PROVE  SlotsGuarded'
<1>0. /\ Typed' /\ rules \in RuleSets /\ rules' \in RuleSets /\ TodoTyped /\ ClockTyped /\ RedisTyped
  BY TypedStep DEF Typed
<1>1. ASSUME NEW r \in Requests, Later(r) PROVE SlotsGuarded'
  <2>1. ASSUME NEW q \in Requests, NEW k \in Keys PROVE Taken(q, k)' >= 0
    <3>0. Taken(q, k) >= 0
      BY DEF SlotsGuarded
    <3>1. CASE q = r
      BY <1>0, <1>1, <3>0, <3>1, SlotMoves DEF SlotMove
    <3>2. CASE q # r
      <4>1. pc'[q] = pc[q] /\ todo'[q] = todo[q]
        BY <1>0, <1>1, <3>2, LaterMoves
      <4> QED
        BY <1>0, <3>0, <4>1, Unmoved
    <3> QED
      BY <3>1, <3>2
  <2>2. ASSUME NEW k \in Keys
        PROVE  /\ SumFunctionOnSet(HeldBy(k)', Requests) <= count'[k] + errors'
               /\ SumFunctionOnSet(LateBy(k)', Requests) <= errors'
               /\ Cap("conc", k) > 0 =>
                    SumFunctionOnSet(TakenBy(k)', Requests) <= Cap("conc", k) + errors'
    BY <1>0, <1>1, SlotsMoved
  <2> QED
    BY <2>1, <2>2 DEF SlotsGuarded
<1>2. ASSUME \A q \in Requests, k \in Keys : /\ Taken(q, k)' = Taken(q, k) /\ Held(q, k)' = Held(q, k)
                                             /\ age'[q] = age[q] \/ Held(q, k) = 0,
             UNCHANGED <<count, ttl, errors>>
      PROVE  SlotsGuarded'
  <2>1. ASSUME NEW k \in Keys
        PROVE  HeldBy(k)' = HeldBy(k) /\ TakenBy(k)' = TakenBy(k) /\ LateBy(k)' = LateBy(k)
    BY <1>2 DEF HeldBy, TakenBy, LateBy
  <2> QED
    BY <1>2, <2>1 DEF SlotsGuarded
<1>3. ASSUME NEW r \in Requests, Allow(r) PROVE SlotsGuarded'
  <2>1. /\ pc[r] = "idle" /\ age' = [age EXCEPT ![r] = 0] /\ rules' = rules
        /\ UNCHANGED <<count, ttl, errors>>
    BY <1>3 DEF Allow, redis
  <2>2. pc'[r] \in {"served", "check"} /\ todo'[r] = ChecksOf(r)
    BY <1>0, <1>3, GoIs DEF Allow
  <2>3. \A q \in Requests \ {r} : pc'[q] = pc[q] /\ todo'[q] = todo[q] /\ age'[q] = age[q]
    BY <1>0, <1>3, <2>1, GoIs DEF Allow, ClockTyped
  <2>4. ASSUME NEW k \in Keys
        PROVE  Taken(r, k) = 0 /\ Held(r, k) = 0 /\ Taken(r, k)' = 0 /\ Held(r, k)' = 0
    <3>1. Taken(r, k) = 0 /\ Over(r, k) = 0
      BY <2>1 DEF Taken, Over, Inside
    <3>2. Over(r, k)' = 0
      BY <2>2 DEF Over
    <3>3. SlotsIn(ChecksOf(r), k) = Due(r, k)
      BY <1>0, SlotsBack DEF ChecksOf, Due, SlotsOf
    <3>4. Due(r, k)' = Due(r, k) /\ Due(r, k) \in Nat
      BY <1>0, DueKeeps, TakenInt
    <3>5. Taken(r, k)' = Due(r, k)' - SlotsIn(todo'[r], k)
      BY <2>2 DEF Taken, Inside
    <3>6. Taken(r, k)' = 0
      BY <2>2, <3>3, <3>4, <3>5
    <3> QED
      BY <3>1, <3>2, <3>6 DEF Held
  <2>5. ASSUME NEW q \in Requests, NEW k \in Keys
        PROVE  /\ Taken(q, k)' = Taken(q, k) /\ Held(q, k)' = Held(q, k)
               /\ age'[q] = age[q] \/ Held(q, k) = 0
    <3>1. CASE q = r
      BY <2>4, <3>1
    <3>2. CASE q # r
      BY <1>0, <2>3, <3>2, Unmoved
    <3> QED
      BY <3>1, <3>2
  <2> QED
    BY <1>2, <2>1, <2>5
<1>4. CASE Reload \/ UNCHANGED vars
  <2>1. pc' = pc /\ todo' = todo /\ age' = age /\ UNCHANGED <<count, ttl, errors>>
    BY <1>4 DEF Reload, vars, redis
  <2>2. \A q \in Requests, k \in Keys : Taken(q, k)' = Taken(q, k) /\ Held(q, k)' = Held(q, k)
    BY <1>0, <2>1, Unmoved
  <2> QED
    BY <1>2, <2>1, <2>2
<1>5. CASE Tick
  <2>1. /\ \A r \in Requests : pc[r] # "idle" => age[r] < MaxAge
        /\ age' = [r \in Requests |-> IF pc[r] = "idle" THEN 0 ELSE age[r] + 1]
        /\ ttl' = [k \in Keys |-> IF ttl[k] = 0 THEN 0 ELSE ttl[k] - 1]
        /\ count' = [k \in Keys |-> IF ttl[k] = 1 THEN 0 ELSE count[k]]
        /\ pc' = pc /\ todo' = todo /\ errors' = errors
    BY <1>5 DEF Tick
  <2>2. \A q \in Requests, k \in Keys : Taken(q, k)' = Taken(q, k) /\ Held(q, k)' = Held(q, k)
    BY <1>0, <2>1, Unmoved
  <2>3. \A q \in Requests : age[q] \in Nat
    BY <1>0 DEF ClockTyped
  <2>4. ASSUME NEW q \in Requests, NEW k \in Keys, pc[q] = "idle" PROVE Held(q, k) = 0
    BY <2>4 DEF Held, Taken, Over, Inside
  <2>5. ASSUME NEW k \in Keys
        PROVE  /\ SumFunctionOnSet(HeldBy(k)', Requests) <= count'[k] + errors'
               /\ SumFunctionOnSet(LateBy(k)', Requests) <= errors'
               /\ Cap("conc", k) > 0 =>
                    SumFunctionOnSet(TakenBy(k)', Requests) <= Cap("conc", k) + errors'
    <3>0. ttl[k] \in 0..TTL /\ count[k] \in Int /\ errors \in Int
      BY SlotSums
    <3>1. HeldBy(k)' = HeldBy(k) /\ TakenBy(k)' = TakenBy(k)
      BY <2>2 DEF HeldBy, TakenBy
    <3>2. LateBy(k)' = [q \in Requests |-> IF ttl'[k] + age'[q] < TTL THEN Held(q, k) ELSE 0]
      BY <2>2 DEF LateBy
    <3>3. CASE ttl[k] \in {0, 1}
      <4>1. \A q \in Requests : pc[q] # "idle" => ttl[k] + age[q] < TTL
        BY <2>1, <2>3, <3>3
      <4>2. LateBy(k) = HeldBy(k)
        BY <2>4, <4>1 DEF LateBy, HeldBy
      <4>3. \A q \in Requests : pc[q] # "idle" => ttl'[k] + age'[q] < TTL
        <5> SUFFICES ASSUME NEW q \in Requests, pc[q] # "idle" PROVE ttl'[k] + age'[q] < TTL
          OBVIOUS
        <5>1. ttl'[k] = 0
          BY <2>1, <3>3
        <5>2. age'[q] = age[q] + 1 /\ age[q] < MaxAge /\ age[q] \in Nat
          BY <2>1, <2>3
        <5> QED
          BY <5>1, <5>2
      <4>4. LateBy(k)' = HeldBy(k)
        BY <2>4, <3>2, <4>3 DEF HeldBy
      <4>5. SumFunctionOnSet(LateBy(k), Requests) <= errors
        BY DEF SlotsGuarded
      <4>6. SumFunctionOnSet(HeldBy(k), Requests) <= count'[k] + errors
        <5>1. CASE ttl[k] = 1
          <6>1. count'[k] = 0
            BY <2>1, <5>1
          <6> QED
            BY <3>0, <4>2, <4>5, <6>1
        <5>2. CASE ttl[k] = 0
          <6>1. count'[k] = count[k]
            BY <2>1, <5>2
          <6> QED
            BY <6>1 DEF SlotsGuarded
        <5> QED
          BY <3>3, <5>1, <5>2
      <4> QED
        BY <2>1, <3>1, <4>2, <4>4, <4>5, <4>6 DEF SlotsGuarded
    <3>4. CASE ttl[k] \notin {0, 1}
      <4>1. ttl'[k] = ttl[k] - 1 /\ count'[k] = count[k]
        BY <2>1, <3>4
      <4>2. \A q \in Requests : pc[q] # "idle" => ttl'[k] + age'[q] = ttl[k] + age[q]
        <5> SUFFICES ASSUME NEW q \in Requests, pc[q] # "idle" PROVE ttl'[k] + age'[q] = ttl[k] + age[q]
          OBVIOUS
        <5>1. age'[q] = age[q] + 1 /\ age[q] \in Nat
          BY <2>1, <2>3
        <5>2. \A t \in Int, a \in Int : (t - 1) + (a + 1) = t + a
          OBVIOUS
        <5>3. ttl[k] \in Int
          BY <3>0
        <5> QED
          BY <4>1, <5>1, <5>2, <5>3, SMTT(30)
      <4>3. LateBy(k)' = LateBy(k)
        <5>1. \A q \in Requests : (IF ttl'[k] + age'[q] < TTL THEN Held(q, k) ELSE 0)
                                    = (IF ttl[k] + age[q] < TTL THEN Held(q, k) ELSE 0)
          BY <2>4, <4>2
        <5> QED
          BY <3>2, <5>1 DEF LateBy
      <4> QED
        BY <2>1, <3>1, <4>1, <4>3 DEF SlotsGuarded
    <3> QED
      BY <3>3, <3>4
  <2> QED
    BY <2>2, <2>5 DEF SlotsGuarded
<1> QED
  BY <1>1, <1>3, <1>4, <1>5, NextIs

\* At first nothing is held.
LEMMA SlotsInit == Init => SlotsGuarded
<1> SUFFICES ASSUME Init PROVE SlotsGuarded
  OBVIOUS
<1>1. \A r \in Requests, k \in Keys : Taken(r, k) = 0 /\ Held(r, k) = 0
  BY DEF Init, Held, Taken, Over, Inside
<1>2. ASSUME NEW k \in Keys
      PROVE  \A r \in Requests : HeldBy(k)[r] = 0 /\ TakenBy(k)[r] = 0 /\ LateBy(k)[r] = 0
  BY <1>1 DEF HeldBy, TakenBy, LateBy
<1>3. ASSUME NEW k \in Keys
      PROVE  /\ SumFunctionOnSet(HeldBy(k), Requests) <= count[k] + errors
             /\ SumFunctionOnSet(LateBy(k), Requests) <= errors
             /\ Cap("conc", k) > 0 => SumFunctionOnSet(TakenBy(k), Requests) <= Cap("conc", k) + errors
  <2>1. count[k] = 0 /\ errors = 0
    BY DEF Init
  <2>2. /\ SumFunctionOnSet(HeldBy(k), Requests) = 0
        /\ SumFunctionOnSet(LateBy(k), Requests) = 0
        /\ SumFunctionOnSet(TakenBy(k), Requests) = 0
    BY <1>2, SumZero
  <2>3. Cap("conc", k) \in Nat
    BY CapIs DEF Dims
  <2> QED
    BY <2>1, <2>2, <2>3
<1> QED
  BY <1>1, <1>3 DEF SlotsGuarded

\* Without errors, a request that returns a slot finds the expiry of its key
\* running.
LEMMA ReturnsInTime ==
  ASSUME SlotsFixed, Typed, Typed', SlotsGuarded, errors = 0, NEW r \in Requests,
         GiveUp(r) \/ ReleaseSlot(r), NEW k \in Keys, Key(r) = k
  PROVE  ttl[k] # 0
<1>0. /\ rules \in RuleSets /\ TodoTyped /\ ClockTyped /\ RedisTyped
  BY DEF Typed
<1>2. Held(r, k) >= 1 /\ Held(r, k) \in Int
  <2>1. /\ Taken(r, k) >= 0 /\ Taken(r, k) \in Int /\ Over(r, k) \in {0, 1}
        /\ Held(r, k) = Taken(r, k) + Over(r, k)
    BY <1>0, TakenInt DEF SlotsGuarded, Held
  <2>2. CASE GiveUp(r)
    <3>1. Over(r, k) = 1
      BY <2>2 DEF GiveUp, Over
    <3> QED
      BY <2>1, <3>1
  <2>3. CASE ReleaseSlot(r)
    <3>1. Taken(r, k) = Taken(r, k)' + 1
      <4>1. pc[r] = "release" /\ Left(r)
        BY <2>3 DEF ReleaseSlot
      <4>2. Taken(r, k) = Taken(r, k)' + (IF Key(r) = k THEN 1 ELSE 0)
        BY <1>0, <4>1, LeftReturns
      <4> QED
        BY <4>2
    <3>2. Taken(r, k)' \in Nat
      <4>1. todo'[r] \in Seq(Checks)
        BY DEF Typed, TodoTyped
      <4>2. pc'[r] \in {"idle", "release"}
        BY <1>0, <2>3, GoIs DEF ReleaseSlot, Left
      <4>3. SlotsIn(todo'[r], k) \in Nat
        BY <4>1, SlotsNat
      <4>4. Taken(r, k)' \in {0, SlotsIn(todo'[r], k)}
        BY <4>2 DEF Taken, Inside
      <4> QED
        BY <4>3, <4>4
    <3> QED
      BY <2>1, <3>1, <3>2
  <2> QED
    BY <2>2, <2>3
<1>3. SumFunctionOnSet(LateBy(k), Requests) <= 0
  BY DEF SlotsGuarded
<1>4. \A q \in Requests : LateBy(k)[q] \in Nat
  <2> SUFFICES ASSUME NEW q \in Requests PROVE LateBy(k)[q] \in Nat
    OBVIOUS
  <2>1. /\ Taken(q, k) >= 0 /\ Taken(q, k) \in Int /\ Over(q, k) \in {0, 1}
        /\ Held(q, k) = Taken(q, k) + Over(q, k)
    BY <1>0, TakenInt DEF SlotsGuarded, Held
  <2>2. Held(q, k) \in Nat
    BY <2>1
  <2> QED
    BY <2>2 DEF LateBy
<1>5. LateBy(k)[r] = 0
  <2> DEFINE S == SumFunctionOnSet(LateBy(k), Requests \ {r})
  <2>1. SumFunctionOnSet(LateBy(k), Requests) = LateBy(k)[r] + S
    <3>1. \A q \in Requests : LateBy(k)[q] \in Int
      BY <1>4
    <3> QED
      BY <3>1, SumSplit
  <2>2. S \in Nat
    <3>1. IsFiniteSet(Requests \ {r})
      BY FS_RemoveElement
    <3> QED
      BY <1>4, <3>1, SumNat
  <2> HIDE DEF S
  <2> QED
    BY <1>3, <1>4, <2>1, <2>2
<1>6. ~ (ttl[k] + age[r] < TTL)
  BY <1>2, <1>5 DEF LateBy
<1>7. age[r] \in 0..MaxAge /\ ttl[k] \in 0..TTL
  BY <1>0 DEF ClockTyped, RedisTyped
<1> QED
  BY <1>6, <1>7

\* Under the same hypothesis as above: without Redis errors, whatever a
\* refused request, one whose client left or a process that died keeps of a
\* counter has its expiry running.
THEOREM LeaksEnd ==
  ASSUME SlotsFixed
  PROVE  Spec => []LeaksExpire
<1>1. Init => Typed /\ SlotsGuarded /\ LeaksExpire
  BY TypedInit, SlotsInit DEF Init, LeaksExpire
<1>2. Typed /\ SlotsGuarded /\ LeaksExpire /\ [Next]_vars => (Typed /\ SlotsGuarded /\ LeaksExpire)'
  <2> SUFFICES ASSUME Typed, SlotsGuarded, LeaksExpire, [Next]_vars,
                      errors' = 0, NEW k \in Keys, count'[k] # 0
               PROVE  ttl'[k] # 0
    BY TypedStep, SlotsStep DEF LeaksExpire
  <2>0. Typed' /\ TodoTyped /\ RedisTyped /\ errors \in Nat
    BY TypedStep DEF Typed, ClockTyped
  <2>1. ASSUME UNCHANGED <<count, ttl>>, errors = 0 PROVE ttl'[k] # 0
    BY <2>1 DEF LeaksExpire
  <2>2. ASSUME NEW r \in Requests, AcquireConcurrent(r) PROVE ttl'[k] # 0
    <3>1. /\ count' = [count EXCEPT ![Key(r)] = @ + 1] /\ ttl' = [ttl EXCEPT ![Key(r)] = TTL]
          /\ errors = 0
      BY <2>2 DEF AcquireConcurrent, Acquire
    <3>2. count \in [Keys -> Int] /\ ttl \in [Keys -> 0..TTL]
      BY <2>0 DEF RedisTyped
    <3>3. CASE Key(r) = k
      <4>1. ttl'[k] = TTL
        BY <3>1, <3>2, <3>3
      <4> QED
        BY <4>1
    <3>4. CASE Key(r) # k
      BY <3>1, <3>2, <3>4 DEF LeaksExpire
    <3> QED
      BY <3>3, <3>4
  <2>3. ASSUME NEW r \in Requests, GiveUp(r) \/ ReleaseSlot(r) PROVE ttl'[k] # 0
    <3>1. count' = [count EXCEPT ![Key(r)] = @ - 1] /\ ttl' = ttl /\ errors = 0
      BY <2>3 DEF GiveUp, ReleaseSlot
    <3>2. Key(r) = k => ttl[k] # 0
      BY <2>0, <2>3, <3>1, ReturnsInTime
    <3>3. count \in [Keys -> Int]
      BY <2>0 DEF RedisTyped
    <3>4. CASE Key(r) = k
      BY <3>1, <3>2, <3>4
    <3>5. CASE Key(r) # k
      BY <3>1, <3>3, <3>5 DEF LeaksExpire
    <3> QED
      BY <3>4, <3>5
  <2>4. ASSUME NEW r \in Requests, Allow(r) \/ Later(r) PROVE ttl'[k] # 0
    <3>1. CASE RedisError(r)
      BY <2>0, <3>1 DEF RedisError
    <3>2. CASE UNCHANGED <<count, ttl, errors>>
      BY <2>1, <3>2
    <3>3. \/ RedisError(r) \/ UNCHANGED <<count, ttl, errors>>
          \/ AcquireConcurrent(r) \/ GiveUp(r) \/ ReleaseSlot(r)
      BY <2>4 DEF Later, Step, Allow, CheckRPM, AddHit, CheckTPM, AddTokens, Release, CutOff, redis
    <3> QED
      BY <2>2, <2>3, <3>1, <3>2, <3>3
  <2>5. CASE Reload \/ UNCHANGED vars
    BY <2>1, <2>5 DEF Reload, vars, redis
  <2>6. CASE Tick
    <3>1. /\ ttl' = [q \in Keys |-> IF ttl[q] = 0 THEN 0 ELSE ttl[q] - 1]
          /\ count' = [q \in Keys |-> IF ttl[q] = 1 THEN 0 ELSE count[q]] /\ errors = 0
      BY <2>6 DEF Tick
    <3>2. ttl[k] # 1 /\ count[k] # 0 /\ ttl[k] \in 0..TTL
      BY <2>0, <3>1 DEF RedisTyped
    <3>3. ttl[k] # 0
      BY <3>1, <3>2 DEF LeaksExpire
    <3> QED
      BY <3>1, <3>2, <3>3
  <2> QED
    BY <2>4, <2>5, <2>6, NextIs
<1> QED
  BY <1>1, <1>2, PTL DEF Spec

\* When reloading the rules changes no concurrency limit: whatever the
\* interleaving and the errors, and whoever is cut off, the types are kept; no
\* counter falls below zero by more than the errors there were.
THEOREM Typing ==
  ASSUME SlotsFixed
  PROVE  Spec => []TypeOK
<1>1. Init => Typed /\ SlotsGuarded
  BY TypedInit, SlotsInit
<1>2. Typed /\ SlotsGuarded /\ [Next]_vars => (Typed /\ SlotsGuarded)'
  BY TypedStep, SlotsStep
<1>3. Typed /\ SlotsGuarded => TypeOK
  <2> SUFFICES ASSUME Typed, SlotsGuarded PROVE TypeOK
    OBVIOUS
  <2>1. ASSUME NEW k \in Keys PROVE count[k] + errors >= 0
    <3>1. SumFunctionOnSet(HeldBy(k), Requests) >= 0
      <4>1. \A r \in Requests : HeldBy(k)[r] \in Nat
        <5> SUFFICES ASSUME NEW r \in Requests PROVE HeldBy(k)[r] \in Nat
          OBVIOUS
        <5>1. Taken(r, k) >= 0 /\ Taken(r, k) \in Int /\ Over(r, k) \in {0, 1}
              /\ Held(r, k) = Taken(r, k) + Over(r, k)
          BY TakenInt DEF SlotsGuarded, Typed, Held
        <5> QED
          BY <5>1, SlotSums
      <4>2. SumFunctionOnSet(HeldBy(k), Requests) \in Nat
        BY <4>1, SumNat
      <4> QED
        BY <4>2
    <3> QED
      BY <3>1, SlotSums DEF SlotsGuarded
  <2>2. \A k \in Keys : tokens[k] \in Nat \X Nat \X Nat /\ count[k] \in Int
    BY DEF Typed, RedisTyped
  <2> QED
    BY <2>1, <2>2, SMTT(30) DEF TypeOK, Typed, TodoTyped, ClockTyped, RedisTyped, Stages
<1> QED
  BY <1>1, <1>2, <1>3, PTL DEF Spec

\* Under the same hypothesis: however the round trips interleave, whatever
\* expires, fails or dies, no more requests are served on a key than its
\* concurrency limit, but for one more per error.
THEOREM ConcurrencyLimited ==
  ASSUME SlotsFixed
  PROVE  Spec => []ConcurrencyRespected
<1>1. Init => Typed /\ SlotsGuarded
  BY TypedInit, SlotsInit
<1>2. Typed /\ SlotsGuarded /\ [Next]_vars => (Typed /\ SlotsGuarded)'
  BY TypedStep, SlotsStep
<1>3. Typed /\ SlotsGuarded => ConcurrencyRespected
  <2> SUFFICES ASSUME Typed, SlotsGuarded, NEW k \in Keys, Cap("conc", k) > 0
               PROVE  Cardinality(Served(k)) <= Cap("conc", k) + errors
    BY DEF ConcurrencyRespected
  <2>0. rules \in RuleSets /\ TodoTyped
    BY DEF Typed
  <2>1. \A r \in Requests : TakenBy(k)[r] \in Nat
    BY SlotSums DEF SlotsGuarded
  <2>2. ASSUME NEW r \in Served(k) PROVE TakenBy(k)[r] >= 1
    <3>1. r \in Requests /\ pc[r] = "served"
      BY DEF Served
    <3>2. PICK s \in 1..4 : KeyOf(Scopes[s], r) = k
      BY DEF Served
    <3>3. Due(r, k) >= 1
      BY <2>0, <3>1, <3>2, SlotDue DEF Due
    <3>4. SlotsIn(todo[r], k) = 0
      <4>1. todo[r] = <<>> /\ todo[r] \in Seq(Checks)
        BY <2>0, <3>1 DEF TodoTyped
      <4>2. \A j \in 1..Len(todo[r]) : ~ IsSlot(todo[r][j], k)
        BY <4>1
      <4> QED
        BY <4>1, <4>2, SlotsNone
    <3>5. Taken(r, k) = Due(r, k) - SlotsIn(todo[r], k) /\ Due(r, k) \in Nat
      BY <2>0, <3>1, TakenInt DEF Taken
    <3>6. Taken(r, k) >= 1
      BY <3>3, <3>4, <3>5
    <3> QED
      BY <3>1, <3>6, SlotSums
  <2>3. Served(k) \in SUBSET Requests
    BY DEF Served
  <2>4. Cardinality(Served(k)) <= SumFunctionOnSet(TakenBy(k), Requests)
    BY <2>1, <2>2, <2>3, SumCounts
  <2>5. SumFunctionOnSet(TakenBy(k), Requests) <= Cap("conc", k) + errors
    BY DEF SlotsGuarded
  <2>6. Cardinality(Served(k)) \in Nat /\ Cap("conc", k) \in Nat
    BY <2>3, FS_Subset, FS_CardinalityType, CapIs DEF Dims
  <2> QED
    BY <2>4, <2>5, <2>6, SlotSums
<1> QED
  BY <1>1, <1>2, <1>3, PTL DEF Spec

=============================================================================
