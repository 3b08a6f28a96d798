---------------------------- MODULE GatewayProofs ----------------------------
(***************************************************************************)
(* Theorems of Gateway, for every number of requests, accounts, models and *)
(* attempts, and all prices.                                               *)
(***************************************************************************)
EXTENDS Gateway, TallyLemmas, FiniteSetTheorems

USE GatewayAssumption DEF client

(***************************************************************************)
(* Types.                                                                  *)
(***************************************************************************)

\* What a request costs is a natural number.
LEMMA CostType ==
  ASSUME NEW m \in Models, NEW u \in Usages
  PROVE  CostOf(m, u) \in Nat
BY DEF GatewayAssumption, CostOf

\* A request that ends hands its cost to the settlement and gives its slot back.
LEMMA FinishType ==
  ASSUME TypeOK, NEW r \in Requests, NEW u \in Usages, Finish(r, u)
  PROVE  /\ job' \in [Requests -> Nat \cup {-1}] /\ slots' \subseteq Requests
         /\ pc' = [pc EXCEPT ![r] = "done"]
         /\ \E c \in Nat : job' = [job EXCEPT ![r] = c]
<1>1. Model(r) \in Models
  BY DEF TypeOK, Model, GatewayAssumption
<1> QED
  BY <1>1, CostType DEF Finish, Return, Go, TypeOK

\* The initial state is well typed.
LEMMA TypeInit == Init => TypeOK
<1> SUFFICES ASSUME Init PROVE TypeOK
  OBVIOUS
<1>1. (CHOOSE a \in Accounts : TRUE) \in Accounts
  BY DEF GatewayAssumption
<1> QED
  BY <1>1 DEF Init, TypeOK, GatewayAssumption

\* Every step of a handler, a settlement, an edit or the breaker keeps the types.
LEMMA TypeStep == TypeOK /\ [Next]_vars => TypeOK'
<1> SUFFICES ASSUME TypeOK, [Next]_vars PROVE TypeOK'
  OBVIOUS
<1> USE DEF TypeOK, Go, handler, money
<1>0. 0 \in Usages
  BY DEF GatewayAssumption
<1>1. CASE UNCHANGED vars
  BY <1>1 DEF vars
<1>2. ASSUME NEW r \in Requests, Handle(r) PROVE TypeOK'
  <2>0. Model(r) \in Models /\ Estimate[Model(r)] \in Nat /\ Candidates(r) \subseteq Accounts
    BY DEF Model, Candidates, Offered, GatewayAssumption
  <2>a. \A u \in Usages : CostOf(Model(r), u) \in Nat
    BY <2>0, CostType
  <2>1. CASE Route(r)
    BY <2>0, <2>1 DEF Route, Choose, Seen
  <2>2. CASE Limit(r)
    BY <2>2 DEF Limit
  <2>3. CASE Check(r)
    BY <2>3 DEF Check, Return
  <2>4. CASE Reserve(r)
    <3> DEFINE e == Estimate[Model(r)]
    <3>1. e \in Nat
      BY <2>0
    <3>2. CASE balance >= e /\ r \notin gone
      <4>1. balance' = balance - e /\ held' = [held EXCEPT ![r] = e]
            /\ pc' = [pc EXCEPT ![r] = "send"] /\ slots' = slots
        BY <2>4, <3>2 DEF Reserve
      <4>2. balance' \in Nat
        BY <3>1, <3>2, <4>1
      <4>3. held' \in [Requests -> Nat]
        BY <3>1, <4>1
      <4> HIDE DEF e
      <4> QED
        BY <2>4, <4>1, <4>2, <4>3 DEF Reserve
    <3>3. CASE ~ (balance >= e /\ r \notin gone)
      BY <2>4, <3>3 DEF Reserve, Return
    <3> QED
      BY <3>2, <3>3
  <2>5. CASE Send(r)
    <3>1. CASE Finish(r, 0) /\ UNCHANGED <<attempt, tried>>
      BY <1>0, <2>5, <3>1, FinishType DEF Send
    <3>2. CASE Go(r, "wait") /\ attempt' = [attempt EXCEPT ![r] = @ + 1]
               /\ tried' = [tried EXCEPT ![r] = @ \cup {route[r]}] /\ UNCHANGED <<job, slots>>
      BY <2>5, <3>2 DEF Send
    <3> QED
      BY <2>5, <3>1, <3>2 DEF Send
  <2>6. CASE UpstreamFails(r)
    <3>1. open' \subseteq Accounts
      BY <2>6 DEF UpstreamFails, MayOpen
    <3> QED
      BY <1>0, <2>6, <3>1, FinishType DEF UpstreamFails, Retry
  <2>7. CASE FinalError(r)
    BY <1>0, <2>7, FinishType DEF FinalError
  <2>8. CASE Answer(r)
    <3>1. open' \subseteq Accounts
      BY <2>8 DEF Answer, MayClose
    <3>2. PICK u \in Usages : Finish(r, u)
      BY <2>8 DEF Answer
    <3>3. job' \in [Requests -> Nat \cup {-1}] /\ slots' \subseteq Requests
          /\ pc' = [pc EXCEPT ![r] = "done"]
      BY <3>2, FinishType
    <3> QED
      BY <2>8, <3>1, <3>3 DEF Answer
  <2>9. CASE StreamStarts(r)
    BY <2>9 DEF StreamStarts, MayClose
  <2>10. CASE StreamEnds(r)
    <3>1. PICK u \in Usages : /\ used' = [used EXCEPT ![r] = CostOf(Model(r), u)]
                              /\ Finish(r, u) \/ Finish(r, 0)
      BY <2>10 DEF StreamEnds
    <3>2. used' \in [Requests -> Nat]
      BY <2>a, <3>1
    <3>3. job' \in [Requests -> Nat \cup {-1}] /\ slots' \subseteq Requests
          /\ pc' = [pc EXCEPT ![r] = "done"]
      BY <1>0, <3>1, FinishType
    <3> QED
      BY <2>10, <3>2, <3>3 DEF StreamEnds
  <2>11. CASE GiveUp(r)
    BY <1>0, <2>11, FinishType DEF GiveUp
  <2>12. CASE SameModel(r)
    BY <2>0, <2>12 DEF SameModel, Choose, Seen
  <2>13. CASE OtherModel(r)
    BY <2>0, <2>13 DEF OtherModel, Choose, Seen
  <2> QED
    BY <1>2, <2>1, <2>2, <2>3, <2>4, <2>5, <2>6, <2>7, <2>8, <2>9, <2>10, <2>11, <2>12, <2>13 DEF Handle
<1>3. ASSUME NEW r \in Requests, Settle(r) PROVE TypeOK'
  <2>1. job[r] \in Nat /\ held[r] \in Nat /\ balance \in Nat
    BY <1>3 DEF Settle
  <2> DEFINE due == IF job[r] - held[r] > balance THEN held[r] ELSE job[r]
  <2>2. due \in Nat /\ due <= balance + held[r]
    BY <2>1
  <2>3. balance' = balance + held[r] - due /\ paid' = [paid EXCEPT ![r] = due]
    BY <1>3 DEF Settle
  <2> HIDE DEF due
  <2>4. balance' \in Nat /\ paid' \in [Requests -> Nat]
    BY <2>1, <2>2, <2>3
  <2> QED
    BY <1>3, <2>1, <2>4 DEF Settle
<1>4. CASE Cool
  BY <1>4 DEF Cool
<1>5. CASE Edit
  BY <1>5 DEF Edit
<1>6. CASE Expire \/ \E r \in Requests : Leave(r)
  BY <1>6 DEF Expire, Leave
<1> QED
  BY <1>1, <1>2, <1>3, <1>4, <1>5, <1>6 DEF Next

\* Every variable keeps its type and the balance never falls below zero: the
\* pre-deduction takes only what is there, also when it is taken again for
\* another model, and so does the settlement.
THEOREM Typing == Spec => []TypeOK
<1> QED
  BY TypeInit, TypeStep, PTL DEF Spec


(***************************************************************************)
(* What a request holds, and where it may go.                              *)
(***************************************************************************)

Inv == TypeOK /\ Steadfast /\ ReservedForModel /\ NoAccountTwice

\* A step of one request leaves the others alone.
LEMMA Others ==
  ASSUME TypeOK, NEW r \in Requests, Handle(r) \/ Settle(r), NEW q \in Requests, q # r
  PROVE  /\ pc'[q] = pc[q] /\ route'[q] = route[q] /\ ask'[q] = ask[q]
         /\ attempt'[q] = attempt[q] /\ tried'[q] = tried[q]
         /\ held'[q] = held[q] /\ job'[q] = job[q] /\ paid'[q] = paid[q]
<1> USE DEF TypeOK, Go, Return, Finish, Choose, handler, money
<1>1. CASE Route(r)
  BY <1>1 DEF Route
<1>2. CASE Limit(r) \/ Check(r) \/ Reserve(r)
  BY <1>2 DEF Limit, Check, Reserve
<1>3. CASE Send(r) \/ FinalError(r) \/ StreamStarts(r) \/ GiveUp(r)
  BY <1>3 DEF Send, FinalError, StreamStarts, GiveUp
<1>4. CASE UpstreamFails(r) \/ Answer(r) \/ StreamEnds(r)
  BY <1>4 DEF UpstreamFails, Retry, Answer, StreamEnds
<1>5. CASE SameModel(r) \/ OtherModel(r)
  BY <1>5 DEF SameModel, OtherModel
<1>6. CASE Settle(r)
  BY <1>6 DEF Settle
<1> QED
  BY <1>1, <1>2, <1>3, <1>4, <1>5, <1>6 DEF Handle

\* What the steps of one request keep true of it.
At(r) ==
  /\ HoldingAt(r) /\ UntriedAt(r)
  /\ pc[r] \in {"send", "wait", "stream", "again"} => held[r] = Estimate[Model(r)]
  /\ attempt[r] = Cardinality(tried[r]) /\ attempt[r] <= Bound(r)

\* The invariant says the same of every request, so a step is checked on one.
LEMMA InvIsAt == Inv <=> TypeOK /\ \A r \in Requests : At(r)
BY DEF Inv, Steadfast, ReservedForModel, NoAccountTwice, At

\* A request that ends keeps its part of the invariant.
LEMMA EndsAt ==
  ASSUME TypeOK, TypeOK', NEW r \in Requests, NEW u \in Usages, At(r), Finish(r, u),
         pc[r] \in {"send", "wait", "stream", "again"},
         UNCHANGED <<ask, attempt, tried, held, paid>>
  PROVE  At(r)'
<1>1. pc'[r] = "done" /\ job'[r] \in Nat
  BY FinishType DEF TypeOK
<1>2. paid[r] = 0
  BY DEF At, HoldingAt
<1> QED
  BY <1>1, <1>2 DEF At, HoldingAt, UntriedAt, Bound, TypeOK

\* A step of the handler keeps the part of its own request.
LEMMA HandleAt ==
  ASSUME TypeOK, TypeOK', NEW r \in Requests, At(r), Handle(r)
  PROVE  At(r)'
<1> USE DEF TypeOK, Go
<1>0. 0 \in Usages /\ Bound(r) \in Nat \ {0}
  BY DEF GatewayAssumption, Bound
<1>1. CASE Route(r)
  BY <1>1 DEF Route, Choose, Candidates, Offered, At, HoldingAt, UntriedAt, Bound, handler, money
<1>2. CASE Limit(r)
  BY <1>2 DEF Limit, At, HoldingAt, UntriedAt, Bound, money
<1>3. CASE Check(r)
  BY <1>3 DEF Check, Return, At, HoldingAt, UntriedAt, Bound, money
<1>4. CASE Reserve(r)
  BY <1>4 DEF Reserve, Return, At, HoldingAt, UntriedAt, Bound, Model
<1>5. CASE Send(r)
  <2>1. CASE Finish(r, 0) /\ UNCHANGED <<attempt, tried>>
    BY <1>0, <1>5, <2>1, EndsAt DEF Send
  <2>2. CASE /\ attempt' = [attempt EXCEPT ![r] = @ + 1]
             /\ tried' = [tried EXCEPT ![r] = @ \cup {route[r]}]
             /\ Go(r, "wait") /\ UNCHANGED <<job, slots>>
    <3>1. route[r] \notin tried[r] /\ attempt[r] < Bound(r) /\ attempt[r] = Cardinality(tried[r])
      BY <1>5 DEF Send, At, UntriedAt
    <3>2. IsFiniteSet(tried[r])
      BY FS_Subset DEF GatewayAssumption
    <3>3. Cardinality(tried[r] \cup {route[r]}) = Cardinality(tried[r]) + 1
      BY <3>1, <3>2, FS_AddElement
    <3>4. attempt'[r] = attempt[r] + 1 /\ tried'[r] = tried[r] \cup {route[r]} /\ pc'[r] = "wait"
      BY <2>2
    <3>5. Bound(r)' = Bound(r) /\ Model(r)' = Model(r)
      BY <1>5 DEF Send, Bound, Model
    <3>6. attempt'[r] = Cardinality(tried'[r]) /\ attempt'[r] <= Bound(r)'
      BY <1>0, <3>1, <3>3, <3>4, <3>5
    <3>7. HoldingAt(r)' /\ held'[r] = Estimate[Model(r)']
      BY <1>5, <2>2, <3>4, <3>5 DEF Send, At, HoldingAt
    <3> QED
      BY <3>4, <3>6, <3>7 DEF At, UntriedAt
  <2> QED
    BY <1>5, <2>1, <2>2 DEF Send
<1>6. CASE UpstreamFails(r)
  <2>1. CASE Finish(r, 0)
    BY <1>0, <1>6, <2>1, EndsAt DEF UpstreamFails, Retry
  <2>2. CASE attempt[r] < Bound(r) /\ Go(r, "again") /\ UNCHANGED <<job, slots>>
    BY <1>6, <2>2 DEF UpstreamFails, Retry, At, HoldingAt, UntriedAt, Bound, Model
  <2> QED
    BY <1>6, <2>1, <2>2 DEF UpstreamFails, Retry
<1>7. CASE FinalError(r)
  BY <1>0, <1>7, EndsAt DEF FinalError
<1>8. CASE Answer(r)
  <2>1. PICK u \in Usages : Finish(r, u)
    BY <1>8 DEF Answer
  <2> QED
    BY <1>0, <1>8, <2>1, EndsAt DEF Answer
<1>9. CASE StreamStarts(r)
  BY <1>9 DEF StreamStarts, At, HoldingAt, UntriedAt, Bound, Model, money
<1>10. CASE StreamEnds(r)
  <2>1. PICK u \in Usages : Finish(r, u) \/ Finish(r, 0)
    BY <1>10 DEF StreamEnds
  <2> QED
    BY <1>0, <1>10, <2>1, EndsAt DEF StreamEnds
<1>11. CASE GiveUp(r)
  BY <1>0, <1>11, EndsAt DEF GiveUp
<1>12. CASE SameModel(r)
  <2>1. PICK a \in Candidates(r) : ModelOf[a] = Model(r) /\ Choose(r, a) /\ Go(r, "send")
    BY <1>12 DEF SameModel
  <2>2. a \notin tried[r] /\ a \in Accounts
    BY DEF Candidates, Offered
  <2>3. route'[r] = a /\ pc'[r] = "send"
    BY <2>1, <2>2 DEF Choose
  <2>4. Model(r)' = Model(r)
    BY <2>1, <2>3 DEF Model
  <2> QED
    BY <1>12, <2>2, <2>3, <2>4 DEF SameModel, At, HoldingAt, UntriedAt, Bound, money
<1>13. CASE OtherModel(r)
  <2>1. PICK a \in Candidates(r) : Choose(r, a) /\ Go(r, "check")
    BY <1>13 DEF OtherModel
  <2>2. a \notin tried[r] /\ a \in Accounts
    BY DEF Candidates, Offered
  <2>3. route'[r] = a /\ pc'[r] = "check" /\ held'[r] = 0
    BY <1>13, <2>1, <2>2 DEF Choose, OtherModel
  <2> QED
    BY <1>13, <2>2, <2>3 DEF OtherModel, At, HoldingAt, UntriedAt, Bound
<1> QED
  BY <1>1, <1>2, <1>3, <1>4, <1>5, <1>6, <1>7, <1>8, <1>9, <1>10, <1>11, <1>12, <1>13 DEF Handle

\* No request has begun.
LEMMA InvInit == Init => Inv
<1> SUFFICES ASSUME Init PROVE Inv
  OBVIOUS
<1>1. TypeOK
  BY TypeInit
<1>2. Cardinality({}) = 0
  BY FS_EmptySet
<1>3. ASSUME NEW r \in Requests PROVE At(r)
  BY <1>2 DEF Init, At, HoldingAt, UntriedAt, Bound, GatewayAssumption
<1> QED
  BY <1>1, <1>3, InvIsAt

\* Every step keeps the invariant: the request that steps by HandleAt, the
\* others because they stay.
LEMMA InvStep == Inv /\ [Next]_vars => Inv'
<1> SUFFICES ASSUME Inv, [Next]_vars PROVE Inv'
  OBVIOUS
<1>0. TypeOK /\ TypeOK' /\ \A r \in Requests : At(r)
  BY InvIsAt, TypeStep
<1>1. ASSUME UNCHANGED <<ask, handler, money>> PROVE \A r \in Requests : At(r)'
  BY <1>0, <1>1 DEF At, HoldingAt, UntriedAt, Bound, Model, handler, money
<1>2. ASSUME NEW r \in Requests, Handle(r) \/ Settle(r), At(r)'
      PROVE  \A q \in Requests : At(q)'
  <2> SUFFICES ASSUME NEW q \in Requests, q # r PROVE At(q)'
    BY <1>2
  <2>1. At(q)
    BY <1>0
  <2> QED
    BY <1>0, <1>2, <2>1, Others DEF At, HoldingAt, UntriedAt, Bound, Model
<1>3. ASSUME NEW r \in Requests, Settle(r) PROVE At(r)'
  <2>1. job[r] # -1 /\ job'[r] = -1 /\ held'[r] = 0 /\ UNCHANGED <<ask, handler>>
    BY <1>0, <1>3 DEF Settle, TypeOK
  <2>2. pc[r] = "done"
    BY <1>0, <2>1 DEF At, HoldingAt
  <2> QED
    BY <1>0, <2>1, <2>2 DEF At, HoldingAt, UntriedAt, Bound, handler
<1>4. \A r \in Requests : At(r)'
  <2>1. CASE \E r \in Requests : Handle(r)
    BY <1>0, <1>2, <2>1, HandleAt
  <2>2. CASE \E r \in Requests : Settle(r)
    BY <1>2, <1>3, <2>2
  <2>3. CASE Cool \/ Edit \/ Expire \/ (\E r \in Requests : Leave(r)) \/ UNCHANGED vars
    BY <1>1, <2>3 DEF Cool, Edit, Expire, Leave, vars
  <2> QED
    BY <2>1, <2>2, <2>3 DEF Next
<1>5. (TypeOK /\ \A r \in Requests : At(r))'
  BY <1>0, <1>4
<1> QED
  BY <1>4, <1>5, <1>0 DEF Inv, Steadfast, ReservedForModel, NoAccountTwice, At

\* A call goes out only with the estimate of the model it goes to reserved,
\* whatever sequence of models the fallback went through.
THEOREM Reserved == Spec => []ReservedForModel
<1>1. Inv => ReservedForModel
  BY DEF Inv
<1> QED
  BY <1>1, InvInit, InvStep, PTL DEF Spec

\* The fallback loop calls no account twice and ends: the number of calls is
\* that of the accounts tried, within the bound for the kind of request.
THEOREM TriesOnce == Spec => []NoAccountTwice
<1>1. Inv => NoAccountTwice
  BY DEF Inv
<1> QED
  BY <1>1, InvInit, InvStep, PTL DEF Spec


(***************************************************************************)
(* The slots.                                                              *)
(***************************************************************************)

\* Where the slot of a request may be.
SlotAt(r) ==
  /\ pc[r] \in Serving => r \in slots \/ r \in gone
  /\ r \in slots => pc[r] \in Serving \/ (pc[r] = "done" /\ r \in gone)

SlotsKept == (\A r \in Requests : SlotAt(r)) /\ Cardinality(slots) <= Slots

\* Fewer slots are not more than the limit, nor is one more while there is room.
LEMMA SlotsCount ==
  ASSUME TypeOK, Cardinality(slots) <= Slots, NEW r \in Requests, NEW after,
         \/ after = slots \/ after = slots \ {r}
         \/ after = slots \cup {r} /\ Cardinality(slots) < Slots
  PROVE  Cardinality(after) <= Slots
<1>1. IsFiniteSet(slots) /\ Cardinality(slots) \in Nat
  <2>1. IsFiniteSet(Requests)
    BY FS_Interval DEF Requests, GatewayAssumption
  <2> QED
    BY <2>1, FS_Subset, FS_CardinalityType DEF TypeOK
<1>2. /\ Cardinality(slots \ {r}) \in {Cardinality(slots), Cardinality(slots) - 1}
      /\ Cardinality(slots \cup {r}) \in {Cardinality(slots), Cardinality(slots) + 1}
  BY <1>1, FS_AddElement, FS_RemoveElement
<1> DEFINE n == Cardinality(slots)
<1>3. n \in Nat /\ Slots \in Nat /\ n <= Slots
  BY <1>1 DEF GatewayAssumption
<1>4. \/ Cardinality(after) \in {n, n - 1}
      \/ Cardinality(after) \in {n, n + 1} /\ n < Slots
  BY <1>2
<1> HIDE DEF n
<1> QED
  BY <1>3, <1>4

\* A step of a handler takes a slot at the limiter, if there is room, keeps it
\* until the handler returns, and gives it back then.
LEMMA HandleSlot ==
  ASSUME TypeOK, SlotsKept, NEW r \in Requests, Handle(r)
  PROVE  /\ \/ slots' = slots \/ slots' = slots \ {r}
            \/ slots' = slots \cup {r} /\ Cardinality(slots) < Slots
         /\ SlotAt(r)' /\ gone' = gone
<1> USE DEF TypeOK, Go, Return, Finish, SlotsKept, SlotAt, Serving, money
<1>1. CASE Route(r) \/ Limit(r)
  BY <1>1 DEF Route, Limit
<1>2. CASE Check(r) \/ Reserve(r)
  BY <1>2 DEF Check, Reserve
<1>3. CASE Send(r) \/ FinalError(r) \/ StreamStarts(r) \/ GiveUp(r)
  BY <1>3 DEF Send, FinalError, StreamStarts, GiveUp
<1>4. CASE UpstreamFails(r) \/ Answer(r) \/ StreamEnds(r)
  BY <1>4 DEF UpstreamFails, Retry, Answer, StreamEnds
<1>5. CASE SameModel(r) \/ OtherModel(r)
  BY <1>5 DEF SameModel, OtherModel
<1> QED
  BY <1>1, <1>2, <1>3, <1>4, <1>5 DEF Handle

\* Every step keeps the slots with those who are served or have left.
LEMMA SlotsStep == TypeOK /\ SlotsKept /\ [Next]_vars => SlotsKept'
<1> SUFFICES ASSUME TypeOK, SlotsKept, [Next]_vars PROVE SlotsKept'
  OBVIOUS
<1>1. ASSUME NEW r \in Requests, Handle(r) PROVE SlotsKept'
  <2>1. Cardinality(slots') <= Slots
    BY <1>1, HandleSlot, SlotsCount DEF SlotsKept
  <2>2. ASSUME NEW q \in Requests, q # r PROVE SlotAt(q)'
    <3>1. pc'[q] = pc[q] /\ (q \in slots' <=> q \in slots) /\ gone' = gone
      BY <1>1, <2>2, HandleSlot, Others
    <3> QED
      BY <3>1 DEF SlotsKept, SlotAt
  <2> QED
    BY <1>1, <2>1, <2>2, HandleSlot DEF SlotsKept
<1>2. ASSUME UNCHANGED <<pc, slots, gone>> PROVE SlotsKept'
  BY <1>2 DEF SlotsKept, SlotAt
<1>3. CASE Cool \/ Edit \/ UNCHANGED vars \/ \E r \in Requests : Settle(r)
  BY <1>2, <1>3 DEF Cool, Edit, Settle, vars, handler
<1>4. CASE \E r \in Requests : Leave(r)
  BY <1>4 DEF Leave, SlotsKept, SlotAt, handler
<1>5. CASE Expire
  <2>1. slots' = {} /\ UNCHANGED <<pc, gone>> /\ \A r \in slots : pc[r] = "done"
    BY <1>5 DEF Expire, handler
  <2>2. Cardinality(slots') <= Slots
    BY <2>1, FS_EmptySet DEF GatewayAssumption
  <2>3. \A r \in Requests : SlotAt(r)'
    BY <2>1 DEF SlotsKept, SlotAt, Serving
  <2> QED
    BY <2>2, <2>3 DEF SlotsKept
<1> QED
  BY <1>1, <1>3, <1>4, <1>5 DEF Next

\* Whatever way a request takes out of the handler, nothing is reserved for it
\* once it is settled, and a slot it keeps after the handler returned is that of
\* a client that left, whose deferred Release fails; no more slots are held than
\* the limit (Release and settleAndLog of application/gateway/usecase.go).
THEOREM GivesBack == Spec => []NothingLeft
<1>1. Init => SlotsKept
  <2> SUFFICES ASSUME Init PROVE SlotsKept
    OBVIOUS
  <2>1. slots = {} /\ Cardinality(slots) = 0 /\ \A r \in Requests : pc[r] = "route"
    BY FS_EmptySet DEF Init
  <2> QED
    BY <2>1 DEF SlotsKept, SlotAt, Serving, GatewayAssumption
<1>2. Inv /\ SlotsKept => NothingLeft
  <2> SUFFICES ASSUME Inv, SlotsKept PROVE NothingLeft
    OBVIOUS
  <2>1. ASSUME NEW r \in Requests, held[r] > 0
        PROVE  pc[r] \in {"send", "wait", "stream", "again"} \/ job[r] # -1
    BY <2>1 DEF Inv, Steadfast, HoldingAt, TypeOK
  <2> QED
    BY <2>1 DEF SlotsKept, SlotAt, NothingLeft
<1>3. Inv => TypeOK
  BY DEF Inv
<1> QED
  BY <1>1, <1>2, <1>3, InvInit, InvStep, SlotsStep, PTL DEF Spec

(***************************************************************************)
(* Conservation.                                                           *)
(***************************************************************************)

\* A step that changes what one request holds and has paid, by as much as the
\* balance changes the other way.
LEMMA KeptIf ==
  ASSUME TypeOK, TypeOK', MoneyKept, NEW r \in Requests,
         \A q \in Requests : q # r => held'[q] = held[q] /\ paid'[q] = paid[q],
         balance' + held'[r] + paid'[r] = balance + held[r] + paid[r]
  PROVE  MoneyKept'
<1> DEFINE N == NumRequests
<1>0. \A f \in [1..N -> Nat] : f \in [1..N -> Int]
  OBVIOUS
<1>a. /\ held \in [1..N -> Nat] /\ held' \in [1..N -> Nat]
      /\ paid \in [1..N -> Nat] /\ paid' \in [1..N -> Nat] /\ r \in 1..N
  BY DEF TypeOK, Requests
<1>1. /\ held \in [1..N -> Int] /\ held' \in [1..N -> Int]
      /\ paid \in [1..N -> Int] /\ paid' \in [1..N -> Int] /\ r \in 1..N
  BY <1>0, <1>a
<1>2. N \in Nat
  BY DEF GatewayAssumption
<1>b. \A f, g \in [1..N -> Int] :
        (\A i \in 1..N : i # r => g[i] = f[i]) => Total(g, N) = Total(f, N) + (g[r] - f[r])
  BY <1>1, <1>2, TotalUpdate
<1>3. Total(held', N) = Total(held, N) + (held'[r] - held[r])
  BY <1>1, <1>b DEF Requests
<1>4. Total(paid', N) = Total(paid, N) + (paid'[r] - paid[r])
  BY <1>1, <1>b DEF Requests
<1>5. Total(held, N) \in Int /\ Total(paid, N) \in Int
  BY <1>1, <1>2, TotalType
<1>6. held[r] \in Int /\ held'[r] \in Int /\ paid[r] \in Int /\ paid'[r] \in Int
      /\ balance \in Int /\ balance' \in Int
  BY DEF TypeOK
<1>7. Total(held, N)' = Total(held', N) /\ Total(paid, N)' = Total(paid', N)
  OBVIOUS
<1> QED
  BY <1>3, <1>4, <1>5, <1>6, <1>7 DEF MoneyKept, GatewayAssumption

\* Every step that moves money moves it within one request.
LEMMA KeptStep == Inv /\ MoneyKept /\ [Next]_vars => MoneyKept'
<1> SUFFICES ASSUME Inv, MoneyKept, [Next]_vars PROVE MoneyKept'
  OBVIOUS
<1>0. TypeOK /\ TypeOK' /\ \A r \in Requests : At(r)
  BY InvIsAt, TypeStep
<1>1. ASSUME UNCHANGED <<balance, held, paid>> PROVE MoneyKept'
  BY <1>1 DEF MoneyKept
<1>2. ASSUME NEW r \in Requests, Reserve(r) PROVE MoneyKept'
  <2>1. CASE UNCHANGED <<balance, held>>
    BY <1>1, <1>2, <2>1 DEF Reserve
  <2>2. CASE balance' = balance - Estimate[Model(r)]
             /\ held' = [held EXCEPT ![r] = Estimate[Model(r)]]
    <3>1. held[r] = 0 /\ paid' = paid
      BY <1>0, <1>2 DEF At, HoldingAt, Reserve
    <3>2. held'[r] = Estimate[Model(r)] /\ \A q \in Requests : q # r => held'[q] = held[q]
      BY <1>0, <2>2 DEF TypeOK
    <3>3. Estimate[Model(r)] \in Nat
      BY <1>0 DEF TypeOK, Model, GatewayAssumption
    <3>4. balance' + held'[r] + paid'[r] = balance + held[r] + paid[r]
      BY <1>0, <2>2, <3>1, <3>2, <3>3 DEF TypeOK
    <3> QED
      BY <1>0, <3>1, <3>2, <3>4, KeptIf
  <2> QED
    BY <1>2, <2>1, <2>2 DEF Reserve
<1>3. ASSUME NEW r \in Requests, OtherModel(r) PROVE MoneyKept'
  <2>1. balance' = balance + held[r] /\ held' = [held EXCEPT ![r] = 0] /\ paid' = paid
    BY <1>3 DEF OtherModel
  <2>2. held'[r] = 0 /\ \A q \in Requests : q # r => held'[q] = held[q]
    BY <1>0, <2>1 DEF TypeOK
  <2>3. balance' + held'[r] + paid'[r] = balance + held[r] + paid[r]
    BY <1>0, <2>1, <2>2 DEF TypeOK
  <2> QED
    BY <1>0, <2>1, <2>2, <2>3, KeptIf
<1>4. ASSUME NEW r \in Requests, Settle(r) PROVE MoneyKept'
  <2> DEFINE due == IF job[r] - held[r] > balance THEN held[r] ELSE job[r]
  <2>1. /\ balance' = balance + held[r] - due /\ paid' = [paid EXCEPT ![r] = due]
        /\ held' = [held EXCEPT ![r] = 0] /\ job[r] >= 0
    BY <1>4 DEF Settle
  <2>2. due \in Int /\ held[r] \in Int /\ balance \in Int
    BY <1>0 DEF TypeOK
  <2>3. job[r] # -1
    BY <1>0, <2>1 DEF TypeOK
  <2>4. paid[r] = 0
    BY <1>0, <2>3 DEF At, HoldingAt
  <2> HIDE DEF due
  <2>5. held'[r] = 0 /\ paid'[r] = due
        /\ \A q \in Requests : q # r => held'[q] = held[q] /\ paid'[q] = paid[q]
    BY <1>0, <2>1 DEF TypeOK
  <2>6. balance' + held'[r] + paid'[r] = balance + held[r] + paid[r]
    BY <2>1, <2>2, <2>4, <2>5
  <2> QED
    BY <1>0, <2>5, <2>6, KeptIf
<1>5. ASSUME NEW r \in Requests, Handle(r), ~ Reserve(r), ~ OtherModel(r)
      PROVE  UNCHANGED <<balance, held, paid>>
  BY <1>5 DEF Handle, Route, Limit, Check, Send, UpstreamFails, FinalError, Answer,
              StreamStarts, StreamEnds, GiveUp, SameModel, money
<1>6. CASE Cool \/ Edit \/ Expire \/ (\E r \in Requests : Leave(r)) \/ UNCHANGED vars
  BY <1>1, <1>6 DEF Cool, Edit, Expire, Leave, vars, money
<1> QED
  BY <1>1, <1>2, <1>3, <1>4, <1>5, <1>6 DEF Next

\* No path through the fallback, no refund and no settlement creates or loses
\* money: balance, reservations and settled amounts add up to the deposit.
THEOREM Conserved == Spec => []MoneyKept
<1>1. Init => MoneyKept
  <2> SUFFICES ASSUME Init PROVE MoneyKept
    OBVIOUS
  <2>1. /\ held \in [1..NumRequests -> Int] /\ paid \in [1..NumRequests -> Int]
        /\ \A i \in 1..NumRequests : held[i] = 0 /\ paid[i] = 0
    BY DEF Init, Requests
  <2>2. Total(held, NumRequests) = 0 /\ Total(paid, NumRequests) = 0
    BY <2>1, TotalZero DEF GatewayAssumption
  <2> QED
    BY <2>2 DEF Init, MoneyKept, GatewayAssumption
<1> QED
  BY <1>1, InvInit, InvStep, KeptStep, PTL DEF Spec


(***************************************************************************)
(* The wallet.                                                             *)
(***************************************************************************)

Priced == {Estimate[m] : m \in Models} \cup Usages

\* A request is logged when its settlement is over, and settles a known price.
LogAt(r) ==
  /\ r \in logged => pc[r] = "done" /\ job[r] = -1
  /\ job[r] # -1 => job[r] \in Priced

WalletInv == Inv /\ \A r \in Requests : LogAt(r)

\* A step of the handler neither logs nor settles, and hands over a known price.
LEMMA HandleLogs ==
  ASSUME TypeOK, NEW r \in Requests, Handle(r)
  PROVE  /\ pc[r] # "done" /\ logged' = logged /\ paid' = paid
         /\ job'[r] = job[r] \/ job'[r] \in Priced
<1> USE DEF TypeOK, Go, money
<1>0. 0 \in Usages /\ Model(r) \in Models
  BY DEF GatewayAssumption, Model
<1>1. \A u \in Usages : Finish(r, u) => job'[r] \in Priced
  BY <1>0 DEF Finish, CostOf, Priced
<1>2. CASE Route(r) \/ Limit(r) \/ Check(r) \/ Reserve(r) \/ StreamStarts(r) \/ SameModel(r) \/ OtherModel(r)
  BY <1>2 DEF Route, Limit, Check, Reserve, StreamStarts, SameModel, OtherModel
<1>3. CASE Send(r) \/ FinalError(r) \/ GiveUp(r)
  BY <1>0, <1>1, <1>3 DEF Send, FinalError, GiveUp
<1>4. CASE UpstreamFails(r)
  BY <1>0, <1>1, <1>4 DEF UpstreamFails, Retry
<1>5. CASE Answer(r) \/ StreamEnds(r)
  BY <1>0, <1>1, <1>5 DEF Answer, StreamEnds
<1> QED
  BY <1>2, <1>3, <1>4, <1>5 DEF Handle

\* Every step keeps what the wallet needs.
LEMMA WalletInvStep == WalletInv /\ [Next]_vars => WalletInv'
<1> SUFFICES ASSUME WalletInv, [Next]_vars PROVE WalletInv'
  OBVIOUS
<1>0. Inv /\ Inv' /\ TypeOK /\ TypeOK' /\ \A r \in Requests : LogAt(r) /\ At(r)
  BY InvStep, InvIsAt DEF WalletInv, Inv
<1>1. ASSUME UNCHANGED <<handler, money>> PROVE \A r \in Requests : LogAt(r)'
  BY <1>0, <1>1 DEF LogAt, handler, money
<1>2. ASSUME NEW r \in Requests, Handle(r) PROVE \A q \in Requests : LogAt(q)'
  <2>1. r \notin logged
    BY <1>0, <1>2, HandleLogs DEF LogAt
  <2>2. LogAt(r)'
    BY <1>0, <1>2, <2>1, HandleLogs DEF LogAt
  <2>3. ASSUME NEW q \in Requests, q # r PROVE LogAt(q)'
    BY <1>0, <1>2, <2>3, HandleLogs, Others DEF LogAt
  <2> QED
    BY <2>2, <2>3
<1>3. ASSUME NEW r \in Requests, Settle(r) PROVE \A q \in Requests : LogAt(q)'
  <2>1. pc[r] = "done" /\ pc' = pc /\ job' = [job EXCEPT ![r] = -1] /\ logged' = logged \cup {r}
    BY <1>0, <1>3 DEF Settle, At, HoldingAt, TypeOK, handler
  <2> QED
    BY <1>0, <2>1 DEF LogAt, TypeOK
<1>4. \A r \in Requests : LogAt(r)'
  <2>1. CASE Cool \/ Edit \/ Expire \/ (\E r \in Requests : Leave(r)) \/ UNCHANGED vars
    BY <1>1, <2>1 DEF Cool, Edit, Expire, Leave, vars
  <2> QED
    BY <1>2, <1>3, <2>1 DEF Next
<1> QED
  BY <1>0, <1>4 DEF WalletInv

\* A step that moves no money and leaves every request in its phase is none of the wallet's.
LEMMA WalletSame ==
  ASSUME UNCHANGED <<balance, held, paid>>, \A q \in Requests : PhaseOf(q)' = PhaseOf(q)
  PROVE  UNCHANGED (WalletView!walletVars)
BY DEF WalletView!walletVars

\* One request moves its own part of the wallet only.
LEMMA WalletMoves ==
  ASSUME TypeOK, TypeOK', NEW r \in Requests, NEW s, NEW ph,
         \A q \in Requests : q # r => held'[q] + paid'[q] = held[q] + paid[q] /\ PhaseOf(q)' = PhaseOf(q),
         held'[r] + paid'[r] = s, PhaseOf(r)' = ph
  PROVE  /\ [q \in Requests |-> held[q] + paid[q]]' = [[q \in Requests |-> held[q] + paid[q]] EXCEPT ![r] = s]
         /\ [q \in Requests |-> PhaseOf(q)]' = [[q \in Requests |-> PhaseOf(q)] EXCEPT ![r] = ph]
OBVIOUS

\* The phases of the other requests stay.
LEMMA OthersPhase ==
  ASSUME TypeOK, NEW r \in Requests, Handle(r) \/ Settle(r), NEW q \in Requests, q # r
  PROVE  PhaseOf(q)' = PhaseOf(q) /\ held'[q] = held[q] /\ paid'[q] = paid[q]
<1>1. q \in logged' <=> q \in logged
  <2>1. CASE Handle(r)
    BY <2>1, HandleLogs
  <2>2. CASE Settle(r)
    BY <2>2 DEF Settle
  <2> QED
    BY <2>1, <2>2
<1>2. pc'[q] = pc[q] /\ held'[q] = held[q] /\ job'[q] = job[q] /\ paid'[q] = paid[q]
  BY Others
<1> QED
  BY <1>1, <1>2 DEF PhaseOf

\* Every step of the gateway is a step of the wallet, or none.
LEMMA WalletStep ==
  ASSUME WalletInv, TypeOK', [Next]_vars
  PROVE  [WalletView!WalletNext]_(WalletView!walletVars)
<1> DEFINE secured == [q \in Requests |-> held[q] + paid[q]]
           phase == [q \in Requests |-> PhaseOf(q)]
<1>0. TypeOK /\ \A r \in Requests : LogAt(r) /\ At(r)
  BY InvIsAt DEF WalletInv, Inv
<1>a. \A r \in Requests : secured[r] = held[r] + paid[r] /\ phase[r] = PhaseOf(r)
  OBVIOUS
<1>b. \A r \in Requests : /\ held[r] \in Nat /\ held'[r] \in Nat /\ paid[r] \in Nat /\ paid'[r] \in Nat
                          /\ job[r] \in Nat \cup {-1} /\ balance \in Nat /\ balance' \in Nat
  BY <1>0 DEF TypeOK
<1>1. CASE Cool \/ Edit \/ Expire \/ (\E r \in Requests : Leave(r)) \/ UNCHANGED vars
  <2>1. UNCHANGED <<handler, money>>
    BY <1>1 DEF Cool, Edit, Expire, Leave, vars
  <2>2. \A q \in Requests : PhaseOf(q)' = PhaseOf(q)
    BY <2>1 DEF PhaseOf, handler, money
  <2> QED
    BY <2>1, <2>2, WalletSame DEF money
<1>2. ASSUME NEW r \in Requests, Handle(r), UNCHANGED <<balance, held>>, PhaseOf(r)' = PhaseOf(r)
      PROVE  [WalletView!WalletNext]_(WalletView!walletVars)
  BY <1>0, <1>2, HandleLogs, OthersPhase, WalletSame
<1>3. ASSUME NEW r \in Requests, Handle(r), UNCHANGED <<balance, held>>,
             PhaseOf(r) = "open", PhaseOf(r)' = "refused"
      PROVE  WalletView!Refuse(r)
  <2>1. paid' = paid
    BY <1>0, <1>3, HandleLogs
  <2>2. phase' = [phase EXCEPT ![r] = "refused"]
    BY <1>0, <1>3, OthersPhase
  <2>3. UNCHANGED secured
    BY <1>3, <2>1
  <2> HIDE DEF secured, phase
  <2> QED
    BY <1>3, <1>a, <2>2, <2>3 DEF WalletView!Refuse, secured, phase
<1>4. ASSUME NEW r \in Requests, Reserve(r)
      PROVE  [WalletView!WalletNext]_(WalletView!walletVars)
  <2>0. /\ Handle(r) /\ PhaseOf(r) = "open" /\ held[r] = 0 /\ paid[r] = 0 /\ paid' = paid
        /\ r \notin logged /\ job'[r] = -1 /\ logged' = logged /\ pc[r] = "reserve"
    BY <1>0, <1>4 DEF Handle, Reserve, PhaseOf, At, HoldingAt, LogAt, TypeOK
  <2> DEFINE e == Estimate[Model(r)]
  <2>1. CASE balance >= e /\ r \notin gone
    <3>1. /\ balance' = balance - e /\ held' = [held EXCEPT ![r] = e] /\ pc'[r] = "send"
      BY <1>0, <1>4, <2>1 DEF Reserve, Go, TypeOK
    <3>2. e \in Priced /\ e \in Nat
      BY <1>0 DEF Priced, TypeOK, Model, GatewayAssumption
    <3>3. PhaseOf(r)' = "held" /\ held'[r] + paid'[r] = e
      BY <1>0, <2>0, <3>1, <3>2 DEF PhaseOf, TypeOK
    <3>4. secured' = [secured EXCEPT ![r] = e] /\ phase' = [phase EXCEPT ![r] = "held"]
      BY <1>0, <2>0, <3>3, OthersPhase
    <3>5. e <= balance
      BY <1>b, <2>1, <3>2
    <3> HIDE DEF secured, phase, e
    <3>6. WalletView!Reserve(r)
      BY <1>a, <2>0, <3>1, <3>2, <3>4, <3>5 DEF WalletView!Reserve, secured, phase, Priced
    <3> QED
      BY <3>6 DEF WalletView!WalletNext
  <2>2. CASE ~ (balance >= e /\ r \notin gone)
    <3>1. UNCHANGED <<balance, held>> /\ pc'[r] = "done"
      BY <1>0, <1>4, <2>2 DEF Reserve, Return, Go, TypeOK
    <3>2. PhaseOf(r)' = "refused"
      BY <2>0, <3>1 DEF PhaseOf
    <3> QED
      BY <1>3, <2>0, <3>1, <3>2 DEF WalletView!WalletNext
  <2> QED
    BY <2>1, <2>2
<1>5. ASSUME NEW r \in Requests, OtherModel(r)
      PROVE  WalletView!Cancel(r)
  <2>1. /\ Handle(r) /\ PhaseOf(r) = "held" /\ paid[r] = 0 /\ paid' = paid
        /\ balance' = balance + held[r] /\ held'[r] = 0 /\ pc'[r] = "check" /\ job'[r] = -1
    BY <1>0, <1>5 DEF Handle, OtherModel, PhaseOf, At, HoldingAt, Go, TypeOK
  <2>a. PhaseOf(r)' = "open"
    <3>1. ~ (job'[r] >= 0)
      BY <2>1
    <3> QED
      BY <2>1, <3>1 DEF PhaseOf
  <2>b. paid'[r] = 0
    BY <2>1
  <2>2. PhaseOf(r)' = "open" /\ held'[r] + paid'[r] = 0
    BY <2>1, <2>a, <2>b
  <2>3. secured' = [secured EXCEPT ![r] = 0] /\ phase' = [phase EXCEPT ![r] = "open"]
    BY <1>0, <2>1, <2>2, OthersPhase
  <2>4. balance' = balance + secured[r]
    BY <1>a, <1>b, <2>1
  <2> HIDE DEF secured, phase
  <2> QED
    BY <1>a, <2>1, <2>3, <2>4 DEF WalletView!Cancel, secured, phase
<1>6. ASSUME NEW r \in Requests, Settle(r)
      PROVE  WalletView!Close(r)
  <2> DEFINE due == IF job[r] - held[r] > balance THEN held[r] ELSE job[r]
  <2>1. /\ balance' = balance + held[r] - due /\ paid' = [paid EXCEPT ![r] = due]
        /\ held' = [held EXCEPT ![r] = 0] /\ job[r] >= 0
        /\ job' = [job EXCEPT ![r] = -1] /\ logged' = logged \cup {r} /\ pc' = pc
    BY <1>6 DEF Settle, handler
  <2>2. job[r] # -1 /\ job[r] \in Nat
    BY <1>b, <2>1
  <2>3. pc[r] = "done" /\ job[r] \in Priced /\ paid[r] = 0
    BY <1>0, <2>2 DEF LogAt, At, HoldingAt
  <2>4. PhaseOf(r) = "held" /\ PhaseOf(r)' = "closed"
    BY <1>0, <2>1, <2>3 DEF PhaseOf, TypeOK
  <2>5. secured[r] = held[r]
    BY <1>a, <1>b, <2>3
  <2>6. paid'[r] = due /\ held'[r] = 0 /\ due \in Nat
    BY <1>0, <1>b, <2>1, <2>2 DEF TypeOK
  <2> HIDE DEF due
  <2>a. held'[r] + paid'[r] = due
    BY <2>6
  <2>b. \A q \in Requests : q # r => held'[q] + paid'[q] = held[q] + paid[q] /\ PhaseOf(q)' = PhaseOf(q)
    BY <1>0, <1>6, OthersPhase
  <2>7. secured' = [secured EXCEPT ![r] = due] /\ phase' = [phase EXCEPT ![r] = "closed"]
    BY <1>0, <2>4, <2>a, <2>b, WalletMoves
  <2>8. CASE job[r] - held[r] > balance
    <3>1. due = held[r] /\ job[r] > secured[r] /\ balance' = balance
      BY <1>b, <2>1, <2>2, <2>5, <2>8 DEF due
    <3>2. secured' = secured
      BY <2>5, <2>7, <3>1
    <3> HIDE DEF secured, phase
    <3> QED
      BY <1>a, <2>3, <2>4, <2>7, <3>1, <3>2 DEF WalletView!Close, secured, phase, Priced
  <2>9. CASE ~ (job[r] - held[r] > balance)
    <3>1. due = job[r]
      BY <2>9 DEF due
    <3>2. job[r] - secured[r] <= balance /\ balance' = balance - (job[r] - secured[r])
      BY <1>b, <2>1, <2>2, <2>5, <2>9, <3>1
    <3> HIDE DEF secured, phase
    <3> QED
      BY <1>a, <2>3, <2>4, <2>7, <3>1, <3>2 DEF WalletView!Close, secured, phase, Priced
  <2> QED
    BY <2>8, <2>9
<1>7. ASSUME NEW r \in Requests, Handle(r), ~ Reserve(r), ~ OtherModel(r)
      PROVE  /\ UNCHANGED <<balance, held>>
             /\ PhaseOf(r)' = PhaseOf(r) \/ (PhaseOf(r) = "open" /\ PhaseOf(r)' = "refused")
  <2>1. pc[r] # "done" /\ logged' = logged /\ r \notin logged /\ job[r] = -1
    BY <1>0, <1>7, HandleLogs DEF LogAt, At, HoldingAt
  <2>2. CASE Route(r) \/ Limit(r) \/ Check(r)
    BY <1>0, <2>1, <2>2 DEF Route, Limit, Check, Return, Go, PhaseOf, TypeOK, money
  <2>3. CASE StreamStarts(r) \/ SameModel(r)
    BY <1>0, <2>1, <2>3 DEF StreamStarts, SameModel, Go, PhaseOf, TypeOK, money
  <2>4. CASE Send(r) \/ UpstreamFails(r) \/ FinalError(r) \/ Answer(r) \/ StreamEnds(r) \/ GiveUp(r)
    <3>0. 0 \in Usages
      BY DEF GatewayAssumption
    <3>1. /\ UNCHANGED <<balance, held>> /\ pc[r] \in {"send", "wait", "stream", "again"}
          /\ (\E u \in Usages : Finish(r, u)) \/ Go(r, "wait") \/ Go(r, "again")
      BY <2>4, <3>0 DEF Send, UpstreamFails, Retry, FinalError, Answer, StreamEnds, GiveUp
    <3>2. CASE \E u \in Usages : Finish(r, u)
      <4>0. PICK u \in Usages : Finish(r, u)
        BY <3>2
      <4>a. pc' = [pc EXCEPT ![r] = "done"] /\ \E c \in Nat : job' = [job EXCEPT ![r] = c]
        BY <1>0, <4>0, FinishType
      <4>1. pc'[r] = "done" /\ job'[r] \in Nat
        BY <1>0, <4>a DEF TypeOK
      <4> QED
        BY <3>1, <4>1 DEF PhaseOf
    <3>3. CASE Go(r, "wait") \/ Go(r, "again")
      BY <1>0, <3>1, <3>3 DEF Go, PhaseOf, TypeOK
    <3> QED
      BY <3>1, <3>2, <3>3
  <2> QED
    BY <1>7, <2>2, <2>3, <2>4 DEF Handle
<1>8. ASSUME NEW r \in Requests, Handle(r) PROVE [WalletView!WalletNext]_(WalletView!walletVars)
  <2>1. CASE Reserve(r)
    BY <1>4, <2>1
  <2>2. CASE OtherModel(r)
    BY <1>5, <2>2 DEF WalletView!WalletNext
  <2>3. CASE ~ Reserve(r) /\ ~ OtherModel(r)
    BY <1>2, <1>3, <1>7, <1>8, <2>3 DEF WalletView!WalletNext
  <2> QED
    BY <2>1, <2>2, <2>3
<1>9. CASE \E r \in Requests : Settle(r)
  BY <1>6, <1>9 DEF WalletView!WalletNext
<1> QED
  BY <1>1, <1>8, <1>9 DEF Next

\* The start of the gateway is a start of the wallet.
LEMMA WalletStart == Init => WalletInv /\ WalletView!WalletInit
<1> SUFFICES ASSUME Init PROVE WalletInv /\ WalletView!WalletInit
  OBVIOUS
<1>1. \A r \in Requests : LogAt(r) /\ PhaseOf(r) = "open" /\ held[r] + paid[r] = 0
  BY DEF Init, LogAt, PhaseOf
<1>2. balance = Opening
  BY DEF Init
<1> QED
  BY <1>1, <1>2, InvInit DEF WalletInv, WalletView!WalletInit

\* With fallback to other models, errors, cut streams and settlement goroutines
\* interleaved, the path of a request uses the wallet as it is meant: one
\* reservation at a time, cancelled when the model changes, closed once.
THEOREM GatewayUsesWallet == Spec => UsesWallet
<1>1. WalletInv /\ WalletInv' /\ [Next]_vars => [WalletView!WalletNext]_(WalletView!walletVars)
  BY WalletStep DEF WalletInv, Inv
<1> QED
  BY <1>1, WalletStart, WalletInvStep, PTL DEF Spec, UsesWallet, WalletView!WalletSpec

=============================================================================
