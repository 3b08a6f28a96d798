---------------------------- MODULE BillingProofs ----------------------------
(***************************************************************************)
(* Theorems of Billing, for every number of requests, redeemers, charges   *)
(* and codes, every amount and every set of faults.                        *)
(***************************************************************************)
EXTENDS Billing, TallyLemmas

USE BillingAssumption

(***************************************************************************)
(* Types.                                                                  *)
(***************************************************************************)

\* The service starts well typed.
LEMMA TypeInit == Init => TypeOK
<1> SUFFICES ASSUME Init PROVE TypeOK
  OBVIOUS
<1>1. \A p \in Proc : p \in Requests \/ p \in TopUps
  BY DEF Proc
<1> QED
  BY <1>1 DEF Init, TypeOK, Writes, WriteStates, Stages, RequestStages, TopUpStages

\* Every action of the gateway, the consoles and the ledger keeps the types.
LEMMA TypeStep == TypeOK /\ [Next]_vars => TypeOK'
<1> SUFFICES ASSUME TypeOK, [Next]_vars PROVE TypeOK'
  OBVIOUS
<1>0. Requests \subseteq Proc /\ Redeemers \subseteq Proc /\ Chargers \subseteq Proc
  BY DEF Proc, TopUps
<1> USE DEF TypeOK, At, Go, wallet, ledger, codes, local, Stages, RequestStages, TopUpStages
<1>1. CASE UNCHANGED vars
  BY <1>1 DEF vars
<1>2. ASSUME NEW p \in Proc, FillStep(p) PROVE TypeOK'
  <2>1. CASE CacheMiss(p)
    BY <2>1 DEF CacheMiss
  <2>2. CASE ReadRow(p)
    BY <2>2 DEF ReadRow
  <2>3. CASE ReadFails(p)
    BY <2>3 DEF ReadFails
  <2>4. CASE FillCache(p)
    BY <2>4 DEF FillCache
  <2> QED
    BY <1>2, <2>1, <2>2, <2>3, <2>4 DEF FillStep
<1>3. ASSUME NEW r \in Requests, Arrive(r) PROVE TypeOK'
  BY <1>0, <1>3 DEF Arrive
<1>4. ASSUME NEW r \in Requests, NEW c \in Nat, NEW s \in Stages, Settled(r, c, s)
      PROVE cost' \in [Requests -> Nat] /\ pc' \in [Proc -> Stages]
            /\ write' \in [Requests -> [Writes -> WriteStates]]
  BY <1>0, <1>4 DEF Settled, Writes, WriteStates
<1>5. ASSUME NEW r \in Requests, RequestStep(r) PROVE TypeOK'
  <2>1. CASE CheckBalance(r)
    BY <1>0, <2>1 DEF CheckBalance
  <2>2. CASE EnsureCache(r)
    BY <1>0, <2>2 DEF EnsureCache
  <2>3. CASE EnsureFails(r)
    BY <1>0, <2>3 DEF EnsureFails
  <2>4. CASE PreDeduct(r)
    <3>1. write' \in [Requests -> [Writes -> WriteStates]]
      BY <2>4 DEF PreDeduct, Writes, WriteStates
    <3>2. pc' \in [Proc -> Stages]
      BY <1>0, <2>4, SMTT(30) DEF PreDeduct
    <3> QED
      BY <2>4, <3>1, <3>2 DEF PreDeduct
  <2>5. CASE PreDeductFails(r)
    BY <1>0, <2>5 DEF PreDeductFails
  <2>6. CASE Undo(r)
    BY <1>0, <2>6 DEF Undo
  <2>7. CASE SettleRefund(r)
    <3>1. PICK c \in Costs :
            /\ IF c = est[r] THEN UNCHANGED wallet
               ELSE cache' = cache + (est[r] - c) /\ key' = "present"
            /\ Settled(r, c, "settled")
      BY <2>7, Zenon DEF SettleRefund
    <3>2. "settled" \in Stages /\ c \in Nat
      OBVIOUS
    <3>3. cost' \in [Requests -> Nat] /\ pc' \in [Proc -> Stages]
          /\ write' \in [Requests -> [Writes -> WriteStates]]
      BY <1>4, <3>1, <3>2
    <3>4. cache' \in Int /\ key' \in {"present", "absent"}
      BY <3>1, <3>2
    <3> QED
      BY <2>7, <3>3, <3>4 DEF SettleRefund
  <2>8. CASE SettleExtra(r)
    <3>1. PICK c \in Nat : cache' = cache - (c - est[r]) /\ key' = "present"
            /\ IF cache' < 0
                 THEN /\ cost' = [cost EXCEPT ![r] = c]
                      /\ Go(r, "settleUndo") /\ UNCHANGED write
                 ELSE Settled(r, c, "settled")
      BY <2>8 DEF SettleExtra
    <3>2. "settled" \in Stages
      OBVIOUS
    <3>a. ASSUME cache' < 0
          PROVE  cost' \in [Requests -> Nat] /\ pc' \in [Proc -> Stages]
                 /\ write' \in [Requests -> [Writes -> WriteStates]]
      BY <1>0, <3>1, <3>a
    <3>3. cost' \in [Requests -> Nat] /\ pc' \in [Proc -> Stages]
          /\ write' \in [Requests -> [Writes -> WriteStates]]
      BY <1>4, <3>1, <3>2, <3>a
    <3> QED
      BY <2>8, <3>1, <3>3 DEF SettleExtra
  <2>9. CASE SettleUndo(r)
    <3>1. "short" \in Stages
      OBVIOUS
    <3>2. cost' \in [Requests -> Nat] /\ pc' \in [Proc -> Stages]
          /\ write' \in [Requests -> [Writes -> WriteStates]]
      BY <1>4, <2>9, <3>1 DEF SettleUndo
    <3> QED
      BY <2>9, <3>2 DEF SettleUndo
  <2>10. CASE SettleFails(r)
    <3>1. PICK c \in Costs :
            /\ \/ UNCHANGED wallet
               \/ cache' = cache + (est[r] - c) /\ key' = "present"
            /\ Settled(r, c, IF c > est[r] THEN "short" ELSE "settled")
      BY <2>10, Zenon DEF SettleFails
    <3>2. (IF c > est[r] THEN "short" ELSE "settled") \in Stages /\ c \in Nat
      OBVIOUS
    <3>3. cost' \in [Requests -> Nat] /\ pc' \in [Proc -> Stages]
          /\ write' \in [Requests -> [Writes -> WriteStates]]
      BY <1>4, <3>1, <3>2
    <3>4. cache' \in Int /\ key' \in {"present", "absent"}
      BY <3>1, <3>2
    <3> QED
      BY <2>10, <3>3, <3>4 DEF SettleFails
  <2> QED
    BY <1>5, <2>1, <2>2, <2>3, <2>4, <2>5, <2>6, <2>7, <2>8, <2>9, <2>10 DEF RequestStep
<1>6. ASSUME NEW r \in Requests, LedgerStep(r) PROVE TypeOK'
  <2>1. \A w \in Writes : Amount(r, w) \in Int
    BY DEF Amount
  <2>2. CASE ApplyWrite(r)
    BY <2>1, <2>2 DEF ApplyWrite, AddBalance, WriteStates
  <2>3. CASE LogWrite(r)
    BY <2>3 DEF LogWrite, WriteStates
  <2>4. CASE WriteFails(r)
    <3>1. PICK w \in Writes, v \in {"lost", "unlogged"} :
            write' = [write EXCEPT ![r][w] = v]
      BY <2>4 DEF WriteFails
    <3>2. write' \in [Requests -> [Writes -> WriteStates]]
      BY <3>1 DEF WriteStates
    <3> QED
      BY <2>4, <3>2 DEF WriteFails
  <2> QED
    BY <1>6, <2>2, <2>3, <2>4 DEF LedgerStep
<1>7. ASSUME NEW r \in Requests, Abandon(r) PROVE TypeOK'
  BY <1>0, <1>7 DEF Abandon
<1>8. ASSUME NEW p \in TopUps, SyncCache(p) PROVE TypeOK'
  BY <1>0, <1>8 DEF SyncCache, TopUps, Proc
<1>9. ASSUME NEW p \in Redeemers, RedeemStep(p) PROVE TypeOK'
  <2>1. CASE RedeemStart(p)
    BY <1>0, <2>1 DEF RedeemStart
  <2>2. CASE RedeemLock(p)
    BY <1>0, <2>2 DEF RedeemLock
  <2>3. CASE RedeemCommit(p)
    BY <1>0, <2>3 DEF RedeemCommit
  <2>4. CASE RedeemRollback(p)
    BY <1>0, <2>4 DEF RedeemRollback
  <2> QED
    BY <1>8, <1>9, <2>1, <2>2, <2>3, <2>4 DEF RedeemStep, TopUps
<1>10. ASSUME NEW p \in Chargers, ChargeStep(p) PROVE TypeOK'
  <2>1. CASE ChargeStart(p)
    BY <1>0, <2>1 DEF ChargeStart
  <2>2. CASE ChargeRead(p)
    BY <1>0, <2>2 DEF ChargeRead
  <2>3. CASE ChargeAdd(p)
    BY <1>0, <2>3 DEF ChargeAdd, AddBalance
  <2> QED
    BY <1>8, <1>10, <2>1, <2>2, <2>3 DEF ChargeStep, TopUps
<1>11. CASE Evict
  BY <1>11 DEF Evict
<1> QED
  BY <1>1, <1>2, <1>3, <1>5, <1>6, <1>7, <1>9, <1>10, <1>11 DEF Next

\* Every variable of the two billing stores and of the calls keeps its type,
\* whatever fails (application/billing/usecase.go).
THEOREM Typing == Spec => []TypeOK
BY TypeInit, TypeStep, PTL DEF Spec

(***************************************************************************)
(* The ledger.                                                             *)
(***************************************************************************)

\* It starts with a ledger in order.
LEMMA LinkedInit == Init => Linked
<1> SUFFICES ASSUME Init, NEW r \in Requests PROVE LinkedAt(r)
  BY DEF Linked
<1>1. r \in Proc
  BY DEF Proc
<1> QED
  BY <1>1 DEF Init, LinkedAt, Writes, RequestStages

\* A step that leaves every request where it is.
LEMMA LinkedFrame ==
  ASSUME Linked, UNCHANGED <<est, cost, write>>,
         \A r \in Requests : pc'[r] = pc[r] /\ fill'[r] = fill[r]
  PROVE  Linked'
BY DEF Linked, LinkedAt

\* A step of one request alone.
LEMMA LinkedLocal ==
  ASSUME Linked, NEW k \in Requests, LinkedAt(k)',
         \A r \in Requests : r # k =>
           /\ pc'[r] = pc[r] /\ fill'[r] = fill[r] /\ est'[r] = est[r]
           /\ cost'[r] = cost[r] /\ write'[r] = write[r]
  PROVE  Linked'
BY DEF Linked, LinkedAt

\* No step moves a request to a place its amounts and its writes do not allow.
LEMMA LinkedStep == TypeOK /\ Linked /\ [Next]_vars => Linked'
<1> SUFFICES ASSUME TypeOK, Linked, [Next]_vars PROVE Linked'
  OBVIOUS
<1>0. /\ Requests \subseteq Proc /\ TopUps \subseteq Proc
      /\ \A p \in TopUps : p \notin Requests
      /\ Redeemers \subseteq TopUps /\ Chargers \subseteq TopUps
  BY DEF Proc, TopUps
<1> USE DEF At, Go, wallet, ledger, codes, local, RequestStages
<1>1. CASE UNCHANGED vars
  BY <1>1, LinkedFrame DEF vars
<1>2. ASSUME NEW p \in TopUps, FillStep(p) \/ RedeemStep(p) \/ ChargeStep(p)
      PROVE  Linked'
  <2>1. UNCHANGED <<est, cost, write>>
    BY <1>2 DEF FillStep, CacheMiss, ReadRow, ReadFails, FillCache,
         RedeemStep, RedeemStart, RedeemLock, RedeemCommit, RedeemRollback,
         ChargeStep, ChargeStart, ChargeRead, ChargeAdd, SyncCache
  <2>2. \E s : pc' = pc \/ pc' = [pc EXCEPT ![p] = s]
    BY <1>2 DEF FillStep, CacheMiss, ReadRow, ReadFails, FillCache,
         RedeemStep, RedeemStart, RedeemLock, RedeemCommit, RedeemRollback,
         ChargeStep, ChargeStart, ChargeRead, ChargeAdd, SyncCache
  <2>3. \E s : fill' = fill \/ fill' = [fill EXCEPT ![p] = s]
    BY <1>2 DEF FillStep, CacheMiss, ReadRow, ReadFails, FillCache,
         RedeemStep, RedeemStart, RedeemLock, RedeemCommit, RedeemRollback,
         ChargeStep, ChargeStart, ChargeRead, ChargeAdd, SyncCache
  <2>4. \A r \in Requests : pc'[r] = pc[r] /\ fill'[r] = fill[r]
    BY <1>0, <2>2, <2>3 DEF TypeOK
  <2> QED
    BY <2>1, <2>4, LinkedFrame
<1>3. CASE Evict
  BY <1>3, LinkedFrame DEF Evict
<1>4. ASSUME NEW r \in Requests,
             Arrive(r) \/ RequestStep(r) \/ LedgerStep(r) \/ Abandon(r) \/ FillStep(r)
      PROVE  Linked'
  <2> USE DEF TypeOK, Linked, LinkedAt
  <2>1. CASE Arrive(r)
    BY <1>0, <2>1 DEF Arrive
  <2>2. CASE Abandon(r)
    BY <1>0, <2>2 DEF Abandon
  <2>3. CASE FillStep(r)
    <3>1. CASE CacheMiss(r)
      BY <1>0, <3>1 DEF CacheMiss
    <3>2. CASE ReadRow(r)
      BY <1>0, <3>2 DEF ReadRow
    <3>3. CASE ReadFails(r)
      BY <1>0, <3>3 DEF ReadFails
    <3>4. CASE FillCache(r)
      BY <1>0, <3>4 DEF FillCache
    <3> QED
      BY <2>3, <3>1, <3>2, <3>3, <3>4 DEF FillStep
  <2>4. CASE LedgerStep(r)
    <3>1. PICK w \in Writes, v \in {"applied", "logged", "lost", "unlogged"} :
            /\ write[r][w] # "none" /\ write' = [write EXCEPT ![r][w] = v]
            /\ UNCHANGED <<pc, fill, est, cost>>
      BY <2>4 DEF LedgerStep, ApplyWrite, LogWrite, WriteFails
    <3> QED
      BY <3>1 DEF Writes
  <2>5. CASE RequestStep(r)
    <3>1. CASE CheckBalance(r)
      BY <1>0, <3>1 DEF CheckBalance
    <3>2. CASE EnsureCache(r)
      BY <1>0, <3>2 DEF EnsureCache
    <3>3. CASE EnsureFails(r)
      BY <1>0, <3>3 DEF EnsureFails
    <3>4. CASE PreDeduct(r)
      BY <1>0, <3>4 DEF PreDeduct, Writes
    <3>5. CASE PreDeductFails(r)
      BY <1>0, <3>5 DEF PreDeductFails
    <3>6. CASE Undo(r)
      BY <1>0, <3>6 DEF Undo
    <3>7. ASSUME NEW c \in Nat, NEW s \in {"settled", "short"}, Settled(r, c, s),
                 pc[r] \in {"serving", "settleUndo"}, UNCHANGED <<fill, est>>
          PROVE  Linked'
      <4>1. LinkedAt(r)'
        BY <1>0, <3>7 DEF Settled, Writes
      <4> QED
        BY <1>0, <3>7, <4>1, LinkedLocal DEF Settled
    <3>8. CASE SettleRefund(r)
      BY <3>7, <3>8 DEF SettleRefund
    <3>9. CASE SettleExtra(r)
      <4>1. PICK c \in Nat :
              IF cache' < 0
                THEN /\ cost' = [cost EXCEPT ![r] = c]
                     /\ Go(r, "settleUndo") /\ UNCHANGED write
                ELSE Settled(r, c, "settled")
        BY <3>9 DEF SettleExtra
      <4> QED
        BY <1>0, <3>7, <3>9, <4>1 DEF SettleExtra
    <3>10. CASE SettleUndo(r)
      BY <3>7, <3>10 DEF SettleUndo
    <3>11. CASE SettleFails(r)
      BY <3>7, <3>11 DEF SettleFails
    <3> QED
      BY <2>5, <3>1, <3>2, <3>3, <3>4, <3>5, <3>6, <3>8, <3>9, <3>10, <3>11 DEF RequestStep
  <2> QED
    BY <1>4, <2>1, <2>2, <2>3, <2>4, <2>5
<1> QED
  BY <1>0, <1>1, <1>2, <1>3, <1>4 DEF Next, Proc

\* What a request has booked is a number.
LEMMA BookedInt == TypeOK => \A r \in Requests : Booked(r) \in Int
BY DEF TypeOK, Booked, Amount

\* What all requests together have taken moves with the one that moves.
LEMMA BookedMoves ==
  ASSUME TypeOK, TypeOK', NEW k \in Requests,
         \A r \in Requests : r # k => Booked(r)' = Booked(r)
  PROVE  TotalBooked' = TotalBooked + (Booked(k)' - Booked(k))
<1> DEFINE f == [r \in Requests |-> Booked(r)]
           g == [r \in Requests |-> Booked(r)']
<1>1. (\A r \in Requests : Booked(r) \in Int) /\ (\A r \in Requests : Booked(r)' \in Int)
  BY BookedInt DEF TypeOK, Booked, Amount
<1>2. f \in [1..NumRequests -> Int] /\ g \in [1..NumRequests -> Int]
  BY <1>1 DEF Requests
<1>3. k \in 1..NumRequests /\ \A r \in 1..NumRequests : r # k => g[r] = f[r]
  BY DEF Requests
<1>4. g[k] = Booked(k)' /\ f[k] = Booked(k)
  OBVIOUS
<1>5. TotalBooked = Total(f, NumRequests) /\ TotalBooked' = Total(g, NumRequests)
  BY DEF TotalBooked
<1> HIDE DEF f, g
<1>6. Total(g, NumRequests) = Total(f, NumRequests) + (g[k] - f[k])
  BY <1>2, <1>3, TotalUpdate, SMTT(30) DEF BillingAssumption
<1> QED
  BY <1>4, <1>5, <1>6

\* A step that changes what no request has booked leaves the total.
LEMMA BookedStays ==
  ASSUME \A r \in Requests : Booked(r)' = Booked(r)
  PROVE  TotalBooked' = TotalBooked
<1>1. [r \in Requests |-> Booked(r)'] = [r \in Requests |-> Booked(r)]
  OBVIOUS
<1> QED
  BY <1>1 DEF TotalBooked

\* Initially the row is the deposit and nothing is booked.
LEMMA ConservedInit == Init => LedgerConserved
<1> SUFFICES ASSUME Init PROVE LedgerConserved
  OBVIOUS
<1> DEFINE f == [r \in Requests |-> Booked(r)]
<1>1. \A r \in Requests : Booked(r) = 0
  BY DEF Init, Booked, Landed, Writes
<1>2. f \in [1..NumRequests -> Int] /\ \A r \in 1..NumRequests : f[r] = 0
  BY <1>1 DEF Requests
<1>3. TotalBooked = Total(f, NumRequests)
  BY DEF TotalBooked
<1> HIDE DEF f
<1>4. TotalBooked = 0
  BY <1>2, <1>3, TotalZero
<1> QED
  BY <1>4 DEF Init, LedgerConserved

\* A write moves the row and what its request has booked by the same amount.
LEMMA ConservedStep ==
  TypeOK /\ TypeOK' /\ Linked /\ LedgerConserved /\ [Next]_vars => LedgerConserved'
<1> SUFFICES ASSUME TypeOK, TypeOK', Linked, LedgerConserved, [Next]_vars
             PROVE  LedgerConserved'
  OBVIOUS
<1> USE DEF At, Go, wallet, ledger, codes, local
<1>0. TotalBooked \in Int
  <2> DEFINE f == [r \in Requests |-> Booked(r)]
  <2>1. f \in [1..NumRequests -> Int]
    BY BookedInt DEF Requests
  <2>2. TotalBooked = Total(f, NumRequests)
    BY DEF TotalBooked
  <2> HIDE DEF f
  <2> QED
    BY <2>1, <2>2, TotalType
<1>a. /\ row \in Int /\ credited \in Int /\ row' \in Int /\ credited' \in Int
      /\ Opening \in Int /\ CodeValue \in Int /\ ChargeValue \in Int
  BY DEF TypeOK, BillingAssumption
<1>1. ASSUME UNCHANGED <<est, cost, write>>, NEW d \in Int,
             row' = row + d, credited' = credited + d
      PROVE  LedgerConserved'
  <2>1. TotalBooked' = TotalBooked
    BY <1>1, BookedStays DEF Booked, Amount
  <2> QED
    BY <1>0, <1>a, <1>1, <2>1 DEF LedgerConserved
<1>2. ASSUME UNCHANGED ledger, \A r \in Requests : Booked(r)' = Booked(r)
      PROVE  LedgerConserved'
  BY <1>2, BookedStays DEF LedgerConserved
<1>b. ASSUME UNCHANGED <<ledger, est, cost, write>> PROVE LedgerConserved'
  BY <1>2, <1>b DEF Booked, Amount
<1>3. CASE UNCHANGED vars
  BY <1>b, <1>3 DEF vars
<1>4. ASSUME NEW p \in Proc, FillStep(p) PROVE LedgerConserved'
  BY <1>b, <1>4 DEF FillStep, CacheMiss, ReadRow, ReadFails, FillCache
<1>5. ASSUME NEW p \in Redeemers, RedeemStep(p) PROVE LedgerConserved'
  <2>1. CASE RedeemCommit(p)
    BY <1>a, <1>1, <2>1 DEF RedeemCommit
  <2> QED
    BY <1>b, <1>5, <2>1 DEF RedeemStep, RedeemStart, RedeemLock, RedeemRollback,
         SyncCache
<1>6. ASSUME NEW p \in Chargers, ChargeStep(p) PROVE LedgerConserved'
  <2>1. CASE ChargeAdd(p)
    <3>1. CASE UNCHANGED ledger
      BY <1>b, <2>1, <3>1 DEF ChargeAdd
    <3>2. CASE row' = row + ChargeValue /\ credited' = credited + ChargeValue
      BY <1>a, <1>1, <2>1, <3>2 DEF ChargeAdd
    <3> QED
      BY <2>1, <3>1, <3>2 DEF ChargeAdd, AddBalance
  <2> QED
    BY <1>b, <1>6, <2>1 DEF ChargeStep, ChargeStart, ChargeRead, SyncCache
<1>7. CASE Evict
  BY <1>b, <1>7 DEF Evict
<1>8. ASSUME NEW r \in Requests, Abandon(r) PROVE LedgerConserved'
  BY <1>b, <1>8 DEF Abandon
<1>9. ASSUME NEW r \in Requests, Arrive(r) PROVE LedgerConserved'
  BY <1>2, <1>9 DEF Arrive, Linked, LinkedAt, Booked, Amount, Landed, TypeOK
<1>10. ASSUME NEW r \in Requests, RequestStep(r) PROVE LedgerConserved'
  <2>1. ASSUME NEW c \in Nat, NEW s, Settled(r, c, s), UNCHANGED <<ledger, est>>,
               pc[r] \in {"serving", "settleUndo"}
        PROVE  LedgerConserved'
    <3>1. LinkedAt(r) /\ write[r]["adjust"] = "none"
      BY <2>1 DEF Linked, LinkedAt
    <3>2. /\ write'[r]["adjust"] \in {"none", "queued"}
          /\ write'[r]["hold"] = write[r]["hold"]
          /\ \A q \in Requests : q # r => write'[q] = write[q] /\ cost'[q] = cost[q]
      BY <2>1, <3>1 DEF Settled, TypeOK, Writes
    <3>3. \A q \in Requests : Booked(q)' = Booked(q)
      BY <2>1, <3>1, <3>2 DEF Booked, Amount, Landed
    <3> QED
      BY <1>2, <2>1, <3>3
  <2>2. CASE PreDeduct(r)
    BY <1>2, <2>2 DEF PreDeduct, Linked, LinkedAt, Booked, Amount, Landed, TypeOK, Writes
  <2>3. CASE SettleRefund(r)
    BY <2>1, <2>3 DEF SettleRefund
  <2>4. CASE SettleUndo(r)
    BY <2>1, <2>4 DEF SettleUndo, TypeOK
  <2>5. CASE SettleFails(r)
    BY <2>1, <2>5 DEF SettleFails
  <2>6. CASE SettleExtra(r)
    <3>1. PICK c \in Nat :
            IF cache' < 0
              THEN /\ cost' = [cost EXCEPT ![r] = c]
                   /\ Go(r, "settleUndo") /\ UNCHANGED write
              ELSE Settled(r, c, "settled")
      BY <2>6 DEF SettleExtra
    <3>2. CASE cache' < 0
      BY <1>2, <2>6, <3>1, <3>2
         DEF SettleExtra, Linked, LinkedAt, Booked, Amount, Landed, TypeOK
    <3> QED
      BY <2>1, <2>6, <3>1, <3>2 DEF SettleExtra
  <2>7. CASE CheckBalance(r) \/ EnsureCache(r) \/ EnsureFails(r)
             \/ PreDeductFails(r) \/ Undo(r)
    BY <1>b, <2>7 DEF CheckBalance, EnsureCache, EnsureFails, PreDeductFails, Undo
  <2> QED
    BY <1>10, <2>2, <2>3, <2>4, <2>5, <2>6, <2>7 DEF RequestStep
<1>11. ASSUME NEW r \in Requests, LedgerStep(r) PROVE LedgerConserved'
  <2>1. CASE ApplyWrite(r)
    <3>1. PICK w \in Writes : /\ write[r][w] = "queued"
                              /\ AddBalance(Amount(r, w))
                              /\ write' = [write EXCEPT ![r][w] = "applied"]
      BY <2>1 DEF ApplyWrite
    <3>2. \A q \in Requests : q # r => Booked(q)' = Booked(q)
      BY <2>1, <3>1 DEF ApplyWrite, Booked, Amount, TypeOK
    <3>3. Amount(r, w) \in Int /\ Booked(r) \in Int
      BY BookedInt DEF Amount, TypeOK
    <3>4. Booked(r)' = Booked(r) - Amount(r, w)
      BY <2>1, <3>1 DEF ApplyWrite, Booked, Amount, Landed, TypeOK, Writes
    <3>5. TotalBooked' = TotalBooked + (Booked(r)' - Booked(r))
      BY <3>2, BookedMoves
    <3>6. row' = row + Amount(r, w) /\ credited' = credited
      BY <2>1, <3>1 DEF ApplyWrite, AddBalance
    <3> QED
      BY <1>0, <1>a, <3>3, <3>4, <3>5, <3>6 DEF LedgerConserved
  <2>2. CASE LogWrite(r)
    BY <1>2, <2>2 DEF LogWrite, Booked, Amount, Landed, TypeOK, Writes
  <2>3. CASE WriteFails(r)
    BY <1>2, <2>3 DEF WriteFails, Booked, Amount, Landed, TypeOK, Writes
  <2> QED
    BY <1>11, <2>1, <2>2, <2>3 DEF LedgerStep
<1> QED
  BY <1>3, <1>4, <1>5, <1>6, <1>7, <1>8, <1>9, <1>10, <1>11 DEF Next

\* The row never drifts from the opening balance, the committed top-ups and
\* the writes that landed: AddBalance is atomic and nothing else touches it.
THEOREM Conservation == Spec => []LedgerConserved
<1>1. Init => TypeOK /\ Linked /\ LedgerConserved
  BY TypeInit, LinkedInit, ConservedInit
<1>2. TypeOK /\ Linked /\ LedgerConserved /\ [Next]_vars
        => (TypeOK /\ Linked /\ LedgerConserved)'
  BY TypeStep, LinkedStep, ConservedStep
<1> QED
  BY <1>1, <1>2, PTL DEF Spec

\* A request at rest whose writes landed has cost the row its price: the
\* adjustment that Settle queues is exactly the error of the pre-deduction.
THEOREM ClosedBooks == Spec => []BooksClose
<1>1. Init => TypeOK /\ Linked
  BY TypeInit, LinkedInit
<1>2. TypeOK /\ Linked /\ [Next]_vars => (TypeOK /\ Linked)'
  BY TypeStep, LinkedStep
<1>3. TypeOK /\ Linked => BooksClose
  <2> SUFFICES ASSUME TypeOK, Linked, NEW r \in Requests, Over(r), Flushed(r)
               PROVE  Booked(r) = Billed(r)
    BY DEF BooksClose
  <2>1. LinkedAt(r)
    BY DEF Linked
  <2>2. \A w \in Writes : write[r][w] \in {"none"} \cup Landed
    BY DEF Flushed
  <2> QED
    BY <2>1, <2>2 DEF LinkedAt, Over, Billed, Booked, Amount, Landed, TypeOK, Writes
<1> QED
  BY <1>1, <1>2, <1>3, PTL DEF Spec

(***************************************************************************)
(* Redeem codes.                                                           *)
(***************************************************************************)

\* No step redeems a code twice, or without its lock.
LEMMA GuardedStep == TypeOK /\ CodesGuarded /\ [Next]_vars => CodesGuarded'
<1> SUFFICES ASSUME TypeOK, CodesGuarded, [Next]_vars PROVE CodesGuarded'
  OBVIOUS
<1>0. /\ Requests \subseteq Proc /\ TopUps \subseteq Proc
      /\ \A p \in TopUps : p \notin Requests
      /\ Redeemers \subseteq TopUps /\ Chargers \subseteq TopUps
      /\ \A p \in Redeemers : p \notin Chargers
  BY DEF Proc, TopUps
<1> USE DEF At, Go, wallet, ledger, codes, local, Paid
<1>1. ASSUME UNCHANGED codes, \A p \in Redeemers : pc'[p] = pc[p]
      PROVE  CodesGuarded'
  BY <1>1 DEF CodesGuarded
<1>2. CASE UNCHANGED vars
  BY <1>1, <1>2 DEF vars
<1>3. CASE Evict
  BY <1>1, <1>3 DEF Evict
<1>4. ASSUME NEW r \in Requests,
             Arrive(r) \/ RequestStep(r) \/ LedgerStep(r) \/ Abandon(r)
      PROVE  CodesGuarded'
  <2>1. UNCHANGED codes /\ \E s : pc' = pc \/ pc' = [pc EXCEPT ![r] = s]
    BY <1>4 DEF Arrive, Abandon, LedgerStep, ApplyWrite, LogWrite, WriteFails,
         RequestStep, CheckBalance, EnsureCache, EnsureFails, PreDeduct,
         PreDeductFails, Undo, SettleRefund, SettleExtra, SettleUndo, SettleFails, Settled
  <2>2. \A p \in Redeemers : pc'[p] = pc[p]
    BY <1>0, <2>1 DEF TypeOK
  <2> QED
    BY <1>1, <2>1, <2>2
<1>5. ASSUME NEW p \in Proc, FillStep(p) PROVE CodesGuarded'
  <2>1. UNCHANGED codes /\ (pc' = pc \/ \E s \in {"denied", "add"} : pc' = [pc EXCEPT ![p] = s])
    BY <1>5 DEF FillStep, CacheMiss, ReadRow, ReadFails, FillCache
  <2> QED
    BY <1>0, <2>1 DEF TypeOK, CodesGuarded
<1>6. ASSUME NEW p \in Chargers, ChargeStep(p) PROVE CodesGuarded'
  <2>1. UNCHANGED codes /\ \E s : pc' = [pc EXCEPT ![p] = s]
    BY <1>6 DEF ChargeStep, ChargeStart, ChargeRead, ChargeAdd, SyncCache
  <2>2. \A q \in Redeemers : pc'[q] = pc[q]
    BY <1>0, <2>1 DEF TypeOK
  <2> QED
    BY <1>1, <2>1, <2>2
<1>7. ASSUME NEW p \in Redeemers, RedeemStep(p) PROVE CodesGuarded'
  <2>1. CASE RedeemStart(p)
    BY <1>0, <2>1 DEF RedeemStart, CodesGuarded, TypeOK
  <2>2. CASE RedeemLock(p)
    <3>1. CASE want[p] \in used
      BY <1>0, <2>2, <3>1 DEF RedeemLock, CodesGuarded, TypeOK
    <3>2. CASE want[p] \notin used
      <4>1. /\ holder' = [holder EXCEPT ![want[p]] = p]
            /\ pc' = [pc EXCEPT ![p] = "locked"] /\ UNCHANGED <<used, want>>
            /\ holder[want[p]] = "free"
        BY <2>2, <3>2 DEF RedeemLock
      <4>2. \A q \in Redeemers : At(q, "locked") => want[q] # want[p]
        BY <4>1 DEF CodesGuarded, BillingAssumption
      <4>3. ASSUME NEW q \in Redeemers, q # p
            PROVE  /\ At(q, "locked")' => holder'[want'[q]] = q /\ want'[q] \notin used'
                   /\ Paid(q)' => want'[q] \in used'
        BY <1>0, <4>1, <4>2, <4>3 DEF CodesGuarded, TypeOK
      <4>4. holder'[want'[p]] = p /\ want'[p] \notin used' /\ ~ Paid(p)'
        BY <1>0, <3>2, <4>1 DEF TypeOK
      <4> QED
        BY <4>3, <4>4 DEF CodesGuarded
    <3> QED
      BY <3>1, <3>2
  <2>3. CASE RedeemCommit(p)
    BY <1>0, <2>3 DEF RedeemCommit, CodesGuarded, TypeOK
  <2>4. CASE RedeemRollback(p)
    BY <1>0, <2>4 DEF RedeemRollback, CodesGuarded, TypeOK
  <2>5. CASE SyncCache(p)
    BY <1>0, <2>5 DEF SyncCache, CodesGuarded, TypeOK
  <2> QED
    BY <1>7, <2>1, <2>2, <2>3, <2>4, <2>5 DEF RedeemStep
<1> QED
  BY <1>2, <1>3, <1>4, <1>5, <1>6, <1>7 DEF Next

\* A second caller cannot credit a code: the row lock of the first is still
\* there, or the row says it is used.
LEMMA CreditStep ==
  ASSUME TypeOK, CodesGuarded, OneCreditPerCode, [Next]_vars
  PROVE  OneCreditPerCode'
<1>0. /\ Requests \subseteq Proc /\ TopUps \subseteq Proc
      /\ \A p \in TopUps : p \notin Requests
      /\ Redeemers \subseteq TopUps /\ Chargers \subseteq TopUps
      /\ \A p \in Redeemers : p \notin Chargers
  BY DEF Proc, TopUps, BillingAssumption
<1> USE DEF At, Go, wallet, ledger, codes, local
<1>1. ASSUME UNCHANGED want, \A p \in Redeemers : Paid(p)' => Paid(p)
      PROVE  OneCreditPerCode'
  BY <1>1 DEF OneCreditPerCode
<1>2. CASE UNCHANGED vars
  BY <1>1, <1>2 DEF vars, Paid
<1>3. CASE Evict
  BY <1>1, <1>3 DEF Evict, Paid
<1>4. ASSUME NEW r \in Requests,
             Arrive(r) \/ RequestStep(r) \/ LedgerStep(r) \/ Abandon(r)
      PROVE  OneCreditPerCode'
  <2>1. UNCHANGED codes /\ \E s : pc' = pc \/ pc' = [pc EXCEPT ![r] = s]
    BY <1>4 DEF Arrive, Abandon, LedgerStep, ApplyWrite, LogWrite, WriteFails,
         RequestStep, CheckBalance, EnsureCache, EnsureFails, PreDeduct,
         PreDeductFails, Undo, SettleRefund, SettleExtra, SettleUndo, SettleFails, Settled
  <2>2. \A p \in Redeemers : pc'[p] = pc[p]
    BY <1>0, <2>1 DEF TypeOK
  <2> QED
    BY <1>1, <2>1, <2>2 DEF Paid
<1>5. ASSUME NEW p \in Proc, FillStep(p) PROVE OneCreditPerCode'
  <2>1. UNCHANGED codes /\ (pc' = pc \/ \E s \in {"denied", "add"} : pc' = [pc EXCEPT ![p] = s])
    BY <1>5 DEF FillStep, CacheMiss, ReadRow, ReadFails, FillCache
  <2> QED
    BY <1>0, <1>1, <2>1 DEF TypeOK, Paid
<1>6. ASSUME NEW p \in Chargers, ChargeStep(p) PROVE OneCreditPerCode'
  <2>1. UNCHANGED codes /\ \E s : pc' = [pc EXCEPT ![p] = s]
    BY <1>6 DEF ChargeStep, ChargeStart, ChargeRead, ChargeAdd, SyncCache
  <2>2. \A q \in Redeemers : pc'[q] = pc[q]
    BY <1>0, <2>1 DEF TypeOK
  <2> QED
    BY <1>1, <2>1, <2>2 DEF Paid
<1>7. ASSUME NEW p \in Redeemers, RedeemStep(p) PROVE OneCreditPerCode'
  <2>1. CASE RedeemCommit(p)
    <3>1. At(p, "locked") /\ UNCHANGED want /\ pc' = [pc EXCEPT ![p] = "sync"]
      BY <2>1 DEF RedeemCommit
    <3>2. \A q \in Redeemers : Paid(q) => want[q] # want[p]
      BY <3>1 DEF CodesGuarded
    <3>3. \A q \in Redeemers : q # p => Paid(q)' = Paid(q)
      BY <1>0, <3>1 DEF Paid, TypeOK
    <3> QED
      BY <3>1, <3>2, <3>3 DEF OneCreditPerCode
  <2>2. CASE RedeemStart(p) \/ RedeemLock(p) \/ RedeemRollback(p)
    BY <1>0, <1>1, <2>2 DEF RedeemStart, RedeemLock, RedeemRollback, Paid, TypeOK
  <2>3. CASE SyncCache(p)
    BY <1>0, <1>1, <2>3 DEF SyncCache, Paid, TypeOK
  <2> QED
    BY <1>7, <2>1, <2>2, <2>3 DEF RedeemStep
<1> QED
  BY <1>2, <1>3, <1>4, <1>5, <1>6, <1>7 DEF Next

\* A code pays at most one of the console calls that race for it, whatever
\* number of them and in whatever order they lock, commit and roll back.
THEOREM OneCredit == Spec => []OneCreditPerCode
<1>1. Init => TypeOK /\ CodesGuarded /\ OneCreditPerCode
  <2> SUFFICES ASSUME Init PROVE CodesGuarded /\ OneCreditPerCode
    BY TypeInit
  <2>1. \A p \in Redeemers : pc[p] = "idle"
    BY DEF Init, Proc, TopUps, BillingAssumption
  <2> QED
    BY <2>1 DEF CodesGuarded, OneCreditPerCode, At, Paid
<1>2. TypeOK /\ CodesGuarded /\ OneCreditPerCode /\ [Next]_vars
        => (TypeOK /\ CodesGuarded /\ OneCreditPerCode)'
  BY TypeStep, GuardedStep, CreditStep
<1> QED
  BY <1>1, <1>2, PTL DEF Spec

(***************************************************************************)
(* The kept key: a user whose key is in Redis and stays there and who does *)
(* not top up, for any number of requests and any amounts (KeyKept).  No   *)
(* money is held twice, and the two-round-trip debit implements an atomic  *)
(* one, whatever MySQL writes fail and whenever the process stops.         *)
(* Without any failure (Steady) the key drifts from the row only by the    *)
(* shortfalls.                                                             *)
(***************************************************************************)

\* The steps of request r that need no failure.
SteadyRequestStep(r) ==
  \/ Arrive(r) \/ CheckBalance(r) \/ EnsureCache(r) \/ PreDeduct(r) \/ Undo(r)
  \/ SettleRefund(r) \/ SettleExtra(r) \/ SettleUndo(r)
  \/ ApplyWrite(r) \/ LogWrite(r)

\* The failure-free life is one in which the key is kept.
LEMMA SteadyIsKept ==
  /\ Steady => KeyKept
  /\ TypeOK /\ Backed => Covered
<1>1. Steady => KeyKept
  BY DEF Steady, KeyKept
<1>2. ASSUME TypeOK, Backed PROVE Covered
  BY <1>2 DEF Backed, SteadyAt, Covered, TypeOK
<1> QED
  BY <1>1, <1>2

\* While Redis keeps the key and nobody tops up, only requests step, and never
\* to fill the key.
LEMMA CoveredSteps ==
  ASSUME KeyKept, Covered, [Next]_vars
  PROVE  \/ UNCHANGED vars
         \/ \E r \in Requests : SteadyRequestStep(r) \/ WriteFails(r) \/ Abandon(r)
<1>0. /\ Redeemers = {} /\ Chargers = {} /\ Proc = Requests
      /\ "redis" \notin Faults /\ "evict" \notin Faults
  BY DEF KeyKept, TopUps, Proc
<1> USE DEF Fault
<1>1. ASSUME NEW p \in Proc, FillStep(p) PROVE FALSE
  <2>1. p \in Requests /\ fill[p] = "get" /\ key = "present"
    BY <1>0 DEF Covered, CoveredAt
  <2> QED
    BY <1>0, <1>1, <2>1 DEF FillStep, CacheMiss, ReadRow, ReadFails, FillCache
<1>2. ~ Evict
  BY <1>0 DEF Evict
<1>3. ASSUME NEW r \in Requests, RequestStep(r) PROVE SteadyRequestStep(r)
  BY <1>0, <1>3 DEF RequestStep, SteadyRequestStep, EnsureFails, PreDeductFails,
       SettleFails
<1>4. ASSUME NEW r \in Requests, LedgerStep(r)
      PROVE  SteadyRequestStep(r) \/ WriteFails(r)
  BY <1>4 DEF LedgerStep, SteadyRequestStep
<1>5. CASE Next
  <2>1. \E r \in Requests : Arrive(r) \/ RequestStep(r) \/ LedgerStep(r) \/ Abandon(r)
    BY <1>0, <1>1, <1>2, <1>5 DEF Next
  <2> QED
    BY <1>3, <1>4, <2>1 DEF SteadyRequestStep
<1> QED
  BY <1>5

\* Without failures nothing else is left.
LEMMA SteadySteps ==
  ASSUME Steady, TypeOK, Backed, [Next]_vars
  PROVE  UNCHANGED vars \/ \E r \in Requests : SteadyRequestStep(r)
<1>1. \A r \in Requests : ~ WriteFails(r) /\ ~ Abandon(r)
  BY DEF Steady, WriteFails, Abandon, Fault
<1> QED
  BY <1>1, SteadyIsKept, CoveredSteps

(***************************************************************************)
(* Sums over the requests.                                                 *)
(***************************************************************************)

\* What a request secures, exceeds or falls short by is a number.
LEMMA AmountsInt ==
  TypeOK => /\ \A r \in Requests : Secured(r) \in Int /\ Excess(r) \in Int
            /\ \A r \in Requests : Shortfall(r) \in Int
BY DEF TypeOK, Secured, Excess, Shortfall

\* The totals over the requests are numbers.
LEMMA TotalsInt ==
  ASSUME TypeOK
  PROVE  /\ TotalSecured \in Int /\ TotalExcess \in Int
         /\ TotalShortfall \in Int /\ TotalBooked \in Int
<1>1. /\ [r \in Requests |-> Secured(r)] \in [1..NumRequests -> Int]
      /\ [r \in Requests |-> Excess(r)] \in [1..NumRequests -> Int]
      /\ [r \in Requests |-> Shortfall(r)] \in [1..NumRequests -> Int]
      /\ [r \in Requests |-> Booked(r)] \in [1..NumRequests -> Int]
  BY AmountsInt, BookedInt DEF Requests
<1>2. NumRequests \in Nat
  BY DEF BillingAssumption
<1> QED
  BY <1>1, <1>2, TotalType DEF TotalSecured, TotalExcess, TotalShortfall, TotalBooked

\* A step of one request moves the total secured by what it moves its own.
LEMMA SecuredMoves ==
  ASSUME TypeOK, TypeOK', NEW k \in Requests,
         \A r \in Requests : r # k => Secured(r)' = Secured(r)
  PROVE  TotalSecured' = TotalSecured + (Secured(k)' - Secured(k))
<1> DEFINE f == [r \in Requests |-> Secured(r)]
           g == [r \in Requests |-> Secured(r)']
<1>a. NumRequests \in Nat
  BY DEF BillingAssumption
<1>1. (\A r \in Requests : Secured(r) \in Int) /\ (\A r \in Requests : Secured(r)' \in Int)
  BY DEF TypeOK, Secured
<1>2. f \in [1..NumRequests -> Int] /\ g \in [1..NumRequests -> Int]
  BY <1>1 DEF Requests
<1>3. k \in 1..NumRequests /\ \A r \in 1..NumRequests : r # k => g[r] = f[r]
  BY DEF Requests
<1>4. g[k] = Secured(k)' /\ f[k] = Secured(k)
  OBVIOUS
<1>5. TotalSecured = Total(f, NumRequests) /\ TotalSecured' = Total(g, NumRequests)
  BY DEF TotalSecured
<1> HIDE DEF f, g
<1>6. Total(g, NumRequests) = Total(f, NumRequests) + (g[k] - f[k])
  BY <1>2, <1>3, <1>a, TotalUpdate
<1> QED
  BY <1>4, <1>5, <1>6

\* A step of one request moves the total excess by what it moves its own.
LEMMA ExcessMoves ==
  ASSUME TypeOK, TypeOK', NEW k \in Requests,
         \A r \in Requests : r # k => Excess(r)' = Excess(r)
  PROVE  TotalExcess' = TotalExcess + (Excess(k)' - Excess(k))
<1> DEFINE f == [r \in Requests |-> Excess(r)]
           g == [r \in Requests |-> Excess(r)']
<1>a. NumRequests \in Nat
  BY DEF BillingAssumption
<1>1. (\A r \in Requests : Excess(r) \in Int) /\ (\A r \in Requests : Excess(r)' \in Int)
  BY DEF TypeOK, Excess
<1>2. f \in [1..NumRequests -> Int] /\ g \in [1..NumRequests -> Int]
  BY <1>1 DEF Requests
<1>3. k \in 1..NumRequests /\ \A r \in 1..NumRequests : r # k => g[r] = f[r]
  BY DEF Requests
<1>4. g[k] = Excess(k)' /\ f[k] = Excess(k)
  OBVIOUS
<1>5. TotalExcess = Total(f, NumRequests) /\ TotalExcess' = Total(g, NumRequests)
  BY DEF TotalExcess
<1> HIDE DEF f, g
<1>6. Total(g, NumRequests) = Total(f, NumRequests) + (g[k] - f[k])
  BY <1>2, <1>3, <1>a, TotalUpdate
<1> QED
  BY <1>4, <1>5, <1>6

\* (Stated of the state after a step, the only one it is used for.)
LEMMA ExcessNat ==
  ASSUME TypeOK', \A r \in Requests : CoveredAt(r)'
  PROVE  TotalExcess' >= 0
<1>1. \A r \in Requests : Excess(r)' \in Nat
  BY DEF TypeOK, CoveredAt, Excess
<1> DEFINE g == [r \in Requests |-> Excess(r)']
<1>2. g \in [1..NumRequests -> Nat]
  BY <1>1 DEF Requests
<1>3. TotalExcess' = Total(g, NumRequests)
  BY DEF TotalExcess
<1> HIDE DEF g
<1> QED
  BY <1>2, <1>3, TotalNat DEF BillingAssumption

(***************************************************************************)
(* What a step does to its request: the amounts it secures and holds in    *)
(* excess, and the phase it is in.                                         *)
(***************************************************************************)

\* A step of request k moves d into what it secures and x into its excess.
Moves(k, d, x) ==
  /\ Secured(k)' = Secured(k) + d /\ Excess(k)' = Excess(k) + x
  /\ \A r \in Requests : r # k =>
       Secured(r)' = Secured(r) /\ Excess(r)' = Excess(r) /\ PhaseOf(r)' = PhaseOf(r)

\* A request whose place and amounts stay is the same to the wallet.
LEMMA OthersStay ==
  ASSUME NEW k \in Requests,
         \A r \in Requests : r # k =>
           pc'[r] = pc[r] /\ est'[r] = est[r] /\ cost'[r] = cost[r]
  PROVE  \A r \in Requests : r # k =>
           Secured(r)' = Secured(r) /\ Excess(r)' = Excess(r) /\ PhaseOf(r)' = PhaseOf(r)
BY DEF Secured, Excess, PhaseOf

\* What that means for the reservation of k: nothing, refused, made, closed.
Shifts(k, d) ==
  \/ d = 0 /\ PhaseOf(k)' = PhaseOf(k)
  \/ d = 0 /\ PhaseOf(k) = "open" /\ PhaseOf(k)' = "refused"
  \/ /\ d \in Estimates /\ Secured(k) = 0
     /\ PhaseOf(k) = "open" /\ PhaseOf(k)' = "held" /\ cache' >= 0
  \/ /\ PhaseOf(k) = "held" /\ PhaseOf(k)' = "closed"
     /\ \E price \in Costs : \/ d = price - Secured(k)
                             \/ d = 0 /\ price > Secured(k)

Effect(k) ==
  \E d, x \in Int : /\ Moves(k, d, x) /\ Shifts(k, d)
                    /\ cache' = cache - d - x /\ (d <= 0 \/ cache' >= 0)

\* One way to show it: the four values before and after.
LEMMA EffectOf ==
  ASSUME TypeOK, NEW k \in Requests, NEW d \in Int, NEW x \in Int,
         \A r \in Requests : r # k =>
           pc'[r] = pc[r] /\ est'[r] = est[r] /\ cost'[r] = cost[r],
         Secured(k)' = Secured(k) + d, Excess(k)' = Excess(k) + x,
         Shifts(k, d), cache' = cache - d - x, d <= 0 \/ cache' >= 0
  PROVE  Effect(k)
<1>1. Moves(k, d, x)
  BY OthersStay DEF Moves
<1> QED
  BY <1>1 DEF Effect

\* While the key is kept, every step of a request but its end with the process
\* has one of the effects Effect lists.
LEMMA CoveredEffect ==
  ASSUME TypeOK, Linked, Covered, KeyKept, NEW k \in Requests, SteadyRequestStep(k)
  PROVE  Effect(k) /\ (\A r \in Requests : CoveredAt(r)') /\ UNCHANGED <<key, credited>>
<1>0. /\ k \in Proc /\ "redis" \notin Faults /\ CoveredAt(k) /\ LinkedAt(k)
      /\ cache \in Int /\ est[k] \in Nat /\ cost[k] \in Nat
      /\ Estimates \subseteq Nat /\ Costs \subseteq Nat
      /\ key = "present"
  BY DEF Proc, KeyKept, Covered, Linked, TypeOK, BillingAssumption
<1>a. \A r \in Requests : CoveredAt(r) /\ r \in Proc
  BY DEF Covered, Proc
<1> USE DEF At, Go, wallet, ledger, codes, local, Fault, RequestStages
<1>b. ASSUME \A r \in Requests : r # k =>
               /\ pc'[r] = pc[r] /\ est'[r] = est[r] /\ cost'[r] = cost[r]
               /\ fill'[r] = fill[r],
             CoveredAt(k)'
      PROVE  \A r \in Requests : CoveredAt(r)'
  BY <1>a, <1>b DEF CoveredAt
<1>1. CASE Arrive(k)
  <2>1. CoveredAt(k)'
    BY <1>0, <1>1 DEF Arrive, CoveredAt, TypeOK
  <2>2. Secured(k)' = Secured(k) + 0 /\ Excess(k)' = Excess(k) + 0 /\ Shifts(k, 0)
    BY <1>0, <1>1 DEF Arrive, Secured, Excess, Shifts, PhaseOf, TypeOK
  <2> QED
    BY <1>0, <1>b, <1>1, <2>1, <2>2, EffectOf DEF Arrive, TypeOK
<1>2. CASE CheckBalance(k)
  <2>1. CoveredAt(k)'
    BY <1>0, <1>2 DEF CheckBalance, CoveredAt, TypeOK
  <2>2. Secured(k)' = Secured(k) + 0 /\ Excess(k)' = Excess(k) + 0 /\ Shifts(k, 0)
    BY <1>0, <1>2 DEF CheckBalance, Secured, Excess, Shifts, PhaseOf, TypeOK
  <2> QED
    BY <1>0, <1>b, <1>2, <2>1, <2>2, EffectOf DEF CheckBalance, TypeOK
<1>3. CASE EnsureCache(k)
  <2>1. CoveredAt(k)'
    BY <1>0, <1>3 DEF EnsureCache, CoveredAt, TypeOK
  <2>2. Secured(k)' = Secured(k) + 0 /\ Excess(k)' = Excess(k) + 0 /\ Shifts(k, 0)
    BY <1>0, <1>3 DEF EnsureCache, Secured, Excess, Shifts, PhaseOf, TypeOK
  <2> QED
    BY <1>0, <1>b, <1>3, <2>1, <2>2, EffectOf DEF EnsureCache, TypeOK
<1>4. CASE PreDeduct(k)
  <2>1. CoveredAt(k)'
    BY <1>0, <1>4 DEF PreDeduct, CoveredAt, TypeOK
  <2>2. CASE cache' < 0
    <3>1. /\ Secured(k)' = Secured(k) + 0 /\ Excess(k)' = Excess(k) + est[k]
          /\ Shifts(k, 0)
      BY <1>0, <1>4, <2>2 DEF PreDeduct, Secured, Excess, Shifts, PhaseOf, TypeOK
    <3>2. cache' = cache - 0 - est[k]
      BY <1>0, <1>4 DEF PreDeduct
    <3>3. /\ pc' = [pc EXCEPT ![k] = "undo"]
          /\ UNCHANGED <<ledger, fill, est, cost, write>> /\ key' = "present"
      BY <1>4, <2>2 DEF PreDeduct
    <3>4. \A r \in Requests : r # k =>
               /\ pc'[r] = pc[r] /\ est'[r] = est[r] /\ cost'[r] = cost[r]
               /\ fill'[r] = fill[r]
      BY <3>3 DEF TypeOK
    <3>5. Effect(k)
      BY <1>0, <3>1, <3>2, <3>4, EffectOf
    <3> QED
      BY <1>0, <1>b, <2>1, <3>3, <3>4, <3>5
  <2>3. CASE ~ (cache' < 0)
    <3>0. est[k] \in Estimates
      BY <1>0, <1>4 DEF CoveredAt, PreDeduct
    <3>2. cache' = cache - est[k] - 0 /\ cache' >= 0
      BY <1>0, <1>4, <2>3 DEF PreDeduct
    <3>1. /\ Secured(k)' = Secured(k) + est[k] /\ Excess(k)' = Excess(k) + 0
          /\ Shifts(k, est[k])
      BY <1>0, <1>4, <2>3, <3>0, <3>2 DEF PreDeduct, Secured, Excess, Shifts, PhaseOf, TypeOK
    <3>a. /\ pc' = [pc EXCEPT ![k] = "serving"]
          /\ write' = [write EXCEPT ![k]["hold"] = "queued"]
          /\ UNCHANGED <<ledger, fill, est, cost>>
      BY <1>4, <2>3 DEF PreDeduct
    <3>3. \A r \in Requests : r # k =>
               /\ pc'[r] = pc[r] /\ est'[r] = est[r] /\ cost'[r] = cost[r]
               /\ fill'[r] = fill[r]
      BY <3>a DEF TypeOK
    <3>4. Effect(k)
      BY <1>0, <3>1, <3>2, <3>3, EffectOf
    <3> QED
      BY <1>0, <1>b, <1>4, <2>1, <3>3, <3>4 DEF PreDeduct
  <2> QED
    BY <2>2, <2>3
<1>5. CASE Undo(k)
  <2>1. CoveredAt(k)'
    BY <1>0, <1>5 DEF Undo, CoveredAt, TypeOK
  <2>2. /\ Secured(k)' = Secured(k) + 0 /\ Excess(k)' = Excess(k) + (0 - est[k])
        /\ Shifts(k, 0)
    BY <1>0, <1>5 DEF Undo, Secured, Excess, Shifts, PhaseOf, TypeOK
  <2>3. cache' = cache - 0 - (0 - est[k])
    BY <1>0, <1>5 DEF Undo
  <2> QED
    BY <1>0, <1>b, <1>5, <2>1, <2>2, <2>3, EffectOf DEF Undo, TypeOK
<1>6. CASE SettleRefund(k)
  <2>1. PICK c \in Costs :
          /\ c <= est[k]
          /\ IF c = est[k] THEN UNCHANGED wallet
             ELSE cache' = cache + (est[k] - c) /\ key' = "present"
          /\ Settled(k, c, "settled")
    BY <1>6, Zenon DEF SettleRefund
  <2>2. At(k, "serving") /\ UNCHANGED <<ledger, codes, fill, snap, est>>
    BY <1>6 DEF SettleRefund
  <2>4. CoveredAt(k)'
    BY <1>0, <2>1, <2>2 DEF Settled, CoveredAt, TypeOK
  <2>a. c \in Nat
    BY <1>0
  <2>b. cache' = cache + (est[k] - c)
    BY <1>0, <2>1, <2>a
  <2>5. cache' = cache - (c - est[k]) - 0 /\ c - est[k] <= 0 /\ c - est[k] \in Int
    BY <1>0, <2>1, <2>a, <2>b
  <2>6. Secured(k)' = Secured(k) + (c - est[k]) /\ Excess(k)' = Excess(k) + 0
    BY <1>0, <2>1, <2>2 DEF Settled, Secured, Excess, TypeOK
  <2>7. Shifts(k, c - est[k])
    BY <1>0, <2>1, <2>2 DEF Settled, Secured, Shifts, PhaseOf, TypeOK
  <2>8. \A r \in Requests : r # k =>
               /\ pc'[r] = pc[r] /\ est'[r] = est[r] /\ cost'[r] = cost[r]
               /\ fill'[r] = fill[r]
    BY <1>0, <2>1, <2>2 DEF Settled, TypeOK
  <2>9. Effect(k)
    BY <1>0, <2>5, <2>6, <2>7, <2>8, EffectOf
  <2> QED
    BY <1>0, <1>b, <2>1, <2>2, <2>4, <2>8, <2>9
<1>7. CASE SettleExtra(k)
  <2>1. PICK c \in Costs :
          /\ c > est[k]
          /\ cache' = cache - (c - est[k]) /\ key' = "present"
          /\ IF cache' < 0
               THEN /\ cost' = [cost EXCEPT ![k] = c]
                    /\ Go(k, "settleUndo") /\ UNCHANGED write
               ELSE Settled(k, c, "settled")
    BY <1>7, Zenon DEF SettleExtra
  <2>2. At(k, "serving") /\ UNCHANGED <<ledger, codes, fill, snap, est>>
    BY <1>7 DEF SettleExtra
  <2>4. CoveredAt(k)'
    BY <1>0, <2>1, <2>2 DEF Settled, CoveredAt, TypeOK
  <2>5. c \in Nat /\ c - est[k] \in Int
    <3>1. Costs \subseteq Nat /\ est[k] \in Nat
      BY <1>0
    <3> QED
      BY <3>1
  <2>8. \A r \in Requests : r # k =>
               /\ pc'[r] = pc[r] /\ est'[r] = est[r] /\ cost'[r] = cost[r]
               /\ fill'[r] = fill[r]
    <3>1. CASE cache' < 0
      <4>1. /\ cost' = [cost EXCEPT ![k] = c] /\ pc' = [pc EXCEPT ![k] = "settleUndo"]
            /\ UNCHANGED <<write, fill, est>>
        BY <2>1, <2>2, <3>1
      <4> QED
        BY <4>1 DEF TypeOK
    <3>2. CASE ~ (cache' < 0)
      <4>1. Settled(k, c, "settled") /\ UNCHANGED <<fill, est>>
        BY <2>1, <2>2, <3>2
      <4> QED
        BY <4>1 DEF Settled, TypeOK
    <3> QED
      BY <3>1, <3>2
  <2>9. CASE cache' < 0
    <3>1. cache' = cache - 0 - (c - est[k])
      BY <1>0, <2>1, <2>5
    <3>2. Secured(k)' = Secured(k) + 0 /\ Excess(k)' = Excess(k) + (c - est[k])
      BY <1>0, <2>1, <2>2, <2>5, <2>9 DEF Secured, Excess, TypeOK
    <3>3. Shifts(k, 0)
      BY <1>0, <2>1, <2>2, <2>9 DEF Shifts, PhaseOf, TypeOK
    <3>4. Effect(k)
      BY <2>5, <2>8, <3>1, <3>2, <3>3, EffectOf
    <3> QED
      BY <1>0, <1>b, <2>1, <2>2, <2>4, <2>8, <3>4
  <2>10. CASE ~ (cache' < 0)
    <3>0. Settled(k, c, "settled")
      BY <2>1, <2>10
    <3>1. cache' = cache - (c - est[k]) - 0 /\ cache' >= 0
      BY <1>0, <2>1, <2>5, <2>10
    <3>2. Secured(k)' = Secured(k) + (c - est[k]) /\ Excess(k)' = Excess(k) + 0
      BY <1>0, <2>2, <2>5, <3>0 DEF Settled, Secured, Excess, TypeOK
    <3>3. Shifts(k, c - est[k])
      BY <1>0, <2>2, <3>0 DEF Settled, Secured, Shifts, PhaseOf, TypeOK
    <3>4. Effect(k)
      BY <2>5, <2>8, <3>1, <3>2, <3>3, EffectOf
    <3> QED
      BY <1>0, <1>b, <2>1, <2>2, <2>4, <2>8, <3>4
  <2> QED
    BY <2>9, <2>10
<1>8. CASE SettleUndo(k)
  <2>1. /\ At(k, "settleUndo") /\ Settled(k, cost[k], "short")
        /\ cache' = cache + (cost[k] - est[k]) /\ key' = "present"
        /\ UNCHANGED <<ledger, codes, fill, snap, est>>
    BY <1>0, <1>8 DEF SettleUndo
  <2>2. cost[k] \in Costs /\ cost[k] > est[k]
    BY <1>0, <2>1 DEF CoveredAt
  <2>4. CoveredAt(k)'
    BY <1>0, <2>1, <2>2 DEF Settled, CoveredAt, TypeOK
  <2>5. cache' = cache - 0 - (0 - (cost[k] - est[k])) /\ 0 - (cost[k] - est[k]) \in Int
    BY <1>0, <2>1
  <2>6. /\ Secured(k)' = Secured(k) + 0
        /\ Excess(k)' = Excess(k) + (0 - (cost[k] - est[k]))
    BY <1>0, <2>1 DEF Settled, Secured, Excess, TypeOK
  <2>7. Shifts(k, 0)
    BY <1>0, <2>1, <2>2 DEF Settled, Secured, Shifts, PhaseOf, TypeOK
  <2>8. \A r \in Requests : r # k =>
               /\ pc'[r] = pc[r] /\ est'[r] = est[r] /\ cost'[r] = cost[r]
               /\ fill'[r] = fill[r]
    BY <1>0, <2>1 DEF Settled, TypeOK
  <2>9. Effect(k)
    BY <2>5, <2>6, <2>7, <2>8, EffectOf
  <2> QED
    BY <1>0, <1>b, <2>1, <2>4, <2>8, <2>9
<1>9. CASE ApplyWrite(k) \/ LogWrite(k)
  <2>1. PICK w \in Writes, v \in {"applied", "logged"} :
          write' = [write EXCEPT ![k][w] = v]
    BY <1>9 DEF ApplyWrite, LogWrite
  <2>2. UNCHANGED <<wallet, credited, pc, fill, est, cost>>
    BY <1>9 DEF ApplyWrite, LogWrite
  <2>4. CoveredAt(k)'
    BY <1>0, <2>2 DEF CoveredAt
  <2>5. /\ Secured(k)' = Secured(k) + 0 /\ Excess(k)' = Excess(k) + 0
        /\ Shifts(k, 0) /\ cache' = cache - 0 - 0
    BY <1>0, <2>2, AmountsInt DEF Secured, Excess, Shifts, PhaseOf
  <2>6. Effect(k)
    BY <2>2, <2>5, EffectOf
  <2> QED
    BY <1>b, <2>2, <2>4, <2>6
<1> QED
  BY <1>1, <1>2, <1>3, <1>4, <1>5, <1>6, <1>7, <1>8, <1>9 DEF SteadyRequestStep

\* Without failures no request is abandoned and no write lost.
LEMMA SteadyEffect ==
  ASSUME TypeOK, Linked, Backed, Steady, NEW k \in Requests, SteadyRequestStep(k)
  PROVE  Effect(k) /\ (\A r \in Requests : SteadyAt(r)') /\ UNCHANGED <<key, credited>>
<1>1. Effect(k) /\ (\A r \in Requests : CoveredAt(r)') /\ UNCHANGED <<key, credited>>
  BY SteadyIsKept, CoveredEffect
<1>2. \A r \in Requests :
        /\ r \in Proc /\ pc[r] # "abandoned"
        /\ \A w \in Writes : write[r][w] \notin {"lost", "unlogged"}
  BY DEF Proc, Backed, SteadyAt
<1>3. \/ UNCHANGED write
      \/ \E w \in Writes, v \in {"queued", "applied", "logged"} :
           write' = [write EXCEPT ![k][w] = v]
  BY Zenon DEF SteadyRequestStep, Arrive, CheckBalance, EnsureCache, PreDeduct, Undo,
       SettleRefund, SettleExtra, SettleUndo, Settled, ApplyWrite, LogWrite, Writes
<1>4. \A r \in Requests, w \in Writes : write'[r][w] \notin {"lost", "unlogged"}
  BY <1>2, <1>3 DEF TypeOK
<1>5. \/ UNCHANGED pc
      \/ \E stage \in RequestStages \ {"abandoned"} : pc' = [pc EXCEPT ![k] = stage]
  BY DEF SteadyRequestStep, Arrive, CheckBalance, EnsureCache, PreDeduct, Undo,
       SettleRefund, SettleExtra, SettleUndo, Settled, ApplyWrite, LogWrite, Go, At,
       local, RequestStages
<1>6. \A r \in Requests : pc'[r] # "abandoned"
  BY <1>2, <1>5 DEF TypeOK
<1> QED
  BY <1>1, <1>4, <1>6 DEF SteadyAt

(***************************************************************************)
(* The invariant.                                                          *)
(***************************************************************************)

\* At the start nothing is taken and nothing is owed.
LEMMA TotalsInit ==
  ASSUME KeyKept, Init
  PROVE  /\ TotalSecured = 0 /\ TotalExcess = 0 /\ Opening \in Nat
         /\ cache = Opening /\ key = "present" /\ credited = 0
<1>0. Proc = Requests /\ Warm = TRUE /\ Opening \in Nat /\ NumRequests \in Nat
  BY DEF KeyKept, Proc, BillingAssumption
<1>2. \A r \in Requests : Secured(r) = 0 /\ Excess(r) = 0
  BY <1>0 DEF Init, Secured, Excess
<1>3. /\ [r \in Requests |-> Secured(r)] \in [1..NumRequests -> Int]
      /\ [r \in Requests |-> Excess(r)] \in [1..NumRequests -> Int]
  BY <1>2 DEF Requests
<1>4. TotalSecured = 0
  BY <1>0, <1>2, <1>3, TotalZero DEF TotalSecured, Requests
<1>5. TotalExcess = 0
  BY <1>0, <1>2, <1>3, TotalZero DEF TotalExcess, Requests
<1>6. cache = Opening /\ key = "present" /\ credited = 0
  BY <1>0 DEF Init
<1> QED
  BY <1>0, <1>4, <1>5, <1>6

\* So the key covers the debits at the start.
LEMMA CoveredInit ==
  ASSUME KeyKept, Init
  PROVE  Covered
<1>1. \A r \in Requests : CoveredAt(r)
  BY DEF KeyKept, Proc, Init, CoveredAt, RequestStages
<1> QED
  BY <1>1, TotalsInit DEF Covered

\* And it is exactly what they left.
LEMMA BackedInit ==
  ASSUME Steady, Init
  PROVE  Backed
<1>1. \A r \in Requests : SteadyAt(r)
  BY SteadyIsKept, CoveredInit DEF Covered, Steady, Proc, Init, SteadyAt, Writes
<1> QED
  BY <1>1, SteadyIsKept, TotalsInit DEF Backed

\* How the totals move with a step of one request.
LEMMA TotalsMove ==
  ASSUME TypeOK, TypeOK', NEW k \in Requests, NEW d \in Int, NEW x \in Int, Moves(k, d, x)
  PROVE  TotalSecured' = TotalSecured + d /\ TotalExcess' = TotalExcess + x
<1>1. Secured(k) \in Int /\ Excess(k) \in Int
  BY AmountsInt
<1>2. Secured(k)' - Secured(k) = d /\ Excess(k)' - Excess(k) = x
  BY <1>1 DEF Moves
<1>3. TotalSecured' = TotalSecured + (Secured(k)' - Secured(k))
  BY SecuredMoves DEF Moves
<1>4. TotalExcess' = TotalExcess + (Excess(k)' - Excess(k))
  BY ExcessMoves DEF Moves
<1> QED
  BY <1>2, <1>3, <1>4

\* The key covers the debits through every step of a request, its end with the
\* process included: there its debits stay in the key and count no more.
LEMMA CoveredStep ==
  ASSUME KeyKept, TypeOK, TypeOK', Linked, Covered, [Next]_vars
  PROVE  Covered'
<1>0. /\ TotalSecured \in Int /\ TotalExcess \in Int /\ Opening \in Int /\ cache \in Int
      /\ TotalSecured' \in Int /\ TotalExcess' \in Int /\ cache' \in Int
  <2>1. TotalSecured \in Int /\ TotalExcess \in Int
    BY TotalsInt
  <2>2. /\ \A r \in Requests : Secured(r)' \in Int /\ Excess(r)' \in Int
        /\ NumRequests \in Nat
    BY DEF TypeOK, Secured, Excess, BillingAssumption
  <2>3. /\ [r \in Requests |-> Secured(r)'] \in [1..NumRequests -> Int]
        /\ [r \in Requests |-> Excess(r)'] \in [1..NumRequests -> Int]
    BY <2>2 DEF Requests
  <2>4. TotalSecured' \in Int /\ TotalExcess' \in Int
    BY <2>2, <2>3, TotalType DEF TotalSecured, TotalExcess
  <2> QED
    BY <2>1, <2>4 DEF TypeOK, BillingAssumption
<1>b. /\ \A r \in Requests : CoveredAt(r)
      /\ cache <= Opening - TotalSecured - TotalExcess /\ TotalSecured <= Opening
      /\ key = "present" /\ credited = 0 /\ Proc = Requests
  BY DEF Covered, KeyKept, Proc
<1>1. CASE UNCHANGED vars
  BY <1>1 DEF vars, wallet, ledger, local, Covered, CoveredAt, TotalSecured,
       TotalExcess, Secured, Excess
<1>2. ASSUME NEW k \in Requests, SteadyRequestStep(k) PROVE Covered'
  <2>1. PICK d \in Int, x \in Int :
          /\ Moves(k, d, x) /\ cache' = cache - d - x
          /\ d <= 0 \/ cache' >= 0
    BY <1>2, CoveredEffect DEF Effect
  <2>2. (\A r \in Requests : CoveredAt(r)') /\ UNCHANGED <<key, credited>>
    BY <1>2, CoveredEffect
  <2>3. TotalSecured' = TotalSecured + d /\ TotalExcess' = TotalExcess + x
    BY <2>1, TotalsMove
  <2>4. TotalExcess' >= 0
    BY <2>2, ExcessNat
  <2>7. cache' <= Opening - TotalSecured' - TotalExcess'
    BY <1>0, <1>b, <2>1, <2>3
  <2>8. TotalSecured' <= Opening
    <3>1. CASE d <= 0
      BY <1>0, <1>b, <2>3, <3>1
    <3>2. CASE cache' >= 0
      <4>1. /\ TotalExcess + x >= 0 /\ cache - d - x >= 0
            /\ cache - d - x <= Opening - (TotalSecured + d) - (TotalExcess + x)
        BY <2>1, <2>3, <2>4, <2>7, <3>2
      <4>2. TotalSecured + d <= Opening
        BY <1>0, <4>1
      <4> QED
        BY <2>3, <4>2
    <3> QED
      BY <2>1, <3>1, <3>2
  <2> QED
    BY <1>b, <2>2, <2>7, <2>8 DEF Covered
<1>3. ASSUME NEW k \in Requests, WriteFails(k) PROVE Covered'
  BY <1>3 DEF WriteFails, wallet, ledger, local, Covered, CoveredAt, TotalSecured,
       TotalExcess, Secured, Excess
<1>4. ASSUME NEW k \in Requests, Abandon(k) PROVE Covered'
  <2>1. /\ pc' = [pc EXCEPT ![k] = "abandoned"] /\ fill' = [fill EXCEPT ![k] = "get"]
        /\ UNCHANGED <<cache, key, credited, est, cost>> /\ pc[k] # "new"
    BY <1>4 DEF Abandon, Go, wallet, ledger
  <2>2. \A r \in Requests : CoveredAt(r)'
    BY <1>b, <2>1 DEF CoveredAt, TypeOK, RequestStages
  <2>3. \A r \in Requests : r # k =>
          pc'[r] = pc[r] /\ est'[r] = est[r] /\ cost'[r] = cost[r]
    BY <2>1 DEF TypeOK
  <2>4. Secured(k)' = 0 /\ Excess(k)' = 0
    BY <1>b, <2>1 DEF Secured, Excess, TypeOK
  <2>5. /\ Secured(k) \in Int /\ Secured(k) >= 0
        /\ Excess(k) \in Int /\ Excess(k) >= 0
    BY <1>b DEF CoveredAt, Secured, Excess, TypeOK
  <2>6. TotalSecured' = TotalSecured + (Secured(k)' - Secured(k))
    BY <2>3, OthersStay, SecuredMoves
  <2>7. TotalExcess' = TotalExcess + (Excess(k)' - Excess(k))
    BY <2>3, OthersStay, ExcessMoves
  <2>8. /\ cache' <= Opening - TotalSecured' - TotalExcess'
        /\ TotalSecured' <= Opening
    BY <1>0, <1>b, <2>1, <2>4, <2>5, <2>6, <2>7
  <2> QED
    BY <1>b, <2>1, <2>2, <2>8 DEF Covered
<1> QED
  BY <1>1, <1>2, <1>3, <1>4, CoveredSteps

KeptInv == TypeOK /\ Linked /\ Covered

\* KeptInv is an invariant while the key is kept.
LEMMA KeptInvariant ==
  ASSUME KeyKept
  PROVE  Spec => []KeptInv
<1>1. Init => KeptInv
  BY TypeInit, LinkedInit, CoveredInit DEF KeptInv
<1>2. KeptInv /\ [Next]_vars => KeptInv'
  BY TypeStep, LinkedStep, CoveredStep DEF KeptInv
<1> QED
  BY <1>1, <1>2, PTL DEF Spec

\* Two requests never hold the same money while Redis keeps the key and nobody
\* tops up, for any number of requests, wherever MySQL writes fail and whenever
\* the process stops: a debit that would overdraw the key is negative at once
\* and is undone, and what a stop leaves taken is lost, not shared
\* (BalanceCache.DecrBy, application/billing/usecase.go PreDeduct and Settle).
THEOREM NoOverspendKept ==
  ASSUME KeyKept
  PROVE  Spec => []NoOverspend
<1>1. KeptInv => NoOverspend
  <2> SUFFICES ASSUME KeptInv PROVE NoOverspend
    OBVIOUS
  <2>1. TotalSecured <= Opening /\ credited = 0 /\ Opening \in Int
    BY DEF KeptInv, Covered, BillingAssumption
  <2> QED
    BY <2>1 DEF NoOverspend
<1> QED
  BY <1>1, KeptInvariant, PTL

\* Without failures the key is what the debits left through every step.
LEMMA BackedStep ==
  ASSUME Steady, TypeOK, TypeOK', Linked, Backed, [Next]_vars
  PROVE  Backed'
<1>1. CASE UNCHANGED vars
  BY <1>1 DEF vars, wallet, ledger, local, Backed, SteadyAt, CoveredAt, TotalSecured,
       TotalExcess, Secured, Excess
<1>2. ASSUME NEW k \in Requests, SteadyRequestStep(k) PROVE Backed'
  <2>1. PICK d \in Int, x \in Int :
          /\ Moves(k, d, x) /\ cache' = cache - d - x
          /\ d <= 0 \/ cache' >= 0
    BY <1>2, SteadyEffect DEF Effect
  <2>2. (\A r \in Requests : SteadyAt(r)') /\ UNCHANGED <<key, credited>>
    BY <1>2, SteadyEffect
  <2>3. TotalSecured' = TotalSecured + d /\ TotalExcess' = TotalExcess + x
    BY <2>1, TotalsMove
  <2>4. TotalExcess' >= 0
    BY <2>2, ExcessNat DEF SteadyAt
  <2>5. /\ TotalSecured \in Int /\ TotalExcess \in Int
        /\ Opening \in Int /\ cache \in Int
    BY TotalsInt DEF TypeOK, BillingAssumption
  <2>6. cache = Opening - TotalSecured - TotalExcess /\ TotalSecured <= Opening
    BY DEF Backed
  <2>7. cache' = Opening - TotalSecured' - TotalExcess'
    BY <2>1, <2>3, <2>5, <2>6
  <2>8. TotalSecured' <= Opening
    <3>1. CASE d <= 0
      BY <2>3, <2>5, <2>6, <3>1
    <3>2. CASE cache' >= 0
      BY <2>3, <2>4, <2>5, <2>7, <3>2
    <3> QED
      BY <2>1, <3>1, <3>2
  <2> QED
    BY <2>2, <2>7, <2>8 DEF Backed
<1> QED
  BY <1>1, <1>2, SteadySteps

SteadyInv == TypeOK /\ Linked /\ LedgerConserved /\ Backed

\* SteadyInv is an invariant without failures.
LEMMA SteadyInvariant ==
  ASSUME Steady
  PROVE  Spec => []SteadyInv
<1>1. Init => SteadyInv
  BY TypeInit, LinkedInit, ConservedInit, BackedInit DEF SteadyInv
<1>2. SteadyInv /\ [Next]_vars => SteadyInv'
  BY TypeStep, LinkedStep, ConservedStep, BackedStep DEF SteadyInv
<1> QED
  BY <1>1, <1>2, PTL DEF Spec

\* At rest the key shows the balance of the row plus what Settle could not
\* take from it.
THEOREM DriftSteady ==
  ASSUME Steady
  PROVE  Spec => []DriftIsShortfall
<1>1. SteadyInv => DriftIsShortfall
  <2> SUFFICES ASSUME SteadyInv, Quiet
               PROVE  cache = row + TotalShortfall
    BY DEF DriftIsShortfall
  <2> USE DEF SteadyInv
  <2>1. ASSUME NEW r \in Requests
        PROVE  Booked(r) = Secured(r) + Shortfall(r) /\ Excess(r) = 0
    <3>1. Over(r) /\ \A w \in Writes : write[r][w] \in {"none", "logged"}
      BY DEF Quiet, Backed, SteadyAt, TypeOK, WriteStates
    <3>2. LinkedAt(r) /\ est[r] \in Nat /\ cost[r] \in Nat
      BY DEF Linked, TypeOK
    <3> QED
      BY <3>1, <3>2 DEF Over, LinkedAt, Booked, Secured, Shortfall, Excess, Amount,
           Landed, Writes
  <2>2. NumRequests \in Nat /\ Requests = 1..NumRequests
    BY DEF BillingAssumption, Requests
  <2>3. TotalExcess = 0
    <3>1. [r \in Requests |-> Excess(r)] \in [1..NumRequests -> Int]
      BY <2>1, <2>2
    <3> QED
      BY <2>1, <2>2, <3>1, TotalZero DEF TotalExcess
  <2>4. TotalBooked = TotalSecured + TotalShortfall
    <3> DEFINE f == [r \in Requests |-> Secured(r)]
               g == [r \in Requests |-> Shortfall(r)]
               h == [r \in Requests |-> Booked(r)]
    <3>1. /\ f \in [1..NumRequests -> Int] /\ g \in [1..NumRequests -> Int]
          /\ h \in [1..NumRequests -> Int]
      BY <2>2, AmountsInt, BookedInt
    <3>2. \A r \in 1..NumRequests : h[r] = f[r] + g[r]
      BY <2>1, <2>2
    <3>3. /\ TotalBooked = Total(h, NumRequests)
          /\ TotalSecured = Total(f, NumRequests)
          /\ TotalShortfall = Total(g, NumRequests)
      BY DEF TotalBooked, TotalSecured, TotalShortfall
    <3> HIDE DEF f, g, h
    <3> QED
      BY <2>2, <3>1, <3>2, <3>3, TotalPlus
  <2>5. /\ cache = Opening - TotalSecured - TotalExcess
        /\ row = Opening + credited - TotalBooked /\ credited = 0
    BY DEF Backed, LedgerConserved
  <2>6. /\ TotalSecured \in Int /\ TotalShortfall \in Int
        /\ Opening \in Int
    BY TotalsInt DEF BillingAssumption
  <2> QED
    BY <2>3, <2>4, <2>5, <2>6
<1> QED
  BY <1>1, SteadyInvariant, PTL

(***************************************************************************)
(* Refinement.                                                             *)
(***************************************************************************)

\* The start of the service is a start of the wallet.
LEMMA WalletStart ==
  ASSUME KeyKept, Init
  PROVE  WalletView!WalletInit
<1>1. Proc = Requests
  BY DEF KeyKept, Proc
<1>2. \A r \in Requests : Secured(r) = 0 /\ PhaseOf(r) = "open" /\ Excess(r) = 0
  BY <1>1 DEF Init, Secured, Excess, PhaseOf
<1>5. cache + TotalExcess = Opening
  BY TotalsInit
<1> QED
  BY <1>2, <1>5 DEF WalletView!WalletInit

\* Every step of the gateway is a step of the atomic wallet, or none.
LEMMA WalletStep ==
  ASSUME KeyKept, KeptInv, TypeOK', [Next]_vars
  PROVE  [WalletView!WalletNext]_(WalletView!walletVars)
<1> DEFINE avail == cache + TotalExcess
           secured == [r \in Requests |-> Secured(r)]
           phase == [r \in Requests |-> PhaseOf(r)]
<1>1. CASE UNCHANGED vars
  BY <1>1 DEF vars, wallet, local, WalletView!walletVars, TotalExcess, Excess,
       Secured, PhaseOf
<1>2. ASSUME NEW k \in Requests, SteadyRequestStep(k)
      PROVE  [WalletView!WalletNext]_(WalletView!walletVars)
  <2>1. PICK d \in Int, x \in Int :
          /\ Moves(k, d, x) /\ Shifts(k, d)
          /\ cache' = cache - d - x /\ (d <= 0 \/ cache' >= 0)
    BY <1>2, CoveredEffect DEF Effect, KeptInv
  <2>2. TotalSecured' = TotalSecured + d /\ TotalExcess' = TotalExcess + x
    BY <2>1, TotalsMove DEF KeptInv
  <2>3. /\ TotalSecured \in Int /\ TotalExcess \in Int
        /\ Opening \in Int /\ cache \in Int
    BY TotalsInt DEF TypeOK, BillingAssumption, KeptInv
  <2>4. avail' = avail - d /\ avail \in Int
    BY <2>1, <2>2, <2>3
  <2>5. cache' >= 0 => d <= avail
    <3>1. TotalExcess' >= 0
      BY <1>2, CoveredEffect, ExcessNat DEF KeptInv
    <3> QED
      BY <2>1, <2>2, <2>3, <3>1
  <2>6. Secured(k) \in Int /\ secured[k] = Secured(k) /\ phase[k] = PhaseOf(k)
    BY AmountsInt DEF KeptInv
  <2>7. /\ secured' = [secured EXCEPT ![k] = Secured(k) + d]
        /\ phase' = [phase EXCEPT ![k] = PhaseOf(k)']
    BY <2>1 DEF Moves
  <2>8. d = 0 => UNCHANGED <<avail, secured>>
    <3>1. ASSUME d = 0 PROVE secured' = secured
      <4>1. Secured(k) + d = secured[k]
        BY <2>6, <3>1
      <4>2. secured' = [secured EXCEPT ![k] = secured[k]]
        BY <2>7, <4>1
      <4> HIDE DEF secured
      <4>3. secured = [r \in Requests |-> secured[r]]
        BY DEF secured
      <4> QED
        BY <4>2, <4>3
    <3> QED
      BY <2>4, <3>1
  <2> HIDE DEF avail, secured, phase
  <2>9. CASE d = 0 /\ PhaseOf(k)' = PhaseOf(k)
    <3>1. UNCHANGED <<avail, secured, phase>>
      BY <2>6, <2>7, <2>8, <2>9 DEF phase
    <3> QED
      BY <3>1 DEF WalletView!walletVars, avail, secured, phase
  <2>10. CASE d = 0 /\ PhaseOf(k) = "open" /\ PhaseOf(k)' = "refused"
    <3>1. WalletView!Refuse(k)
      BY <2>6, <2>7, <2>8, <2>10 DEF WalletView!Refuse, avail, secured, phase
    <3> QED
      BY <3>1 DEF WalletView!WalletNext
  <2>11. CASE /\ d \in Estimates /\ Secured(k) = 0
              /\ PhaseOf(k) = "open" /\ PhaseOf(k)' = "held" /\ cache' >= 0
    <3>1. Secured(k) + d = d
      BY <2>11
    <3>2. WalletView!Reserve(k)
      BY <2>4, <2>5, <2>6, <2>7, <2>11, <3>1
         DEF WalletView!Reserve, avail, secured, phase
    <3> QED
      BY <3>2 DEF WalletView!WalletNext
  <2>12. CASE /\ PhaseOf(k) = "held" /\ PhaseOf(k)' = "closed"
              /\ \E price \in Costs : \/ d = price - Secured(k)
                                      \/ d = 0 /\ price > Secured(k)
    <3>1. PICK price \in Costs : d = price - Secured(k) \/ (d = 0 /\ price > Secured(k))
      BY <2>12
    <3>2. price \in Int /\ price \in Estimates \cup Costs
      BY DEF BillingAssumption
    <3>3. CASE d = price - Secured(k)
      <4>1. Secured(k) + d = price
        BY <2>6, <3>2, <3>3
      <4>a. secured[k] \in Int /\ d = price - secured[k]
        BY <2>6, <3>3
      <4>b. price <= secured[k] \/ price - secured[k] <= avail
        <5>1. CASE d <= 0
          BY <3>2, <4>a, <5>1
        <5>2. CASE cache' >= 0
          BY <2>5, <4>a, <5>2
        <5> QED
          BY <2>1, <5>1, <5>2
      <4>2. /\ price <= secured[k] \/ price - secured[k] <= avail
            /\ avail' = avail - (price - secured[k])
            /\ secured' = [secured EXCEPT ![k] = price]
        BY <2>4, <2>7, <4>1, <4>a, <4>b
      <4>3. WalletView!Close(k)
        BY <2>6, <2>7, <2>12, <3>2, <4>2 DEF WalletView!Close, avail, secured, phase
      <4> QED
        BY <4>3 DEF WalletView!WalletNext
    <3>4. CASE d = 0 /\ price > Secured(k)
      <4>1. WalletView!Close(k)
        BY <2>6, <2>7, <2>8, <2>12, <3>2, <3>4 DEF WalletView!Close, avail, secured, phase
      <4> QED
        BY <4>1 DEF WalletView!WalletNext
    <3> QED
      BY <3>1, <3>3, <3>4
  <2> QED
    BY <2>1, <2>9, <2>10, <2>11, <2>12 DEF Shifts
<1>3. ASSUME NEW k \in Requests, WriteFails(k) PROVE UNCHANGED (WalletView!walletVars)
  BY <1>3 DEF WriteFails, wallet, local, WalletView!walletVars, TotalExcess, Excess,
       Secured, PhaseOf
<1>4. ASSUME NEW k \in Requests, Abandon(k) PROVE WalletView!Lose(k)
  <2>1. /\ pc' = [pc EXCEPT ![k] = "abandoned"]
        /\ pc[k] \in {"check", "ensure", "decr", "undo", "serving", "settleUndo"}
        /\ UNCHANGED <<cache, est, cost>>
    BY <1>4 DEF Abandon, Go, wallet
  <2>2. k \in Proc /\ CoveredAt(k) /\ TypeOK /\ est[k] \in Nat /\ cost[k] \in Nat
    BY DEF KeptInv, Covered, Proc, TypeOK
  <2>3. \A r \in Requests : r # k =>
          pc'[r] = pc[r] /\ est'[r] = est[r] /\ cost'[r] = cost[r]
    BY <2>1, <2>2 DEF TypeOK
  <2>4. /\ Secured(k)' = 0 /\ Excess(k)' = 0
        /\ PhaseOf(k) \in {"open", "held"} /\ PhaseOf(k)' = "lost"
    BY <2>1, <2>2 DEF Secured, Excess, PhaseOf, TypeOK
  <2>5. PICK a, b \in Estimates \cup Costs \cup {0} : a >= b /\ Excess(k) = a - b
    <3>1. CASE pc[k] = "undo"
      BY <2>2, <3>1 DEF CoveredAt, Excess
    <3>2. CASE pc[k] = "settleUndo"
      BY <2>2, <3>2 DEF CoveredAt, Excess
    <3>3. CASE pc[k] \notin {"undo", "settleUndo"}
      BY <3>3 DEF Excess
    <3> QED
      BY <3>1, <3>2, <3>3
  <2>6. TotalExcess' = TotalExcess + (Excess(k)' - Excess(k))
    BY <2>2, <2>3, OthersStay, ExcessMoves
  <2>7. a \in Int /\ b \in Int /\ cache \in Int /\ TotalExcess \in Int
    BY <2>2, TotalsInt DEF TypeOK, BillingAssumption
  <2>8. avail' = avail - (a - b)
    BY <2>1, <2>4, <2>5, <2>6, <2>7
  <2>9. phase[k] \in {"open", "held"}
    BY <2>4
  <2>10. /\ secured' = [secured EXCEPT ![k] = 0]
         /\ phase' = [phase EXCEPT ![k] = "lost"]
    BY <2>3, <2>4, OthersStay
  <2> HIDE DEF avail, secured, phase
  <2> QED
    BY <2>5, <2>8, <2>9, <2>10 DEF WalletView!Lose, avail, secured, phase
<1>5. ASSUME NEW k \in Requests, WriteFails(k) \/ Abandon(k)
      PROVE  [WalletView!WalletNext]_(WalletView!walletVars)
  BY <1>3, <1>4, <1>5 DEF WalletView!WalletNext
<1> QED
  BY <1>1, <1>2, <1>5, CoveredSteps DEF KeptInv

\* PreDeduct and Settle, each two Redis round trips that other requests
\* interleave with, implement the atomic reservations of Wallet, wherever MySQL
\* writes fail and whenever the process stops, as long as Redis keeps the key
\* and nobody tops up.
THEOREM Refinement ==
  ASSUME KeyKept
  PROVE  Spec => ImplementsWallet
<1>1. Init => WalletView!WalletInit
  BY WalletStart
<1>2. KeptInv /\ KeptInv' /\ [Next]_vars
        => [WalletView!WalletNext]_(WalletView!walletVars)
  BY WalletStep DEF KeptInv
<1> QED
  BY <1>1, <1>2, KeptInvariant, PTL DEF Spec, ImplementsWallet, WalletView!WalletSpec

=============================================================================
