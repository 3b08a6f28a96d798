------------------------------- MODULE Wallet -------------------------------
(***************************************************************************)
(* What pre-deduction promises the data plane: a wallet with one atomic    *)
(* reservation at a time per request.  The amounts secured by requests     *)
(* come out of the deposit, nothing is ever available twice, and only its  *)
(* own request gives a reservation back.  A request that stops with its    *)
(* process may cost the wallet money, never give it any.                   *)
(***************************************************************************)
EXTENDS Integers

CONSTANTS Clients, Deposit, Amounts

VARIABLES available, secured, phase

walletVars == <<available, secured, phase>>

WalletInit ==
  /\ available = Deposit
  /\ secured = [r \in Clients |-> 0]
  /\ phase = [r \in Clients |-> "open"]

\* Reserve a whole estimate, or nothing.
Reserve(r) ==
  /\ phase[r] = "open"
  /\ \E e \in Amounts :
       /\ e <= available
       /\ available' = available - e
       /\ secured' = [secured EXCEPT ![r] = e]
  /\ phase' = [phase EXCEPT ![r] = "held"]

Refuse(r) ==
  /\ phase[r] = "open"
  /\ phase' = [phase EXCEPT ![r] = "refused"]
  /\ UNCHANGED <<available, secured>>

\* Close a reservation at the price of the call: a rest comes back, an excess
\* is taken when it is available in full and forgotten otherwise.
Close(r) ==
  /\ phase[r] = "held"
  /\ \E price \in Amounts :
       \/ /\ price <= secured[r] \/ price - secured[r] <= available
          /\ available' = available - (price - secured[r])
          /\ secured' = [secured EXCEPT ![r] = price]
       \/ price > secured[r] /\ UNCHANGED <<available, secured>>
  /\ phase' = [phase EXCEPT ![r] = "closed"]

\* Give a reservation back whole; another may follow.
Cancel(r) ==
  /\ phase[r] = "held"
  /\ available' = available + secured[r]
  /\ secured' = [secured EXCEPT ![r] = 0]
  /\ phase' = [phase EXCEPT ![r] = "open"]

\* The request ends with its process: its reservation is lost, and so is a
\* debit on its way back, of an estimate or of what a price is above one.
Lose(r) ==
  /\ phase[r] \in {"open", "held"}
  /\ \E a, b \in Amounts \cup {0} : a >= b /\ available' = available - (a - b)
  /\ secured' = [secured EXCEPT ![r] = 0]
  /\ phase' = [phase EXCEPT ![r] = "lost"]

WalletNext ==
  \E r \in Clients : Reserve(r) \/ Refuse(r) \/ Close(r) \/ Cancel(r) \/ Lose(r)

WalletSpec == WalletInit /\ [][WalletNext]_walletVars

=============================================================================
