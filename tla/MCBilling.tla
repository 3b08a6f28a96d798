----------------------------- MODULE MCBilling ------------------------------
(***************************************************************************)
(* Model values for the instances of Billing: at most two redeemers p1 and *)
(* p2, one administrator t1 and one code c1.                               *)
(***************************************************************************)
EXTENDS Billing
CONSTANTS p1, p2, t1, c1
=============================================================================
