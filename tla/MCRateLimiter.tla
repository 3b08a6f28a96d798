--------------------------- MODULE MCRateLimiter ----------------------------
(***************************************************************************)
(* Instances of RateLimiter: who the requests are, and the rules.          *)
(***************************************************************************)
EXTENDS RateLimiter, TLC
CONSTANTS r1, r2

OneUser == [r \in Requests |-> [global |-> "global", user |-> "u", api_key |-> "a", model |-> "m"]]
UnitTokens == [r \in Requests |-> 1]

\* The two requests differ in nothing.
Symmetry == Permutations(Requests)

Rule(scope, value, rpm, conc, tpm) ==
  [scope |-> scope, value |-> value, rpm |-> rpm, conc |-> conc, tpm |-> tpm]

\* The rate is raced for, a slot is taken next, and a refusal for the tokens
\* keeps it.  An edit switches the last rule off.
RateSlotsTokens ==
  LET open == <<Rule("global", "", 2, 0, 0), Rule("user", "u", 0, 1, 0)>>
  IN  {open, open \o <<Rule("model", "m", 0, 0, 1)>>}

\* A slot of the whole gateway, taken before the rate of the user is checked.
SlotThenRate ==
  {<<Rule("global", "", 0, 1, 0), Rule("user", "u", 1, 0, 0)>>}

\* What the theorems about the slots suppose holds of each of them.
ASSUME InstanceAssumption == SlotsFixed
=============================================================================
