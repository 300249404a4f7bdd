------------------------- MODULE DelegationRegister -------------------------
(***************************************************************************)
(* What the delegation mirror promises, with no trace of how it does it:    *)
(* a register per delegator that shows the strongest delegation among the   *)
(* events offered so far.  The order of the offers cannot be seen in it.    *)
(***************************************************************************)
EXTENDS Accounts, Integers

CONSTANTS
  Events,        \* the delegation events that may be offered
  Record(_),     \* what the register shows for an event
  Nothing,       \* what it shows before any offer
  Beats(_, _)    \* Beats(e, f): e wins over f

VARIABLES
  offers,        \* the events offered so far
  register       \* what each delegator's register shows

registerVars == <<offers, register>>

Winner(S) == CHOOSE e \in S : \A f \in S \ {e} : Beats(e, f)

Shown(S, d) ==
  LET own == {e \in S : e.delegator = d}
  IN  IF own = {} THEN Nothing ELSE Record(Winner(own))

Init ==
  /\ offers = {}
  /\ register = [d \in Address |-> Nothing]

Offer(e) ==
  /\ offers' = offers \cup {e}
  /\ register' = [d \in Address |-> Shown(offers', d)]

Next == \E e \in Events : Offer(e)

Spec == Init /\ [][Next]_registerVars

=============================================================================
