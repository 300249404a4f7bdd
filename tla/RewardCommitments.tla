-------------------------- MODULE RewardCommitments --------------------------
(***************************************************************************)
(* What the rewards distribution promises, with no trace of hashes, counts  *)
(* or transactions: a set of commitments, each of which is kept once, all   *)
(* of it at once, or revoked.                                               *)
(***************************************************************************)
EXTENDS Integers, SequencesExt

CONSTANTS
  Recipients,
  Names,       \* the names of distribution events
  Payments,    \* the sequences of payments [to, amount] that may be promised
  MaxPromises  \* how many may be promised together

VARIABLES
  promises,    \* [name, index, payments] of every commitment not yet kept
  received     \* what each address was paid under a promise

promiseVars == <<promises, received>>

Owed(payments, a) ==
  SumFunctionOnSet([k \in DOMAIN payments |-> payments[k].amount],
                   {k \in DOMAIN payments : payments[k].to = a})

Paid(payments) == [a \in Recipients |-> received[a] + Owed(payments, a)]

PromisedUnder(n) == {p \in promises : p.name = n}

Init == promises = {} /\ received = [a \in Recipients |-> 0]

(* Only under a name that is free.                                          *)
Promise(n, list) ==
  /\ PromisedUnder(n) = {}
  /\ promises' = promises \cup
       {[name |-> n, index |-> i, payments |-> list[i]] : i \in DOMAIN list}
  /\ UNCHANGED received

Keep(p) ==
  /\ promises' = promises \ {p}
  /\ received' = Paid(p.payments)

Revoke(n) ==
  /\ promises' = promises \ PromisedUnder(n)
  /\ UNCHANGED received

Next ==
  \/ \E p \in promises : Keep(p)
  \/ \E n \in Names : Revoke(n)
  \/ \E n \in Names, k \in 1 .. MaxPromises :
       \E list \in [1 .. k -> Payments] : Promise(n, list)

Spec == Init /\ [][Next]_promiseVars

=============================================================================
