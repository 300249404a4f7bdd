----------------------------- MODULE MCStatusPage -----------------------------
(* Four people and three elections, at blocks 5, 7 and 9.  Any of the       *)
(* delegations below may have been made; d is a guardian that votes in      *)
(* time, and c one that comes, or leaves, or never was one.                 *)
EXTENDS StatusPage

CONSTANTS a, b, c, d

Event(who, to, block, tx, method) ==
  [delegator |-> who, to |-> to, block |-> block, tx |-> tx, method |-> method]

Delegations ==
  { Event(a, d, 2, 0, "Transfer"),
    Event(a, b, 5, 1, "Delegate"),
    Event(a, c, 6, 0, "Transfer"),
    Event(b, d, 8, 1, "Transfer"),
    Event(b, a, 8, 0, "Delegate"),
    Event(c, a, 4, 0, "Delegate") }

Registrations ==
  { 5 :> <<d>>    @@ 7 :> <<d>>    @@ 9 :> <<d>>,
    5 :> <<c, d>> @@ 7 :> <<d>>    @@ 9 :> <<d>>,
    5 :> <<d>>    @@ 7 :> <<d, c>> @@ 9 :> <<d, c>>,
    5 :> <<c, d>> @@ 7 :> <<c, d>> @@ 9 :> <<c, d>> }

Balances ==
  5 :> (a :> 2 @@ b :> 1 @@ c :> 4 @@ d :> 1) @@ 7 :> (a :> 2 @@ b :> 3 @@ c :> 0 @@ d :> 1)
    @@ 9 :> (a :> 0 @@ b :> 3 @@ c :> 2 @@ d :> 2)

Nothing == a :> 0 @@ b :> 0 @@ c :> 0 @@ d :> 0

(* Two ways to vote and to lock stake: b's stake, which is never behind a   *)
(* guardian at 5 and 7, and everybody's at 9, when c's vote is at its end.  *)
MCHistories ==
  UNION
  {[ events    : SUBSET Delegations,
     guardians : Registrations,
     votes     : {kind.votes},
     stake     : {Balances},
     locked    : {kind.locked} ] :
   kind \in { [votes  |-> a :> {} @@ b :> {} @@ c :> {7} @@ d :> {4, 7},
              locked |-> 5 :> (b :> 2 @@ Nothing) @@ 7 :> (b :> 2 @@ Nothing) @@ 9 :> Nothing],
             [votes  |-> a :> {} @@ b :> {} @@ c :> {6} @@ d :> {3, 9},
              locked |-> 5 :> Nothing @@ 7 :> Nothing
                           @@ 9 :> (a :> 1 @@ b :> 0 @@ c :> 1 @@ d :> 2)] }}

=============================================================================
