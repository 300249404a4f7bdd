----------------------------- MODULE MCElections -----------------------------
(* Two guardians, two delegators and three validators.                      *)
EXTENDS Elections

CONSTANTS g1, g2, d1, d2, v1, v2, v3, o1, o2, o3

Event(d, to, blk, tx, m, v) ==
  [delegator |-> d, agent |-> to, value |-> v, block |-> blk, tx |-> tx, method |-> m]

(* d1 and then d2 behind g1; d2 turns to d1 after the first election, and   *)
(* d1 to d2, which closes a cycle; g2 has delegated although a guardian.    *)
MCEvents ==
  { Event(d1, g1, 1, 0, TransferMethod, 7),
    Event(d2, d1, 2, 0, DelegateMethod, 0),
    Event(g2, g1, 2, 1, DelegateMethod, 0),
    Event(d1, d2, 4, 0, DelegateMethod, 0) }

(* One delegation that may arrive before the first election, and one that   *)
(* cannot.                                                                  *)
TwoEvents == {e \in MCEvents : e.delegator = d1}

Pick(f, default) == [a \in Account |-> IF a \in DOMAIN f THEN f[a] ELSE default]

NoVote == [block |-> 0, candidates |-> {}]

(* The votes cast, all histories alike: what is read at a block is the last *)
(* one until then.                                                          *)
Votes ==
  { [by |-> g1, block |-> 1, candidates |-> {v1}],
    [by |-> g2, block |-> 2, candidates |-> {v2}],
    [by |-> g2, block |-> 4, candidates |-> {v2, v3}],
    [by |-> d1, block |-> 5, candidates |-> {v3}],
    [by |-> g1, block |-> 6, candidates |-> {v2, v3}] }

LastVote(a, b) ==
  LET cast == {v \in Votes : v.by = a /\ v.block <= b}
      last == CHOOSE v \in cast : \A w \in cast : w.block <= v.block
  IN  IF cast = {} THEN NoVote ELSE [block |-> last.block, candidates |-> last.candidates]

(* The state of Ethereum in world w at block b.                             *)
At(w, b) ==
  [validators |-> w.validators, guardians |-> w.guardians,
   vote |-> [a \in Account |-> LastVote(a, b)],
   balance |-> w.balance, locked |-> w.locked, orbsAddress |-> w.orbsAddress]

OrbsOf == Pick(v1 :> o1 @@ v2 :> o2 @@ v3 :> o3, NoOrbsAddress)

(* Balances are in halves of an ORBS, so that rounding has something to do. *)
World1 ==
  [ validators |-> <<v1, v2, v3>>, guardians |-> <<g1, g2>>,
    balance |-> Pick(g1 :> 3 @@ g2 :> 4 @@ d1 :> 6 @@ d2 :> 5 @@ v1 :> 8, 1),
    locked |-> Pick(g1 :> 2 @@ d2 :> 3 @@ v2 :> 4, 1),
    orbsAddress |-> OrbsOf ]

World2 ==
  [ validators |-> <<v3, v2>>, guardians |-> <<g2>>,
    balance |-> Pick(g2 :> 6 @@ d1 :> 10 @@ d2 :> 2 @@ g1 :> 8, 0),
    locked |-> Pick(d2 :> 2, 0),
    orbsAddress |-> Pick(v2 :> o1 @@ v3 :> o3, NoOrbsAddress) ]

World3 ==
  [ validators |-> <<v1, v2, v3>>, guardians |-> <<g1, d1, g2>>,
    balance |-> Pick(g1 :> 10 @@ g2 :> 20 @@ d1 :> 6 @@ d2 :> 9, 0),
    locked |-> Pick(d1 :> 4 @@ v1 :> 2, 0),
    orbsAddress |-> OrbsOf ]

EmptyWorld ==
  [ validators |-> <<>>, guardians |-> <<>>,
    balance |-> Pick(<<>>, 0), locked |-> Pick(<<>>, 0),
    orbsAddress |-> Pick(<<>>, NoOrbsAddress) ]

(* A guardian that voted, with less than one ORBS behind it.                *)
PoorWorld ==
  [EmptyWorld EXCEPT !.guardians = <<g1>>, !.validators = <<v1, v2>>,
                     !.balance = Pick(g1 :> 1, 0)]

Changing(w1, w2, w3) ==
  [b \in Block |-> At(IF b <= 3 THEN w1 ELSE IF b <= 5 THEN w2 ELSE w3, b)]

MCHistories ==
  { Changing(World1, World2, World3), Changing(World3, World1, World2),
    Changing(EmptyWorld, World3, World1), Changing(World2, EmptyWorld, EmptyWorld) }

PoorHistories == {Changing(PoorWorld, PoorWorld, PoorWorld)}

=============================================================================
