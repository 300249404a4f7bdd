----------------------------- MODULE StakeLedger -----------------------------
(***************************************************************************)
(* What the staking contracts together promise, with no trace of cooldowns, *)
(* switches or destinations: tokens are in people's wallets or locked in    *)
(* their owner's name, leave the lock only into their owner's wallet, and   *)
(* are never made or lost.                                                  *)
(***************************************************************************)
EXTENDS Functions, Integers

CONSTANTS
  Owner,     \* the people
  Funds,     \* the tokens in their wallets at first
  Supply     \* no more tokens than this exist (bound of the quantifiers)

VARIABLES
  wallet,    \* per person
  locked,    \* per person
  strays     \* tokens sent to a contract without being staked

ledgerVars == <<wallet, locked, strays>>

Locks == [Owner -> 0 .. Supply]

Init ==
  /\ wallet = Funds
  /\ locked = [o \in Owner |-> 0]
  /\ strays = 0

(* A payer locks tokens for one or more owners; some go back to their       *)
(* owners.  The argument is what is locked afterwards.                      *)
Lock(payer, new) ==
  LET added == SumFunction(new) - SumFunction(locked)
  IN /\ added <= wallet[payer]
     /\ wallet' = [wallet EXCEPT ![payer] = @ - added]

Return(new) == wallet' = [o \in Owner |-> wallet[o] + (locked[o] - new[o])]

Relock(new) ==
  /\ new # locked /\ locked' = new
  /\ \/ /\ \A o \in Owner : locked[o] <= new[o]
        /\ \E payer \in Owner : Lock(payer, new)
     \/ /\ \A o \in Owner : new[o] <= locked[o]
        /\ Return(new)
  /\ UNCHANGED strays

Pay(payer, payee, n) ==
  /\ n <= wallet[payer]
  /\ wallet' = [[wallet EXCEPT ![payer] = @ - n] EXCEPT ![payee] = @ + n]
  /\ UNCHANGED strays

Stray(payer, n) ==
  /\ n <= wallet[payer]
  /\ wallet' = [wallet EXCEPT ![payer] = @ - n]
  /\ strays' = strays + n

Next ==
  \/ \E new \in {locked'} \cap Locks : Relock(new)
  \/ /\ UNCHANGED locked
     /\ \E payer \in Owner, n \in 0 .. Supply :
          Stray(payer, n) \/ \E payee \in Owner : Pay(payer, payee, n)

Spec == Init /\ [][Next]_ledgerVars

=============================================================================
