-------------------------- MODULE BridgedTransfers --------------------------
(***************************************************************************)
(* What the bridge promises: tokens are in the wallets of two chains or     *)
(* under way between them.  A transfer takes its value from a wallet and    *)
(* arrives at most once, at the wallet it names.  It arrives whole, unless  *)
(* the wallet is of the chain that cannot count as far as the sum.          *)
(*                                                                         *)
(* The promise is kept as long as neither end is reset or pointed at        *)
(* another contract.  From then on it is at risk: it holds until something  *)
(* is paid that nobody sent, and nothing is promised after that.            *)
(***************************************************************************)
EXTENDS Integers

CONSTANTS
  Holders, OrbsUsers,  \* the wallets on Ethereum and on Orbs
  NoAddress,           \* nobody's
  Values, Ids,         \* what may be transferred, and under which identifiers
  FirstWallets,        \* what the holders may have at first
  Limit                \* the amounts a wallet on Orbs can hold are below it

VARIABLES
  wallets,
  underway,  \* the transfers on the way: [chain, id, to, value]
  promise    \* "kept", "at risk" or "broken"

transferVars == <<wallets, underway, promise>>

Init ==
  /\ \E first \in FirstWallets :
       wallets = [a \in Holders \cup OrbsUsers |-> IF a \in Holders THEN first[a] ELSE 0]
  /\ underway = {} /\ promise = "kept"

(* What a wallet may hold when so much was given to it.                     *)
Counted(a, sum) == {n \in 0..sum : (a \in Holders \/ sum < Limit) => n = sum}

Sent(chain, to) == [chain : {chain}, id : Ids, to : to, value : Values]

Send(from, t) ==
  /\ t.value <= wallets[from]
  /\ \A u \in underway : u.chain # t.chain \/ u.id # t.id
  /\ wallets' = [wallets EXCEPT ![from] = @ - t.value]
  /\ underway' = underway \cup {t}

Receive(t) ==
  /\ t \in underway /\ t.to \in Holders \cup OrbsUsers
  /\ underway' = underway \ {t}
  /\ \E n \in Counted(t.to, wallets[t.to] + t.value) : wallets' = [wallets EXCEPT ![t.to] = n]

(* From one wallet on Orbs to another.                                      *)
Pass(from, to, value) ==
  /\ {from, to} \subseteq OrbsUsers /\ from # to
  /\ value <= wallets[from]
  /\ \E n \in Counted(to, wallets[to] + value) :
       wallets' = [wallets EXCEPT ![from] = @ - value, ![to] = n]
  /\ UNCHANGED underway

Transfer ==
  \/ \E t \in underway' \ underway :
       \/ t \in Sent("ethereum", OrbsUsers) /\ \E from \in Holders : Send(from, t)
       \/ t \in Sent("orbs", Holders \cup {NoAddress}) /\ \E from \in OrbsUsers : Send(from, t)
  \/ \E t \in underway : Receive(t)
  \/ \E from, to \in OrbsUsers, value \in Values : Pass(from, to, value)

(* An end is reset or pointed at another contract: nothing moves.           *)
Endanger == promise = "kept" /\ promise' = "at risk" /\ UNCHANGED <<wallets, underway>>

(* Only a promise at risk breaks, and a broken one binds nobody.            *)
Break == promise # "kept" /\ promise' = "broken"

Next == (Transfer /\ UNCHANGED promise) \/ Endanger \/ Break

Spec == Init /\ [][Next]_transferVars

=============================================================================
