----------------------------- MODULE SwapBridge -----------------------------
(***************************************************************************)
(* The autonomous swap bridge: AutonomousSwapBridge.sol with its verifier   *)
(* on Ethereum, _OrbsASB and its token _OrbsERC20Proxy on Orbs.  A transfer *)
(* out locks or burns tokens and leaves an event under a fresh identifier   *)
(* (TUID); whoever brings that event to the other end has the tokens minted *)
(* or unlocked, once.  Events may be brought again and in any order.        *)
(*                                                                         *)
(* A receipt of the Orbs chain stands for its proof: blocks, Merkle paths   *)
(* and the cryptography of signatures are taken as sound.  Approvals of     *)
(* tokens are given.  Who signs a block is not for Federation.sol to say.   *)
(*                                                                         *)
(* Anybody may, at any time and with transfers under way, reset an end      *)
(* (initAutonomousSwapBridge, resetContract) and point it at another bridge *)
(* or another token (the former again, setAsbAddr, setTokenContract): these *)
(* methods are public and ask nothing.  Events and receipts stay what they  *)
(* are.  Other bridges and tokens are contracts nothing is known of; `this' *)
(* bridge and token are those whose books the module keeps.                 *)
(***************************************************************************)
EXTENDS Federation

CONSTANTS
  Holders,        \* accounts on Ethereum
  OrbsUsers,      \* accounts on Orbs
  NoAddress,      \* the zero address on Ethereum
  Values,         \* the amounts people name
  FirstWallets,   \* what the holders may have at first
  UINT64,         \* 2^64: Orbs keeps amounts in uint64
  BlockProofs,    \* lists of signatures [signer, valid] that a block may have
  OtherReceipts,  \* failed, or of another bridge
  OtherEvents,    \* events EthTransferredOut of another bridge
  MaxTransfers,   \* bound: transfers out of each end between its resets
  MaxResets       \* bound: resets of the ends and changes of their contracts

(* Every bridge counts from 1: on Orbs the mark of 0 would have the key of   *)
(* the maximum.                                                             *)
ASSUME BridgeAssumption ==
  /\ Holders \cap OrbsUsers = {} /\ NoAddress \notin Holders \cup OrbsUsers
  /\ IsFiniteSet(Holders) /\ IsFiniteSet(OrbsUsers)
  /\ BlockProofs \subseteq Seq([signer : Nodes, valid : BOOLEAN])
  /\ Values \subseteq Nat /\ FirstWallets \subseteq [Holders -> Nat]
  /\ UINT64 \in Nat \ {0} /\ {MaxTransfers, MaxResets} \subseteq Nat
  /\ \A r \in OtherReceipts :
       /\ r.to \in Holders \cup {NoAddress} /\ {r.tuid, r.value} \subseteq Nat
       /\ r.origin # "this bridge" \/ r.executionResult # "success"
  /\ \A e \in OtherEvents : e.to \in OrbsUsers /\ {e.tuid, e.value} \subseteq Nat /\ e.tuid > 0

Bridges == {"this bridge", "another bridge"}
Tokens == {"this token", "another token"}

VARIABLES
  (* Ethereum *)
  wallets,         \* the token's balances
  locked,          \* that of the bridge
  orbsEnd,         \* networkType, virtualChainId, orbsASBContractName: whose receipts count
  token,
  tuidCounter,
  maxOrbsTuid, spentOrbsTuids,
  ethOut,          \* the events EthTransferredOut: [round, tuid, to, value, backed]
  (* Orbs *)
  balances, totalSupply,
  asbAddr,         \* ASB_ETH_ADDR_KEY: whose events count
  tokenContract,   \* TOKEN_CONTRACT_KEY
  outTuid,         \* OUT_TUID_KEY
  inTuidMax,       \* IN_TUID_MAX_KEY
  inTuids,         \* the identifiers marked as spent
  orbsOut,         \* the receipts with an event OrbsTransferredOut
  (* history *)
  resets,
  arrived,         \* the transfers that were paid
  astray,          \* something was paid that was not owed
  receivedSince,   \* identifiers received from a chain since the receiver's last reset
  staleTuids       \* marks of Orbs above its inTuidMax at its last reset

ethereumVars ==
  <<wallets, locked, orbsEnd, token, tuidCounter, maxOrbsTuid, spentOrbsTuids, ethOut>>
orbsVars ==
  <<balances, totalSupply, asbAddr, tokenContract, outTuid, inTuidMax, inTuids, orbsOut>>
historyVars == <<resets, arrived, astray, receivedSince, staleTuids>>
bridgeVars == <<federationVars, ethereumVars, orbsVars, historyVars>>

BridgeInit ==
  /\ FederationInit
  /\ wallets \in FirstWallets /\ locked = 0
  /\ orbsEnd = "this bridge" /\ token = "this token"
  /\ tuidCounter = 0 /\ maxOrbsTuid = 0 /\ spentOrbsTuids = {} /\ ethOut = {}
  /\ balances = [u \in OrbsUsers |-> 0] /\ totalSupply = 0
  /\ asbAddr = "this bridge" /\ tokenContract = "this token"
  /\ outTuid = 0 /\ inTuidMax = 0 /\ inTuids = {} /\ orbsOut = {}
  /\ resets = 0 /\ arrived = {} /\ astray = FALSE
  /\ receivedSince = [chain \in {"ethereum", "orbs"} |-> {}] /\ staleTuids = {}

-----------------------------------------------------------------------------
(* The verifier                                                             *)

(* The signers at 1..i that are members and whose signature is valid.       *)
SignersUpTo(signatures, i, revision) ==
  {signatures[k].signer : k \in {j \in 1..i : signatures[j].valid
                                   /\ IsMemberByRevision(revision, signatures[j].signer)}}

(* The loop ends with the signature that completes the threshold: a member  *)
(* that signed twice counts once.                                           *)
IsSignatureValid(signatures, revision) ==
  \E i \in DOMAIN signatures :
    /\ SignersUpTo(signatures, i, revision) # SignersUpTo(signatures, i - 1, revision)
    /\ Cardinality(SignersUpTo(signatures, i, revision))
         >= GetConsensusThresholdByRevision(revision)

(* The version of a block's proof, which names the revision of the          *)
(* federation, is not in the proof yet: the verifier takes 0.               *)
BlockProofVersion == 0

ProcessPackedProof(receipt) ==
  /\ IsSignatureValid(receipt.signatures, BlockProofVersion)
  /\ receipt.executionResult = "success"

-----------------------------------------------------------------------------
(* What is under way                                                        *)

(* Two transfers that bear the same identifier are told apart by the resets *)
(* before them.                                                             *)
TransferOf(chain, event) ==
  [chain |-> chain, id |-> <<event.round, event.tuid>>, to |-> event.to, value |-> event.value]

(* Those for which tokens of the bridge were taken.                         *)
BackedTransfers ==
  {TransferOf("ethereum", e) : e \in {x \in ethOut : x.backed}}
  \cup {TransferOf("orbs", r) : r \in {x \in orbsOut : x.backed}}

Underway == BackedTransfers \ arrived

(* For an event an amount is paid, in tokens of the bridge or in others.    *)
Record(chain, event, isThisBridge, isThisToken) ==
  LET owed == isThisBridge /\ TransferOf(chain, event) \in Underway
  IN /\ arrived' = IF owed /\ isThisToken THEN arrived \cup {TransferOf(chain, event)} ELSE arrived
     /\ astray' = (astray \/ (isThisToken /\ ~owed))
     /\ receivedSince' = [receivedSince EXCEPT ![chain] = @ \cup {event.tuid}]
     /\ UNCHANGED <<resets, staleTuids>>

(* What a call of token for so much moves in the books here.                *)
InToken(amount) == IF token = "this token" THEN amount ELSE 0

-----------------------------------------------------------------------------
(* From Ethereum to Orbs                                                    *)

EthTransferOut(from, to, value) ==
  /\ tuidCounter < MaxTransfers
  /\ value > 0 /\ InToken(value) <= wallets[from]
  /\ wallets' = [wallets EXCEPT ![from] = @ - InToken(value)]
  /\ locked' = locked + InToken(value)
  /\ tuidCounter' = tuidCounter + 1
  /\ ethOut' = ethOut \cup
       {[round |-> resets, tuid |-> tuidCounter + 1, to |-> to, value |-> value,
         backed |-> token = "this token"]}
  /\ UNCHANGED <<orbsEnd, token, maxOrbsTuid, spentOrbsTuids,
                 federationVars, orbsVars, historyVars>>

(* The calls of tokenContract.                                              *)
AsbMint(to, amount) ==
  IF tokenContract = "this token"
  THEN /\ balances' = [balances EXCEPT ![to] = (@ + amount) % UINT64]
       /\ totalSupply' = (totalSupply + amount) % UINT64
  ELSE UNCHANGED <<balances, totalSupply>>

AsbBurn(from, amount) ==
  IF tokenContract = "this token"
  THEN /\ amount <= balances[from]
       /\ balances' = [balances EXCEPT ![from] = @ - amount]
       /\ totalSupply' = (totalSupply - amount) % UINT64
  ELSE UNCHANGED <<balances, totalSupply>>

EthEvents == IF asbAddr = "this bridge" THEN ethOut ELSE OtherEvents

(* The identifier is marked under the key of the maximum only.              *)
OrbsTransferInMarkingNothing(e) ==
  /\ e \in EthEvents /\ e.value > 0
  /\ e.tuid \notin inTuids
  /\ AsbMint(e.to, e.value % UINT64)
  /\ inTuidMax' = e.tuid
  /\ Record("ethereum", e, asbAddr = "this bridge", tokenContract = "this token")
  /\ UNCHANGED <<inTuids, asbAddr, tokenContract, outTuid, orbsOut,
                 federationVars, ethereumVars>>

(* The value of the event is read with Uint64(), its low 64 bits.           *)
OrbsTransferIn(e) ==
  /\ e \in EthEvents /\ e.value > 0
  /\ e.tuid \notin inTuids
  /\ AsbMint(e.to, e.value % UINT64)
  /\ inTuids' = inTuids \cup {e.tuid}
  /\ inTuidMax' = e.tuid
  /\ Record("ethereum", e, asbAddr = "this bridge", tokenContract = "this token")
  /\ UNCHANGED <<asbAddr, tokenContract, outTuid, orbsOut, federationVars, ethereumVars>>

-----------------------------------------------------------------------------
(* From Orbs to Ethereum                                                    *)

(* Amount and address are not looked at: those that Ethereum refuses stay   *)
(* under way.  The nodes sign the block.                                    *)
OrbsTransferOut(from, to, amount, signatures) ==
  /\ outTuid < MaxTransfers
  /\ AsbBurn(from, amount)
  /\ outTuid' = outTuid + 1
  /\ orbsOut' = orbsOut \cup
       {[origin |-> "this bridge", executionResult |-> "success", signatures |-> signatures,
         round |-> resets, tuid |-> outTuid + 1, to |-> to, value |-> amount,
         backed |-> tokenContract = "this token"]}
  /\ UNCHANGED <<asbAddr, tokenContract, inTuidMax, inTuids,
                 federationVars, ethereumVars, historyVars>>

Spent(receipt) == receipt.tuid \in spentOrbsTuids

EthTransferIn(receipt) ==
  /\ receipt \in orbsOut \cup OtherReceipts
  /\ ProcessPackedProof(receipt)
  /\ receipt.to # NoAddress /\ receipt.value > 0
  /\ receipt.origin = orbsEnd
  /\ ~Spent(receipt)
  /\ spentOrbsTuids' = spentOrbsTuids \cup {receipt.tuid}
  /\ maxOrbsTuid' = IF receipt.tuid > maxOrbsTuid THEN receipt.tuid ELSE maxOrbsTuid
  /\ InToken(receipt.value) <= locked
  /\ locked' = locked - InToken(receipt.value)
  /\ wallets' = [wallets EXCEPT ![receipt.to] = @ + InToken(receipt.value)]
  /\ Record("orbs", receipt, receipt.origin = "this bridge", token = "this token")
  /\ UNCHANGED <<orbsEnd, token, tuidCounter, ethOut, federationVars, orbsVars>>

(* transfer and transferFrom of the proxy.                                  *)
ProxyTransfer(from, to, amount) ==
  /\ from # to
  /\ amount <= balances[from]
  /\ balances' = [balances EXCEPT ![from] = @ - amount, ![to] = (@ + amount) % UINT64]
  /\ UNCHANGED <<totalSupply, asbAddr, tokenContract, outTuid, inTuidMax, inTuids, orbsOut,
                 federationVars, ethereumVars, historyVars>>

-----------------------------------------------------------------------------
(* Resets and changes of contracts, by anybody                              *)

Reset == resets < MaxResets /\ resets' = resets + 1 /\ UNCHANGED <<arrived, astray>>

(* The marks are not cleared.                                               *)
ResetContractKeepingMarks ==
  /\ Reset
  /\ outTuid' = 0
  /\ inTuids' = inTuids
  /\ inTuidMax' = 0
  /\ receivedSince' = [receivedSince EXCEPT !["ethereum"] = {}]
  /\ staleTuids' = {i \in inTuids : i > inTuidMax}
  /\ UNCHANGED <<federationVars, ethereumVars, balances, totalSupply, asbAddr, tokenContract, orbsOut>>

(* inTuidMax is the identifier received last, not the greatest: marks above *)
(* it stay.                                                                 *)
ResetContract ==
  /\ Reset
  /\ outTuid' = 0
  /\ inTuids' = {i \in inTuids : i > inTuidMax}
  /\ inTuidMax' = 0
  /\ receivedSince' = [receivedSince EXCEPT !["ethereum"] = {}]
  /\ staleTuids' = {i \in inTuids : i > inTuidMax}
  /\ UNCHANGED <<federationVars, ethereumVars, balances, totalSupply, asbAddr, tokenContract, orbsOut>>

InitAutonomousSwapBridge(newOrbsEnd, newToken) ==
  /\ Reset
  /\ orbsEnd' = newOrbsEnd /\ token' = newToken
  /\ tuidCounter' = 0
  /\ spentOrbsTuids' = {i \in spentOrbsTuids : i > maxOrbsTuid}
  /\ maxOrbsTuid' = 0
  /\ receivedSince' = [receivedSince EXCEPT !["orbs"] = {}]
  /\ UNCHANGED <<federationVars, wallets, locked, ethOut, orbsVars, staleTuids>>

SetAsbAddr(newAddr) ==
  /\ Reset /\ asbAddr' = newAddr
  /\ UNCHANGED <<federationVars, ethereumVars, balances, totalSupply, tokenContract, outTuid,
                 inTuidMax, inTuids, orbsOut, receivedSince, staleTuids>>

SetTokenContract(newToken) ==
  /\ Reset /\ tokenContract' = newToken
  /\ UNCHANGED <<federationVars, ethereumVars, balances, totalSupply, asbAddr, outTuid,
                 inTuidMax, inTuids, orbsOut, receivedSince, staleTuids>>

-----------------------------------------------------------------------------
BridgeNext ==
  \/ \E from \in Holders, to \in OrbsUsers, value \in Values : EthTransferOut(from, to, value)
  \/ \E e \in EthEvents : OrbsTransferIn(e)
  \/ \E from \in OrbsUsers, to \in Holders \cup {NoAddress}, amount \in Values,
        signatures \in BlockProofs : OrbsTransferOut(from, to, amount, signatures)
  \/ \E receipt \in orbsOut \cup OtherReceipts : EthTransferIn(receipt)
  \/ \E from, to \in OrbsUsers, amount \in Values : ProxyTransfer(from, to, amount)
  \/ ResetContract
  \/ \E newOrbsEnd \in Bridges, newToken \in Tokens :
       InitAutonomousSwapBridge(newOrbsEnd, newToken)
  \/ \E newAddr \in Bridges : SetAsbAddr(newAddr)
  \/ \E newToken \in Tokens : SetTokenContract(newToken)
  \/ ChangeFederation /\ UNCHANGED <<ethereumVars, orbsVars, historyVars>>

(* Whoever transferred out brings the event to the other end, until it was  *)
(* paid.                                                                    *)
BridgeFairness ==
  \A t \in 1..MaxTransfers :
    /\ WF_bridgeVars(\E e \in ethOut :
         e.tuid = t /\ TransferOf("ethereum", e) \in Underway /\ OrbsTransferIn(e))
    /\ WF_bridgeVars(\E r \in orbsOut :
         r.tuid = t /\ TransferOf("orbs", r) \in Underway /\ EthTransferIn(r))

BridgeSpec == BridgeInit /\ [][BridgeNext]_bridgeVars /\ BridgeFairness

-----------------------------------------------------------------------------
ValueUnderway == SumFunction([t \in Underway |-> t.value])

(* No token is made or lost on Ethereum: what is not in the wallets is      *)
(* locked, whoever resets what.  The lock covers the balances on Orbs and   *)
(* everything under way, and when the tokens can be counted in 64 bits it   *)
(* covers no more, also through resets, until something is paid that was    *)
(* not owed; and as long as nobody reset or changed an end, nothing is.     *)
BridgeIsSolvent ==
  /\ SumFunction(wallets) + locked \in {SumFunction(first) : first \in FirstWallets}
  /\ astray => resets > 0
  /\ ~astray =>
       /\ locked >= SumFunction(balances) + ValueUnderway
       /\ SumFunction(wallets) + locked < UINT64 => locked = SumFunction(balances) + ValueUnderway

(* The proxy's supply is the sum of its balances, as far as it can count.   *)
SupplyIsTheBalances == totalSupply = SumFunction(balances) % UINT64

(* A block is accepted just when two thirds of the federation signed it,    *)
(* whoever else did and however often; by a federation without members      *)
(* none is.                                                                 *)
QuorumIsTwoThirds ==
  \A r \in 0..federationRevision, signatures \in BlockProofs :
    LET federation == ToSet(GetMembersByRevision(r))
        signers == {signatures[i].signer : i \in {j \in DOMAIN signatures : signatures[j].valid}}
    IN IsSignatureValid(signatures, r)
         <=> /\ signers \cap federation # {}
             /\ 3 * Cardinality(signers \cap federation) >= 2 * Cardinality(federation)

BridgeIsExact ==
  RevisionsAreValid /\ QuorumIsTwoThirds /\ BridgeIsSolvent /\ SupplyIsTheBalances

-----------------------------------------------------------------------------
(* The bridge is two sets of wallets and the transfers between them: each   *)
(* arrives at most once, where it was sent, and nothing else arrives, for   *)
(* as long as no end is reset or changed, and after that until something is *)
(* paid that was not owed: an event once more after the receiver forgot it, *)
(* or one of another bridge or another token.                               *)
AllWallets ==
  [a \in Holders \cup OrbsUsers |-> IF a \in Holders THEN wallets[a] ELSE balances[a]]

Promise == IF astray THEN "broken" ELSE IF resets > 0 THEN "at risk" ELSE "kept"

Transfers == INSTANCE BridgedTransfers WITH
  wallets <- AllWallets,
  underway <- Underway,
  promise <- Promise,
  Limit <- UINT64,
  Ids <- (0..MaxResets) \X (1..MaxTransfers)

(* Whoever signs and whichever revisions of the federation were before: a   *)
(* revision that ended remains what it was, and none gets members it did    *)
(* not have.                                                                *)
BridgeIsFaithful == Transfers!Spec /\ RevisionsAreKept

SentToOrbs(t) == \E e \in ethOut : e.tuid = t /\ TransferOf("ethereum", e) \in Underway

SentToEthereum(t) ==
  \E r \in orbsOut :
    /\ r.tuid = t /\ TransferOf("orbs", r) \in Underway
    /\ r.to # NoAddress /\ r.value > 0 /\ ProcessPackedProof(r)

(* What is sent to an address with a proof that the verifier accepts is     *)
(* received, in whichever order and through whatever resets, unless the     *)
(* receiver is pointed at another bridge or token, or the proof is no       *)
(* longer accepted since members were removed in place, or what is locked   *)
(* was paid to others.  An identifier is refused only when one that bears   *)
(* it was received since the receiver's last reset, or by Orbs when it was  *)
(* marked before that and is above the one received last then.              *)
TransfersArrive ==
  \A t \in 1..MaxTransfers :
    /\ SentToOrbs(t) ~>
         \/ t \in receivedSince["ethereum"] \cup staleTuids
         \/ asbAddr # "this bridge" \/ tokenContract # "this token"
    /\ SentToEthereum(t) ~>
         \/ t \in receivedSince["orbs"]
         \/ orbsEnd # "this bridge" \/ token # "this token"
         \/ astray \/ ~SentToEthereum(t)

=============================================================================
