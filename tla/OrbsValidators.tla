--------------------------- MODULE OrbsValidators ---------------------------
(***************************************************************************)
(* The two contracts about validators and the page that registers one.      *)
(* OrbsValidatorsRegistry keeps what validators say of themselves, with     *)
(* lookups by IP address and by Orbs address that keep both unique;         *)
(* OrbsValidators keeps whom its owner approved.  A validator is who is in  *)
(* both, and the network's topology is read from both.                      *)
(***************************************************************************)
EXTENDS Integers, Sequences, FiniteSets

CONSTANTS
  Operators,            \* accounts that may be validators
  NullAccount,          \* the zero address
  Ips, OrbsAddresses,   \* other than zero
  NoKey,                \* the zero IP address and Orbs address
  validatorsLimit,
  MaxValidatorRequests  \* bound: registrations from the page

ASSUME OperatorsAssumption ==
  /\ NullAccount \notin Operators /\ NoKey \notin Ips \cup OrbsAddresses
  /\ validatorsLimit \in Nat \ {0} /\ MaxValidatorRequests \in Nat

VARIABLES
  approvedValidators, \* the list
  approvalBlock,      \* of each account, whether it has one
  validatorsData,     \* the registry: [ip, orbs, registered]
  lookupByIp, lookupByOrbsAddr,
  validatorRequests   \* of the page: [at, from, ip, orbs, method]

approvalVars == <<approvedValidators, approvalBlock>>
registryVars == <<validatorsData, lookupByIp, lookupByOrbsAddr>>
validatorVars == <<approvalVars, registryVars, validatorRequests>>

-----------------------------------------------------------------------------
(* OrbsValidatorsRegistry                                                   *)

NoValidator == [ip |-> NoKey, orbs |-> NoKey, registered |-> FALSE]

IsRegistered(account) == validatorsData[account].registered

RegisterValidator(sender, ip, orbs) ==
  /\ ~IsRegistered(sender) /\ ip # NoKey /\ orbs # NoKey
  /\ lookupByIp[ip] = NullAccount /\ lookupByOrbsAddr[orbs] = NullAccount
  /\ lookupByIp' = [lookupByIp EXCEPT ![ip] = sender]
  /\ lookupByOrbsAddr' = [lookupByOrbsAddr EXCEPT ![orbs] = sender]
  /\ validatorsData' = [validatorsData EXCEPT ![sender] =
                          [ip |-> ip, orbs |-> orbs, registered |-> TRUE]]

UpdateValidatorClaimingOnly(sender, ip, orbs) ==
  /\ IsRegistered(sender) /\ ip # NoKey /\ orbs # NoKey
  /\ lookupByIp[ip] \in {NullAccount, sender} /\ lookupByOrbsAddr[orbs] \in {NullAccount, sender}
  /\ lookupByIp' = [lookupByIp EXCEPT ![ip] = sender]
  /\ lookupByOrbsAddr' = [lookupByOrbsAddr EXCEPT ![orbs] = sender]
  /\ validatorsData' = [validatorsData EXCEPT ![sender].ip = ip, ![sender].orbs = orbs]

(* The old keys are freed first: they may be the new ones.                  *)
UpdateValidator(sender, ip, orbs) ==
  /\ IsRegistered(sender) /\ ip # NoKey /\ orbs # NoKey
  /\ lookupByIp[ip] \in {NullAccount, sender} /\ lookupByOrbsAddr[orbs] \in {NullAccount, sender}
  /\ LET old == validatorsData[sender]
     IN /\ lookupByIp' = [[lookupByIp EXCEPT ![old.ip] = NullAccount] EXCEPT ![ip] = sender]
        /\ lookupByOrbsAddr' = [[lookupByOrbsAddr EXCEPT ![old.orbs] = NullAccount]
                                  EXCEPT ![orbs] = sender]
  /\ validatorsData' = [validatorsData EXCEPT ![sender].ip = ip, ![sender].orbs = orbs]

ValidatorLeaves(sender) ==
  /\ IsRegistered(sender)
  /\ lookupByIp' = [lookupByIp EXCEPT ![validatorsData[sender].ip] = NullAccount]
  /\ lookupByOrbsAddr' = [lookupByOrbsAddr EXCEPT ![validatorsData[sender].orbs] = NullAccount]
  /\ validatorsData' = [validatorsData EXCEPT ![sender] = NoValidator]

-----------------------------------------------------------------------------
(* OrbsValidators                                                           *)

IsApproved(account) == approvalBlock[account]

Approve(account) ==
  /\ Len(approvedValidators) < validatorsLimit /\ ~IsApproved(account)
  /\ approvedValidators' = Append(approvedValidators, account)
  /\ approvalBlock' = [approvalBlock EXCEPT ![account] = TRUE]

(* The last takes the place of the removed one.                             *)
RemoveValidator(account) ==
  /\ IsApproved(account)
  /\ \E i \in DOMAIN approvedValidators :
       /\ approvedValidators[i] = account
       /\ \A j \in 1..(i - 1) : approvedValidators[j] # account
       /\ approvedValidators' =
            SubSeq([approvedValidators EXCEPT ![i] = approvedValidators[Len(approvedValidators)]],
                   1, Len(approvedValidators) - 1)
  /\ approvalBlock' = [approvalBlock EXCEPT ![account] = FALSE]

IsValidator(account) == IsApproved(account) /\ IsRegistered(account)

GetApprovedValidators == approvedValidators

(* The registered of the approved, in order: one goes after those of them   *)
(* that come before it.                                                     *)
GetValidators ==
  LET pushed == {i \in DOMAIN approvedValidators : IsRegistered(approvedValidators[i])}
      At(k) == CHOOSE i \in pushed : Cardinality({j \in pushed : j <= i}) = k
  IN [k \in 1..Cardinality(pushed) |-> approvedValidators[At(k)]]

GetNetworkTopology ==
  [k \in DOMAIN GetValidators |->
     [nodeAddress |-> validatorsData[GetValidators[k]].orbs,
      ipAddress |-> validatorsData[GetValidators[k]].ip]]

-----------------------------------------------------------------------------
(* The page and everybody else                                              *)

ValidatorsInit ==
  /\ approvedValidators = <<>> /\ approvalBlock = [a \in Operators |-> FALSE]
  /\ validatorsData = [a \in Operators |-> NoValidator]
  /\ lookupByIp = [ip \in Ips \cup {NoKey} |-> NullAccount]
  /\ lookupByOrbsAddr = [o \in OrbsAddresses \cup {NoKey} |-> NullAccount]
  /\ validatorRequests = <<>>

AddValidator ==
  /\ Len(validatorRequests) < MaxValidatorRequests
  /\ \E account \in Operators, ip \in Ips, orbs \in OrbsAddresses \cup {NoKey} :
       validatorRequests' = Append(validatorRequests,
         [at |-> "enabled", from |-> account, ip |-> ip, orbs |-> orbs, method |-> "none"])
  /\ UNCHANGED <<approvalVars, registryVars>>

(* isValidator of the registry, not of OrbsValidators.                      *)
ChooseValidatorMethod(i) ==
  /\ validatorRequests[i].at = "enabled"
  /\ validatorRequests' =
       [validatorRequests EXCEPT
          ![i].at = "sent",
          ![i].method = IF IsRegistered(validatorRequests[i].from) THEN "update" ELSE "register"]
  /\ UNCHANGED <<approvalVars, registryVars>>

ValidatorRequestMined(i) ==
  /\ validatorRequests[i].at = "sent"
  /\ LET r == validatorRequests[i]
     IN \/ r.method = "register" /\ RegisterValidator(r.from, r.ip, r.orbs)
        \/ r.method = "update" /\ UpdateValidator(r.from, r.ip, r.orbs)
  /\ validatorRequests' = [validatorRequests EXCEPT ![i].at = "over"]
  /\ UNCHANGED approvalVars

ValidatorRequestRefused(i) ==
  /\ validatorRequests[i].at = "sent"
  /\ validatorRequests' = [validatorRequests EXCEPT ![i].at = "over"]
  /\ UNCHANGED <<approvalVars, registryVars>>

RegistryCalls ==
  /\ \E sender \in Operators :
       \/ \E ip \in Ips \cup {NoKey}, orbs \in OrbsAddresses \cup {NoKey} :
            RegisterValidator(sender, ip, orbs) \/ UpdateValidator(sender, ip, orbs)
       \/ ValidatorLeaves(sender)
  /\ UNCHANGED <<approvalVars, validatorRequests>>

OwnerCalls ==
  /\ \E account \in Operators : Approve(account) \/ RemoveValidator(account)
  /\ UNCHANGED <<registryVars, validatorRequests>>

ValidatorsNext ==
  \/ RegistryCalls \/ OwnerCalls \/ AddValidator
  \/ \E i \in DOMAIN validatorRequests :
       ChooseValidatorMethod(i) \/ ValidatorRequestMined(i) \/ ValidatorRequestRefused(i)

ValidatorsSpec == ValidatorsInit /\ [][ValidatorsNext]_validatorVars

-----------------------------------------------------------------------------
ValidatorsTypeOK ==
  /\ approvedValidators \in Seq(Operators) /\ approvalBlock \in [Operators -> BOOLEAN]
  /\ validatorsData \in [Operators -> [ip : Ips \cup {NoKey}, orbs : OrbsAddresses \cup {NoKey},
                                       registered : BOOLEAN]]
  /\ lookupByIp \in [Ips \cup {NoKey} -> Operators \cup {NullAccount}]
  /\ lookupByOrbsAddr \in [OrbsAddresses \cup {NoKey} -> Operators \cup {NullAccount}]

(* The lookups are one to one with the data: a key leads to the one who     *)
(* registered it and nobody else, and a key that was given up leads to      *)
(* nobody, however keys were updated, swapped and taken over.               *)
LookupsAreOneToOne ==
  /\ \A ip \in Ips \cup {NoKey}, a \in Operators :
       lookupByIp[ip] = a <=> IsRegistered(a) /\ validatorsData[a].ip = ip
  /\ \A orbs \in OrbsAddresses \cup {NoKey}, a \in Operators :
       lookupByOrbsAddr[orbs] = a <=> IsRegistered(a) /\ validatorsData[a].orbs = orbs

(* The list of approvals holds exactly the approved, each once and within   *)
(* the limit, whoever was removed from the middle.                          *)
ApprovalsAreExact ==
  /\ Len(approvedValidators) <= validatorsLimit
  /\ \A i, j \in DOMAIN approvedValidators :
       approvedValidators[i] = approvedValidators[j] => i = j
  /\ \A a \in Operators :
       IsApproved(a) <=> \E i \in DOMAIN approvedValidators : approvedValidators[i] = a

(* Registry and approvals are exact, each by itself.                        *)
ValidatorsAreExact == ValidatorsTypeOK /\ LookupsAreOneToOne /\ ApprovalsAreExact

(* The topology that the Orbs network takes from here names every node      *)
(* once, under an address and at an IP of its own, and of every validator.  *)
TopologyNamesNodesOnce ==
  LET nodes == GetNetworkTopology
  IN /\ \A i, j \in DOMAIN nodes :
          nodes[i].nodeAddress = nodes[j].nodeAddress \/ nodes[i].ipAddress = nodes[j].ipAddress
            => i = j
     /\ \A i \in DOMAIN nodes : NoKey \notin {nodes[i].nodeAddress, nodes[i].ipAddress}
     /\ \A a \in Operators : IsValidator(a) => \E i \in DOMAIN nodes : nodes[i].nodeAddress = validatorsData[a].orbs

=============================================================================
