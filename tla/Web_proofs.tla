----------------------------- MODULE Web_proofs -----------------------------
(***************************************************************************)
(* Proofs about the web client, the proxy it reads through and the          *)
(* registers it writes and reads, for any number of accounts, keys, votes,  *)
(* calls, chunks of addresses and requests of the pages, any deposit, time, *)
(* range and limit.                                                         *)
(***************************************************************************)
EXTENDS MCWeb, Sums_proofs

(* Removing the entry at p from a list by putting the last in its place.    *)
WithLastAt(s, p) == SubSeq([s EXCEPT ![p] = s[Len(s)]], 1, Len(s) - 1)

LEMMA SwapWithLast ==
  ASSUME NEW S, NEW s \in Seq(S), NEW p \in DOMAIN s
  PROVE  /\ Len(s) \in Nat \ {0} /\ p \in 1..Len(s)
         /\ WithLastAt(s, p) \in Seq(S) /\ Len(WithLastAt(s, p)) = Len(s) - 1
         /\ DOMAIN WithLastAt(s, p) = 1..(Len(s) - 1)
         /\ \A k \in 1..(Len(s) - 1) : WithLastAt(s, p)[k] = IF k = p THEN s[Len(s)] ELSE s[k]
<1>1. Len(s) \in Nat /\ DOMAIN s = 1..Len(s) /\ Len(s) \in DOMAIN s
  OBVIOUS
<1> DEFINE u == [s EXCEPT ![p] = s[Len(s)]]
<1>2. s[Len(s)] \in S
  BY <1>1
<1>3. u \in Seq(S) /\ Len(u) = Len(s)
  BY <1>1, <1>2
<1>4. \A k \in 1..Len(s) : u[k] = IF k = p THEN s[Len(s)] ELSE s[k]
  BY <1>1
<1> DEFINE t == SubSeq(u, 1, Len(s) - 1)
<1>5. WithLastAt(s, p) = t
  BY DEF WithLastAt
<1> HIDE DEF u
<1>6. /\ t \in Seq(S) /\ Len(t) = Len(s) - 1 /\ DOMAIN t = 1..(Len(s) - 1)
      /\ \A k \in 1..(Len(s) - 1) : t[k] = u[k]
  BY <1>1, <1>3
<1> HIDE DEF t
<1> QED
  BY <1>1, <1>4, <1>5, <1>6

LEMMA OneEntryChanged ==
  ASSUME NEW R, NEW s \in Seq(R), NEW k \in DOMAIN s, NEW r \in R
  PROVE  [s EXCEPT ![k] = r] \in Seq(R)
  OBVIOUS

LEMMA EntryTyped ==
  ASSUME NEW R, NEW s \in Seq(R), NEW k \in DOMAIN s
  PROVE  s[k] \in R
  OBVIOUS

-----------------------------------------------------------------------------
(* The guardians.                                                           *)

(* What a call of the contract needs to be exact: its own state, and time.  *)
GuardianContractIsExact ==
  /\ guardians \in Seq(Candidates)
  /\ guardiansData \in [Candidates ->
                          [index : Nat, name : Names \cup {NoName}, registeredOn : Nat]]
  /\ depositsHeld \in Nat
  /\ RosterIsExact /\ DepositsAreHeld

LEMMA GuardianRegistrationKeepsExact ==
  ASSUME GuardianContractIsExact, guardianTime \in Nat \ {0}, NEW sender \in Candidates,
         NEW name \in Names, RegisterGuardian(sender, name, registrationDepositWei)
  PROVE  GuardianContractIsExact'
<1> DEFINE n == Len(guardians)
           new == [index |-> n, name |-> name, registeredOn |-> guardianTime]
<1>1. /\ ~IsGuardian(sender) /\ guardians' = Append(guardians, sender)
      /\ guardiansData' = [guardiansData EXCEPT ![sender] = new]
      /\ depositsHeld' = depositsHeld + registrationDepositWei
  BY DEF RegisterGuardian, AcceptsRegistration
<1>2. /\ n \in Nat /\ DOMAIN guardians = 1..n
      /\ guardians' \in Seq(Candidates) /\ Len(guardians') = n + 1 /\ DOMAIN guardians' = 1..(n + 1)
      /\ \A k \in 1..n : guardians'[k] = guardians[k] /\ guardians[k] \in Candidates
      /\ guardians'[n + 1] = sender
  BY <1>1 DEF GuardianContractIsExact
<1>3. new \in [index : Nat, name : Names \cup {NoName}, registeredOn : Nat]
  BY <1>2
<1>4. guardiansData' \in [Candidates -> [index : Nat, name : Names \cup {NoName}, registeredOn : Nat]]
  BY <1>1, <1>3 DEF GuardianContractIsExact
<1>5. \A a \in Candidates : guardiansData'[a] = IF a = sender THEN new ELSE guardiansData[a]
  BY <1>1 DEF GuardianContractIsExact
<1>6. \A k \in 1..n : guardians[k] # sender
  BY <1>1, <1>2 DEF GuardianContractIsExact, RosterIsExact
<1>7. RosterIsExact'
  <2>1. ASSUME NEW k \in 1..(n + 1)
        PROVE  IsGuardian(guardians[k])' /\ guardiansData'[guardians'[k]].index = k - 1
    <3>1. CASE k = n + 1
      BY <1>2, <1>5, <3>1 DEF IsGuardian
    <3>2. CASE k \in 1..n
      <4>1. guardians'[k] = guardians[k] /\ guardiansData'[guardians[k]] = guardiansData[guardians[k]]
        BY <1>2, <1>5, <1>6, <3>2
      <4> QED
        BY <1>2, <3>2, <4>1 DEF GuardianContractIsExact, RosterIsExact, IsGuardian
    <3> QED
      BY <1>2, <3>1, <3>2
  <2>2. ASSUME NEW a \in Candidates, IsGuardian(a)'
        PROVE  guardiansData'[a].index + 1 \in 1..(n + 1) /\ guardians'[guardiansData'[a].index + 1] = a
    <3>1. CASE a = sender
      BY <1>2, <1>5, <3>1
    <3>2. CASE a # sender
      <4>1. guardiansData'[a] = guardiansData[a] /\ IsGuardian(a)
        BY <1>5, <2>2, <3>2 DEF IsGuardian
      <4>2. guardiansData[a].index + 1 \in 1..n /\ guardians[guardiansData[a].index + 1] = a
        BY <1>2, <4>1 DEF GuardianContractIsExact, RosterIsExact
      <4> QED
        BY <1>2, <4>1, <4>2
    <3> QED
      BY <3>1, <3>2
  <2> QED
    BY <1>2, <2>1, <2>2 DEF RosterIsExact
<1>8. depositsHeld' \in Nat /\ DepositsAreHeld'
  <2>1. registrationDepositWei * (n + 1) = registrationDepositWei * n + registrationDepositWei
    BY <1>2, DepositAssumption
  <2> QED
    BY <1>1, <1>2, <2>1, DepositAssumption DEF GuardianContractIsExact, DepositsAreHeld
<1> QED
  BY <1>2, <1>4, <1>7, <1>8 DEF GuardianContractIsExact

LEMMA GuardianUpdateKeepsExact ==
  ASSUME GuardianContractIsExact, NEW sender \in Candidates, NEW name \in Names, NEW value,
         UpdateGuardian(sender, name, value)
  PROVE  GuardianContractIsExact'
<1>1. /\ value = 0 /\ guardians' = guardians /\ depositsHeld' = depositsHeld
      /\ guardiansData' = [guardiansData EXCEPT ![sender].name = name]
  BY DEF UpdateGuardian, AcceptsUpdate, GuardianContractIsExact
<1>2. guardiansData' \in [Candidates -> [index : Nat, name : Names \cup {NoName}, registeredOn : Nat]]
  BY <1>1 DEF GuardianContractIsExact
<1>3. \A a \in Candidates : /\ guardiansData'[a].index = guardiansData[a].index
                            /\ guardiansData'[a].registeredOn = guardiansData[a].registeredOn
  BY <1>1 DEF GuardianContractIsExact
<1>4. \A k \in DOMAIN guardians : guardians[k] \in Candidates
  BY DEF GuardianContractIsExact
<1>5. RosterIsExact'
  BY <1>1, <1>3, <1>4 DEF GuardianContractIsExact, RosterIsExact, IsGuardian
<1> QED
  BY <1>1, <1>2, <1>5 DEF GuardianContractIsExact, DepositsAreHeld

LEMMA GuardianLeavingKeepsExact ==
  ASSUME GuardianContractIsExact, NEW sender \in Candidates, GuardianLeaves(sender)
  PROVE  GuardianContractIsExact'
<1> DEFINE n == Len(guardians)
           i == guardiansData[sender].index
           last == guardians[n]
<1>1. /\ IsGuardian(sender) /\ guardians[i + 1] = sender
      /\ guardians' = SubSeq([guardians EXCEPT ![i + 1] = last], 1, n - 1)
      /\ guardiansData' = [[guardiansData EXCEPT ![last].index = i] EXCEPT ![sender] = NoGuardian]
      /\ depositsHeld' = depositsHeld - registrationDepositWei
  BY DEF GuardianLeaves
<1>2. i + 1 \in DOMAIN guardians /\ guardians \in Seq(Candidates) /\ i \in Nat
  BY <1>1 DEF GuardianContractIsExact, RosterIsExact
<1>3. /\ n \in Nat \ {0} /\ i + 1 \in 1..n
      /\ guardians' \in Seq(Candidates) /\ Len(guardians') = n - 1 /\ DOMAIN guardians' = 1..(n - 1)
      /\ \A k \in 1..(n - 1) : guardians'[k] = IF k = i + 1 THEN last ELSE guardians[k]
  <2>1. guardians' = WithLastAt(guardians, i + 1)
    BY <1>1 DEF WithLastAt
  <2> HIDE DEF n, i, last
  <2> QED
    BY <1>2, <2>1, SwapWithLast DEF n, last
<1>4. /\ DOMAIN guardians = 1..n /\ last \in Candidates
      /\ \A k \in 1..n : /\ guardians[k] \in Candidates /\ IsGuardian(guardians[k])
                         /\ guardiansData[guardians[k]].index = k - 1
  <2>1. DOMAIN guardians = 1..n /\ \A k \in 1..n : guardians[k] \in Candidates
    BY <1>2
  <2>2. n \in 1..n
    BY <1>3
  <2> QED
    BY <2>1, <2>2 DEF GuardianContractIsExact, RosterIsExact
<1>5. /\ guardiansData' \in [Candidates -> [index : Nat, name : Names \cup {NoName}, registeredOn : Nat]]
      /\ guardiansData'[sender] = NoGuardian
      /\ \A a \in Candidates \ {sender} :
           /\ guardiansData'[a].index = IF a = last THEN i ELSE guardiansData[a].index
           /\ guardiansData'[a].registeredOn = guardiansData[a].registeredOn
  BY <1>1, <1>2, <1>4 DEF GuardianContractIsExact, NoGuardian
<1>6. last = sender => i = n - 1
  BY <1>3, <1>4
<1> HIDE DEF n, i, last
<1>7. ASSUME NEW k \in 1..(n - 1)
      PROVE  IsGuardian(guardians[k])' /\ guardiansData'[guardians'[k]].index = k - 1
  <2>1. CASE k = i + 1
    <3>1. guardians'[k] = last /\ last # sender
      BY <1>3, <1>6, <2>1
    <3>2. IsGuardian(last)
      BY <1>3, <1>4 DEF last
    <3> QED
      BY <1>2, <1>4, <1>5, <2>1, <3>1, <3>2 DEF IsGuardian
  <2>2. CASE k # i + 1
    <3>1. guardians'[k] = guardians[k] /\ k \in 1..n
      BY <1>3, <2>2
    <3>2. guardiansData[sender].index = i /\ guardiansData[last].index = n - 1
      BY <1>3, <1>4 DEF i, last, n
    <3>3. guardians[k] # sender /\ guardians[k] # last /\ guardians[k] \in Candidates
      BY <1>2, <1>3, <1>4, <2>2, <3>1, <3>2
    <3> QED
      BY <1>4, <1>5, <3>1, <3>3 DEF IsGuardian
  <2> QED
    BY <2>1, <2>2
<1>8. ASSUME NEW a \in Candidates, IsGuardian(a)'
      PROVE  guardiansData'[a].index + 1 \in 1..(n - 1) /\ guardians'[guardiansData'[a].index + 1] = a
  <2>1. a # sender
    BY <1>5, <1>8 DEF IsGuardian, NoGuardian
  <2>2. CASE a = last
    <3>1. guardiansData'[a].index = i /\ i + 1 # n
      <4>1. i + 1 # n
        BY <1>1, <2>1, <2>2 DEF last
      <4> QED
        BY <1>5, <2>1, <2>2, <4>1
    <3> QED
      BY <1>2, <1>3, <2>2, <3>1
  <2>3. CASE a # last
    <3>1. guardiansData'[a].index = guardiansData[a].index /\ IsGuardian(a)
      BY <1>5, <1>8, <2>1, <2>3 DEF IsGuardian
    <3>2. guardiansData[a].index + 1 \in 1..n /\ guardians[guardiansData[a].index + 1] = a
      BY <1>4, <3>1 DEF GuardianContractIsExact, RosterIsExact
    <3>3. guardiansData[a].index + 1 # i + 1 /\ guardiansData[a].index + 1 # n
      BY <1>1, <2>1, <2>3, <3>2 DEF last
    <3>4. guardiansData[a].index + 1 \in 1..(n - 1)
      BY <1>3, <3>2, <3>3
    <3> QED
      BY <1>3, <3>1, <3>2, <3>3, <3>4
  <2> QED
    BY <2>2, <2>3
<1>9. RosterIsExact'
  BY <1>3, <1>7, <1>8 DEF RosterIsExact
<1>10. depositsHeld' \in Nat /\ DepositsAreHeld'
  <2>1. depositsHeld = registrationDepositWei * n
    BY DEF GuardianContractIsExact, DepositsAreHeld, n
  <2>2. /\ registrationDepositWei * n = registrationDepositWei * (n - 1) + registrationDepositWei
        /\ registrationDepositWei * (n - 1) \in Nat
    BY <1>3, DepositAssumption
  <2>3. depositsHeld' = depositsHeld - registrationDepositWei /\ Len(guardians') = n - 1
    BY <1>1, <1>3
  <2>4. n \in Nat /\ registrationDepositWei \in Nat /\ registrationDepositWei * n \in Nat
    BY <1>3, DepositAssumption
  <2>5. depositsHeld' = registrationDepositWei * (n - 1)
    BY ONLY <2>1, <2>2, <2>3, <2>4
  <2>6. DepositsAreHeld'
    BY ONLY <2>3, <2>5 DEF DepositsAreHeld
  <2> QED
    BY <2>2, <2>5, <2>6
<1> QED
  BY <1>3, <1>5, <1>9, <1>10 DEF GuardianContractIsExact

-----------------------------------------------------------------------------
LEMMA GuardiansInitExact == GuardiansInit => GuardiansAreExact
<1> SUFFICES ASSUME GuardiansInit PROVE GuardiansAreExact
  OBVIOUS
<1>1. GuardiansTypeOK
  BY DEF GuardiansInit, GuardiansTypeOK, NoGuardian
<1>2. RosterIsExact
  BY DEF GuardiansInit, RosterIsExact, IsGuardian, NoGuardian
<1>3. DepositsAreHeld
  BY DepositAssumption DEF GuardiansInit, DepositsAreHeld
<1> QED
  BY <1>1, <1>2, <1>3 DEF GuardiansAreExact

LEMMA GuardiansStepExact == GuardiansAreExact /\ [GuardiansNext]_guardianVars => GuardiansAreExact'
<1> SUFFICES ASSUME GuardiansAreExact, [GuardiansNext]_guardianVars PROVE GuardiansAreExact'
  OBVIOUS
<1> DEFINE Request == [at : {"enabled", "sent", "mined", "refused", "unsigned"}, name : Names,
                       from : Candidates, method : {"none", "register", "update"}]
           Requests == Seq(Request)
<1>t. GuardianContractIsExact /\ guardianTime \in Nat \ {0} /\ guardianRequests \in Requests
  BY DEF GuardiansAreExact, GuardiansTypeOK, GuardianContractIsExact
<1>e. ASSUME GuardianContractIsExact', guardianTime' \in Nat \ {0}, guardianRequests' \in Requests
      PROVE  GuardiansAreExact'
  BY <1>e DEF GuardiansAreExact, GuardiansTypeOK, GuardianContractIsExact
<1>u. UNCHANGED guardianContractVars => GuardianContractIsExact'
  BY <1>t DEF guardianContractVars, GuardianContractIsExact, RosterIsExact, IsGuardian, DepositsAreHeld
<1>1. CASE UNCHANGED guardianVars
  BY <1>1, <1>t, <1>e, <1>u DEF guardianVars
<1>2. CASE GuardianCalls
  <2>1. guardianTime' = guardianTime /\ guardianRequests' = guardianRequests
    BY <1>2 DEF GuardianCalls
  <2>2. GuardianContractIsExact'
    BY <1>2, <1>t, GuardianRegistrationKeepsExact, GuardianUpdateKeepsExact, GuardianLeavingKeepsExact DEF GuardianCalls
  <2> QED
    BY <1>t, <1>e, <2>1, <2>2
<1>3. CASE GuardianTimePasses
  BY <1>3, <1>t, <1>e, <1>u DEF GuardianTimePasses
<1>4. ASSUME NEW name \in Names, AddGuardian(name)
      PROVE  GuardiansAreExact'
  <2>1. PICK who \in Candidates :
          guardianRequests' = Append(guardianRequests,
            [at |-> "enabled", name |-> name, from |-> who, method |-> "none"])
    BY <1>4 DEF AddGuardian
  <2>2. guardianRequests' \in Requests
    BY <1>t, <2>1
  <2> QED
    BY <1>4, <1>t, <1>e, <1>u, <2>2 DEF AddGuardian
<1>5. ASSUME NEW i \in DOMAIN guardianRequests, ChooseGuardianMethod(i)
      PROVE  GuardiansAreExact'
  <2>1. PICK method \in {"register", "update"} :
          guardianRequests' = [guardianRequests EXCEPT ![i].at = "sent", ![i].method = method]
    BY <1>5 DEF ChooseGuardianMethod
  <2>2. guardianRequests[i] \in Request
    BY ONLY <1>t, <1>5, EntryTyped
  <2>3. [guardianRequests[i] EXCEPT !.at = "sent", !.method = method] \in Request
    BY <2>2
  <2>4. guardianRequests' \in Requests
    BY <1>t, <2>1, <2>3, OneEntryChanged
  <2> QED
    BY <1>5, <1>t, <1>e, <1>u, <2>4 DEF ChooseGuardianMethod
<1>6. ASSUME NEW i \in DOMAIN guardianRequests, GuardianRequestMined(i)
      PROVE  GuardiansAreExact'
  <2>1. guardianRequests' \in Requests
    <3>1. PICK s \in {"mined", "refused", "unsigned"} :
            guardianRequests' = [guardianRequests EXCEPT ![i].at = s]
      BY <1>6 DEF GuardianRequestMined
    <3>2. guardianRequests[i] \in Request
      BY ONLY <1>t, <1>6, EntryTyped
    <3>3. [guardianRequests[i] EXCEPT !.at = s] \in Request
      BY <3>2
    <3> QED
      BY <1>t, <3>1, <3>3, OneEntryChanged
  <2>2. guardianRequests[i].from \in Candidates /\ guardianRequests[i].name \in Names
    <3>1. guardianRequests[i] \in Request
      BY ONLY <1>t, <1>6, EntryTyped
    <3> QED
      BY <3>1
  <2>3. GuardianContractIsExact'
    <3>1. \/ RegisterGuardian(guardianRequests[i].from, guardianRequests[i].name, registrationDepositWei)
          \/ UpdateGuardian(guardianRequests[i].from, guardianRequests[i].name, registrationDepositWei)
          \/ UNCHANGED guardianContractVars
      BY <1>6 DEF GuardianRequestMined
    <3> QED
      BY <1>t, <1>u, <2>2, <3>1, GuardianRegistrationKeepsExact, GuardianUpdateKeepsExact
  <2> QED
    BY <1>6, <1>t, <1>e, <2>1, <2>3 DEF GuardianRequestMined
<1> QED
  BY <1>1, <1>2, <1>3, <1>4, <1>5, <1>6 DEF GuardiansNext

(* The register stays exact for any number of guardians, whatever deposit   *)
(* the page sends with what.                                                *)
THEOREM RegisterOfGuardiansIsExact == GuardiansSpec => []GuardiansAreExact
  BY GuardiansInitExact, GuardiansStepExact, PTL DEF GuardiansSpec

-----------------------------------------------------------------------------
(* The validators.                                                          *)

IpKey == Ips \cup {NoKey}
OrbsKey == OrbsAddresses \cup {NoKey}

ApprovalsTyped == approvedValidators \in Seq(Operators) /\ approvalBlock \in [Operators -> BOOLEAN]

RegistryTyped ==
  /\ validatorsData \in [Operators -> [ip : IpKey, orbs : OrbsKey, registered : BOOLEAN]]
  /\ lookupByIp \in [IpKey -> Operators \cup {NullAccount}]
  /\ lookupByOrbsAddr \in [OrbsKey -> Operators \cup {NullAccount}]

RegistryIsExact == RegistryTyped /\ LookupsAreOneToOne
ApprovalsOk == ApprovalsTyped /\ ApprovalsAreExact

LEMMA ExactIsBoth == ValidatorsAreExact <=> RegistryIsExact /\ ApprovalsOk
  BY DEF ValidatorsAreExact, ValidatorsTypeOK, RegistryIsExact, RegistryTyped, ApprovalsOk,
     ApprovalsTyped, IpKey, OrbsKey

-----------------------------------------------------------------------------
(* The registry                                                             *)

LEMMA ValidatorRegistrationKeepsExact ==
  ASSUME RegistryIsExact, NEW sender \in Operators, NEW ip \in IpKey, NEW orbs \in OrbsKey,
         RegisterValidator(sender, ip, orbs)
  PROVE  RegistryIsExact'
<1> DEFINE new == [ip |-> ip, orbs |-> orbs, registered |-> TRUE]
<1>1. /\ ~validatorsData[sender].registered
      /\ lookupByIp[ip] = NullAccount /\ lookupByOrbsAddr[orbs] = NullAccount
      /\ lookupByIp' = [lookupByIp EXCEPT ![ip] = sender]
      /\ lookupByOrbsAddr' = [lookupByOrbsAddr EXCEPT ![orbs] = sender]
      /\ validatorsData' = [validatorsData EXCEPT ![sender] = new]
  BY DEF RegisterValidator, IsRegistered
<1>2. new \in [ip : IpKey, orbs : OrbsKey, registered : BOOLEAN]
  OBVIOUS
<1>3. RegistryTyped'
  BY <1>1, <1>2 DEF RegistryIsExact, RegistryTyped
<1>4. /\ \A a \in Operators : validatorsData'[a] = IF a = sender THEN new ELSE validatorsData[a]
      /\ \A k \in IpKey : lookupByIp'[k] = IF k = ip THEN sender ELSE lookupByIp[k]
      /\ \A k \in OrbsKey : lookupByOrbsAddr'[k] = IF k = orbs THEN sender ELSE lookupByOrbsAddr[k]
  BY <1>1 DEF RegistryIsExact, RegistryTyped
<1>5. ASSUME NEW k \in IpKey, NEW a \in Operators
      PROVE  lookupByIp'[k] = a <=> validatorsData'[a].registered /\ validatorsData'[a].ip = k
  <2>1. lookupByIp[k] = a <=> validatorsData[a].registered /\ validatorsData[a].ip = k
    BY DEF RegistryIsExact, LookupsAreOneToOne, IsRegistered, IpKey
  <2> QED
    BY <1>1, <1>4, <2>1, OperatorsAssumption
<1>6. ASSUME NEW k \in OrbsKey, NEW a \in Operators
      PROVE  lookupByOrbsAddr'[k] = a <=> validatorsData'[a].registered /\ validatorsData'[a].orbs = k
  <2>1. lookupByOrbsAddr[k] = a <=> validatorsData[a].registered /\ validatorsData[a].orbs = k
    BY DEF RegistryIsExact, LookupsAreOneToOne, IsRegistered, OrbsKey
  <2> QED
    BY <1>1, <1>4, <2>1, OperatorsAssumption
<1> QED
  BY <1>3, <1>5, <1>6 DEF RegistryIsExact, LookupsAreOneToOne, IsRegistered, IpKey, OrbsKey

LEMMA ValidatorUpdateKeepsExact ==
  ASSUME RegistryIsExact, NEW sender \in Operators, NEW ip \in IpKey, NEW orbs \in OrbsKey,
         UpdateValidator(sender, ip, orbs)
  PROVE  RegistryIsExact'
<1> DEFINE old == validatorsData[sender]
<1>1. /\ old.registered
      /\ lookupByIp[ip] \in {NullAccount, sender} /\ lookupByOrbsAddr[orbs] \in {NullAccount, sender}
      /\ lookupByIp' = [[lookupByIp EXCEPT ![old.ip] = NullAccount] EXCEPT ![ip] = sender]
      /\ lookupByOrbsAddr' = [[lookupByOrbsAddr EXCEPT ![old.orbs] = NullAccount] EXCEPT ![orbs] = sender]
      /\ validatorsData' = [validatorsData EXCEPT ![sender].ip = ip, ![sender].orbs = orbs]
  BY DEF UpdateValidator, IsRegistered
<1>2. old \in [ip : IpKey, orbs : OrbsKey, registered : BOOLEAN]
  BY DEF RegistryIsExact, RegistryTyped
<1>3. /\ lookupByIp' \in [IpKey -> Operators \cup {NullAccount}]
      /\ lookupByOrbsAddr' \in [OrbsKey -> Operators \cup {NullAccount}]
  BY <1>1, <1>2 DEF RegistryIsExact, RegistryTyped
<1>4. /\ validatorsData' \in [Operators -> [ip : IpKey, orbs : OrbsKey, registered : BOOLEAN]]
      /\ validatorsData'[sender].registered
      /\ validatorsData'[sender].ip = ip /\ validatorsData'[sender].orbs = orbs
      /\ \A a \in Operators \ {sender} : validatorsData'[a] = validatorsData[a]
  BY <1>1, <1>2 DEF RegistryIsExact, RegistryTyped
<1>5. /\ \A k \in IpKey : lookupByIp'[k] = IF k = ip THEN sender
                                          ELSE IF k = old.ip THEN NullAccount ELSE lookupByIp[k]
      /\ \A k \in OrbsKey : lookupByOrbsAddr'[k] = IF k = orbs THEN sender
                                          ELSE IF k = old.orbs THEN NullAccount ELSE lookupByOrbsAddr[k]
  BY <1>1, <1>2 DEF RegistryIsExact, RegistryTyped
<1> HIDE DEF old
<1>6. ASSUME NEW k \in IpKey, NEW a \in Operators
      PROVE  lookupByIp'[k] = a <=> validatorsData'[a].registered /\ validatorsData'[a].ip = k
  <2>1. \A j \in IpKey, b \in Operators :
          lookupByIp[j] = b <=> validatorsData[b].registered /\ validatorsData[b].ip = j
    BY DEF RegistryIsExact, LookupsAreOneToOne, IsRegistered, IpKey
  <2>2. lookupByIp[old.ip] = sender
    BY <1>1, <1>2, <2>1 DEF old
  <2>3. CASE a = sender
    <3>1. lookupByIp[k] = sender => old.ip = k
      BY <2>1 DEF old
    <3>2. k # ip => lookupByIp'[k] = IF k = old.ip THEN NullAccount ELSE lookupByIp[k]
      BY <1>5
    <3>3. k # ip => lookupByIp'[k] # sender
      BY <3>1, <3>2, OperatorsAssumption
    <3> QED
      BY <1>4, <1>5, <2>3, <3>3
  <2>4. CASE a # sender
    <3>1. validatorsData'[a] = validatorsData[a]
      BY <1>4, <2>4
    <3>2. CASE k = ip
      <4>1. lookupByIp[k] # a /\ lookupByIp'[k] = sender
        <5>1. lookupByIp[k] \in {NullAccount, sender}
          BY <1>1, <3>2
        <5>2. a # NullAccount
          BY OperatorsAssumption
        <5>3. lookupByIp'[k] = sender
          BY <1>5, <3>2
        <5> QED
          BY <2>4, <5>1, <5>2, <5>3
      <4>2. lookupByIp[k] = a <=> validatorsData[a].registered /\ validatorsData[a].ip = k
        BY <2>1
      <4>3. lookupByIp'[k] # a
        BY ONLY <2>4, <4>1
      <4>4. ~(validatorsData[a].registered /\ validatorsData[a].ip = k)
        BY ONLY <4>1, <4>2
      <4>5. ~(validatorsData'[a].registered /\ validatorsData'[a].ip = k)
        BY ONLY <3>1, <4>4
      <4> QED
        BY <4>3, <4>5
    <3>3. CASE k # ip /\ k = old.ip
      BY <1>5, <2>1, <2>2, <2>4, <3>1, <3>3, OperatorsAssumption
    <3>4. CASE k # ip /\ k # old.ip
      BY <1>5, <2>1, <3>1, <3>4
    <3> QED
      BY <3>2, <3>3, <3>4
  <2> QED
    BY <2>3, <2>4
<1>7. ASSUME NEW k \in OrbsKey, NEW a \in Operators
      PROVE  lookupByOrbsAddr'[k] = a <=> validatorsData'[a].registered /\ validatorsData'[a].orbs = k
  <2>1. \A j \in OrbsKey, b \in Operators :
          lookupByOrbsAddr[j] = b <=> validatorsData[b].registered /\ validatorsData[b].orbs = j
    BY DEF RegistryIsExact, LookupsAreOneToOne, IsRegistered, OrbsKey
  <2>2. lookupByOrbsAddr[old.orbs] = sender
    BY <1>1, <1>2, <2>1 DEF old
  <2>3. CASE a = sender
    <3>1. lookupByOrbsAddr[k] = sender => old.orbs = k
      BY <2>1 DEF old
    <3>2. k # orbs => lookupByOrbsAddr'[k] = IF k = old.orbs THEN NullAccount ELSE lookupByOrbsAddr[k]
      BY <1>5
    <3>3. k # orbs => lookupByOrbsAddr'[k] # sender
      BY <3>1, <3>2, OperatorsAssumption
    <3> QED
      BY <1>4, <1>5, <2>3, <3>3
  <2>4. CASE a # sender
    <3>1. validatorsData'[a] = validatorsData[a]
      BY <1>4, <2>4
    <3>2. CASE k = orbs
      <4>1. lookupByOrbsAddr[k] # a /\ lookupByOrbsAddr'[k] = sender
        <5>1. lookupByOrbsAddr[k] \in {NullAccount, sender}
          BY <1>1, <3>2
        <5>2. a # NullAccount
          BY OperatorsAssumption
        <5>3. lookupByOrbsAddr'[k] = sender
          BY <1>5, <3>2
        <5> QED
          BY <2>4, <5>1, <5>2, <5>3
      <4>2. lookupByOrbsAddr[k] = a <=> validatorsData[a].registered /\ validatorsData[a].orbs = k
        BY <2>1
      <4>3. lookupByOrbsAddr'[k] # a
        BY ONLY <2>4, <4>1
      <4>4. ~(validatorsData[a].registered /\ validatorsData[a].orbs = k)
        BY ONLY <4>1, <4>2
      <4>5. ~(validatorsData'[a].registered /\ validatorsData'[a].orbs = k)
        BY ONLY <3>1, <4>4
      <4> QED
        BY <4>3, <4>5
    <3>3. CASE k # orbs /\ k = old.orbs
      BY <1>5, <2>1, <2>2, <2>4, <3>1, <3>3, OperatorsAssumption
    <3>4. CASE k # orbs /\ k # old.orbs
      BY <1>5, <2>1, <3>1, <3>4
    <3> QED
      BY <3>2, <3>3, <3>4
  <2> QED
    BY <2>3, <2>4
<1> QED
  BY <1>3, <1>4, <1>6, <1>7 DEF RegistryIsExact, RegistryTyped, LookupsAreOneToOne, IsRegistered, IpKey, OrbsKey

LEMMA ValidatorLeavingKeepsExact ==
  ASSUME RegistryIsExact, NEW sender \in Operators, ValidatorLeaves(sender)
  PROVE  RegistryIsExact'
<1> DEFINE old == validatorsData[sender]
<1>1. /\ old.registered
      /\ lookupByIp' = [lookupByIp EXCEPT ![old.ip] = NullAccount]
      /\ lookupByOrbsAddr' = [lookupByOrbsAddr EXCEPT ![old.orbs] = NullAccount]
      /\ validatorsData' = [validatorsData EXCEPT ![sender] = NoValidator]
  BY DEF ValidatorLeaves, IsRegistered
<1>2. old \in [ip : IpKey, orbs : OrbsKey, registered : BOOLEAN]
  BY DEF RegistryIsExact, RegistryTyped
<1>3. NoValidator \in [ip : IpKey, orbs : OrbsKey, registered : BOOLEAN] /\ ~NoValidator.registered
  BY DEF NoValidator, IpKey, OrbsKey
<1>4. RegistryTyped'
  BY <1>1, <1>2, <1>3 DEF RegistryIsExact, RegistryTyped
<1>5. /\ \A a \in Operators : validatorsData'[a] = IF a = sender THEN NoValidator ELSE validatorsData[a]
      /\ \A k \in IpKey : lookupByIp'[k] = IF k = old.ip THEN NullAccount ELSE lookupByIp[k]
      /\ \A k \in OrbsKey : lookupByOrbsAddr'[k] = IF k = old.orbs THEN NullAccount ELSE lookupByOrbsAddr[k]
  BY <1>1, <1>2 DEF RegistryIsExact, RegistryTyped
<1>6. ASSUME NEW k \in IpKey, NEW a \in Operators
      PROVE  lookupByIp'[k] = a <=> validatorsData'[a].registered /\ validatorsData'[a].ip = k
  <2>1. \A b \in Operators : lookupByIp[k] = b <=> validatorsData[b].registered /\ validatorsData[b].ip = k
    BY DEF RegistryIsExact, LookupsAreOneToOne, IsRegistered, IpKey
  <2> QED
    BY <1>1, <1>3, <1>5, <2>1, OperatorsAssumption
<1>7. ASSUME NEW k \in OrbsKey, NEW a \in Operators
      PROVE  lookupByOrbsAddr'[k] = a <=> validatorsData'[a].registered /\ validatorsData'[a].orbs = k
  <2>1. \A b \in Operators : lookupByOrbsAddr[k] = b <=> validatorsData[b].registered /\ validatorsData[b].orbs = k
    BY DEF RegistryIsExact, LookupsAreOneToOne, IsRegistered, OrbsKey
  <2> QED
    BY <1>1, <1>3, <1>5, <2>1, OperatorsAssumption
<1> QED
  BY <1>4, <1>6, <1>7 DEF RegistryIsExact, LookupsAreOneToOne, IsRegistered, IpKey, OrbsKey

-----------------------------------------------------------------------------
(* The approvals                                                            *)

LEMMA ApprovingKeepsExact ==
  ASSUME ApprovalsOk, NEW who \in Operators, Approve(who)
  PROVE  ApprovalsOk'
<1> DEFINE n == Len(approvedValidators)
<1>1. /\ n < validatorsLimit /\ ~approvalBlock[who]
      /\ approvedValidators' = Append(approvedValidators, who)
      /\ approvalBlock' = [approvalBlock EXCEPT ![who] = TRUE]
  BY DEF Approve, IsApproved
<1>2. /\ n \in Nat /\ DOMAIN approvedValidators = 1..n
      /\ approvedValidators' \in Seq(Operators)
      /\ Len(approvedValidators') = n + 1 /\ DOMAIN approvedValidators' = 1..(n + 1)
      /\ \A k \in 1..n : approvedValidators'[k] = approvedValidators[k]
      /\ approvedValidators'[n + 1] = who
  BY <1>1 DEF ApprovalsOk, ApprovalsTyped
<1>3. /\ approvalBlock' \in [Operators -> BOOLEAN]
      /\ \A a \in Operators : approvalBlock'[a] <=> a = who \/ approvalBlock[a]
  BY <1>1 DEF ApprovalsOk, ApprovalsTyped
<1>4. /\ \A i, j \in 1..n : approvedValidators[i] = approvedValidators[j] => i = j
      /\ \A a \in Operators : approvalBlock[a] <=> \E i \in 1..n : approvedValidators[i] = a
  BY <1>2 DEF ApprovalsOk, ApprovalsAreExact, IsApproved
<1>5. Len(approvedValidators') <= validatorsLimit
  BY <1>1, <1>2, OperatorsAssumption
<1> HIDE DEF n
<1>6. \A i \in 1..n : approvedValidators[i] # who
  BY <1>1, <1>4
<1>7. ASSUME NEW i \in 1..(n + 1), NEW j \in 1..(n + 1), approvedValidators'[i] = approvedValidators'[j]
      PROVE  i = j
  <2>1. i \in 1..n \/ i = n + 1
    BY <1>2
  <2>2. j \in 1..n \/ j = n + 1
    BY <1>2
  <2> QED
    BY <1>2, <1>4, <1>6, <1>7, <2>1, <2>2
<1>8. ASSUME NEW a \in Operators
      PROVE  approvalBlock'[a] <=> \E i \in 1..(n + 1) : approvedValidators'[i] = a
  <2>1. n + 1 \in 1..(n + 1) /\ \A i \in 1..n : i \in 1..(n + 1)
    BY <1>2
  <2>2. \A i \in 1..(n + 1) : i \in 1..n \/ i = n + 1
    BY <1>2
  <2> QED
    BY <1>2, <1>3, <1>4, <2>1, <2>2
<1> QED
  BY <1>2, <1>3, <1>5, <1>7, <1>8 DEF ApprovalsOk, ApprovalsTyped, ApprovalsAreExact, IsApproved

LEMMA RemovingKeepsExact ==
  ASSUME ApprovalsOk, NEW who \in Operators, RemoveValidator(who)
  PROVE  ApprovalsOk'
<1> DEFINE n == Len(approvedValidators)
           last == approvedValidators[n]
<1>1. PICK p \in DOMAIN approvedValidators :
        /\ approvedValidators[p] = who
        /\ approvedValidators' = WithLastAt(approvedValidators, p)
  BY DEF RemoveValidator, WithLastAt
<1>2. /\ n \in Nat \ {0} /\ p \in 1..n /\ approvedValidators' \in Seq(Operators)
      /\ Len(approvedValidators') = n - 1 /\ DOMAIN approvedValidators' = 1..(n - 1)
      /\ \A k \in 1..(n - 1) : approvedValidators'[k] = IF k = p THEN last ELSE approvedValidators[k]
  <2>1. approvedValidators \in Seq(Operators)
    BY DEF ApprovalsOk, ApprovalsTyped
  <2> HIDE DEF n, last
  <2> QED
    BY <1>1, <2>1, SwapWithLast DEF n, last
<1>3. /\ approvalBlock' \in [Operators -> BOOLEAN]
      /\ \A a \in Operators : approvalBlock'[a] <=> a # who /\ approvalBlock[a]
  BY DEF RemoveValidator, ApprovalsOk, ApprovalsTyped
<1>4. DOMAIN approvedValidators = 1..n
  BY DEF ApprovalsOk, ApprovalsTyped
<1>5. /\ \A i, j \in 1..n : approvedValidators[i] = approvedValidators[j] => i = j
      /\ \A a \in Operators : approvalBlock[a] <=> \E i \in 1..n : approvedValidators[i] = a
      /\ n <= validatorsLimit
  BY <1>4 DEF ApprovalsOk, ApprovalsAreExact, IsApproved
<1>6. Len(approvedValidators') <= validatorsLimit
  BY <1>2, <1>5, OperatorsAssumption
<1>7. n \in 1..n /\ \A k \in 1..(n - 1) : k \in 1..n /\ k # n
  BY <1>2
<1>8. \A k \in 1..n : k # n => k \in 1..(n - 1)
  BY <1>2
<1>9. last = approvedValidators[n]
  OBVIOUS
<1> HIDE DEF n, last
<1>10. ASSUME NEW i \in 1..(n - 1), NEW j \in 1..(n - 1), approvedValidators'[i] = approvedValidators'[j]
       PROVE  i = j
  BY <1>2, <1>5, <1>7, <1>9, <1>10
<1>11. ASSUME NEW a \in Operators
       PROVE  approvalBlock'[a] <=> \E i \in 1..(n - 1) : approvedValidators'[i] = a
  <2>1. ASSUME NEW i \in 1..(n - 1), approvedValidators'[i] = a
        PROVE  approvalBlock'[a]
    <3>1. CASE i = p
      <4>1. a = last /\ n # p
        BY <1>2, <1>7, <2>1, <3>1
      <4> QED
        BY <1>1, <1>2, <1>3, <1>5, <1>7, <1>9, <4>1
    <3>2. CASE i # p
      <4>1. a = approvedValidators[i] /\ a # who
        BY <1>1, <1>2, <1>5, <1>7, <2>1, <3>2
      <4> QED
        BY <1>3, <1>5, <1>7, <4>1
    <3> QED
      BY <3>1, <3>2
  <2>2. ASSUME approvalBlock'[a]
        PROVE  \E i \in 1..(n - 1) : approvedValidators'[i] = a
    <3>1. PICK k \in 1..n : approvedValidators[k] = a
      BY <1>3, <1>5, <2>2
    <3>2. k # p
      BY <1>1, <1>3, <2>2, <3>1
    <3>3. CASE k = n
      <4>1. p \in 1..(n - 1)
        BY <1>2, <1>8, <3>2, <3>3
      <4> QED
        BY <1>2, <1>9, <3>1, <3>3, <4>1
    <3>4. CASE k # n
      BY <1>2, <1>8, <3>1, <3>2, <3>4
    <3> QED
      BY <3>3, <3>4
  <2> QED
    BY <2>1, <2>2
<1> QED
  BY <1>2, <1>3, <1>6, <1>10, <1>11 DEF ApprovalsOk, ApprovalsTyped, ApprovalsAreExact, IsApproved

-----------------------------------------------------------------------------
LEMMA ValidatorsInitExact == ValidatorsInit => ValidatorsAreExact
<1> SUFFICES ASSUME ValidatorsInit PROVE ValidatorsAreExact
  OBVIOUS
<1>1. ValidatorsTypeOK
  BY DEF ValidatorsInit, ValidatorsTypeOK, NoValidator
<1>2. LookupsAreOneToOne
  BY OperatorsAssumption DEF ValidatorsInit, LookupsAreOneToOne, IsRegistered, NoValidator
<1>3. ApprovalsAreExact
  BY OperatorsAssumption DEF ValidatorsInit, ApprovalsAreExact, IsApproved
<1> QED
  BY <1>1, <1>2, <1>3 DEF ValidatorsAreExact

(* The requests of the page, which are not part of either register, name    *)
(* accounts and keys.                                                       *)
ValidatorRequestsTyped ==
  validatorRequests \in Seq([at : {"enabled", "sent", "over"}, from : Operators, ip : Ips,
                             orbs : OrbsKey, method : {"none", "register", "update"}])

LEMMA ValidatorsStepExact ==
  ValidatorRequestsTyped /\ ValidatorsAreExact /\ [ValidatorsNext]_validatorVars
    => ValidatorRequestsTyped' /\ ValidatorsAreExact'
<1> SUFFICES ASSUME ValidatorRequestsTyped, ValidatorsAreExact, [ValidatorsNext]_validatorVars
             PROVE  ValidatorRequestsTyped' /\ ValidatorsAreExact'
  OBVIOUS
<1> DEFINE Request == [at : {"enabled", "sent", "over"}, from : Operators, ip : Ips,
                       orbs : OrbsKey, method : {"none", "register", "update"}]
<1>t. RegistryIsExact /\ ApprovalsOk /\ validatorRequests \in Seq(Request)
  BY ExactIsBoth DEF ValidatorRequestsTyped
<1>e. ASSUME RegistryIsExact', ApprovalsOk', validatorRequests' \in Seq(Request)
      PROVE  ValidatorRequestsTyped' /\ ValidatorsAreExact'
  BY <1>e DEF ValidatorRequestsTyped, ValidatorsAreExact, ValidatorsTypeOK, RegistryIsExact, RegistryTyped,
     ApprovalsOk, ApprovalsTyped, IpKey, OrbsKey
<1>r. UNCHANGED registryVars => RegistryIsExact'
  BY <1>t DEF registryVars, RegistryIsExact, RegistryTyped, LookupsAreOneToOne, IsRegistered
<1>a. UNCHANGED approvalVars => ApprovalsOk'
  BY <1>t DEF approvalVars, ApprovalsOk, ApprovalsTyped, ApprovalsAreExact, IsApproved
<1>1. CASE UNCHANGED validatorVars
  BY <1>1, <1>t, <1>e, <1>r, <1>a DEF validatorVars
<1>2. CASE RegistryCalls
  <2>1. RegistryIsExact'
    BY <1>2, <1>t, ValidatorRegistrationKeepsExact, ValidatorUpdateKeepsExact, ValidatorLeavingKeepsExact DEF RegistryCalls, IpKey, OrbsKey
  <2> QED
    BY <1>2, <1>t, <1>e, <1>a, <2>1 DEF RegistryCalls
<1>3. CASE OwnerCalls
  <2>1. ApprovalsOk'
    BY <1>3, <1>t, ApprovingKeepsExact, RemovingKeepsExact DEF OwnerCalls
  <2> QED
    BY <1>3, <1>t, <1>e, <1>r, <2>1 DEF OwnerCalls
<1>4. CASE AddValidator
  <2>1. PICK who \in Operators, ip \in Ips, orbs \in OrbsKey :
          validatorRequests' = Append(validatorRequests,
            [at |-> "enabled", from |-> who, ip |-> ip, orbs |-> orbs, method |-> "none"])
    BY <1>4 DEF AddValidator, OrbsKey
  <2>2. validatorRequests' \in Seq(Request)
    BY <1>t, <2>1
  <2> QED
    BY <1>4, <1>e, <1>r, <1>a, <2>2 DEF AddValidator
<1>5. ASSUME NEW i \in DOMAIN validatorRequests, ChooseValidatorMethod(i)
      PROVE  ValidatorRequestsTyped' /\ ValidatorsAreExact'
  <2>1. PICK method \in {"register", "update"} :
          validatorRequests' = [validatorRequests EXCEPT ![i].at = "sent", ![i].method = method]
    BY <1>5 DEF ChooseValidatorMethod
  <2>2. validatorRequests[i] \in Request
    BY ONLY <1>t, <1>5, EntryTyped
  <2>3. [validatorRequests[i] EXCEPT !.at = "sent", !.method = method] \in Request
    BY <2>2
  <2>4. validatorRequests' \in Seq(Request)
    BY <1>t, <2>1, <2>3, OneEntryChanged
  <2> QED
    BY <1>5, <1>e, <1>r, <1>a, <2>4 DEF ChooseValidatorMethod
<1>6. ASSUME NEW i \in DOMAIN validatorRequests, ValidatorRequestMined(i) \/ ValidatorRequestRefused(i)
      PROVE  ValidatorRequestsTyped' /\ ValidatorsAreExact'
  <2>1. validatorRequests' = [validatorRequests EXCEPT ![i].at = "over"] /\ UNCHANGED approvalVars
    BY <1>6 DEF ValidatorRequestMined, ValidatorRequestRefused
  <2>2. validatorRequests[i] \in Request
    BY ONLY <1>t, <1>6, EntryTyped
  <2>3. [validatorRequests[i] EXCEPT !.at = "over"] \in Request
    BY <2>2
  <2>4. validatorRequests' \in Seq(Request)
    BY <1>t, <2>1, <2>3, OneEntryChanged
  <2>5. /\ validatorRequests[i].from \in Operators /\ validatorRequests[i].ip \in IpKey
        /\ validatorRequests[i].orbs \in OrbsKey
    BY <2>2 DEF IpKey
  <2>6. RegistryIsExact'
    BY <1>6, <1>t, <1>r, <2>5, ValidatorRegistrationKeepsExact, ValidatorUpdateKeepsExact
    DEF ValidatorRequestMined, ValidatorRequestRefused
  <2> QED
    BY <1>e, <1>a, <2>1, <2>4, <2>6
<1> QED
  BY <1>1, <1>2, <1>3, <1>4, <1>5, <1>6 DEF ValidatorsNext

(* Both registers stay exact for any number of validators, keys, approvals  *)
(* and requests of the page.                                                *)
THEOREM RegistersOfValidatorsAreExact == ValidatorsSpec => []ValidatorsAreExact
<1>1. ValidatorsInit => ValidatorRequestsTyped
  BY DEF ValidatorsInit, ValidatorRequestsTyped
<1> QED
  BY <1>1, ValidatorsInitExact, ValidatorsStepExact, PTL DEF ValidatorsSpec

-----------------------------------------------------------------------------
(* Who reads the registers.                                                 *)

(* Page k holds the entries from k * pageSize on.                           *)
LEMMA PageIs ==
  ASSUME NEW S, guardians \in Seq(S), NEW off \in Nat, NEW pageSize \in Nat \ {0}
  PROVE  /\ GetGuardians(off, pageSize) \in Seq(S)
         /\ off + pageSize <= Len(guardians) =>
              /\ GetGuardians(off, pageSize) = SubSeq(guardians, off + 1, off + pageSize)
              /\ Len(GetGuardians(off, pageSize)) = pageSize
         /\ off + pageSize > Len(guardians) =>
              /\ Len(GetGuardians(off, pageSize)) < pageSize
              /\ off <= Len(guardians) =>
                   GetGuardians(off, pageSize) = SubSeq(guardians, off + 1, Len(guardians))
<1> DEFINE n == Len(guardians)
<1>1. n \in Nat
  OBVIOUS
<1>2. CASE off >= n
  <2>1. GetGuardians(off, pageSize) = <<>>
    BY <1>2 DEF GetGuardians
  <2>2. off = n => SubSeq(guardians, off + 1, n) = <<>>
    BY <1>1
  <2>3. <<>> \in Seq(S) /\ Len(<<>>) = 0
    OBVIOUS
  <2> HIDE DEF n
  <2>4. ~(off + pageSize <= n) /\ (off <= n => off = n) /\ 0 < pageSize
    BY <1>1, <1>2
  <2> QED BY <2>1, <2>2, <2>3, <2>4 DEF n
<1>3. CASE ~(off >= n)
  <2>1. off < n /\ off + 1 \in 1 .. n
    BY <1>1, <1>3
  <2>2. CASE off + pageSize > n
    <3>1. GetGuardians(off, pageSize) = SubSeq(guardians, off + 1, n)
      BY <1>3, <2>2 DEF GetGuardians
    <3>2. SubSeq(guardians, off + 1, n) \in Seq(S) /\ Len(SubSeq(guardians, off + 1, n)) = n - off
      BY <1>1, <2>1
    <3> HIDE DEF n
    <3>3. n - off < pageSize /\ ~(off + pageSize <= n)
      BY <1>1, <2>1, <2>2
    <3> QED BY <2>1, <2>2, <3>1, <3>2, <3>3 DEF n
  <2>3. CASE ~(off + pageSize > n)
    <3>1. GetGuardians(off, pageSize) = SubSeq(guardians, off + 1, off + pageSize)
      BY <1>3, <2>3 DEF GetGuardians
    <3>2. off + pageSize \in 1 .. n
      BY <1>1, <2>1, <2>3
    <3>3. /\ SubSeq(guardians, off + 1, off + pageSize) \in Seq(S)
          /\ Len(SubSeq(guardians, off + 1, off + pageSize)) = off + pageSize - off
      BY <1>1, <2>1, <3>2
    <3>4. off + pageSize - off = pageSize
      OBVIOUS
    <3> QED BY <2>3, <3>1, <3>3, <3>4
  <2> QED BY <2>2, <2>3
<1> QED BY <1>2, <1>3

(* The pages, whatever their size, are the list.                            *)
LEMMA PagesJoined ==
  ASSUME NEW S, guardians \in Seq(S), NEW p \in Nat \ {0}
  PROVE  ReadGuardiansFromEthereum(p) = guardians
<1> DEFINE n == Len(guardians)
           page(k) == GetGuardians(k * p, p)
           Short == {k \in 0 .. n : Len(page(k)) < p}
           m == Min(Short)
           q == [k \in 1 .. m + 1 |-> page(k - 1)]
<1>1. n \in Nat /\ p \in Nat /\ p >= 1
  OBVIOUS
<1>2. \A k \in Nat : k * p \in Nat
  OBVIOUS
<1>3. ASSUME NEW k \in Nat
      PROVE  /\ page(k) \in Seq(S) /\ (k * p + p <= n \/ k * p + p > n)
             /\ k * p + p <= n => page(k) = SubSeq(guardians, k * p + 1, k * p + p) /\ ~(Len(page(k)) < p)
             /\ k * p + p > n => Len(page(k)) < p
             /\ k * p + p > n /\ k * p <= n => page(k) = SubSeq(guardians, k * p + 1, n)
  <2>1. PICK off \in Nat : off = k * p
    BY <1>2
  <2>2. off + p <= n \/ off + p > n
    BY <1>1, <2>1
  <2>3. ~(p < p)
    BY <1>1
  <2> HIDE DEF n
  <2> QED BY <2>1, <2>2, <2>3, PageIs DEF n
<1>4. m \in Short /\ \A k \in Short : m <= k
  <2>1. n * p + p > n
    <3>1. n * p = n + n * (p - 1) /\ n * (p - 1) \in Nat
      BY <1>1
    <3> HIDE DEF n
    <3> QED BY <1>1, <1>2, <3>1
  <2>2. n \in Short
    <3> HIDE DEF n, page
    <3>1. n \in 0 .. n
      BY <1>1
    <3> QED BY <1>1, <1>3, <2>1, <3>1
  <2>3. Short \in SUBSET Nat
    BY <1>1
  <2> HIDE DEF Short
  <2> QED BY <2>2, <2>3, SmallestNumber
<1>5. m \in Nat /\ m <= n /\ Len(page(m)) < p
  BY <1>1, <1>4
<1> HIDE DEF m
<1>6. ASSUME NEW k \in Nat, k < m PROVE k * p + p <= n
  <2>1. k \in 0 .. n /\ ~(m <= k)
    BY <1>1, <1>5, <1>6
  <2>2. ~(Len(page(k)) < p)
    BY <1>4, <2>1
  <2> HIDE DEF page
  <2> QED BY <1>3, <2>2
<1>7. m * p <= n
  <2>1. CASE m = 0
    BY <1>1, <2>1
  <2>2. CASE m # 0
    <3>1. m - 1 \in Nat /\ m - 1 < m /\ (m - 1) * p + p = m * p
      BY <1>1, <1>5, <2>2
    <3> HIDE DEF n
    <3> QED BY <1>6, <3>1
  <2> QED BY <2>1, <2>2
<1>8. m * p + p > n
  <2>1. Len(page(m)) < p
    BY <1>5
  <2> HIDE DEF page, n
  <2> QED BY <1>3, <1>5, <2>1
<1>9. q \in Seq(Seq(S)) /\ Len(q) = m + 1 /\ Len(q) # 0
  <2>1. \A k \in 1 .. m + 1 : k - 1 \in Nat
    BY <1>5
  <2> HIDE DEF page
  <2>2. \A k \in 1 .. m + 1 : page(k - 1) \in Seq(S)
    BY <1>3, <2>1
  <2> QED BY <1>5, <2>2
<1>10. ReadGuardiansFromEthereum(p) = FlattenSeq(q)
  BY DEF ReadGuardiansFromEthereum, m
<1>11. PICK F : /\ FlattenSeq(q) = F[m + 1]
                /\ \A i \in 1 .. m + 1 : F[i] = IF i = 1 THEN q[i] ELSE F[i - 1] \o q[i]
  <2> HIDE DEF q
  <2>1. PICK F : JoinedStepwise(F, q) /\ FlattenSeq(q) = F[Len(q)]
    BY <1>9, FlattenSteps
  <2> QED BY <1>9, <2>1 DEF JoinedStepwise
<1>12. \A i \in 1 .. m + 1 : q[i] = page(i - 1)
  OBVIOUS
<1> HIDE DEF page, q
<1> DEFINE Good == {k \in Nat : k + 1 <= m => F[k + 1] = SubSeq(guardians, 1, (k + 1) * p)}
<1>13. 0 \in Good
  <2> SUFFICES ASSUME 1 <= m PROVE F[1] = SubSeq(guardians, 1, 1 * p)
    OBVIOUS
  <2>1. F[1] = q[1] /\ q[1] = page(0)
    BY <1>5, <1>11, <1>12
  <2>2. 0 < m
    BY <1>5
  <2>3. page(0) = SubSeq(guardians, 0 * p + 1, 0 * p + p)
    BY <1>3, <1>6, <2>2
  <2>4. 0 * p + 1 = 1 /\ 0 * p + p = 1 * p
    BY <1>1
  <2> QED BY <2>1, <2>3, <2>4
<1>14. ASSUME NEW k \in Nat, k \in Good PROVE k + 1 \in Good
  <2> SUFFICES ASSUME k + 2 <= m PROVE F[k + 2] = SubSeq(guardians, 1, (k + 2) * p)
    <3>1. k + 1 + 1 = k + 2
      OBVIOUS
    <3> QED BY <3>1
  <2>1. /\ k + 1 <= m /\ k + 2 \in 1 .. m + 1 /\ k + 2 # 1 /\ k + 2 - 1 = k + 1 /\ k + 1 < m /\ k + 1 \in Nat
    <3>1. k \in Nat /\ m \in Nat /\ k + 2 <= m
      BY <1>5
    <3> QED BY ONLY <3>1
  <2>2. F[k + 1] = SubSeq(guardians, 1, (k + 1) * p)
    BY <1>14, <2>1
  <2>3. F[k + 2] = F[k + 1] \o q[k + 2] /\ q[k + 2] = page(k + 1)
    <3>1. PICK i \in 1 .. m + 1 : i = k + 2 /\ i # 1 /\ i - 1 = k + 1
      BY <2>1
    <3>2. F[i] = F[i - 1] \o q[i] /\ q[i] = page(i - 1)
      BY <1>11, <1>12, <3>1
    <3> QED BY <3>1, <3>2
  <2>4. (k + 1) * p + p <= n
    BY <1>6, <2>1
  <2>5. page(k + 1) = SubSeq(guardians, (k + 1) * p + 1, (k + 1) * p + p)
    BY <1>3, <2>1, <2>4
  <2>6. PICK a \in Nat : a = (k + 1) * p /\ a >= 1
    BY <1>1
  <2>7. (k + 1) * p + p = (k + 2) * p
    BY <1>1
  <2>8. SubSeq(guardians, 1, a) \o SubSeq(guardians, a + 1, a + p) = SubSeq(guardians, 1, a + p)
    <3>1. a \in 0 .. Len(guardians) /\ a + p \in a .. Len(guardians) /\ 1 \in 1 .. a + 1
      BY <1>1, <2>4, <2>6
    <3> QED BY <3>1, ConcatAdjacentSubSeq
  <2> QED BY <2>2, <2>3, <2>5, <2>6, <2>7, <2>8
<1>15. \A k \in Nat : k \in Good
  <2> HIDE DEF Good
  <2> QED BY <1>13, <1>14, CountUp
<1>16. SubSeq(guardians, 1, n) = guardians
  BY <1>1, SubSeqFull
<1>17. page(m) = SubSeq(guardians, m * p + 1, n)
  BY <1>3, <1>5, <1>7, <1>8
<1>18. CASE m = 0
  <2>1. F[1] = q[1] /\ q[1] = page(0) /\ m + 1 = 1
    BY <1>5, <1>11, <1>12, <1>18
  <2>2. m * p + 1 = 1
    BY <1>1, <1>18
  <2> QED BY <1>10, <1>11, <1>16, <1>17, <1>18, <2>1, <2>2
<1>19. CASE m # 0
  <2>1. /\ m - 1 \in Nat /\ (m - 1) + 1 <= m /\ (m - 1) + 1 = m /\ m + 1 \in 1 .. m + 1 /\ m + 1 # 1
        /\ m + 1 - 1 = m
    <3>1. m \in Nat /\ m # 0
      BY <1>5, <1>19
    <3> QED BY ONLY <3>1
  <2>2. F[m] = SubSeq(guardians, 1, m * p)
    BY <1>15, <2>1
  <2>3. F[m + 1] = F[m] \o page(m)
    <3>1. PICK i \in 1 .. m + 1 : i = m + 1 /\ i # 1 /\ i - 1 = m
      BY <2>1
    <3>2. F[i] = F[i - 1] \o q[i] /\ q[i] = page(i - 1)
      BY <1>11, <1>12, <3>1
    <3> QED BY <3>1, <3>2
  <2>4. PICK a \in Nat : a = m * p
    BY <1>2, <1>5
  <2>5. SubSeq(guardians, 1, a) \o SubSeq(guardians, a + 1, n) = SubSeq(guardians, 1, n)
    <3>1. a \in 1 - 1 .. Len(guardians) /\ n \in a .. Len(guardians) /\ 1 \in 1 .. Len(guardians) + 1
      BY <1>1, <1>7, <2>4
    <3> QED BY <3>1, ConcatAdjacentSubSeq
  <2> QED BY <1>10, <1>11, <1>16, <1>17, <2>2, <2>3, <2>4, <2>5
<1> QED BY <1>18, <1>19

(* Nobody registers without an IP address and an Orbs address.              *)
KeysAreGiven ==
  \A a \in Operators : IsRegistered(a) => validatorsData[a].ip # NoKey /\ validatorsData[a].orbs # NoKey

LEMMA KeysStayGiven ==
  ValidatorsAreExact /\ KeysAreGiven /\ [ValidatorsNext]_validatorVars => KeysAreGiven'
<1> SUFFICES ASSUME ValidatorsAreExact, KeysAreGiven, [ValidatorsNext]_validatorVars
             PROVE  KeysAreGiven'
  OBVIOUS
<1>1. validatorsData \in [Operators -> [ip : Ips \cup {NoKey}, orbs : OrbsAddresses \cup {NoKey},
                                       registered : BOOLEAN]]
  BY DEF ValidatorsAreExact, ValidatorsTypeOK
<1>2. ASSUME NEW sender, NEW ip, NEW orbs, RegisterValidator(sender, ip, orbs) PROVE KeysAreGiven'
  <2>1. /\ ip # NoKey /\ orbs # NoKey
        /\ validatorsData' = [validatorsData EXCEPT ![sender] =
                                [ip |-> ip, orbs |-> orbs, registered |-> TRUE]]
    BY <1>2 DEF RegisterValidator
  <2> QED BY <1>1, <2>1 DEF KeysAreGiven, IsRegistered
<1>3. ASSUME NEW sender, NEW ip, NEW orbs, UpdateValidator(sender, ip, orbs) PROVE KeysAreGiven'
  <2>1. /\ ip # NoKey /\ orbs # NoKey
        /\ validatorsData' = [validatorsData EXCEPT ![sender].ip = ip, ![sender].orbs = orbs]
    BY <1>3 DEF UpdateValidator
  <2> QED BY <1>1, <2>1 DEF KeysAreGiven, IsRegistered
<1>4. ASSUME NEW sender, ValidatorLeaves(sender) PROVE KeysAreGiven'
  <2>1. validatorsData' = [validatorsData EXCEPT ![sender] = NoValidator] /\ ~NoValidator.registered
    BY <1>4 DEF ValidatorLeaves, NoValidator
  <2> QED BY <1>1, <2>1 DEF KeysAreGiven, IsRegistered
<1>5. CASE UNCHANGED validatorsData
  BY <1>5 DEF KeysAreGiven, IsRegistered
<1> QED
  BY <1>2, <1>3, <1>4, <1>5 DEF ValidatorsNext, RegistryCalls, OwnerCalls, AddValidator,
     ChooseValidatorMethod, ValidatorRequestMined, ValidatorRequestRefused, registryVars, validatorVars

(* The list of validators is in the order of the approvals.                 *)
LEMMA ValidatorsListed ==
  ASSUME ValidatorsTypeOK
  PROVE  /\ DOMAIN GetValidators \subseteq Nat
         /\ \A k \in DOMAIN GetValidators :
              /\ GetValidators[k] \in Operators /\ IsRegistered(GetValidators[k])
              /\ \E i \in DOMAIN approvedValidators : approvedValidators[i] = GetValidators[k]
         /\ ApprovalsAreExact => IsInjective(GetValidators)
         /\ \A i \in DOMAIN approvedValidators :
              IsRegistered(approvedValidators[i]) =>
                \E k \in DOMAIN GetValidators : GetValidators[k] = approvedValidators[i]
<1> DEFINE pushed == {i \in DOMAIN approvedValidators : IsRegistered(approvedValidators[i])}
           V == [k \in 1 .. Cardinality(pushed) |-> approvedValidators[KthOf(pushed, k)]]
<1>1. /\ approvedValidators \in Seq(Operators) /\ DOMAIN approvedValidators \in SUBSET Nat
      /\ IsFiniteSet(DOMAIN approvedValidators)
      /\ \A i \in DOMAIN approvedValidators : approvedValidators[i] \in Operators
  <2>1. approvedValidators \in Seq(Operators)
    BY DEF ValidatorsTypeOK
  <2> QED BY <2>1, ListIsFinite
<1>2. pushed \in SUBSET DOMAIN approvedValidators
  OBVIOUS
<1>3. CountedUp(pushed)
  <2> HIDE DEF pushed
  <2>1. pushed \in SUBSET Nat /\ IsFiniteSet(pushed)
    BY <1>1, <1>2, FS_Subset
  <2> QED BY <2>1, KthInOrder
<1>4. GetValidators = V
  BY DEF GetValidators, KthOf
<1>5. \A i \in pushed : IsRegistered(approvedValidators[i])
  OBVIOUS
<1>6. \A i \in DOMAIN approvedValidators : IsRegistered(approvedValidators[i]) => i \in pushed
  OBVIOUS
<1> HIDE DEF pushed
<1>7. /\ DOMAIN V = 1 .. Cardinality(pushed) /\ Cardinality(pushed) \in Nat
      /\ \A k \in DOMAIN V : V[k] = approvedValidators[KthOf(pushed, k)] /\ KthOf(pushed, k) \in pushed
  BY <1>3 DEF CountedUp
<1> HIDE DEF V
<1>8. ASSUME ApprovalsAreExact, NEW k \in DOMAIN V, NEW l \in DOMAIN V, V[k] = V[l] PROVE k = l
  <2>1. KthOf(pushed, k) = KthOf(pushed, l)
    BY <1>2, <1>7, <1>8 DEF ApprovalsAreExact
  <2>2. PICK i \in Nat : i = KthOf(pushed, k)
    BY <1>1, <1>2, <1>7
  <2>3. ~(i < i)
    BY <2>2
  <2>4. ~(k < l) /\ ~(l < k)
    BY <1>3, <1>7, <2>1, <2>2, <2>3 DEF CountedUp
  <2> QED BY <1>7, <2>4
<1>9. ASSUME NEW i \in pushed PROVE \E k \in DOMAIN V : V[k] = approvedValidators[i]
  BY <1>3, <1>7 DEF CountedUp
<1>10. DOMAIN V \subseteq Nat
  BY <1>7
<1> QED BY <1>1, <1>2, <1>4, <1>5, <1>6, <1>7, <1>8, <1>9, <1>10 DEF IsInjective

LEMMA TopologyIsOfDistinctNodes == ValidatorsAreExact /\ KeysAreGiven => TopologyNamesNodesOnce
<1> SUFFICES ASSUME ValidatorsAreExact, KeysAreGiven PROVE TopologyNamesNodesOnce
  OBVIOUS
<1>0. ValidatorsTypeOK /\ LookupsAreOneToOne /\ ApprovalsAreExact
  BY DEF ValidatorsAreExact
<1> DEFINE V == GetValidators
           nodes == GetNetworkTopology
<1>1. /\ \A k \in DOMAIN V : V[k] \in Operators /\ IsRegistered(V[k])
      /\ IsInjective(V)
      /\ \A i \in DOMAIN approvedValidators :
           IsRegistered(approvedValidators[i]) => \E k \in DOMAIN V : V[k] = approvedValidators[i]
  BY <1>0, ValidatorsListed
<1>2. /\ DOMAIN nodes = DOMAIN V
      /\ \A k \in DOMAIN V : /\ nodes[k].nodeAddress = validatorsData[V[k]].orbs
                             /\ nodes[k].ipAddress = validatorsData[V[k]].ip
  BY DEF GetNetworkTopology
<1> HIDE DEF nodes, V
<1>3. ASSUME NEW a \in Operators, NEW b \in Operators, IsRegistered(a), IsRegistered(b),
             validatorsData[a].orbs = validatorsData[b].orbs \/ validatorsData[a].ip = validatorsData[b].ip
      PROVE  a = b
  <2>1. validatorsData[a].ip \in Ips \cup {NoKey} /\ validatorsData[a].orbs \in OrbsAddresses \cup {NoKey}
    BY <1>0 DEF ValidatorsTypeOK
  <2> QED BY <1>0, <1>3, <2>1 DEF LookupsAreOneToOne
<1>4. \A i, j \in DOMAIN nodes :
        nodes[i].nodeAddress = nodes[j].nodeAddress \/ nodes[i].ipAddress = nodes[j].ipAddress => i = j
  BY <1>1, <1>2, <1>3 DEF IsInjective
<1>5. \A i \in DOMAIN nodes : NoKey \notin {nodes[i].nodeAddress, nodes[i].ipAddress}
  BY <1>1, <1>2 DEF KeysAreGiven
<1>6. ASSUME NEW a \in Operators, IsValidator(a)
      PROVE  \E i \in DOMAIN nodes : nodes[i].nodeAddress = validatorsData[a].orbs
  <2>1. IsApproved(a) /\ IsRegistered(a)
    BY <1>6 DEF IsValidator
  <2>2. PICK i \in DOMAIN approvedValidators : approvedValidators[i] = a
    BY <1>0, <2>1 DEF ApprovalsAreExact
  <2> QED BY <1>1, <1>2, <2>1, <2>2
<1> QED BY <1>4, <1>5, <1>6 DEF TopologyNamesNodesOnce, nodes

(* Nobody is registered at first.                                           *)
LEMMA KeysGivenAtFirst == ValidatorsInit => KeysAreGiven
  BY DEF ValidatorsInit, KeysAreGiven, IsRegistered, NoValidator

LEMMA PagesReadTheList == GuardiansAreExact => PagesAreTheList
<1> SUFFICES ASSUME GuardiansAreExact PROVE PagesAreTheList
  OBVIOUS
<1>1. guardians \in Seq(Candidates)
  BY DEF GuardiansAreExact, GuardiansTypeOK
<1>2. Cardinality(Candidates) \in Nat
  BY DepositAssumption, FS_CardinalityType
<1>3. \A p \in 1 .. (Cardinality(Candidates) + 1) : p \in Nat \ {0}
  BY <1>2
<1> QED
  BY <1>1, <1>3, PagesJoined DEF PagesAreTheList

(* However the registers change, the pages of the register of guardians are *)
(* its list whatever their size, and the network is given each validator's  *)
(* node once.                                                               *)
THEOREM ReadersAlwaysGetTheRegisters == GuardiansSpec /\ ValidatorsSpec => []ReadersGetTheRegisters
<1>1. ValidatorsInit => ValidatorRequestsTyped
  BY DEF ValidatorsInit, ValidatorRequestsTyped
<1>2. GuardiansAreExact /\ ValidatorsAreExact /\ KeysAreGiven => ReadersGetTheRegisters
  BY PagesReadTheList, TopologyIsOfDistinctNodes DEF ReadersGetTheRegisters
<1> QED
  BY <1>1, <1>2, GuardiansInitExact, GuardiansStepExact, ValidatorsInitExact, ValidatorsStepExact,
     KeysGivenAtFirst, KeysStayGiven, PTL DEF GuardiansSpec, ValidatorsSpec

-----------------------------------------------------------------------------
(* The page where guardians vote.                                           *)

VoteSteps == {"asking", "enabling", "sent", "mined", "saved", "failed"}
Settled == {"saved", "failed"}
VoteValues == (SUBSET Validators) \cup FirstVotesOut \cup {NoVote}
VoteReads == [answered : BOOLEAN, delivered : BOOLEAN, vote : VoteValues]
Commits == [at : VoteSteps, keys : SUBSET Validators, from : Accounts \cup {NoVote},
            staged : SUBSET Validators, sender : Accounts \cup {NoVote}]

Histories == [latest : [Accounts -> Nat], mixedUp : SUBSET (Accounts \cup {NoVote}),
              overtaken : BOOLEAN, switched : BOOLEAN]

VotingTyped ==
  /\ account \in Accounts /\ switches \in Nat
  /\ stored \in [Accounts -> (SUBSET Validators) \cup FirstVotesOut \cup {{}}]
  /\ voted \in [Accounts -> VoteValues]
  /\ fetching \in [listed : BOOLEAN, left : SUBSET Validators]
  /\ DOMAIN validators \subseteq Validators
  /\ validators \in [DOMAIN validators -> BOOLEAN]
  /\ selectionDisabled \in BOOLEAN
  /\ lastVoteReads \in Seq(VoteReads)
  /\ commits \in Seq(Commits)
  /\ votingHistory \in Histories

LEMMA CheckedAreListed == VotingTyped => Checked \subseteq Validators /\ IsFiniteSet(Checked)
<1> SUFFICES ASSUME VotingTyped PROVE Checked \subseteq Validators /\ IsFiniteSet(Checked)
  OBVIOUS
<1>1. Checked \subseteq Validators
  BY DEF VotingTyped, Checked
<1> QED
  BY <1>1, VotingAssumption, FS_Subset

LEMMA VotingStaysTyped == VotingTyped /\ [VotingNext]_votingVars => VotingTyped'
<1> SUFFICES ASSUME VotingTyped, [VotingNext]_votingVars PROVE VotingTyped'
  OBVIOUS
<1>1. CASE FetchValidators
  BY <1>1 DEF VotingTyped, FetchValidators
<1>2. CASE CommitVote
  <2>1. [at |-> "asking", keys |-> DOMAIN validators, from |-> NoVote, staged |-> {}, sender |-> NoVote]
           \in Commits
    BY DEF VotingTyped, Commits, VoteSteps
  <2>2. commits' \in Seq(Commits)
    BY <1>2, <2>1 DEF CommitVote, VotingTyped
  <2> QED
    BY <1>2, <2>2 DEF CommitVote, VotingTyped
<1>3. CASE SwitchAccount
  <2>1. votingHistory' \in Histories
    BY <1>3 DEF VotingTyped, SwitchAccount, Histories
  <2>2. account' \in Accounts /\ switches' \in Nat
    BY <1>3 DEF VotingTyped, SwitchAccount
  <2>3. UNCHANGED <<stored, voted, fetching, validators, restored, selectionDisabled, lastVoteReads, commits>>
    BY <1>3 DEF SwitchAccount
  <2> QED
    BY <2>1, <2>2, <2>3 DEF VotingTyped
<1>4. ASSUME NEW v \in Validators, FetchValidator(v) PROVE VotingTyped'
  <2>1. DOMAIN validators' = DOMAIN validators \cup {v} /\ v \in Validators
    BY <1>4 DEF FetchValidator
  <2>2. ASSUME NEW w \in DOMAIN validators' PROVE validators'[w] \in BOOLEAN
    <3>1. validators'[w] = IF w = v THEN v \in restored ELSE validators[w]
      BY <1>4, <2>1 DEF FetchValidator
    <3>2. CASE w = v
      <4>1. validators'[w] = (v \in restored)
        BY <3>1, <3>2
      <4> QED
        BY <4>1
    <3>3. CASE w # v
      BY <2>1, <3>1, <3>3 DEF VotingTyped
    <3> QED
      BY <3>2, <3>3
  <2>3. validators' = [w \in DOMAIN validators' |-> validators'[w]]
    BY <1>4, <2>1 DEF FetchValidator
  <2>4. validators' \in [DOMAIN validators' -> BOOLEAN]
    BY <2>2, <2>3
  <2>5. fetching' \in [listed : BOOLEAN, left : SUBSET Validators]
    BY <1>4 DEF FetchValidator, VotingTyped
  <2> QED
    BY <1>4, <2>1, <2>4, <2>5 DEF VotingTyped, FetchValidator
<1>5. ASSUME NEW v \in Validators, ToggleCheck(v) PROVE VotingTyped'
  BY <1>5 DEF VotingTyped, ToggleCheck, IsSelectionFull
<1>6. ASSUME NEW i \in DOMAIN commits,
             AddressGiven(i) \/ VoteOut(i) \/ Mined(i) \/ Receipt(i)
      PROVE  VotingTyped'
  <2>1. commits[i] \in Commits
    BY DEF VotingTyped
  <2>2. Over("saved") \in Commits /\ Over("failed") \in Commits
    BY DEF Over, Commits, VoteSteps
  <2>3. CASE AddressGiven(i)
    <3>1. [commits[i] EXCEPT !.at = "enabling", !.from = account,
                             !.staged = Checked \cap commits[i].keys] \in Commits
      BY <2>1 DEF Commits, VoteSteps, VotingTyped
    <3>2. commits' \in Seq(Commits)
      BY <2>3, <3>1, OneEntryChanged DEF AddressGiven, VotingTyped
    <3> QED
      BY <2>3, <3>2 DEF VotingTyped, AddressGiven
  <2>4. CASE VoteOut(i)
    <3>1. [commits[i] EXCEPT !.at = "sent", !.sender = account] \in Commits
      BY <2>1 DEF Commits, VoteSteps, VotingTyped
    <3>2. commits' \in Seq(Commits)
      BY <2>4, <3>1, OneEntryChanged DEF VoteOut, VotingTyped
    <3>3. commits[i].from \in Accounts \cup {NoVote}
      BY <2>1 DEF Commits
    <3>4. votingHistory' \in Histories
      BY <2>4, <3>3 DEF VoteOut, VotingTyped, Histories
    <3> QED
      BY <2>4, <3>2, <3>4 DEF VotingTyped, VoteOut
  <2>5. CASE Mined(i)
    <3>1. [commits[i] EXCEPT !.at = "mined"] \in Commits
      BY <2>1 DEF Commits, VoteSteps
    <3>2. commits' \in Seq(Commits)
      <4>1. commits \in Seq(Commits)
        BY DEF VotingTyped
      <4>2. \/ commits' = [commits EXCEPT ![i] = [commits[i] EXCEPT !.at = "mined"]]
            \/ commits' = [commits EXCEPT ![i] = Over("failed")]
        BY <2>5 DEF Mined
      <4>3. /\ [commits EXCEPT ![i] = [commits[i] EXCEPT !.at = "mined"]] \in Seq(Commits)
            /\ [commits EXCEPT ![i] = Over("failed")] \in Seq(Commits)
        BY <2>2, <3>1, <4>1, OneEntryChanged
      <4> QED
        BY <4>2, <4>3
    <3>3. commits[i].staged \in VoteValues
      BY <2>1 DEF Commits, VoteValues
    <3>4. voted' \in [Accounts -> VoteValues]
      BY <2>5, <3>3 DEF Mined, VotingTyped
    <3>5. votingHistory' \in Histories
      <4>1. i \in Nat /\ votingHistory \in Histories
        BY DEF VotingTyped
      <4>2. \/ votingHistory' = votingHistory
            \/ votingHistory' = [votingHistory EXCEPT !.latest[commits[i].sender] = i]
        BY <2>5 DEF Mined
      <4> QED
        BY <4>1, <4>2 DEF Histories
    <3> QED
      BY <2>5, <3>2, <3>4, <3>5 DEF VotingTyped, Mined
  <2>6. CASE Receipt(i)
    <3>1. commits' \in Seq(Commits)
      BY <2>6, <2>2, OneEntryChanged DEF Receipt, VotingTyped
    <3>2. Unanswered \in VoteReads
      BY DEF Unanswered, VoteReads, VoteValues
    <3>3. lastVoteReads' \in Seq(VoteReads)
      BY <2>6, <3>2 DEF Receipt, VotingTyped
    <3>4. commits[i].staged \in SUBSET Validators
      BY <2>1 DEF Commits
    <3>5. stored' \in [Accounts -> (SUBSET Validators) \cup FirstVotesOut \cup {{}}]
      BY <2>6, <3>4 DEF Receipt, VotingTyped
    <3>6. votingHistory' \in Histories
      <4>1. commits[i].from \in Accounts \cup {NoVote} /\ votingHistory \in Histories
        BY <2>1 DEF Commits, VotingTyped
      <4>2. PICK m \in {votingHistory.mixedUp, votingHistory.mixedUp \cup {commits[i].from}} :
              votingHistory' = [votingHistory EXCEPT !.mixedUp = m, !.switched = FALSE]
        BY <2>6 DEF Receipt
      <4>3. m \in SUBSET (Accounts \cup {NoVote})
        BY <4>1 DEF Histories
      <4>4. [votingHistory EXCEPT !.mixedUp = m, !.switched = FALSE] \in Histories
        BY <4>1, <4>3 DEF Histories
      <4> QED
        BY <4>2, <4>4
    <3> QED
      BY <2>6, <3>1, <3>3, <3>5, <3>6 DEF VotingTyped, Receipt
  <2> QED
    BY <1>6, <2>3, <2>4, <2>5, <2>6
<1>7. ASSUME NEW k \in DOMAIN lastVoteReads, AnswerLastVote(k) \/ FetchLastVote(k)
      PROVE  VotingTyped'
  <2>1. lastVoteReads[k] \in VoteReads
    BY DEF VotingTyped
  <2>2. CASE AnswerLastVote(k)
    <3>1. [lastVoteReads[k] EXCEPT !.answered = TRUE, !.vote = voted[account]] \in VoteReads
      BY <2>1 DEF VoteReads, VotingTyped
    <3>2. lastVoteReads' \in Seq(VoteReads)
      BY <2>2, <3>1, OneEntryChanged DEF AnswerLastVote, VotingTyped
    <3> QED
      BY <2>2, <3>2 DEF VotingTyped, AnswerLastVote
  <2>3. CASE FetchLastVote(k)
    <3>1. [lastVoteReads[k] EXCEPT !.delivered = TRUE, !.vote = NoVote] \in VoteReads
      BY <2>1 DEF VoteReads, VoteValues
    <3>2. lastVoteReads' \in Seq(VoteReads)
      BY <2>3, <3>1, OneEntryChanged DEF FetchLastVote, VotingTyped
    <3>3. votingHistory' \in Histories
      <4>1. PICK b \in BOOLEAN : votingHistory' = [votingHistory EXCEPT !.overtaken = b]
        <5>1. \E b \in BOOLEAN :
                b = (votingHistory.overtaken \/ \E l \in DOMAIN lastVoteReads : l > k /\ lastVoteReads[l].delivered)
          OBVIOUS
        <5> QED
          BY <2>3, <5>1 DEF FetchLastVote
      <4> QED
        BY <4>1 DEF Histories, VotingTyped
    <3> QED
      BY <2>3, <3>2, <3>3 DEF VotingTyped, FetchLastVote
  <2> QED
    BY <1>7, <2>2, <2>3
<1>8. CASE UNCHANGED votingVars
  BY <1>8 DEF votingVars, VotingTyped
<1> QED
  BY <1>1, <1>2, <1>3, <1>4, <1>5, <1>6, <1>7, <1>8 DEF VotingNext

-----------------------------------------------------------------------------
(* The selection: the limit is enforced by a flag that is only computed at  *)
(* a click, so the flag must agree with the number of checks at all times.  *)
SelectionKept ==
  /\ ~fetching.listed => DOMAIN validators = {} /\ restored = {} /\ fetching.left = {}
  /\ fetching.left \cap DOMAIN validators = {}
  /\ restored = {} => /\ Cardinality(Checked) <= MAX_VOTED_OUT
                      /\ selectionDisabled <=> IsSelectionFull(Checked)

LEMMA SelectionStaysKept ==
  VotingTyped /\ SelectionKept /\ [VotingNext]_votingVars => SelectionKept'
<1> SUFFICES ASSUME VotingTyped, SelectionKept, [VotingNext]_votingVars PROVE SelectionKept'
  OBVIOUS
<1> USE DEF IsSelectionFull
<1>1. CASE UNCHANGED <<fetching, validators, restored, selectionDisabled>>
  BY <1>1 DEF SelectionKept, Checked
<1>2. CASE FetchValidators
  <2>1. DOMAIN validators = {} /\ restored = {} /\ fetching' = [listed |-> TRUE, left |-> Validators]
    BY <1>2 DEF FetchValidators, SelectionKept
  <2>2. Checked' = Checked
    BY <1>2 DEF FetchValidators, Checked
  <2> QED
    BY <1>2, <2>1, <2>2 DEF FetchValidators, SelectionKept
<1>3. ASSUME NEW v \in Validators, FetchValidator(v) PROVE SelectionKept'
  <2>1. /\ v \in fetching.left /\ v \notin DOMAIN validators /\ fetching.listed
        /\ fetching'.listed = fetching.listed /\ fetching'.left = fetching.left \ {v}
        /\ DOMAIN validators' = DOMAIN validators \cup {v}
        /\ restored' = restored /\ selectionDisabled' = selectionDisabled
    BY <1>3 DEF FetchValidator, SelectionKept, VotingTyped
  <2>2. restored = {} => Checked' = Checked
    BY <1>3, <2>1 DEF FetchValidator, Checked
  <2> QED
    BY <2>1, <2>2 DEF SelectionKept
<1>4. ASSUME NEW v \in Validators, ToggleCheck(v) PROVE SelectionKept'
  <2>1. /\ v \in DOMAIN validators /\ (validators[v] \/ ~selectionDisabled)
        /\ DOMAIN validators' = DOMAIN validators
        /\ \A w \in DOMAIN validators : validators'[w] <=> (validators[w] # (w = v))
        /\ UNCHANGED <<fetching, restored>>
    BY <1>4 DEF ToggleCheck, VotingTyped
  <2>2. Checked' = {w \in DOMAIN validators : validators[w] # (w = v)}
    BY <2>1 DEF Checked
  <2>3. selectionDisabled' <=> IsSelectionFull(Checked')
    BY <1>4, <2>2 DEF ToggleCheck
  <2>4. ASSUME restored = {} PROVE Cardinality(Checked') <= MAX_VOTED_OUT
    <3>1. IsFiniteSet(Checked) /\ Cardinality(Checked) \in Nat
      BY CheckedAreListed, FS_CardinalityType
    <3>2. Cardinality(Checked) <= MAX_VOTED_OUT /\ (selectionDisabled <=> Cardinality(Checked) = MAX_VOTED_OUT)
      BY <2>4 DEF SelectionKept
    <3>3. CASE validators[v]
      <4>1. Checked' = Checked \ {v} /\ v \in Checked
        BY <2>1, <2>2, <3>3 DEF Checked, VotingTyped
      <4>2. Cardinality(Checked \ {v}) = Cardinality(Checked) - 1
        BY <3>1, <4>1, FS_RemoveElement
      <4> QED
        BY <3>1, <3>2, <4>1, <4>2, VotingAssumption
    <3>4. CASE ~validators[v]
      <4>1. Checked' = Checked \cup {v} /\ v \notin Checked
        BY <2>1, <2>2, <3>4 DEF Checked, VotingTyped
      <4>2. Cardinality(Checked \cup {v}) = Cardinality(Checked) + 1
        BY <3>1, <4>1, FS_AddElement
      <4> QED
        BY <2>1, <3>1, <3>2, <3>4, <4>1, <4>2, VotingAssumption
    <3> QED
      BY <3>3, <3>4
  <2> QED
    BY <2>1, <2>3, <2>4 DEF SelectionKept
<1> QED
  BY <1>1, <1>2, <1>3, <1>4 DEF VotingNext, CommitVote, SwitchAccount, AddressGiven, VoteOut, Mined, Receipt,
       AnswerLastVote, FetchLastVote, votingVars

-----------------------------------------------------------------------------
(* What is stored: for an account that is not mixed up, who asks for a vote *)
(* sends it, and the vote mined last is the only difference between what is *)
(* stored and what is on chain, as long as its receipt is awaited.          *)
SentByItself(i, a) ==
  commits[i].at \in {"sent", "mined"} => (commits[i].from = a <=> commits[i].sender = a)

KeptFor(a) ==
  /\ \A i \in DOMAIN commits : SentByItself(i, a)
  /\ \/ Awaiting(a) = {} /\ stored[a] = VoteIn(voted[a])
     \/ /\ votingHistory.latest[a] \in Awaiting(a)
        /\ commits[votingHistory.latest[a]].staged = voted[a]

StoredKept == \A a \in Accounts \ votingHistory.mixedUp : KeptFor(a)

(* The step of one vote leaves the others where they are.                   *)
MovesOn(i, r) ==
  /\ DOMAIN commits' = DOMAIN commits
  /\ \A j \in DOMAIN commits : j # i => commits'[j] = commits[j]
  /\ commits'[i] = r

LEMMA OneMovesOn ==
  ASSUME VotingTyped, NEW i \in DOMAIN commits, NEW r, commits' = [commits EXCEPT ![i] = r]
  PROVE  MovesOn(i, r)
<1> QED
  BY DEF MovesOn, VotingTyped

LEMMA AwaitingMovesOn ==
  ASSUME NEW i \in DOMAIN commits, NEW r, MovesOn(i, r), NEW a
  PROVE  Awaiting(a)' = IF r.at = "mined" /\ r.from = a THEN Awaiting(a) \cup {i} ELSE Awaiting(a) \ {i}
<1> QED
  BY DEF Awaiting, MovesOn

LEMMA SentMovesOn ==
  ASSUME NEW i \in DOMAIN commits, NEW r, MovesOn(i, r), NEW a,
         \A j \in DOMAIN commits : SentByItself(j, a),
         r.at \in {"sent", "mined"} => (r.from = a <=> r.sender = a)
  PROVE  \A j \in DOMAIN commits' : SentByItself(j, a)'
<1> QED
  BY DEF SentByItself, MovesOn

(* A vote that was not mined, and is not by this step, changes nothing.     *)
LEMMA NotMinedKeeps ==
  ASSUME NEW i \in DOMAIN commits, NEW r, MovesOn(i, r), NEW a, KeptFor(a),
         commits[i].at # "mined", r.at # "mined",
         r.at = "sent" => (r.from = a <=> r.sender = a),
         UNCHANGED <<stored, voted>>, votingHistory'.latest = votingHistory.latest
  PROVE  KeptFor(a)'
<1>1. \A j \in DOMAIN commits' : SentByItself(j, a)'
  BY SentMovesOn DEF KeptFor
<1>2. i \notin Awaiting(a)
  BY DEF Awaiting
<1>3. Awaiting(a)' = Awaiting(a)
  BY <1>2, AwaitingMovesOn
<1>4. \A j \in Awaiting(a) : commits'[j] = commits[j]
  BY <1>2 DEF MovesOn, Awaiting
<1> QED
  BY <1>1, <1>3, <1>4 DEF KeptFor

LEMMA StoredStaysKept ==
  VotingTyped /\ StoredKept /\ [VotingNext]_votingVars => StoredKept'
<1> SUFFICES ASSUME VotingTyped, StoredKept, [VotingNext]_votingVars,
                    NEW a \in Accounts, a \notin votingHistory'.mixedUp
             PROVE  KeptFor(a)'
  BY DEF StoredKept
<1>h. votingHistory \in Histories
  BY DEF VotingTyped
<1>1. ASSUME UNCHANGED <<stored, voted, commits>>, votingHistory'.latest = votingHistory.latest, KeptFor(a)
      PROVE  KeptFor(a)'
  BY <1>1 DEF KeptFor, SentByItself, Awaiting
<1>2. ASSUME votingHistory'.mixedUp = votingHistory.mixedUp PROVE KeptFor(a)
  BY <1>2 DEF StoredKept
<1>3. CASE UNCHANGED <<stored, voted, commits, votingHistory>>
  BY <1>1, <1>2, <1>3
<1>4. CASE CommitVote
  <2>1. /\ DOMAIN commits' = DOMAIN commits \cup {Len(commits) + 1}
        /\ \A j \in DOMAIN commits : commits'[j] = commits[j]
        /\ commits'[Len(commits) + 1].at = "asking"
    BY <1>4 DEF CommitVote, VotingTyped
  <2>2. UNCHANGED <<stored, voted, votingHistory>> /\ KeptFor(a)
    BY <1>2, <1>4 DEF CommitVote
  <2>3. Awaiting(a)' = Awaiting(a) /\ Awaiting(a) \subseteq DOMAIN commits
    BY <2>1 DEF Awaiting
  <2>4. \A i \in DOMAIN commits' : SentByItself(i, a)'
    BY <2>1, <2>2 DEF KeptFor, SentByItself
  <2> QED
    BY <2>1, <2>2, <2>3, <2>4 DEF KeptFor
<1>5. CASE SwitchAccount
  <2>1. /\ votingHistory'.mixedUp = votingHistory.mixedUp /\ votingHistory'.latest = votingHistory.latest
        /\ UNCHANGED <<stored, voted, commits>>
    BY <1>5, <1>h DEF SwitchAccount, Histories
  <2> QED
    BY <1>1, <1>2, <2>1
<1>6. ASSUME NEW k \in DOMAIN lastVoteReads, FetchLastVote(k) PROVE KeptFor(a)'
  <2>1. /\ votingHistory'.mixedUp = votingHistory.mixedUp /\ votingHistory'.latest = votingHistory.latest
        /\ UNCHANGED <<stored, voted, commits>>
    BY <1>6, <1>h DEF FetchLastVote, Histories
  <2> QED
    BY <1>1, <1>2, <2>1
<1>7. ASSUME NEW i \in DOMAIN commits, AddressGiven(i) \/ VoteOut(i) \/ Mined(i) \/ Receipt(i)
      PROVE  KeptFor(a)'
  <2>1. commits[i] \in Commits /\ i \in Nat
    BY DEF VotingTyped
  <2>2. CASE AddressGiven(i)
    <3>1. PICK r : r = [commits[i] EXCEPT !.at = "enabling", !.from = account,
                                          !.staged = Checked \cap commits[i].keys]
      OBVIOUS
    <3>2. commits' = [commits EXCEPT ![i] = r] /\ r.at = "enabling"
      BY <2>1, <2>2, <3>1 DEF AddressGiven, Commits
    <3>3. MovesOn(i, r)
      BY <3>2, OneMovesOn
    <3>4. commits[i].at # "mined" /\ UNCHANGED <<stored, voted, votingHistory>> /\ KeptFor(a)
      BY <1>2, <2>2 DEF AddressGiven
    <3> QED
      BY <3>2, <3>3, <3>4, NotMinedKeeps
  <2>3. CASE VoteOut(i)
    <3>1. PICK r : r = [commits[i] EXCEPT !.at = "sent", !.sender = account]
      OBVIOUS
    <3>2. /\ commits' = [commits EXCEPT ![i] = r] /\ r.at = "sent" /\ r.sender = account
          /\ r.from = commits[i].from
      BY <2>1, <2>3, <3>1 DEF VoteOut, Commits
    <3>3. MovesOn(i, r)
      BY <3>2, OneMovesOn
    <3>4. /\ votingHistory'.latest = votingHistory.latest
          /\ votingHistory'.mixedUp = IF r.from = account THEN votingHistory.mixedUp
                                      ELSE votingHistory.mixedUp \cup {r.from, account}
      BY <1>h, <2>3, <3>2 DEF VoteOut, Histories
    <3>5. r.from = a <=> r.sender = a
      BY <3>2, <3>4
    <3>6. KeptFor(a)
      BY <3>4 DEF StoredKept
    <3>7. commits[i].at # "mined" /\ UNCHANGED <<stored, voted>>
      BY <2>3 DEF VoteOut
    <3> QED
      BY <3>2, <3>3, <3>4, <3>5, <3>6, <3>7, NotMinedKeeps
  <2>4. CASE Mined(i)
    <3>1. commits[i].at = "sent" /\ stored' = stored
      BY <2>4 DEF Mined
    <3>2. CASE commits' = [commits EXCEPT ![i] = Over("failed")] /\ UNCHANGED <<voted, votingHistory>>
      <4>1. PICK r : r = Over("failed")
        OBVIOUS
      <4>2. commits' = [commits EXCEPT ![i] = r] /\ r.at = "failed"
        BY <3>2, <4>1 DEF Over
      <4>3. MovesOn(i, r) /\ KeptFor(a)
        BY <1>2, <3>2, <4>2, OneMovesOn
      <4> QED
        BY <3>1, <3>2, <4>2, <4>3, NotMinedKeeps
    <3>3. CASE /\ voted' = [voted EXCEPT ![commits[i].sender] = commits[i].staged]
               /\ commits' = [commits EXCEPT ![i].at = "mined"]
               /\ votingHistory' = [votingHistory EXCEPT !.latest[commits[i].sender] = i]
      <4>1. PICK r : r = [commits[i] EXCEPT !.at = "mined"]
        OBVIOUS
      <4>2. /\ commits' = [commits EXCEPT ![i] = r] /\ r.at = "mined" /\ r.sender = commits[i].sender
            /\ r.from = commits[i].from /\ r.staged = commits[i].staged
        BY <2>1, <3>3, <4>1 DEF Commits
      <4>3. MovesOn(i, r)
        BY <4>2, OneMovesOn
      <4>4. /\ votingHistory'.mixedUp = votingHistory.mixedUp
            /\ votingHistory'.latest[a] = IF r.sender = a THEN i ELSE votingHistory.latest[a]
            /\ voted'[a] = IF r.sender = a THEN r.staged ELSE voted[a]
        BY <1>h, <3>3, <4>2 DEF Histories, VotingTyped
      <4>5. KeptFor(a) /\ (r.from = a <=> r.sender = a)
        <5>1. KeptFor(a)
          BY <1>2, <4>4
        <5> QED
          BY <3>1, <4>2, <5>1 DEF KeptFor, SentByItself
      <4>6. \A j \in DOMAIN commits' : SentByItself(j, a)'
        BY <4>3, <4>5, SentMovesOn DEF KeptFor
      <4>7. CASE r.sender = a
        <5>1. i \in Awaiting(a)'
          BY <4>2, <4>3, <4>5, <4>7, AwaitingMovesOn
        <5>2. votingHistory'.latest[a] = i /\ commits'[i].staged = voted'[a]
          BY <4>3, <4>4, <4>7 DEF MovesOn
        <5> QED
          BY <4>6, <5>1, <5>2 DEF KeptFor
      <4>8. CASE r.sender # a
        <5>1. i \notin Awaiting(a)
          BY <3>1 DEF Awaiting
        <5>2. Awaiting(a)' = Awaiting(a)
          BY <4>3, <4>5, <4>8, <5>1, AwaitingMovesOn
        <5>3. \A j \in Awaiting(a) : commits'[j] = commits[j]
          BY <4>3, <5>1 DEF MovesOn, Awaiting
        <5> QED
          BY <3>1, <4>4, <4>5, <4>6, <4>8, <5>2, <5>3 DEF KeptFor
      <4> QED
        BY <4>7, <4>8
    <3> QED
      BY <2>4, <3>2, <3>3 DEF Mined
  <2>5. CASE Receipt(i)
    <3>1. PICK r, f : r = Over("saved") /\ f = commits[i].from
      OBVIOUS
    <3>2. commits' = [commits EXCEPT ![i] = r] /\ r.at = "saved" /\ commits[i].at = "mined"
      BY <2>5, <3>1 DEF Receipt, Over
    <3>3. MovesOn(i, r)
      BY <3>2, OneMovesOn
    <3>4. /\ votingHistory'.latest = votingHistory.latest
          /\ votingHistory'.mixedUp = IF i = votingHistory.latest[f] /\ Awaiting(f) # {i}
                                      THEN votingHistory.mixedUp \cup {f} ELSE votingHistory.mixedUp
          /\ stored' = [stored EXCEPT ![f] = commits[i].staged] /\ voted' = voted
      BY <1>h, <2>5, <3>1 DEF Receipt, SavedFor, Histories
    <3>5. KeptFor(a)
      BY <3>4 DEF StoredKept
    <3>6. \A j \in DOMAIN commits' : SentByItself(j, a)'
      BY <3>2, <3>3, <3>5, SentMovesOn DEF KeptFor
    <3>7. Awaiting(a)' = Awaiting(a) \ {i}
      BY <3>2, <3>3, AwaitingMovesOn
    <3>8. \A j \in Awaiting(a) \ {i} : commits'[j] = commits[j]
      BY <3>3 DEF MovesOn, Awaiting
    <3>9. CASE f # a
      <4>1. i \notin Awaiting(a) /\ stored'[a] = stored[a]
        BY <3>1, <3>4, <3>9 DEF Awaiting, VotingTyped
      <4> QED
        BY <3>4, <3>5, <3>6, <3>7, <3>8, <4>1 DEF KeptFor
    <3>10. CASE f = a
      <4>1. i \in Awaiting(a)
        BY <3>1, <3>2, <3>10 DEF Awaiting
      <4>2. votingHistory.latest[a] \in Awaiting(a) /\ commits[votingHistory.latest[a]].staged = voted[a]
        BY <3>5, <4>1 DEF KeptFor
      <4>3. CASE votingHistory.latest[a] # i
        BY <3>4, <3>6, <3>7, <3>8, <4>2, <4>3 DEF KeptFor
      <4>4. CASE votingHistory.latest[a] = i
        <5>1. Awaiting(a) = {i}
          BY <3>4, <3>10, <4>4
        <5>2. Awaiting(a)' = {}
          BY <3>7, <5>1
        <5>3. commits[i].staged # NoVote
          BY <2>1, VotingAssumption DEF Commits
        <5>4. stored'[a] = commits[i].staged
          BY <3>4, <3>10 DEF VotingTyped
        <5>5. stored'[a] = VoteIn(voted'[a])
          BY <3>4, <4>2, <4>4, <5>3, <5>4 DEF VoteIn
        <5> QED
          BY <3>6, <5>2, <5>5 DEF KeptFor
      <4> QED
        BY <4>3, <4>4
    <3> QED
      BY <3>9, <3>10
  <2> QED
    BY <1>7, <2>2, <2>3, <2>4, <2>5
<1> QED
  BY <1>3, <1>4, <1>5, <1>6, <1>7 DEF VotingNext, FetchValidators, FetchValidator, ToggleCheck,
       AnswerLastVote, votingVars

-----------------------------------------------------------------------------
(* What the page says: unless answers overtook each other or the account    *)
(* changed, the last read brings the vote on chain, and once delivered the  *)
(* page says it, except in the time between a vote's block and its receipt, *)
(* which reads again.                                                       *)
MinedVote(i) == i \in DOMAIN commits /\ commits[i].at = "mined"
NoneMined == \A i \in DOMAIN commits : ~MinedVote(i)
NeverVoted == lastVote = {} /\ \A k \in DOMAIN lastVoteReads : lastVoteReads[k].vote = NoVote
Brings(k, vote) == lastVoteReads[k].answered => lastVoteReads[k].vote = vote

LastReadCounts(n, vote) ==
  IF lastVoteReads[n].delivered THEN vote # NoVote => lastVote = vote ELSE Brings(n, vote)

ReadsKept ==
  /\ Len(lastVoteReads) > 0
  /\ switches = 0 /\ voted[account] = NoVote => NeverVoted
  /\ ~votingHistory.overtaken /\ ~votingHistory.switched /\ NoneMined =>
       LastReadCounts(Len(lastVoteReads), voted[account])

LEMMA ReadsStayKept ==
  VotingTyped /\ ReadsKept /\ [VotingNext]_votingVars => ReadsKept'
<1> SUFFICES ASSUME VotingTyped, ReadsKept, [VotingNext]_votingVars PROVE ReadsKept'
  OBVIOUS
<1>h. votingHistory \in Histories /\ switches \in Nat
  BY DEF VotingTyped
<1>0. CASE SwitchAccount
  <2>1. switches' # 0 /\ votingHistory'.switched /\ lastVoteReads' = lastVoteReads
    BY <1>0, <1>h DEF SwitchAccount, Histories
  <2> QED
    BY <2>1 DEF ReadsKept
<1>1. ASSUME UNCHANGED <<account, switches, voted, lastVote, lastVoteReads>>, NoneMined' => NoneMined,
             votingHistory'.overtaken = votingHistory.overtaken,
             votingHistory'.switched = votingHistory.switched
      PROVE  ReadsKept'
  BY <1>1 DEF ReadsKept, NeverVoted, Brings, LastReadCounts
<1>2. CASE UNCHANGED <<account, switches, voted, lastVote, lastVoteReads, commits, votingHistory>>
  <2>1. NoneMined' => NoneMined
    BY <1>2 DEF NoneMined, MinedVote
  <2> QED
    BY <1>1, <1>2, <2>1
<1>3. CASE CommitVote
  <2>1. /\ DOMAIN commits \subseteq DOMAIN commits'
        /\ \A j \in DOMAIN commits : commits'[j] = commits[j]
    BY <1>3 DEF CommitVote, VotingTyped
  <2>2. NoneMined' => NoneMined
    BY <2>1 DEF NoneMined, MinedVote
  <2> QED
    BY <1>1, <1>3, <2>2 DEF CommitVote
<1>4. ASSUME NEW i \in DOMAIN commits, NEW r, MovesOn(i, r), ~MinedVote(i) PROVE NoneMined' => NoneMined
  BY <1>4 DEF NoneMined, MinedVote, MovesOn
<1>5. ASSUME NEW i \in DOMAIN commits, AddressGiven(i) PROVE ReadsKept'
  <2>1. PICK r : r = [commits[i] EXCEPT !.at = "enabling", !.from = account,
                                        !.staged = Checked \cap commits[i].keys]
    OBVIOUS
  <2>2. MovesOn(i, r) /\ ~MinedVote(i)
    BY <1>5, <2>1, OneMovesOn DEF AddressGiven, MinedVote
  <2> QED
    BY <1>1, <1>4, <1>5, <2>2 DEF AddressGiven
<1>6. ASSUME NEW i \in DOMAIN commits, VoteOut(i) PROVE ReadsKept'
  <2>1. PICK r : r = [commits[i] EXCEPT !.at = "sent", !.sender = account]
    OBVIOUS
  <2>2. MovesOn(i, r) /\ ~MinedVote(i)
    BY <1>6, <2>1, OneMovesOn DEF VoteOut, MinedVote
  <2>3. votingHistory'.overtaken = votingHistory.overtaken /\ votingHistory'.switched = votingHistory.switched
    BY <1>6, <1>h DEF VoteOut, Histories
  <2> QED
    BY <1>1, <1>4, <1>6, <2>2, <2>3 DEF VoteOut
<1>7. ASSUME NEW i \in DOMAIN commits, Mined(i) PROVE ReadsKept'
  <2>1. commits[i] \in Commits /\ ~MinedVote(i)
    BY <1>7 DEF VotingTyped, Mined, MinedVote
  <2>2. UNCHANGED <<account, switches, lastVote, lastVoteReads>>
    BY <1>7 DEF Mined
  <2>3. CASE voted' = [voted EXCEPT ![commits[i].sender] = commits[i].staged]
             /\ commits' = [commits EXCEPT ![i].at = "mined"]
    <3>1. PICK r : r = [commits[i] EXCEPT !.at = "mined"]
      OBVIOUS
    <3>2. commits' = [commits EXCEPT ![i] = r] /\ r.at = "mined"
      BY <2>1, <2>3, <3>1 DEF Commits
    <3>3. ~NoneMined'
      BY <3>2, OneMovesOn DEF MovesOn, NoneMined, MinedVote
    <3>4. commits[i].staged # NoVote
      BY <2>1, VotingAssumption DEF Commits
    <3>5. voted'[account] = NoVote => voted[account] = NoVote
      BY <2>3, <3>4 DEF VotingTyped
    <3> QED
      BY <2>2, <3>3, <3>5 DEF ReadsKept, NeverVoted
  <2>4. CASE commits' = [commits EXCEPT ![i] = Over("failed")] /\ UNCHANGED <<voted, votingHistory>>
    <3>1. PICK r : r = Over("failed")
      OBVIOUS
    <3>2. MovesOn(i, r)
      BY <2>4, <3>1, OneMovesOn
    <3> QED
      BY <1>1, <1>4, <2>1, <2>2, <2>4, <3>2
  <2> QED
    BY <1>7, <2>3, <2>4 DEF Mined
<1>8. ASSUME NEW i \in DOMAIN commits, Receipt(i) PROVE ReadsKept'
  <2>1. /\ lastVoteReads' = Append(lastVoteReads, Unanswered) /\ lastVoteReads \in Seq(VoteReads)
        /\ UNCHANGED <<account, switches, voted, lastVote>>
    BY <1>8 DEF Receipt, VotingTyped
  <2>2. PICK n \in Nat : n = Len(lastVoteReads)
    BY <2>1
  <2>3. /\ DOMAIN lastVoteReads' = DOMAIN lastVoteReads \cup {n + 1} /\ Len(lastVoteReads') = n + 1
        /\ \A k \in DOMAIN lastVoteReads : lastVoteReads'[k] = lastVoteReads[k]
        /\ lastVoteReads'[n + 1] = Unanswered
    BY <2>1, <2>2
  <2>4. Unanswered.vote = NoVote /\ ~Unanswered.answered /\ ~Unanswered.delivered
    BY DEF Unanswered
  <2>5. NeverVoted => NeverVoted'
    BY <2>1, <2>3, <2>4 DEF NeverVoted
  <2>6. LastReadCounts(n + 1, voted[account])'
    BY <2>3, <2>4 DEF Brings, LastReadCounts
  <2>7. n + 1 > 0
    OBVIOUS
  <2> QED
    BY <2>1, <2>3, <2>5, <2>6, <2>7 DEF ReadsKept
<1>9. ASSUME NEW k \in DOMAIN lastVoteReads, AnswerLastVote(k) PROVE ReadsKept'
  <2>1. /\ lastVoteReads[k] \in VoteReads /\ lastVoteReads \in Seq(VoteReads)
        /\ UNCHANGED <<account, switches, voted, commits, votingHistory, lastVote>>
    BY <1>9 DEF VotingTyped, AnswerLastVote
  <2>2. PICK r : r = [lastVoteReads[k] EXCEPT !.answered = TRUE, !.vote = voted[account]]
    OBVIOUS
  <2>3. /\ lastVoteReads' = [lastVoteReads EXCEPT ![k] = r] /\ r.vote = voted[account]
        /\ r.delivered = lastVoteReads[k].delivered
    BY <1>9, <2>1, <2>2 DEF AnswerLastVote, VoteReads
  <2>4. /\ DOMAIN lastVoteReads' = DOMAIN lastVoteReads /\ lastVoteReads'[k] = r
        /\ \A l \in DOMAIN lastVoteReads : l # k => lastVoteReads'[l] = lastVoteReads[l]
        /\ Len(lastVoteReads') = Len(lastVoteReads)
    BY <2>1, <2>3
  <2>5. voted[account] = NoVote /\ NeverVoted => NeverVoted'
    BY <2>1, <2>3, <2>4 DEF NeverVoted
  <2>6. PICK n : n = Len(lastVoteReads)
    OBVIOUS
  <2>7. n \in DOMAIN lastVoteReads
    BY <2>1, <2>6 DEF ReadsKept
  <2>8. NoneMined' <=> NoneMined
    BY <2>1 DEF NoneMined, MinedVote
  <2>9. LastReadCounts(n, voted[account]) => LastReadCounts(n, voted[account])'
    BY <2>1, <2>3, <2>4, <2>7 DEF LastReadCounts, Brings
  <2> QED
    BY <2>1, <2>4, <2>5, <2>6, <2>8, <2>9 DEF ReadsKept
<1>10. ASSUME NEW k \in DOMAIN lastVoteReads, FetchLastVote(k) PROVE ReadsKept'
  <2>1. /\ lastVoteReads[k] \in VoteReads /\ lastVoteReads \in Seq(VoteReads)
        /\ UNCHANGED <<account, switches, voted, commits>>
        /\ lastVoteReads[k].answered /\ ~lastVoteReads[k].delivered
    BY <1>10 DEF VotingTyped, FetchLastVote
  <2>2. PICK r : r = [lastVoteReads[k] EXCEPT !.delivered = TRUE, !.vote = NoVote]
    OBVIOUS
  <2>3. lastVoteReads' = [lastVoteReads EXCEPT ![k] = r] /\ r.vote = NoVote /\ r.delivered
    BY <1>10, <2>1, <2>2 DEF FetchLastVote, VoteReads
  <2>4. /\ DOMAIN lastVoteReads' = DOMAIN lastVoteReads /\ lastVoteReads'[k] = r
        /\ \A l \in DOMAIN lastVoteReads : l # k => lastVoteReads'[l] = lastVoteReads[l]
        /\ Len(lastVoteReads') = Len(lastVoteReads)
    BY <2>1, <2>3
  <2>5. lastVote' = IF lastVoteReads[k].vote = NoVote THEN lastVote ELSE lastVoteReads[k].vote
    BY <1>10 DEF FetchLastVote
  <2>6. NeverVoted => NeverVoted'
    BY <2>3, <2>4, <2>5 DEF NeverVoted
  <2>7. PICK n \in Nat : n = Len(lastVoteReads) /\ n \in DOMAIN lastVoteReads
    BY <2>1 DEF ReadsKept
  <2>8. NoneMined' <=> NoneMined
    BY <2>1 DEF NoneMined, MinedVote
  <2>9. /\ votingHistory'.switched = votingHistory.switched
        /\ ~votingHistory'.overtaken =>
             /\ ~votingHistory.overtaken
             /\ \A l \in DOMAIN lastVoteReads : l > k => ~lastVoteReads[l].delivered
    BY <1>10, <1>h DEF FetchLastVote, Histories
  <2>10. k # n => n > k
    BY <2>1, <2>7
  <2>11. ASSUME LastReadCounts(n, voted[account]), ~votingHistory'.overtaken
         PROVE  LastReadCounts(n, voted[account])'
    <3>1. CASE k = n
      <4>1. lastVoteReads[k].vote = voted[account] /\ lastVoteReads'[n].delivered
        BY <2>1, <2>3, <2>4, <2>11, <3>1 DEF LastReadCounts, Brings
      <4>2. voted[account] # NoVote => lastVote' = voted[account]
        BY <2>5, <4>1
      <4> QED
        BY <2>1, <4>1, <4>2 DEF LastReadCounts
    <3>2. CASE k # n
      <4>1. ~lastVoteReads[n].delivered /\ lastVoteReads'[n] = lastVoteReads[n]
        BY <2>4, <2>7, <2>9, <2>10, <2>11, <3>2
      <4> QED
        BY <2>1, <2>11, <4>1 DEF LastReadCounts, Brings
    <3> QED
      BY <3>1, <3>2
  <2> QED
    BY <2>1, <2>4, <2>6, <2>7, <2>8, <2>9, <2>11 DEF ReadsKept
<1> QED
  BY <1>0, <1>2, <1>3, <1>5, <1>6, <1>7, <1>8, <1>9, <1>10 DEF VotingNext, FetchValidators, FetchValidator,
       ToggleCheck, votingVars

-----------------------------------------------------------------------------
LEMMA VotingStarts == VotingInit => VotingTyped /\ SelectionKept /\ StoredKept /\ ReadsKept
<1> SUFFICES ASSUME VotingInit PROVE VotingTyped /\ SelectionKept /\ StoredKept /\ ReadsKept
  OBVIOUS
<1>1. DOMAIN validators = {} /\ Checked = {} /\ commits = <<>>
  BY DEF VotingInit, Checked
<1>2. VotingTyped
  <2>1. voted \in [Accounts -> VoteValues]
    BY DEF VotingInit, VoteValues
  <2>2. stored \in [Accounts -> (SUBSET Validators) \cup FirstVotesOut \cup {{}}]
    BY DEF VotingInit
  <2>3. lastVoteReads \in Seq(VoteReads)
    <3>1. Unanswered \in VoteReads
      BY DEF Unanswered, VoteReads, VoteValues
    <3> QED
      BY <3>1 DEF VotingInit
  <2>4. commits \in Seq(Commits) /\ validators \in [DOMAIN validators -> BOOLEAN]
    BY DEF VotingInit
  <2> QED
    BY <1>1, <2>1, <2>2, <2>3, <2>4 DEF VotingInit, VotingTyped, NotListed, NoHistory, Histories
<1>3. SelectionKept
  BY <1>1, VotingAssumption, FS_EmptySet DEF VotingInit, SelectionKept, NotListed, IsSelectionFull
<1>4. StoredKept
  <2>1. \A a : Awaiting(a) = {}
    BY <1>1 DEF Awaiting
  <2>2. \A a \in Accounts : stored[a] = VoteIn(voted[a])
    BY DEF VotingInit, VoteIn
  <2> QED
    BY <1>1, <2>1, <2>2 DEF StoredKept, KeptFor, SentByItself
<1>5. ReadsKept
  <2>1. DOMAIN lastVoteReads = {1} /\ lastVoteReads[1] = Unanswered
    BY DEF VotingInit
  <2>2. Len(lastVoteReads) = 1 /\ ~lastVoteReads[1].delivered /\ \A vote : Brings(1, vote)
    BY <2>1 DEF Unanswered, Brings, VotingInit
  <2>3. NeverVoted
    BY <2>1 DEF NeverVoted, Unanswered, VotingInit
  <2> QED
    BY <2>2, <2>3 DEF ReadsKept, LastReadCounts
<1> QED
  BY <1>2, <1>3, <1>4, <1>5

(* The voting page never lets more be selected than the contract takes when *)
(* nothing was restored.  Once receipts are in it remembers for each        *)
(* account the vote it has on chain, but for the two accounts of a vote     *)
(* during which MetaMask went from one to the other and an account whose    *)
(* receipts overtook each other; and it says the vote of the account that   *)
(* was there when it was last asked for, unless answers overtook each       *)
(* other.  For any validators, accounts and limit, and any votes at once.   *)
THEOREM VotesAreAlwaysKept == VotingSpec => []VotesAreKept
<1> DEFINE Inv == VotingTyped /\ SelectionKept /\ StoredKept /\ ReadsKept
<1>1. VotingInit => Inv
  BY VotingStarts
<1>2. Inv /\ [VotingNext]_votingVars => Inv'
  BY VotingStaysTyped, SelectionStaysKept, StoredStaysKept, ReadsStayKept
<1>3. Inv => VotesAreKept
  <2> SUFFICES ASSUME Inv PROVE VotesAreKept
    OBVIOUS
  <2>1. SelectionStaysWithinThree
    BY DEF SelectionKept, SelectionStaysWithinThree
  <2>2. StoredIsTheVote
    BY DEF StoredKept, KeptFor, StoredIsTheVote
  <2>3. LastVoteIsTheVote
    <3>1. switches = 0 /\ voted[account] = NoVote => lastVote = {}
      BY DEF ReadsKept, NeverVoted
    <3>2. ASSUME NoReads, ~votingHistory.overtaken, ~votingHistory.switched,
                 \A i \in DOMAIN commits : commits[i].at # "mined", voted[account] # NoVote
          PROVE  lastVote = voted[account]
      <4>1. NoneMined
        BY <3>2 DEF NoneMined, MinedVote
      <4>2. PICK n \in DOMAIN lastVoteReads : n = Len(lastVoteReads)
        BY DEF ReadsKept, VotingTyped
      <4>3. LastReadCounts(n, voted[account]) /\ lastVoteReads[n].delivered
        BY <3>2, <4>1, <4>2 DEF ReadsKept, NoReads
      <4> QED
        BY <3>2, <4>3 DEF LastReadCounts
    <3> QED
      BY <3>1, <3>2 DEF LastVoteIsTheVote
  <2> QED
    BY <2>1, <2>2, <2>3 DEF VotesAreKept
<1> QED
  BY <1>1, <1>2, <1>3, PTL DEF VotingSpec

-----------------------------------------------------------------------------
(* The proxy: seven routers of two routes each, tried in turn.              *)
LEMMA RouteTable ==
  /\ DOMAIN Server = 1 .. 7 /\ \A r \in 1 .. 7 : DOMAIN Server[r] = 1 .. 2
  /\ Server[1][1] = Route(<<"api", "guardians">>, "getGuardiansList", TRUE)
  /\ Server[1][2] = Route(<<"api", "guardians", Param>>, "getGuardianInfo", TRUE)
  /\ Server[2][1] = Route(<<"api", "validators", "elected">>, "getElectedValidators", FALSE)
  /\ Server[2][2] = Route(<<"api", "validators", "elected", Param>>, "getElectedValidatorInfo", TRUE)
  /\ Server[3][1] = Route(<<"api", "validators">>, "getValidators", TRUE)
  /\ Server[3][2] = Route(<<"api", "validators", Param>>, "getValidatorInfo", TRUE)
  /\ Server[4][1] = Route(<<"api", "rewards", "history", Param>>, "getRewardsHistory", FALSE)
  /\ Server[4][2] = Route(<<"api", "rewards", Param>>, "getRewards", FALSE)
  /\ Server[5][1] = Route(<<"api", "total-participating-tokens">>, "getTotalParticipatingTokens", TRUE)
  /\ Server[5][2] = Route(<<"api", "stake", "validator", Param>>, NoRead, FALSE)
  /\ Server[6][1] = Route(<<"api", "elections", "upcoming">>, "getUpcomingElectionBlockNumber", TRUE)
  /\ Server[6][2] = Route(<<"api", "elections", "effective">>, "getEffectiveElectionBlockNumber", TRUE)
  /\ Server[7][1] = Route(<<"api", "delegation", "status">>, "getDelegatee", TRUE)
  /\ Server[7][2] = Route(<<"api", "delegation">>, "getDelegationInfo", TRUE)
<1> DEFINE G == GuardiansRouter
           E == ElectedValidatorsRouter
           V == ValidatorsRouter
           R == RewardsRouter
           K == StakeRouter
           L == ElectionsRouter
           D == DelegationRouter
<1>1. /\ Server[1] = G /\ Server[2] = E /\ Server[3] = V /\ Server[4] = R
      /\ Server[5] = K /\ Server[6] = L /\ Server[7] = D /\ DOMAIN Server = 1 .. 7
  <2> HIDE DEF G, E, V, R, K, L, D
  <2>1. Server = <<G, E, V, R, K, L, D>>
    BY DEF Server, G, E, V, R, K, L, D
  <2> QED BY <2>1
<1>2. ASSUME NEW x, NEW y PROVE <<x, y>>[1] = x /\ <<x, y>>[2] = y /\ DOMAIN <<x, y>> = 1 .. 2
  OBVIOUS
<1>3. ASSUME NEW x, NEW y, NEW t, t = <<x, y>> PROVE t[1] = x /\ t[2] = y /\ DOMAIN t = 1 .. 2
  BY <1>2, <1>3
<1>4. /\ G[1] = Route(<<"api", "guardians">>, "getGuardiansList", TRUE)
      /\ G[2] = Route(<<"api", "guardians", Param>>, "getGuardianInfo", TRUE) /\ DOMAIN G = 1 .. 2
  BY <1>2 DEF GuardiansRouter
<1>5. /\ E[1] = Route(<<"api", "validators", "elected">>, "getElectedValidators", FALSE)
      /\ E[2] = Route(<<"api", "validators", "elected", Param>>, "getElectedValidatorInfo", TRUE)
      /\ DOMAIN E = 1 .. 2
  BY <1>2 DEF ElectedValidatorsRouter
<1>6. /\ V[1] = Route(<<"api", "validators">>, "getValidators", TRUE)
      /\ V[2] = Route(<<"api", "validators", Param>>, "getValidatorInfo", TRUE) /\ DOMAIN V = 1 .. 2
  BY <1>2 DEF ValidatorsRouter
<1>7. /\ R[1] = Route(<<"api", "rewards", "history", Param>>, "getRewardsHistory", FALSE)
      /\ R[2] = Route(<<"api", "rewards", Param>>, "getRewards", FALSE) /\ DOMAIN R = 1 .. 2
  BY <1>2 DEF RewardsRouter
<1>8. /\ K[1] = Route(<<"api", "total-participating-tokens">>, "getTotalParticipatingTokens", TRUE)
      /\ K[2] = Route(<<"api", "stake", "validator", Param>>, NoRead, FALSE) /\ DOMAIN K = 1 .. 2
  BY <1>2 DEF StakeRouter
<1>9. /\ L[1] = Route(<<"api", "elections", "upcoming">>, "getUpcomingElectionBlockNumber", TRUE)
      /\ L[2] = Route(<<"api", "elections", "effective">>, "getEffectiveElectionBlockNumber", TRUE)
      /\ DOMAIN L = 1 .. 2
  BY <1>2 DEF ElectionsRouter
<1>10. /\ D[1] = Route(<<"api", "delegation", "status">>, "getDelegatee", TRUE)
       /\ D[2] = Route(<<"api", "delegation">>, "getDelegationInfo", TRUE) /\ DOMAIN D = 1 .. 2
  BY <1>2 DEF DelegationRouter
<1>11. ASSUME NEW r \in 1 .. 7 PROVE DOMAIN Server[r] = 1 .. 2
  <2> HIDE DEF G, E, V, R, K, L, D
  <2>1. r = 1 \/ r = 2 \/ r = 3 \/ r = 4 \/ r = 5 \/ r = 6 \/ r = 7
    OBVIOUS
  <2> QED BY <1>1, <1>4, <1>5, <1>6, <1>7, <1>8, <1>9, <1>10, <2>1
<1> QED BY <1>1, <1>4, <1>5, <1>6, <1>7, <1>8, <1>9, <1>10, <1>11

(* What there is to know of a route: how many words its pattern has, which  *)
(* they are but the first, its read and whether it is of an address.        *)
RouteIs(route, n, second, third, read, named) ==
  /\ Len(route.path) = n /\ route.path[2] = second /\ (n > 2 => route.path[3] = third)
  /\ route.read = read /\ (Last(route.path) = Param <=> named)

LEMMA RoutesOfWords ==
  ASSUME NEW a, NEW b, NEW c, NEW read, NEW guarded, b # Param
  PROVE  /\ RouteIs(Route(<<a, b>>, read, guarded), 2, b, c, read, FALSE)
         /\ RouteIs(Route(<<a, b, c>>, read, guarded), 3, b, c, read, c = Param)
         /\ RouteIs(Route(<<a, b, c, Param>>, read, guarded), 4, b, c, read, TRUE)
<1>1. ASSUME NEW q, q = <<a, b>>
      PROVE  Len(q) = 2 /\ q[2] = b /\ (Last(q) = Param <=> FALSE)
  BY <1>1 DEF Last
<1>2. ASSUME NEW q, q = <<a, b, c>>
      PROVE  Len(q) = 3 /\ q[2] = b /\ q[3] = c /\ (Last(q) = Param <=> c = Param)
  BY <1>2 DEF Last
<1>3. ASSUME NEW q, q = <<a, b, c, Param>>
      PROVE  Len(q) = 4 /\ q[2] = b /\ q[3] = c /\ (Last(q) = Param <=> TRUE)
  BY <1>3 DEF Last
<1>4. \A q : Route(q, read, guarded).path = q /\ Route(q, read, guarded).read = read
  BY DEF Route
<1>5. ~(2 > 2)
  OBVIOUS
<1> QED BY <1>1, <1>2, <1>3, <1>4, <1>5 DEF RouteIs

LEMMA RoutesAre ==
  /\ RouteIs(Server[1][1], 2, "guardians", NoRead, "getGuardiansList", FALSE)
  /\ RouteIs(Server[1][2], 3, "guardians", Param, "getGuardianInfo", TRUE)
  /\ RouteIs(Server[2][1], 3, "validators", "elected", "getElectedValidators", FALSE)
  /\ RouteIs(Server[2][2], 4, "validators", "elected", "getElectedValidatorInfo", TRUE)
  /\ RouteIs(Server[3][1], 2, "validators", NoRead, "getValidators", FALSE)
  /\ RouteIs(Server[3][2], 3, "validators", Param, "getValidatorInfo", TRUE)
  /\ RouteIs(Server[4][1], 4, "rewards", "history", "getRewardsHistory", TRUE)
  /\ RouteIs(Server[4][2], 3, "rewards", Param, "getRewards", TRUE)
  /\ RouteIs(Server[5][1], 2, "total-participating-tokens", NoRead, "getTotalParticipatingTokens", FALSE)
  /\ RouteIs(Server[5][2], 4, "stake", "validator", NoRead, TRUE)
  /\ RouteIs(Server[6][1], 3, "elections", "upcoming", "getUpcomingElectionBlockNumber", FALSE)
  /\ RouteIs(Server[6][2], 3, "elections", "effective", "getEffectiveElectionBlockNumber", FALSE)
  /\ RouteIs(Server[7][1], 3, "delegation", "status", "getDelegatee", FALSE)
  /\ RouteIs(Server[7][2], 2, "delegation", NoRead, "getDelegationInfo", FALSE)
<1> DEFINE words == {"guardians", "validators", "elected", "rewards", "history", "total-participating-tokens", "stake", "validator", "elections", "upcoming", "effective", "delegation", "status"}
<1>1. \A w \in words : w # Param
  BY DEF Param
<1>2. ASSUME NEW w \in words, NEW read, NEW guarded
      PROVE  RouteIs(Route(<<"api", w>>, read, guarded), 2, w, NoRead, read, FALSE)
  BY <1>1, RoutesOfWords
<1>3. ASSUME NEW w \in words, NEW read, NEW guarded
      PROVE  RouteIs(Route(<<"api", w, Param>>, read, guarded), 3, w, Param, read, TRUE)
  <2>1. PICK c : c = Param
    OBVIOUS
  <2>2. RouteIs(Route(<<"api", w, c>>, read, guarded), 3, w, c, read, c = Param)
    BY <1>1, RoutesOfWords
  <2> QED BY <2>1, <2>2
<1>4. ASSUME NEW w \in words, NEW c \in words, NEW read, NEW guarded
      PROVE  /\ RouteIs(Route(<<"api", w, c>>, read, guarded), 3, w, c, read, FALSE)
             /\ RouteIs(Route(<<"api", w, c, Param>>, read, guarded), 4, w, c, read, TRUE)
  <2>1. RouteIs(Route(<<"api", w, c>>, read, guarded), 3, w, c, read, c = Param)
    BY <1>1, RoutesOfWords
  <2>2. (c = Param) = FALSE
    BY <1>1
  <2> QED BY <1>1, <2>1, <2>2, RoutesOfWords
<1>5. RouteIs(Server[1][1], 2, "guardians", NoRead, "getGuardiansList", FALSE)
  <2>1. Server[1][1] = Route(<<"api", "guardians">>, "getGuardiansList", TRUE)
    BY RouteTable
  <2> QED BY <1>2, <2>1
<1>6. RouteIs(Server[1][2], 3, "guardians", Param, "getGuardianInfo", TRUE)
  <2>1. Server[1][2] = Route(<<"api", "guardians", Param>>, "getGuardianInfo", TRUE)
    BY RouteTable
  <2> QED BY <1>3, <2>1
<1>7. RouteIs(Server[2][1], 3, "validators", "elected", "getElectedValidators", FALSE)
  <2>1. Server[2][1] = Route(<<"api", "validators", "elected">>, "getElectedValidators", FALSE)
    BY RouteTable
  <2> QED BY <1>4, <2>1
<1>8. RouteIs(Server[2][2], 4, "validators", "elected", "getElectedValidatorInfo", TRUE)
  <2>1. Server[2][2] = Route(<<"api", "validators", "elected", Param>>, "getElectedValidatorInfo", TRUE)
    BY RouteTable
  <2> QED BY <1>4, <2>1
<1>9. RouteIs(Server[3][1], 2, "validators", NoRead, "getValidators", FALSE)
  <2>1. Server[3][1] = Route(<<"api", "validators">>, "getValidators", TRUE)
    BY RouteTable
  <2> QED BY <1>2, <2>1
<1>10. RouteIs(Server[3][2], 3, "validators", Param, "getValidatorInfo", TRUE)
  <2>1. Server[3][2] = Route(<<"api", "validators", Param>>, "getValidatorInfo", TRUE)
    BY RouteTable
  <2> QED BY <1>3, <2>1
<1>11. RouteIs(Server[4][1], 4, "rewards", "history", "getRewardsHistory", TRUE)
  <2>1. Server[4][1] = Route(<<"api", "rewards", "history", Param>>, "getRewardsHistory", FALSE)
    BY RouteTable
  <2> QED BY <1>4, <2>1
<1>12. RouteIs(Server[4][2], 3, "rewards", Param, "getRewards", TRUE)
  <2>1. Server[4][2] = Route(<<"api", "rewards", Param>>, "getRewards", FALSE)
    BY RouteTable
  <2> QED BY <1>3, <2>1
<1>13. RouteIs(Server[5][1], 2, "total-participating-tokens", NoRead, "getTotalParticipatingTokens", FALSE)
  <2>1. Server[5][1] = Route(<<"api", "total-participating-tokens">>, "getTotalParticipatingTokens", TRUE)
    BY RouteTable
  <2> QED BY <1>2, <2>1
<1>14. RouteIs(Server[5][2], 4, "stake", "validator", NoRead, TRUE)
  <2>1. Server[5][2] = Route(<<"api", "stake", "validator", Param>>, NoRead, FALSE)
    BY RouteTable
  <2> QED BY <1>4, <2>1
<1>15. RouteIs(Server[6][1], 3, "elections", "upcoming", "getUpcomingElectionBlockNumber", FALSE)
  <2>1. Server[6][1] = Route(<<"api", "elections", "upcoming">>, "getUpcomingElectionBlockNumber", TRUE)
    BY RouteTable
  <2> QED BY <1>4, <2>1
<1>16. RouteIs(Server[6][2], 3, "elections", "effective", "getEffectiveElectionBlockNumber", FALSE)
  <2>1. Server[6][2] = Route(<<"api", "elections", "effective">>, "getEffectiveElectionBlockNumber", TRUE)
    BY RouteTable
  <2> QED BY <1>4, <2>1
<1>17. RouteIs(Server[7][1], 3, "delegation", "status", "getDelegatee", FALSE)
  <2>1. Server[7][1] = Route(<<"api", "delegation", "status">>, "getDelegatee", TRUE)
    BY RouteTable
  <2> QED BY <1>4, <2>1
<1>18. RouteIs(Server[7][2], 2, "delegation", NoRead, "getDelegationInfo", FALSE)
  <2>1. Server[7][2] = Route(<<"api", "delegation">>, "getDelegationInfo", TRUE)
    BY RouteTable
  <2> QED BY <1>2, <2>1
<1> QED BY <1>5, <1>6, <1>7, <1>8, <1>9, <1>10, <1>11, <1>12, <1>13, <1>14, <1>15, <1>16, <1>17, <1>18

(* Which routes can match a path, by its length and its words.              *)
MatchedBy(p, r, k) ==
  \/ /\ r = 1 /\ k = 1 /\ Len(p) = 2 /\ p[2] = "guardians"
  \/ /\ r = 1 /\ k = 2 /\ Len(p) = 3 /\ p[2] = "guardians"
  \/ /\ r = 2 /\ k = 1 /\ Len(p) = 3 /\ p[2] = "validators" /\ p[3] = "elected"
  \/ /\ r = 2 /\ k = 2 /\ Len(p) = 4 /\ p[2] = "validators" /\ p[3] = "elected"
  \/ /\ r = 3 /\ k = 1 /\ Len(p) = 2 /\ p[2] = "validators"
  \/ /\ r = 3 /\ k = 2 /\ Len(p) = 3 /\ p[2] = "validators"
  \/ /\ r = 4 /\ k = 1 /\ Len(p) = 4 /\ p[2] = "rewards" /\ p[3] = "history"
  \/ /\ r = 4 /\ k = 2 /\ Len(p) = 3 /\ p[2] = "rewards"
  \/ /\ r = 5 /\ k = 1 /\ Len(p) = 2 /\ p[2] = "total-participating-tokens"
  \/ /\ r = 5 /\ k = 2 /\ Len(p) = 4 /\ p[2] = "stake" /\ p[3] = "validator"
  \/ /\ r = 6 /\ k = 1 /\ Len(p) = 3 /\ p[2] = "elections" /\ p[3] = "upcoming"
  \/ /\ r = 6 /\ k = 2 /\ Len(p) = 3 /\ p[2] = "elections" /\ p[3] = "effective"
  \/ /\ r = 7 /\ k = 1 /\ Len(p) = 3 /\ p[2] = "delegation" /\ p[3] = "status"
  \/ /\ r = 7 /\ k = 2 /\ Len(p) = 2 /\ p[2] = "delegation"

LEMMA OnlyRoutes ==
  ASSUME NEW S, NEW p \in Seq(S), NEW r \in DOMAIN Server, NEW k \in DOMAIN Server[r],
         Matches(Server[r][k].path, p)
  PROVE  MatchedBy(p, r, k)
<1>1. (r = 1 \/ r = 2 \/ r = 3 \/ r = 4 \/ r = 5 \/ r = 6 \/ r = 7) /\ (k = 1 \/ k = 2)
  <2>1. r \in 1 .. 7 /\ k \in 1 .. 2
    BY RouteTable
  <2> QED BY <2>1
<1>2. ASSUME NEW route, Matches(route.path, p), NEW n \in {2, 3, 4}, NEW second, NEW third, NEW read, NEW named,
             RouteIs(route, n, second, third, read, named), second # Param
      PROVE  Len(p) = n /\ p[2] = second /\ (n > 2 => third \in {Param, p[3]})
  <2>1. Len(p) = n /\ DOMAIN p = 1 .. n
    <3>1. Len(route.path) = Len(p)
      BY <1>2 DEF Matches
    <3>2. Len(route.path) = n
      BY <1>2 DEF RouteIs
    <3>3. DOMAIN p = 1 .. Len(p)
      OBVIOUS
    <3> QED BY <3>1, <3>2, <3>3
  <2>2. 2 \in DOMAIN p /\ (n > 2 => 3 \in DOMAIN p)
    BY <2>1
  <2>3. route.path[2] = second /\ (n > 2 => route.path[3] = third)
    BY <1>2 DEF RouteIs
  <2>4. route.path[2] \in {Param, p[2]} /\ (n > 2 => route.path[3] \in {Param, p[3]})
    BY <1>2, <2>2 DEF Matches
  <2> QED BY <1>2, <2>1, <2>3, <2>4
<1>3. Matches(Server[r][k].path, p)
  OBVIOUS
<1>4. CASE r = 1 /\ k = 1
  <2>1. Matches(Server[1][1].path, p) /\ 2 \in {2, 3, 4} /\ "guardians" # Param
    BY <1>3, <1>4 DEF Param
  <2>2. Len(p) = 2 /\ p[2] = "guardians"
    <3>1. RouteIs(Server[1][1], 2, "guardians", NoRead, "getGuardiansList", FALSE)
      BY RoutesAre
    <3> QED BY <1>2, <2>1, <3>1
  <2> QED BY <1>4, <2>1, <2>2 DEF MatchedBy
<1>5. CASE r = 1 /\ k = 2
  <2>1. Matches(Server[1][2].path, p) /\ 3 \in {2, 3, 4} /\ "guardians" # Param
    BY <1>3, <1>5 DEF Param
  <2>2. Len(p) = 3 /\ p[2] = "guardians"
    <3>1. RouteIs(Server[1][2], 3, "guardians", Param, "getGuardianInfo", TRUE)
      BY RoutesAre
    <3> QED BY <1>2, <2>1, <3>1
  <2> QED BY <1>5, <2>1, <2>2 DEF MatchedBy
<1>6. CASE r = 2 /\ k = 1
  <2>1. Matches(Server[2][1].path, p) /\ 3 \in {2, 3, 4} /\ "validators" # Param /\ "elected" # Param
    BY <1>3, <1>6 DEF Param
  <2>2. Len(p) = 3 /\ p[2] = "validators" /\ (3 > 2 => "elected" \in {Param, p[3]})
    <3>1. RouteIs(Server[2][1], 3, "validators", "elected", "getElectedValidators", FALSE)
      BY RoutesAre
    <3> QED BY <1>2, <2>1, <3>1
  <2> QED BY <1>6, <2>1, <2>2 DEF MatchedBy
<1>7. CASE r = 2 /\ k = 2
  <2>1. Matches(Server[2][2].path, p) /\ 4 \in {2, 3, 4} /\ "validators" # Param /\ "elected" # Param
    BY <1>3, <1>7 DEF Param
  <2>2. Len(p) = 4 /\ p[2] = "validators" /\ (4 > 2 => "elected" \in {Param, p[3]})
    <3>1. RouteIs(Server[2][2], 4, "validators", "elected", "getElectedValidatorInfo", TRUE)
      BY RoutesAre
    <3> QED BY <1>2, <2>1, <3>1
  <2> QED BY <1>7, <2>1, <2>2 DEF MatchedBy
<1>8. CASE r = 3 /\ k = 1
  <2>1. Matches(Server[3][1].path, p) /\ 2 \in {2, 3, 4} /\ "validators" # Param
    BY <1>3, <1>8 DEF Param
  <2>2. Len(p) = 2 /\ p[2] = "validators"
    <3>1. RouteIs(Server[3][1], 2, "validators", NoRead, "getValidators", FALSE)
      BY RoutesAre
    <3> QED BY <1>2, <2>1, <3>1
  <2> QED BY <1>8, <2>1, <2>2 DEF MatchedBy
<1>9. CASE r = 3 /\ k = 2
  <2>1. Matches(Server[3][2].path, p) /\ 3 \in {2, 3, 4} /\ "validators" # Param
    BY <1>3, <1>9 DEF Param
  <2>2. Len(p) = 3 /\ p[2] = "validators"
    <3>1. RouteIs(Server[3][2], 3, "validators", Param, "getValidatorInfo", TRUE)
      BY RoutesAre
    <3> QED BY <1>2, <2>1, <3>1
  <2> QED BY <1>9, <2>1, <2>2 DEF MatchedBy
<1>10. CASE r = 4 /\ k = 1
  <2>1. Matches(Server[4][1].path, p) /\ 4 \in {2, 3, 4} /\ "rewards" # Param /\ "history" # Param
    BY <1>3, <1>10 DEF Param
  <2>2. Len(p) = 4 /\ p[2] = "rewards" /\ (4 > 2 => "history" \in {Param, p[3]})
    <3>1. RouteIs(Server[4][1], 4, "rewards", "history", "getRewardsHistory", TRUE)
      BY RoutesAre
    <3> QED BY <1>2, <2>1, <3>1
  <2> QED BY <1>10, <2>1, <2>2 DEF MatchedBy
<1>11. CASE r = 4 /\ k = 2
  <2>1. Matches(Server[4][2].path, p) /\ 3 \in {2, 3, 4} /\ "rewards" # Param
    BY <1>3, <1>11 DEF Param
  <2>2. Len(p) = 3 /\ p[2] = "rewards"
    <3>1. RouteIs(Server[4][2], 3, "rewards", Param, "getRewards", TRUE)
      BY RoutesAre
    <3> QED BY <1>2, <2>1, <3>1
  <2> QED BY <1>11, <2>1, <2>2 DEF MatchedBy
<1>12. CASE r = 5 /\ k = 1
  <2>1. Matches(Server[5][1].path, p) /\ 2 \in {2, 3, 4} /\ "total-participating-tokens" # Param
    BY <1>3, <1>12 DEF Param
  <2>2. Len(p) = 2 /\ p[2] = "total-participating-tokens"
    <3>1. RouteIs(Server[5][1], 2, "total-participating-tokens", NoRead, "getTotalParticipatingTokens", FALSE)
      BY RoutesAre
    <3> QED BY <1>2, <2>1, <3>1
  <2> QED BY <1>12, <2>1, <2>2 DEF MatchedBy
<1>13. CASE r = 5 /\ k = 2
  <2>1. Matches(Server[5][2].path, p) /\ 4 \in {2, 3, 4} /\ "stake" # Param /\ "validator" # Param
    BY <1>3, <1>13 DEF Param
  <2>2. Len(p) = 4 /\ p[2] = "stake" /\ (4 > 2 => "validator" \in {Param, p[3]})
    <3>1. RouteIs(Server[5][2], 4, "stake", "validator", NoRead, TRUE)
      BY RoutesAre
    <3> QED BY <1>2, <2>1, <3>1
  <2> QED BY <1>13, <2>1, <2>2 DEF MatchedBy
<1>14. CASE r = 6 /\ k = 1
  <2>1. Matches(Server[6][1].path, p) /\ 3 \in {2, 3, 4} /\ "elections" # Param /\ "upcoming" # Param
    BY <1>3, <1>14 DEF Param
  <2>2. Len(p) = 3 /\ p[2] = "elections" /\ (3 > 2 => "upcoming" \in {Param, p[3]})
    <3>1. RouteIs(Server[6][1], 3, "elections", "upcoming", "getUpcomingElectionBlockNumber", FALSE)
      BY RoutesAre
    <3> QED BY <1>2, <2>1, <3>1
  <2> QED BY <1>14, <2>1, <2>2 DEF MatchedBy
<1>15. CASE r = 6 /\ k = 2
  <2>1. Matches(Server[6][2].path, p) /\ 3 \in {2, 3, 4} /\ "elections" # Param /\ "effective" # Param
    BY <1>3, <1>15 DEF Param
  <2>2. Len(p) = 3 /\ p[2] = "elections" /\ (3 > 2 => "effective" \in {Param, p[3]})
    <3>1. RouteIs(Server[6][2], 3, "elections", "effective", "getEffectiveElectionBlockNumber", FALSE)
      BY RoutesAre
    <3> QED BY <1>2, <2>1, <3>1
  <2> QED BY <1>15, <2>1, <2>2 DEF MatchedBy
<1>16. CASE r = 7 /\ k = 1
  <2>1. Matches(Server[7][1].path, p) /\ 3 \in {2, 3, 4} /\ "delegation" # Param /\ "status" # Param
    BY <1>3, <1>16 DEF Param
  <2>2. Len(p) = 3 /\ p[2] = "delegation" /\ (3 > 2 => "status" \in {Param, p[3]})
    <3>1. RouteIs(Server[7][1], 3, "delegation", "status", "getDelegatee", FALSE)
      BY RoutesAre
    <3> QED BY <1>2, <2>1, <3>1
  <2> QED BY <1>16, <2>1, <2>2 DEF MatchedBy
<1>17. CASE r = 7 /\ k = 2
  <2>1. Matches(Server[7][2].path, p) /\ 2 \in {2, 3, 4} /\ "delegation" # Param
    BY <1>3, <1>17 DEF Param
  <2>2. RouteIs(Server[7][2], 2, "delegation", NoRead, "getDelegationInfo", FALSE)
    BY RoutesAre
  <2>3. Len(p) = 2 /\ p[2] = "delegation"
    BY <1>2, <2>1, <2>2
  <2> QED BY <1>17, <2>1, <2>3 DEF MatchedBy
<1> QED BY <1>1, <1>4, <1>5, <1>6, <1>7, <1>8, <1>9, <1>10, <1>11, <1>12, <1>13, <1>14, <1>15, <1>16, <1>17

(* A path of two, three or four words.                                      *)
Path2(p, b) == p = <<"api", b>>
Path3(p, b, c) == p = <<"api", b, c>>
Path4(p, b, c, d) == p = <<"api", b, c, d>>

HasWords(p, n, b, c) == Len(p) = n /\ p[2] = b /\ (n > 2 => p[3] = c)

LEMMA PathWords ==
  ASSUME NEW b, NEW c, NEW d, NEW p, NEW r \in DOMAIN Server, NEW k \in DOMAIN Server[r],
         Matches(Server[r][k].path, p)
  PROVE  /\ Path2(p, b) => MatchedBy(p, r, k) /\ HasWords(p, 2, b, c)
         /\ Path3(p, b, c) => MatchedBy(p, r, k) /\ HasWords(p, 3, b, c) /\ Last(p) = c
         /\ Path4(p, b, c, d) => MatchedBy(p, r, k) /\ HasWords(p, 4, b, c) /\ Last(p) = d
<1>0. PICK a : a = "api"
  OBVIOUS
<1>1. ASSUME Path2(p, b) PROVE MatchedBy(p, r, k) /\ HasWords(p, 2, b, c)
  <2>1. p = <<a, b>>
    BY <1>0, <1>1 DEF Path2
  <2>2. p \in Seq({a, b}) /\ Len(p) = 2 /\ p[2] = b
    BY <2>1
  <2>3. MatchedBy(p, r, k)
    BY <2>2, OnlyRoutes
  <2>4. ~(2 > 2)
    OBVIOUS
  <2> QED BY <2>2, <2>3, <2>4 DEF HasWords
<1>2. ASSUME Path3(p, b, c) PROVE MatchedBy(p, r, k) /\ HasWords(p, 3, b, c) /\ Last(p) = c
  <2>1. p = <<a, b, c>>
    BY <1>0, <1>2 DEF Path3
  <2>2. p \in Seq({a, b, c})
    BY <2>1
  <2>3. Len(p) = 3 /\ p[2] = b /\ p[3] = c
    BY <2>1
  <2>4. MatchedBy(p, r, k)
    BY <2>2, OnlyRoutes
  <2> QED BY <2>3, <2>4 DEF HasWords, Last
<1>3. ASSUME Path4(p, b, c, d) PROVE MatchedBy(p, r, k) /\ HasWords(p, 4, b, c) /\ Last(p) = d
  <2>1. p = <<a, b, c, d>>
    BY <1>0, <1>3 DEF Path4
  <2>2. p \in Seq({a, b, c, d})
    BY <2>1
  <2>3. Len(p) = 4 /\ p[2] = b /\ p[3] = c /\ p[4] = d
    BY <2>1
  <2>4. MatchedBy(p, r, k)
    BY <2>2, OnlyRoutes
  <2> QED BY <2>3, <2>4 DEF HasWords, Last
<1> QED BY <1>1, <1>2, <1>3

(* The route r.k is of the read, and of the path's last word or of none.    *)
HandledWith(p, r, k, read, named, address) ==
  /\ Server[r][k].read = read /\ (Last(Server[r][k].path) = Param <=> named)
  /\ named => Last(p) = address

(* The routes that handle the paths of the methods.                         *)
LEMMA PathsOfMethods ==
  ASSUME NEW address, address # "elected", NEW p,
         NEW r \in DOMAIN Server, NEW k \in DOMAIN Server[r], IsHandledBy(p, r, k)
  PROVE  /\ Path2(p, "guardians") => HandledWith(p, r, k, "getGuardiansList", FALSE, address)
         /\ Path3(p, "guardians", address) => HandledWith(p, r, k, "getGuardianInfo", TRUE, address)
         /\ Path2(p, "validators") => HandledWith(p, r, k, "getValidators", FALSE, address)
         /\ Path3(p, "validators", "elected") => HandledWith(p, r, k, "getElectedValidators", FALSE, address)
         /\ Path3(p, "validators", address) => HandledWith(p, r, k, "getValidatorInfo", TRUE, address)
         /\ Path4(p, "validators", "elected", address) => HandledWith(p, r, k, "getElectedValidatorInfo", TRUE, address)
         /\ Path3(p, "rewards", address) => HandledWith(p, r, k, "getRewards", TRUE, address)
         /\ Path4(p, "rewards", "history", address) => HandledWith(p, r, k, "getRewardsHistory", TRUE, address)
         /\ Path2(p, "total-participating-tokens") => HandledWith(p, r, k, "getTotalParticipatingTokens", FALSE, address)
         /\ Path3(p, "elections", "upcoming") => HandledWith(p, r, k, "getUpcomingElectionBlockNumber", FALSE, address)
         /\ Path3(p, "elections", "effective") => HandledWith(p, r, k, "getEffectiveElectionBlockNumber", FALSE, address)
         /\ Path3(p, "delegation", "status") => HandledWith(p, r, k, "getDelegatee", FALSE, address)
         /\ Path2(p, "delegation") => HandledWith(p, r, k, "getDelegationInfo", FALSE, address)
<1>1. Matches(Server[r][k].path, p)
  BY DEF IsHandledBy
<1>2. ASSUME Path2(p, "guardians")
      PROVE  HandledWith(p, r, k, "getGuardiansList", FALSE, address)
  <2>1. MatchedBy(p, r, k) /\ HasWords(p, 2, "guardians", address)
    BY <1>1, <1>2, PathWords
  <2>3. r = 1 /\ k = 1
    BY <2>1 DEF MatchedBy, HasWords
  <2>4. RouteIs(Server[1][1], 2, "guardians", NoRead, "getGuardiansList", FALSE)
    BY RoutesAre
  <2> QED BY <2>1, <2>3, <2>4 DEF HandledWith, RouteIs
<1>3. ASSUME Path3(p, "guardians", address)
      PROVE  HandledWith(p, r, k, "getGuardianInfo", TRUE, address)
  <2>1. MatchedBy(p, r, k) /\ HasWords(p, 3, "guardians", address) /\ Last(p) = address
    BY <1>1, <1>3, PathWords
  <2>3. r = 1 /\ k = 2
    BY <2>1 DEF MatchedBy, HasWords
  <2>4. RouteIs(Server[1][2], 3, "guardians", Param, "getGuardianInfo", TRUE)
    BY RoutesAre
  <2> QED BY <2>1, <2>3, <2>4 DEF HandledWith, RouteIs
<1>4. ASSUME Path2(p, "validators")
      PROVE  HandledWith(p, r, k, "getValidators", FALSE, address)
  <2>1. MatchedBy(p, r, k) /\ HasWords(p, 2, "validators", address)
    BY <1>1, <1>4, PathWords
  <2>3. r = 3 /\ k = 1
    BY <2>1 DEF MatchedBy, HasWords
  <2>4. RouteIs(Server[3][1], 2, "validators", NoRead, "getValidators", FALSE)
    BY RoutesAre
  <2> QED BY <2>1, <2>3, <2>4 DEF HandledWith, RouteIs
<1>5. ASSUME Path3(p, "validators", "elected")
      PROVE  HandledWith(p, r, k, "getElectedValidators", FALSE, address)
  <2>1. MatchedBy(p, r, k) /\ HasWords(p, 3, "validators", "elected")
    BY <1>1, <1>5, PathWords
  <2>2. ~(r = 3 /\ k = 2)
    <3>1. Server[2][1].path = p
      BY <1>5, RouteTable DEF Route, Path3
    <3>2. Matches(p, p)
      BY DEF Matches
    <3>3. 2 \in 1 .. 3 /\ 1 \in DOMAIN Server[2] /\ 2 < 3
      BY RouteTable
    <3> QED BY <3>1, <3>2, <3>3 DEF IsHandledBy
  <2>3. r = 2 /\ k = 1
    BY <2>1, <2>2 DEF MatchedBy, HasWords
  <2>4. RouteIs(Server[2][1], 3, "validators", "elected", "getElectedValidators", FALSE)
    BY RoutesAre
  <2> QED BY <2>1, <2>3, <2>4 DEF HandledWith, RouteIs
<1>6. ASSUME Path3(p, "validators", address)
      PROVE  HandledWith(p, r, k, "getValidatorInfo", TRUE, address)
  <2>1. MatchedBy(p, r, k) /\ HasWords(p, 3, "validators", address) /\ Last(p) = address
    BY <1>1, <1>6, PathWords
  <2>3. r = 3 /\ k = 2
    BY <2>1 DEF MatchedBy, HasWords
  <2>4. RouteIs(Server[3][2], 3, "validators", Param, "getValidatorInfo", TRUE)
    BY RoutesAre
  <2> QED BY <2>1, <2>3, <2>4 DEF HandledWith, RouteIs
<1>7. ASSUME Path4(p, "validators", "elected", address)
      PROVE  HandledWith(p, r, k, "getElectedValidatorInfo", TRUE, address)
  <2>1. MatchedBy(p, r, k) /\ HasWords(p, 4, "validators", "elected") /\ Last(p) = address
    BY <1>1, <1>7, PathWords
  <2>3. r = 2 /\ k = 2
    BY <2>1 DEF MatchedBy, HasWords
  <2>4. RouteIs(Server[2][2], 4, "validators", "elected", "getElectedValidatorInfo", TRUE)
    BY RoutesAre
  <2> QED BY <2>1, <2>3, <2>4 DEF HandledWith, RouteIs
<1>8. ASSUME Path3(p, "rewards", address)
      PROVE  HandledWith(p, r, k, "getRewards", TRUE, address)
  <2>1. MatchedBy(p, r, k) /\ HasWords(p, 3, "rewards", address) /\ Last(p) = address
    BY <1>1, <1>8, PathWords
  <2>3. r = 4 /\ k = 2
    BY <2>1 DEF MatchedBy, HasWords
  <2>4. RouteIs(Server[4][2], 3, "rewards", Param, "getRewards", TRUE)
    BY RoutesAre
  <2> QED BY <2>1, <2>3, <2>4 DEF HandledWith, RouteIs
<1>9. ASSUME Path4(p, "rewards", "history", address)
      PROVE  HandledWith(p, r, k, "getRewardsHistory", TRUE, address)
  <2>1. MatchedBy(p, r, k) /\ HasWords(p, 4, "rewards", "history") /\ Last(p) = address
    BY <1>1, <1>9, PathWords
  <2>3. r = 4 /\ k = 1
    BY <2>1 DEF MatchedBy, HasWords
  <2>4. RouteIs(Server[4][1], 4, "rewards", "history", "getRewardsHistory", TRUE)
    BY RoutesAre
  <2> QED BY <2>1, <2>3, <2>4 DEF HandledWith, RouteIs
<1>10. ASSUME Path2(p, "total-participating-tokens")
      PROVE  HandledWith(p, r, k, "getTotalParticipatingTokens", FALSE, address)
  <2>1. MatchedBy(p, r, k) /\ HasWords(p, 2, "total-participating-tokens", address)
    BY <1>1, <1>10, PathWords
  <2>3. r = 5 /\ k = 1
    BY <2>1 DEF MatchedBy, HasWords
  <2>4. RouteIs(Server[5][1], 2, "total-participating-tokens", NoRead, "getTotalParticipatingTokens", FALSE)
    BY RoutesAre
  <2> QED BY <2>1, <2>3, <2>4 DEF HandledWith, RouteIs
<1>11. ASSUME Path3(p, "elections", "upcoming")
      PROVE  HandledWith(p, r, k, "getUpcomingElectionBlockNumber", FALSE, address)
  <2>1. MatchedBy(p, r, k) /\ HasWords(p, 3, "elections", "upcoming")
    BY <1>1, <1>11, PathWords
  <2>3. r = 6 /\ k = 1
    BY <2>1 DEF MatchedBy, HasWords
  <2>4. RouteIs(Server[6][1], 3, "elections", "upcoming", "getUpcomingElectionBlockNumber", FALSE)
    BY RoutesAre
  <2> QED BY <2>1, <2>3, <2>4 DEF HandledWith, RouteIs
<1>12. ASSUME Path3(p, "elections", "effective")
      PROVE  HandledWith(p, r, k, "getEffectiveElectionBlockNumber", FALSE, address)
  <2>1. MatchedBy(p, r, k) /\ HasWords(p, 3, "elections", "effective")
    BY <1>1, <1>12, PathWords
  <2>3. r = 6 /\ k = 2
    BY <2>1 DEF MatchedBy, HasWords
  <2>4. RouteIs(Server[6][2], 3, "elections", "effective", "getEffectiveElectionBlockNumber", FALSE)
    BY RoutesAre
  <2> QED BY <2>1, <2>3, <2>4 DEF HandledWith, RouteIs
<1>13. ASSUME Path3(p, "delegation", "status")
      PROVE  HandledWith(p, r, k, "getDelegatee", FALSE, address)
  <2>1. MatchedBy(p, r, k) /\ HasWords(p, 3, "delegation", "status")
    BY <1>1, <1>13, PathWords
  <2>3. r = 7 /\ k = 1
    BY <2>1 DEF MatchedBy, HasWords
  <2>4. RouteIs(Server[7][1], 3, "delegation", "status", "getDelegatee", FALSE)
    BY RoutesAre
  <2> QED BY <2>1, <2>3, <2>4 DEF HandledWith, RouteIs
<1>14. ASSUME Path2(p, "delegation")
      PROVE  HandledWith(p, r, k, "getDelegationInfo", FALSE, address)
  <2>1. MatchedBy(p, r, k) /\ HasWords(p, 2, "delegation", address)
    BY <1>1, <1>14, PathWords
  <2>3. r = 7 /\ k = 2
    BY <2>1 DEF MatchedBy, HasWords
  <2>4. RouteIs(Server[7][2], 2, "delegation", NoRead, "getDelegationInfo", FALSE)
    BY RoutesAre
  <2> QED BY <2>1, <2>3, <2>4 DEF HandledWith, RouteIs
<1> QED BY <1>2, <1>3, <1>4, <1>5, <1>6, <1>7, <1>8, <1>9, <1>10, <1>11, <1>12, <1>13, <1>14

(* Every method is handled by the route with the read it is meant for, and  *)
(* of the address it names in the path or in the query.                     *)
IsByItsRead(remote, address, route) ==
  /\ route.read = Meant(remote.method)
  /\ remote.method \in OfAnAddress =>
       IF Last(route.path) = Param THEN Last(remote.path) = address ELSE remote.query = TRUE

LEMMA MethodsByTheirReads ==
  ASSUME NEW address \in Addresses, NEW remote \in RemoteService(address),
         NEW r \in DOMAIN Server, NEW k \in DOMAIN Server[r], IsHandledBy(remote.path, r, k)
  PROVE  IsByItsRead(remote, address, Server[r][k])
<1>1. PICK p : p = remote.path /\ IsHandledBy(p, r, k)
  OBVIOUS
<1>2. PICK m : m = remote.method
  OBVIOUS
<1> DEFINE Handled ==
             /\ Server[r][k].read = Meant(m)
             /\ m \in OfAnAddress =>
                  IF Last(Server[r][k].path) = Param THEN Last(p) = address ELSE remote.query = TRUE
<1>3. address # "elected"
  BY AddressesAssumption
<1>4. ASSUME remote = Remote("getGuardians", <<"api", "guardians">>, FALSE) PROVE Handled
  <2>1. m = "getGuardians"
    BY <1>2, <1>4 DEF Remote
  <2>2. Path2(p, "guardians")
    BY <1>1, <1>4 DEF Remote, Path2
  <2>3. HandledWith(p, r, k, "getGuardiansList", FALSE, address)
    BY <1>1, <1>3, <2>2, PathsOfMethods
  <2>4. Meant("getGuardians") = "getGuardiansList" /\ "getGuardians" \notin OfAnAddress
    BY DEF Meant, OfAnAddress
  <2> QED BY <2>1, <2>3, <2>4 DEF HandledWith
<1>5. ASSUME remote = Remote("getGuardianData", <<"api", "guardians", address>>, FALSE) PROVE Handled
  <2>1. m = "getGuardianData"
    BY <1>2, <1>5 DEF Remote
  <2>2. Path3(p, "guardians", address)
    BY <1>1, <1>5 DEF Remote, Path3
  <2>3. HandledWith(p, r, k, "getGuardianInfo", TRUE, address)
    BY <1>1, <1>3, <2>2, PathsOfMethods
  <2>4. Meant("getGuardianData") = "getGuardianInfo"
    BY DEF Meant
  <2> QED BY <2>1, <2>3, <2>4 DEF HandledWith
<1>6. ASSUME remote = Remote("getValidators", <<"api", "validators">>, FALSE) PROVE Handled
  <2>1. m = "getValidators"
    BY <1>2, <1>6 DEF Remote
  <2>2. Path2(p, "validators")
    BY <1>1, <1>6 DEF Remote, Path2
  <2>3. HandledWith(p, r, k, "getValidators", FALSE, address)
    BY <1>1, <1>3, <2>2, PathsOfMethods
  <2>4. Meant("getValidators") = "getValidators" /\ "getValidators" \notin OfAnAddress
    BY DEF Meant, OfAnAddress
  <2> QED BY <2>1, <2>3, <2>4 DEF HandledWith
<1>7. ASSUME remote = Remote("getElectedValidators", <<"api", "validators", "elected">>, FALSE) PROVE Handled
  <2>1. m = "getElectedValidators"
    BY <1>2, <1>7 DEF Remote
  <2>2. Path3(p, "validators", "elected")
    BY <1>1, <1>7 DEF Remote, Path3
  <2>3. HandledWith(p, r, k, "getElectedValidators", FALSE, address)
    BY <1>1, <1>3, <2>2, PathsOfMethods
  <2>4. Meant("getElectedValidators") = "getElectedValidators" /\ "getElectedValidators" \notin OfAnAddress
    BY DEF Meant, OfAnAddress
  <2> QED BY <2>1, <2>3, <2>4 DEF HandledWith
<1>8. ASSUME remote = Remote("getValidatorData", <<"api", "validators", address>>, FALSE) PROVE Handled
  <2>1. m = "getValidatorData"
    BY <1>2, <1>8 DEF Remote
  <2>2. Path3(p, "validators", address)
    BY <1>1, <1>8 DEF Remote, Path3
  <2>3. HandledWith(p, r, k, "getValidatorInfo", TRUE, address)
    BY <1>1, <1>3, <2>2, PathsOfMethods
  <2>4. Meant("getValidatorData") = "getValidatorInfo"
    BY DEF Meant
  <2> QED BY <2>1, <2>3, <2>4 DEF HandledWith
<1>9. ASSUME remote = Remote("getElectedValidatorData", <<"api", "validators", "elected", address>>, FALSE) PROVE Handled
  <2>1. m = "getElectedValidatorData"
    BY <1>2, <1>9 DEF Remote
  <2>2. Path4(p, "validators", "elected", address)
    BY <1>1, <1>9 DEF Remote, Path4
  <2>3. HandledWith(p, r, k, "getElectedValidatorInfo", TRUE, address)
    BY <1>1, <1>3, <2>2, PathsOfMethods
  <2>4. Meant("getElectedValidatorData") = "getElectedValidatorInfo"
    BY DEF Meant
  <2> QED BY <2>1, <2>3, <2>4 DEF HandledWith
<1>10. ASSUME remote = Remote("getRewards", <<"api", "rewards", address>>, FALSE) PROVE Handled
  <2>1. m = "getRewards"
    BY <1>2, <1>10 DEF Remote
  <2>2. Path3(p, "rewards", address)
    BY <1>1, <1>10 DEF Remote, Path3
  <2>3. HandledWith(p, r, k, "getRewards", TRUE, address)
    BY <1>1, <1>3, <2>2, PathsOfMethods
  <2>4. Meant("getRewards") = "getRewards"
    BY DEF Meant
  <2> QED BY <2>1, <2>3, <2>4 DEF HandledWith
<1>11. ASSUME remote = Remote("getRewardsHistory", <<"api", "rewards", "history", address>>, FALSE) PROVE Handled
  <2>1. m = "getRewardsHistory"
    BY <1>2, <1>11 DEF Remote
  <2>2. Path4(p, "rewards", "history", address)
    BY <1>1, <1>11 DEF Remote, Path4
  <2>3. HandledWith(p, r, k, "getRewardsHistory", TRUE, address)
    BY <1>1, <1>3, <2>2, PathsOfMethods
  <2>4. Meant("getRewardsHistory") = "getRewardsHistory"
    BY DEF Meant
  <2> QED BY <2>1, <2>3, <2>4 DEF HandledWith
<1>12. ASSUME remote = Remote("getTotalParticipatingTokens", <<"api", "total-participating-tokens">>, FALSE) PROVE Handled
  <2>1. m = "getTotalParticipatingTokens"
    BY <1>2, <1>12 DEF Remote
  <2>2. Path2(p, "total-participating-tokens")
    BY <1>1, <1>12 DEF Remote, Path2
  <2>3. HandledWith(p, r, k, "getTotalParticipatingTokens", FALSE, address)
    BY <1>1, <1>3, <2>2, PathsOfMethods
  <2>4. Meant("getTotalParticipatingTokens") = "getTotalParticipatingTokens" /\ "getTotalParticipatingTokens" \notin OfAnAddress
    BY DEF Meant, OfAnAddress
  <2> QED BY <2>1, <2>3, <2>4 DEF HandledWith
<1>13. ASSUME remote = Remote("getUpcomingElectionBlockNumber", <<"api", "elections", "upcoming">>, FALSE) PROVE Handled
  <2>1. m = "getUpcomingElectionBlockNumber"
    BY <1>2, <1>13 DEF Remote
  <2>2. Path3(p, "elections", "upcoming")
    BY <1>1, <1>13 DEF Remote, Path3
  <2>3. HandledWith(p, r, k, "getUpcomingElectionBlockNumber", FALSE, address)
    BY <1>1, <1>3, <2>2, PathsOfMethods
  <2>4. Meant("getUpcomingElectionBlockNumber") = "getUpcomingElectionBlockNumber" /\ "getUpcomingElectionBlockNumber" \notin OfAnAddress
    BY DEF Meant, OfAnAddress
  <2> QED BY <2>1, <2>3, <2>4 DEF HandledWith
<1>14. ASSUME remote = Remote("getEffectiveElectionBlockNumber", <<"api", "elections", "effective">>, FALSE) PROVE Handled
  <2>1. m = "getEffectiveElectionBlockNumber"
    BY <1>2, <1>14 DEF Remote
  <2>2. Path3(p, "elections", "effective")
    BY <1>1, <1>14 DEF Remote, Path3
  <2>3. HandledWith(p, r, k, "getEffectiveElectionBlockNumber", FALSE, address)
    BY <1>1, <1>3, <2>2, PathsOfMethods
  <2>4. Meant("getEffectiveElectionBlockNumber") = "getEffectiveElectionBlockNumber" /\ "getEffectiveElectionBlockNumber" \notin OfAnAddress
    BY DEF Meant, OfAnAddress
  <2> QED BY <2>1, <2>3, <2>4 DEF HandledWith
<1>15. ASSUME remote = Remote("getCurrentDelegation", <<"api", "delegation", "status">>, TRUE) PROVE Handled
  <2>1. m = "getCurrentDelegation" /\ remote.query = TRUE
    BY <1>2, <1>15 DEF Remote
  <2>2. Path3(p, "delegation", "status")
    BY <1>1, <1>15 DEF Remote, Path3
  <2>3. HandledWith(p, r, k, "getDelegatee", FALSE, address)
    BY <1>1, <1>3, <2>2, PathsOfMethods
  <2>4. Meant("getCurrentDelegation") = "getDelegatee"
    BY DEF Meant
  <2> QED BY <2>1, <2>3, <2>4 DEF HandledWith
<1>16. ASSUME remote = Remote("getCurrentDelegationInfo", <<"api", "delegation">>, TRUE) PROVE Handled
  <2>1. m = "getCurrentDelegationInfo" /\ remote.query = TRUE
    BY <1>2, <1>16 DEF Remote
  <2>2. Path2(p, "delegation")
    BY <1>1, <1>16 DEF Remote, Path2
  <2>3. HandledWith(p, r, k, "getDelegationInfo", FALSE, address)
    BY <1>1, <1>3, <2>2, PathsOfMethods
  <2>4. Meant("getCurrentDelegationInfo") = "getDelegationInfo"
    BY DEF Meant
  <2> QED BY <2>1, <2>3, <2>4 DEF HandledWith
<1>q. Handled
  <2> HIDE DEF Handled
  <2> QED BY <1>4, <1>5, <1>6, <1>7, <1>8, <1>9, <1>10, <1>11, <1>12, <1>13, <1>14, <1>15, <1>16 DEF RemoteService
<1> QED BY <1>1, <1>2, <1>q DEF IsByItsRead

(* A call is of a method and an address, and once it is handled it waits    *)
(* for the read the method is meant for.                                    *)
IsOfAMethod(call) ==
  \E remote \in RemoteService(call.address) :
    /\ call.address \in Addresses
    /\ call.method = remote.method /\ call.path = remote.path
    /\ remote.query = TRUE => call.query = call.address

WaitsForItsRead(call) ==
  call.at \in {"reading", "answered"} =>
    /\ call.read = Meant(call.method)
    /\ call.method \in OfAnAddress => call.of = call.address

CallsAreAsMeant == \A i \in DOMAIN calls : IsOfAMethod(calls[i]) /\ WaitsForItsRead(calls[i])

CallRecords(S) ==
  [method : S, path : S, query : S, address : S, at : S, guarded : S, read : S, of : S]

CallsInv == (\E S : calls \in Seq(CallRecords(S))) /\ CallsAreAsMeant

LEMMA MoreCallRecords ==
  ASSUME NEW S, NEW T, S \subseteq T, NEW s \in Seq(CallRecords(S))
  PROVE  s \in Seq(CallRecords(T))
<1>1. CallRecords(S) \subseteq CallRecords(T)
  BY DEF CallRecords
<1> QED BY <1>1

LEMMA CallsStayAsMeant == CallsInv /\ [ProxyNext]_calls => CallsInv'
<1> SUFFICES ASSUME CallsInv, [ProxyNext]_calls PROVE CallsInv'
  OBVIOUS
<1>1. PICK S : calls \in Seq(CallRecords(S))
  BY DEF CallsInv
<1>2. CallsAreAsMeant
  BY DEF CallsInv
<1>3. ASSUME CallRemote PROVE CallsInv'
  <2>0. PICK address \in Addresses : \E remote \in RemoteService(address) :
          calls' = Append(calls,
            [method |-> remote.method, path |-> remote.path,
             query |-> IF remote.query THEN address ELSE Nobody,
             address |-> address, at |-> "sent", guarded |-> TRUE, read |-> NoRead, of |-> Nobody])
    BY <1>3 DEF CallRemote
  <2>1. PICK remote \in RemoteService(address) :
          calls' = Append(calls,
            [method |-> remote.method, path |-> remote.path,
             query |-> IF remote.query THEN address ELSE Nobody,
             address |-> address, at |-> "sent", guarded |-> TRUE, read |-> NoRead, of |-> Nobody])
    BY <2>0
  <2>2. PICK query : query = (IF remote.query THEN address ELSE Nobody)
    OBVIOUS
  <2>3. PICK call : call = [method |-> remote.method, path |-> remote.path, query |-> query,
                            address |-> address, at |-> "sent", guarded |-> TRUE, read |-> NoRead, of |-> Nobody]
    OBVIOUS
  <2> DEFINE T == S \cup {remote.method, remote.path, query, address, "sent", TRUE, NoRead, Nobody}
  <2>4. calls' = Append(calls, call)
    BY <2>1, <2>2, <2>3
  <2>5. call \in CallRecords(T)
    BY <2>3 DEF CallRecords
  <2>6. calls \in Seq(CallRecords(T))
    BY <1>1, MoreCallRecords
  <2>7. IsOfAMethod(call)
    <3>1. /\ call.method = remote.method /\ call.path = remote.path /\ call.address = address
          /\ call.query = query
      BY <2>3
    <3>2. remote.query = TRUE => query = address
      BY <2>2
    <3> QED BY <3>1, <3>2 DEF IsOfAMethod
  <2>8. WaitsForItsRead(call)
    BY <2>3 DEF WaitsForItsRead
  <2> HIDE DEF T
  <2>9. calls' \in Seq(CallRecords(T))
    BY <2>4, <2>5, <2>6
  <2>10. \A i \in DOMAIN calls' : calls'[i] = call \/ (i \in DOMAIN calls /\ calls'[i] = calls[i])
    BY <1>1, <2>4
  <2>11. CallsAreAsMeant'
    BY <1>2, <2>7, <2>8, <2>10 DEF CallsAreAsMeant, IsOfAMethod, WaitsForItsRead
  <2> QED BY <2>9, <2>11 DEF CallsInv
<1>4. ASSUME NEW i \in DOMAIN calls, NEW call, IsOfAMethod(call), WaitsForItsRead(call), NEW T, S \subseteq T,
             call \in CallRecords(T), calls' = [calls EXCEPT ![i] = call]
      PROVE  CallsInv'
  <2>1. calls \in Seq(CallRecords(T))
    BY <1>1, <1>4, MoreCallRecords
  <2>2. calls' \in Seq(CallRecords(T))
    BY <1>4, <2>1, OneEntryChanged
  <2>3. \A j \in DOMAIN calls' : calls'[j] = call \/ (j \in DOMAIN calls /\ calls'[j] = calls[j])
    BY <1>4
  <2>4. CallsAreAsMeant'
    BY <1>2, <1>4, <2>3 DEF CallsAreAsMeant, IsOfAMethod, WaitsForItsRead
  <2> QED BY <2>2, <2>4 DEF CallsInv
<1>5. ASSUME NEW i \in DOMAIN calls
      PROVE  IsOfAMethod(calls[i]) /\ WaitsForItsRead(calls[i]) /\ calls[i] \in CallRecords(S)
  BY <1>1, <1>2 DEF CallsAreAsMeant
<1>6. ASSUME NEW i \in DOMAIN calls, NEW at, calls' = [calls EXCEPT ![i].at = at],
             at \notin {"reading", "answered"} \/ calls[i].at = "reading"
      PROVE  CallsInv'
  <2>1. PICK c : c = calls[i] /\ c \in CallRecords(S) /\ IsOfAMethod(c) /\ WaitsForItsRead(c)
    BY <1>5
  <2>2. PICK call : call = [c EXCEPT !.at = at]
    OBVIOUS
  <2>3. call \in CallRecords(S \cup {at})
    BY <2>1, <2>2 DEF CallRecords
  <2>4. /\ call.at = at /\ call.read = c.read /\ call.method = c.method /\ call.of = c.of
        /\ call.address = c.address /\ call.path = c.path /\ call.query = c.query
    BY <2>1, <2>2 DEF CallRecords
  <2>5. IsOfAMethod(call) /\ WaitsForItsRead(call)
    BY <1>6, <2>1, <2>4 DEF IsOfAMethod, WaitsForItsRead
  <2>6. calls' = [calls EXCEPT ![i] = call]
    BY <1>6, <2>1, <2>2
  <2>7. PICK T : T = S \cup {at}
    OBVIOUS
  <2>8. S \subseteq T /\ call \in CallRecords(T)
    BY <2>3, <2>7
  <2> QED BY <1>4, <2>5, <2>6, <2>8
<1>7. ASSUME NEW i \in DOMAIN calls, Handle(i) PROVE CallsInv'
  <2>1. CASE calls' = [calls EXCEPT ![i].at = "refused"]
    BY <1>6, <2>1
  <2>2. ASSUME NEW r \in DOMAIN Server, NEW k \in DOMAIN Server[r], IsHandledBy(calls[i].path, r, k),
               calls' = [calls EXCEPT ![i].at = IF Server[r][k].read = NoRead THEN "silent" ELSE "reading",
                                      ![i].read = Server[r][k].read, ![i].guarded = Server[r][k].guarded,
                                      ![i].of = AddressOf(Server[r][k], calls[i])]
        PROVE  CallsInv'
    <3>1. PICK c : c = calls[i] /\ c \in CallRecords(S) /\ IsOfAMethod(c)
      BY <1>5
    <3>2. PICK at, route, of : /\ at = (IF Server[r][k].read = NoRead THEN "silent" ELSE "reading")
                               /\ route = Server[r][k] /\ of = AddressOf(route, c)
      OBVIOUS
    <3>3. PICK call : call = [c EXCEPT !.at = at, !.read = route.read, !.guarded = route.guarded, !.of = of]
      OBVIOUS
    <3>4. call \in CallRecords(S \cup {at, route.read, route.guarded, of})
      BY <3>1, <3>3 DEF CallRecords
    <3>5. /\ call.read = route.read /\ call.method = c.method /\ call.of = of
          /\ call.address = c.address /\ call.path = c.path /\ call.query = c.query
      BY <3>1, <3>3 DEF CallRecords
    <3>6. IsOfAMethod(call)
      BY <3>1, <3>5 DEF IsOfAMethod
    <3>7. PICK remote \in RemoteService(c.address) :
            /\ c.address \in Addresses /\ c.method = remote.method /\ c.path = remote.path
            /\ remote.query = TRUE => c.query = c.address
      BY <3>1 DEF IsOfAMethod
    <3>8. /\ route.read = Meant(c.method)
          /\ c.method \in OfAnAddress =>
               IF Last(route.path) = Param THEN Last(c.path) = c.address ELSE remote.query = TRUE
      <4>1. IsHandledBy(remote.path, r, k)
        BY <2>2, <3>1, <3>7
      <4>2. PICK address \in Addresses : address = c.address /\ remote \in RemoteService(address)
        BY <3>7
      <4>3. IsByItsRead(remote, address, Server[r][k])
        BY <4>1, <4>2, MethodsByTheirReads
      <4> QED BY <3>2, <3>7, <4>2, <4>3 DEF IsByItsRead
    <3>9. WaitsForItsRead(call)
      BY <3>2, <3>5, <3>7, <3>8 DEF WaitsForItsRead, AddressOf
    <3>10. calls' = [calls EXCEPT ![i] = call]
      <4>1. PICK read, guarded : read = route.read /\ guarded = route.guarded
        OBVIOUS
      <4>2. calls' = [calls EXCEPT ![i].at = at, ![i].read = read, ![i].guarded = guarded, ![i].of = of]
        BY ONLY <2>2, <3>1, <3>2, <4>1
      <4>3. call = [c EXCEPT !.at = at, !.read = read, !.guarded = guarded, !.of = of] /\ c = calls[i]
        BY ONLY <3>1, <3>3, <4>1
      <4> QED BY ONLY <4>2, <4>3
    <3>11. PICK T : T = S \cup {at, route.read, route.guarded, of}
      OBVIOUS
    <3>12. S \subseteq T /\ call \in CallRecords(T)
      BY <3>4, <3>11
    <3> QED BY <1>4, <3>6, <3>9, <3>10, <3>12
  <2> QED BY <1>7, <2>1, <2>2 DEF Handle
<1>8. ASSUME NEW i \in DOMAIN calls, ReadSucceeds(i) PROVE CallsInv'
  BY <1>6, <1>8 DEF ReadSucceeds
<1>9. ASSUME NEW i \in DOMAIN calls, ReadFails(i) PROVE CallsInv'
  <2>1. PICK at : at = (IF calls[i].guarded THEN "refused" ELSE "silent") /\ calls' = [calls EXCEPT ![i].at = at]
    BY <1>9 DEF ReadFails
  <2>2. calls[i].at = "reading"
    BY <1>9 DEF ReadFails
  <2> QED BY <1>6, <2>1, <2>2
<1>10. CASE UNCHANGED calls
  BY <1>10 DEF CallsInv, CallsAreAsMeant, IsOfAMethod, WaitsForItsRead
<1> QED BY <1>3, <1>7, <1>8, <1>9, <1>10 DEF ProxyNext

LEMMA CallsStartAsMeant == ProxyInit => CallsInv
<1> SUFFICES ASSUME ProxyInit PROVE CallsInv
  OBVIOUS
<1>1. calls = <<>>
  BY DEF ProxyInit
<1>2. calls \in Seq(CallRecords({})) /\ DOMAIN calls = {}
  BY <1>1
<1> QED BY <1>2 DEF CallsInv, CallsAreAsMeant

LEMMA AsMeantIsByItsRead == CallsInv => AnsweredByItsRead
  BY DEF CallsInv, CallsAreAsMeant, WaitsForItsRead, AnsweredByItsRead

-----------------------------------------------------------------------------
(* The guardians' table.                                                    *)
Event == [RefTime : Nat, Committee : SUBSET NodeGuardians]

InOrder(all) == \A i, j \in DOMAIN all : i < j => all[i].RefTime <= all[j].RefTime

(* The times between the events add up to the time from the first to the    *)
(* last.                                                                    *)
LEMMA TimesBetween ==
  ASSUME NEW n \in Nat \ {0}, NEW r, \A i \in 1 .. n : r[i] \in Nat,
         \A i, j \in 1 .. n : i < j => r[i] <= r[j],
         NEW d, \A i \in 2 .. n : d[i] = r[i] - r[i - 1]
  PROVE  /\ \A i \in 2 .. n : d[i] \in Nat
         /\ SumFunctionOnSet(d, 2 .. n) = r[n] - r[1]
<1>1. ASSUME NEW i \in 2 .. n PROVE d[i] \in Nat
  <2>1. i \in 1 .. n /\ i - 1 \in 1 .. n /\ i - 1 < i
    OBVIOUS
  <2>2. PICK x \in Nat, y \in Nat : x = r[i] /\ y = r[i - 1] /\ y <= x
    BY <2>1
  <2>3. d[i] = x - y
    BY <2>2
  <2> QED BY <2>2, <2>3
<1> DEFINE Good == {k \in Nat : k + 1 <= n => SumFunctionOnSet(d, 2 .. k + 1) = r[k + 1] - r[1]}
<1>2. 0 \in Good
  <2>1. 2 .. 0 + 1 = {} /\ 0 + 1 = 1
    OBVIOUS
  <2>2. SumFunctionOnSet(d, 2 .. 0 + 1) = 0
    BY <2>1, SumEmpty
  <2>3. r[0 + 1] = r[1] /\ r[1] \in Nat
    BY <2>1
  <2>4. r[0 + 1] - r[1] = 0
    BY <2>3
  <2> QED BY <2>2, <2>4
<1>3. ASSUME NEW k \in Nat, k \in Good PROVE k + 1 \in Good
  <2> SUFFICES ASSUME k + 2 <= n PROVE SumFunctionOnSet(d, 2 .. k + 2) = r[k + 2] - r[1]
    <3>1. k + 1 + 1 = k + 2
      OBVIOUS
    <3> QED BY <3>1
  <2>1. PICK m \in Nat : m = k + 2
    OBVIOUS
  <2>2. /\ m \in 2 .. n /\ m - 1 = k + 1 /\ m \in 1 .. n /\ m - 1 \in 1 .. n /\ 1 \in 1 .. n /\ k + 1 <= n
        /\ (2 .. m) \ {m} = 2 .. m - 1 /\ m \in 2 .. m /\ 2 .. m \subseteq 2 .. n
    BY <2>1
  <2>3. IsFiniteSet(2 .. m)
    BY FS_Interval
  <2>4. \A i \in 2 .. m : d[i] \in Int
    BY <1>1, <2>2
  <2>5. SumFunctionOnSet(d, 2 .. m) = d[m] + SumFunctionOnSet(d, 2 .. m - 1)
    <3>1. PICK U, V : U = 2 .. m /\ V = 2 .. m - 1 /\ V = U \ {m}
      BY <2>2
    <3>2. IsFiniteSet(U) /\ m \in U /\ \A i \in U : d[i] \in Int
      BY <2>2, <2>3, <2>4, <3>1
    <3>3. SumFunctionOnSet(d, U) = d[m] + SumFunctionOnSet(d, U \ {m})
      BY <3>2, SumRemove
    <3> QED BY <3>1, <3>3
  <2>6. SumFunctionOnSet(d, 2 .. m - 1) = r[m - 1] - r[1]
    <3>1. SumFunctionOnSet(d, 2 .. k + 1) = r[k + 1] - r[1]
      BY <1>3, <2>2
    <3>2. PICK q : q = k + 1
      OBVIOUS
    <3>3. m - 1 = q
      BY <2>2, <3>2
    <3> QED BY <3>1, <3>2, <3>3
  <2>7. PICK x \in Nat, y \in Nat, z \in Nat : x = r[m] /\ y = r[m - 1] /\ z = r[1]
    BY <2>2
  <2>8. d[m] = x - y
    BY <2>2, <2>7
  <2>9. SumFunctionOnSet(d, 2 .. m) = x - z
    <3>1. PICK s, t : s = SumFunctionOnSet(d, 2 .. m) /\ t = SumFunctionOnSet(d, 2 .. m - 1)
      OBVIOUS
    <3>2. s = d[m] + t /\ t = y - z /\ d[m] = x - y
      BY <2>5, <2>6, <2>7, <2>8, <3>1
    <3>3. s = x - z
      BY <3>2
    <3> QED BY <3>1, <3>3
  <2> QED BY <2>1, <2>7, <2>9
<1>4. \A k \in Nat : k \in Good
  <2> HIDE DEF Good
  <2> QED BY <1>2, <1>3, CountUp
<1>5. n - 1 \in Nat /\ (n - 1) + 1 = n /\ n <= n
  OBVIOUS
<1>6. SumFunctionOnSet(d, 2 .. n) = r[n] - r[1]
  BY <1>4, <1>5
<1> QED BY <1>1, <1>6

(* A share of the window, for any events that are in order.                 *)
IsAShare(p, all, window, g) ==
  /\ p.time \in 0 .. p.total
  /\ (\A i \in window \ {Min(window)} : g \in all[i].Committee) => p.time = p.total
  /\ (\A i \in window \ {Min(window)} : g \notin all[i].Committee) => p.time = 0

LEMMA SharesOfTheWindow ==
  ASSUME NEW all \in Seq(Event), InOrder(all), NEW now, NEW g,
         \E i \in DOMAIN all : all[i].RefTime >= now - TIME_RANGE_IN_SECONDS
  PROVE  IsAShare(Participation(g, all, now), all,
                  {i \in DOMAIN all : all[i].RefTime >= now - TIME_RANGE_IN_SECONDS}, g)
<1> DEFINE window == {i \in DOMAIN all : all[i].RefTime >= now - TIME_RANGE_IN_SECONDS}
           recent == [k \in 1 .. Cardinality(window) |-> all[KthOf(window, k)]]
           counted == {i \in 2 .. Len(recent) : g \in recent[i].Committee}
           f == [i \in counted |-> recent[i].RefTime - recent[i - 1].RefTime]
           p == Participation(g, all, now)
           first == Min(window)
<1>1. p = [time |-> SumFunction(f), total |-> Last(recent).RefTime - Head(recent).RefTime]
  BY DEF Participation, KthOf
<1>2. /\ window \in SUBSET Nat /\ window # {} /\ window \subseteq DOMAIN all /\ CountedUp(window)
      /\ IsFiniteSet(window)
  <2>1. DOMAIN all \in SUBSET Nat /\ IsFiniteSet(DOMAIN all)
    BY ListIsFinite
  <2>2. window # {} /\ window \subseteq DOMAIN all
    OBVIOUS
  <2> HIDE DEF window
  <2>3. IsFiniteSet(window) /\ window \in SUBSET Nat
    BY <2>1, <2>2, FS_Subset
  <2> QED BY <2>2, <2>3, KthInOrder
<1> HIDE DEF window
<1>3. PICK n \in Nat \ {0} : n = Cardinality(window)
  BY <1>2, FS_EmptySet DEF CountedUp
<1>4. /\ \A k \in 1 .. n : KthOf(window, k) \in window
      /\ \A i \in window : \E k \in 1 .. n : KthOf(window, k) = i
      /\ \A k, l \in 1 .. n : k < l => KthOf(window, k) < KthOf(window, l)
  BY <1>2, <1>3 DEF CountedUp
<1>5. /\ recent \in Seq(Event) /\ Len(recent) = n
      /\ \A k \in 1 .. n : recent[k] = all[KthOf(window, k)]
  <2>1. recent = [k \in 1 .. n |-> all[KthOf(window, k)]]
    BY <1>3
  <2>2. \A k \in 1 .. n : all[KthOf(window, k)] \in Event
    <3>1. \A i \in DOMAIN all : all[i] \in Event
      OBVIOUS
    <3> QED BY <1>2, <1>4, <3>1
  <2> HIDE DEF recent
  <2> QED BY <2>1, <2>2
<1> HIDE DEF recent
<1>6. Last(recent) = recent[n] /\ Head(recent) = recent[1]
  BY <1>5 DEF Last
<1> DEFINE r == [k \in 1 .. n |-> recent[k].RefTime]
           d == [k \in 2 .. n |-> recent[k].RefTime - recent[k - 1].RefTime]
<1>7. /\ \A k \in 1 .. n : r[k] = recent[k].RefTime /\ recent[k].RefTime \in Nat
      /\ \A k \in 2 .. n : d[k] = r[k] - r[k - 1]
  <2>1. \A k \in 2 .. n : k \in 1 .. n /\ k - 1 \in 1 .. n
    OBVIOUS
  <2>2. ASSUME NEW k \in 1 .. n PROVE r[k] = recent[k].RefTime /\ recent[k].RefTime \in Nat
    <3>1. recent[k] \in Event
      BY <1>5
    <3> QED BY <3>1 DEF Event
  <2>3. ASSUME NEW k \in 2 .. n PROVE d[k] = r[k] - r[k - 1]
    <3>1. d[k] = recent[k].RefTime - recent[k - 1].RefTime
      OBVIOUS
    <3> HIDE DEF r, d
    <3> QED BY <2>1, <2>2, <3>1
  <2> QED BY <2>2, <2>3
<1>8. ASSUME NEW k \in 1 .. n, NEW l \in 1 .. n, k < l PROVE r[k] <= r[l]
  <2>1. PICK i \in window, j \in window : i = KthOf(window, k) /\ j = KthOf(window, l) /\ i < j
    BY <1>4, <1>8
  <2>2. all[i].RefTime <= all[j].RefTime
    BY <1>2, <2>1 DEF InOrder
  <2> QED BY <1>5, <1>7, <2>1, <2>2
<1> HIDE DEF r, d
<1>9. /\ \A i \in 2 .. n : d[i] \in Nat
      /\ SumFunctionOnSet(d, 2 .. n) = r[n] - r[1]
  <2>1. \A k \in 1 .. n : r[k] \in Nat
    BY <1>7
  <2>2. \A k, l \in 1 .. n : k < l => r[k] <= r[l]
    BY <1>8
  <2>3. \A k \in 2 .. n : d[k] = r[k] - r[k - 1]
    BY <1>7
  <2> QED BY <2>1, <2>2, <2>3, TimesBetween
<1>10. PICK total \in Nat : total = r[n] - r[1] /\ SumFunctionOnSet(d, 2 .. n) = total
  <2>1. SumFunctionOnSet(d, 2 .. n) \in Nat
    <3>1. IsFiniteSet(2 .. n) /\ \A i \in 2 .. n : d[i] \in Nat
      BY <1>9, FS_Interval
    <3> QED BY <3>1, SumType
  <2> QED BY <1>9, <2>1
<1>11. counted \in SUBSET (2 .. n) /\ \A i \in 2 .. n : i \in counted <=> g \in recent[i].Committee
  BY <1>5
<1>12. DOMAIN f = counted /\ \A i \in counted : f[i] = d[i]
  <2>1. \A i \in counted : i \in 2 .. n
    BY <1>11
  <2> HIDE DEF counted
  <2> QED BY <2>1 DEF d
<1> HIDE DEF f, counted
<1>13. IsFiniteSet(2 .. n) /\ IsFiniteSet(counted)
  <2>1. PICK U : U = 2 .. n
    OBVIOUS
  <2>2. 2 \in Int /\ n \in Int
    OBVIOUS
  <2>3. IsFiniteSet(U)
    BY <2>1, <2>2, FS_Interval
  <2>4. counted \in SUBSET U
    BY <1>11, <2>1
  <2> QED BY <2>1, <2>3, <2>4, FS_Subset
<1>14. p.time = SumFunctionOnSet(d, counted)
  <2>1. SumFunction(f) = SumFunctionOnSet(f, counted)
    BY <1>12, SumOfFunction
  <2>2. SumFunctionOnSet(f, counted) = SumFunctionOnSet(d, counted)
    BY <1>12, <1>13, SumSame
  <2> QED BY <1>1, <2>1, <2>2
<1>15. p.total = total
  BY <1>1, <1>3, <1>6, <1>7, <1>10
<1> HIDE DEF p
<1>16. SumFunctionOnSet(d, counted) \in Nat /\ SumFunctionOnSet(d, counted) <= total
  <2>1. \A i \in counted : d[i] \in Nat
    BY <1>9, <1>11
  <2>2. SumFunctionOnSet(d, counted) \in Nat
    BY <1>13, <2>1, SumType
  <2>3. SumFunctionOnSet(d, counted) <= SumFunctionOnSet(d, 2 .. n)
    BY <1>9, <1>11, <1>13, SumBounds
  <2> QED BY <1>10, <2>2, <2>3
<1>17. first \in window /\ \A i \in window : first <= i
  BY <1>2, SmallestNumber
<1>18. ASSUME NEW k \in 2 .. n PROVE KthOf(window, k) \in window \ {first}
  <2>1. k \in 1 .. n /\ 1 \in 1 .. n /\ 1 < k
    OBVIOUS
  <2>2. PICK i \in window, j \in window : i = KthOf(window, 1) /\ j = KthOf(window, k) /\ i < j
    BY <1>4, <2>1
  <2>3. first <= i /\ i \in Nat /\ j \in Nat /\ first \in Nat
    BY <1>2, <1>17
  <2>4. j # first
    BY <2>2, <2>3
  <2> QED BY <2>2, <2>4
<1> HIDE DEF first
<1>19. ASSUME \A i \in window \ {first} : g \in all[i].Committee PROVE p.time = p.total
  <2>1. \A k \in 2 .. n : g \in recent[k].Committee
    BY <1>5, <1>18, <1>19
  <2>2. counted = 2 .. n
    BY <1>11, <2>1
  <2> QED BY <1>10, <1>14, <1>15, <2>2
<1>20. ASSUME \A i \in window \ {first} : g \notin all[i].Committee PROVE p.time = 0
  <2>1. \A k \in 2 .. n : g \notin recent[k].Committee
    BY <1>5, <1>18, <1>20
  <2>2. counted = {}
    BY <1>11, <2>1
  <2> QED BY <1>14, <2>2, SumEmpty
<1>21. p.time \in 0 .. p.total
  BY <1>14, <1>15, <1>16
<1> QED BY <1>19, <1>20, <1>21 DEF IsAShare, window, p, first

-----------------------------------------------------------------------------
StoreRecords(S) ==
  [at : S, tries : S, seen : S, checkedAt : S, systemState : S, committeeMembers : S,
   doneLoading : S, errorLoading : S]

(* The node: its committees are of its guardians and its events in order.   *)
NodeIsSound ==
  /\ clock \in Int /\ refTime \in Int /\ refTime <= clock
  /\ events \in Seq(Event) /\ InOrder(events)

(* What the store has is of the guardians whose keys it has it by.          *)
NodesOfTheirKeys(nodes) ==
  /\ DOMAIN nodes \subseteq NodeGuardians
  /\ \A g \in DOMAIN nodes : nodes[g].EthAddress = EnsurePrefix(Bare(g))

StateIsSound ==
  /\ store.at = "settled"
  /\ store.systemState.RefTime \in Int /\ store.checkedAt \in Int
  /\ store.systemState.RefTime >= store.checkedAt - ACCEPTED_RANGE_IN_SECONDS
  /\ NodesOfTheirKeys(store.systemState.CommitteeNodes)
  /\ NodesOfTheirKeys(store.systemState.StandByNodes)
  /\ DOMAIN store.systemState.CommitteeNodes = store.committeeMembers

(* How far the store has got: the reference time it has seen is the node's  *)
(* or an older one.                                                         *)
StoreIsSound ==
  /\ store.at = "writer" => store.seen \in Int /\ store.seen <= refTime
  /\ store.at = "read" =>
       store.checkedAt \in Int /\ refTime >= store.checkedAt - ACCEPTED_RANGE_IN_SECONDS
  /\ store.doneLoading => StateIsSound

CutsAreSound ==
  /\ cuts \in [at : {"idle", "reading"}, left : SUBSET NodeGuardians, read : SUBSET NodeGuardians,
                shown : {{}, NodeGuardians}]
  /\ cuts.at = "reading" => cuts.left \cup cuts.read = NodeGuardians

NodeInv ==
  /\ \E S : store \in StoreRecords(S)
  /\ NodeIsSound /\ StoreIsSound /\ CutsAreSound

LEMMA NodeStartsSound == NodeInit => NodeInv
<1> SUFFICES ASSUME NodeInit PROVE NodeInv
  OBVIOUS
<1>1. NodeIsSound
  <2>1. MaxClock \in Nat /\ events \in FirstEvents
    BY NodeAssumption DEF NodeInit
  <2>2. events \in Seq(Event) /\ InOrder(events)
    BY <2>1, NodeAssumption DEF Event, InOrder
  <2>3. clock \in Int /\ refTime \in Int /\ refTime <= clock
    BY <2>1 DEF NodeInit
  <2> QED BY <2>2, <2>3 DEF NodeIsSound
<1>2. PICK s : s = store /\ s = [at |-> "management", tries |-> 0, seen |-> 0, checkedAt |-> 0,
                                systemState |-> NoState, committeeMembers |-> {},
                                doneLoading |-> FALSE, errorLoading |-> FALSE]
  BY DEF NodeInit
<1>3. s \in StoreRecords({"management", 0, NoState, {}, FALSE})
  BY <1>2 DEF StoreRecords
<1>4. StoreIsSound
  BY <1>2 DEF StoreIsSound
<1>5. CutsAreSound
  BY DEF NodeInit, CutsAreSound
<1> QED BY <1>1, <1>2, <1>3, <1>4, <1>5 DEF NodeInv

(* The node goes on.                                                        *)
LEMMA NodeStaysSound == NodeIsSound /\ NodeLives => NodeIsSound' /\ refTime <= refTime'
<1> SUFFICES ASSUME NodeIsSound, NodeLives PROVE NodeIsSound' /\ refTime <= refTime'
  OBVIOUS
<1>1. clock \in Int /\ refTime \in Int /\ refTime <= clock /\ events \in Seq(Event) /\ InOrder(events)
  BY DEF NodeIsSound
<1>2. CASE clock < MaxClock /\ clock' = clock + 1 /\ UNCHANGED <<refTime, events, writerInSync>>
  BY <1>1, <1>2 DEF NodeIsSound, InOrder
<1>3. CASE refTime < clock /\ refTime' = clock /\ UNCHANGED <<clock, events, writerInSync>>
  BY <1>1, <1>3 DEF NodeIsSound, InOrder
<1>4. ASSUME events # <<>>, Last(events).RefTime < refTime, NEW c \in Committees,
             events' = Append(events, [RefTime |-> refTime, Committee |-> c]),
             UNCHANGED <<clock, refTime, writerInSync>>
      PROVE  NodeIsSound' /\ refTime <= refTime'
  <2>1. PICK n \in Nat \ {0} : n = Len(events) /\ DOMAIN events = 1 .. n
    BY <1>1, <1>4
  <2>2. PICK last \in Event : last = events[n] /\ last.RefTime < refTime /\ last.RefTime \in Nat
    <3>1. events[n] \in Event
      BY <1>1, <2>1
    <3>2. Last(events) = events[n]
      BY <2>1 DEF Last
    <3> QED BY <1>4, <3>1, <3>2 DEF Event
  <2>3. PICK e : e = [RefTime |-> refTime, Committee |-> c]
    OBVIOUS
  <2>4. refTime \in Nat
    BY <1>1, <2>2
  <2>5. e \in Event /\ e.RefTime = refTime
    BY <2>3, <2>4, NodeAssumption DEF Event
  <2>6. events' = Append(events, e)
    BY <1>4, <2>3
  <2>7. /\ events' \in Seq(Event) /\ DOMAIN events' = 1 .. n + 1
        /\ events'[n + 1] = e /\ \A i \in 1 .. n : events'[i] = events[i]
    BY <1>1, <2>1, <2>5, <2>6
  <2>8. ASSUME NEW i \in 1 .. n PROVE events[i].RefTime <= refTime
    <3>1. PICK x \in Nat : x = events[i].RefTime
      <4>1. events[i] \in Event
        BY <1>1, <2>1
      <4> QED BY <4>1 DEF Event
    <3>2. PICK y \in Nat : y = last.RefTime /\ y < refTime
      BY <2>2
    <3>3. CASE i = n
      BY <2>2, <2>4, <3>1, <3>2, <3>3
    <3>4. CASE i < n
      <4>1. x <= y
        BY <1>1, <2>1, <2>2, <3>1, <3>2, <3>4 DEF InOrder
      <4> QED BY <2>4, <3>1, <3>2, <4>1
    <3> QED BY <3>3, <3>4
  <2>9. ASSUME NEW i \in 1 .. n + 1, NEW j \in 1 .. n + 1, i < j
        PROVE  events'[i].RefTime <= events'[j].RefTime
    <3>1. i \in 1 .. n
      BY <2>9
    <3>2. CASE j = n + 1
      BY <2>5, <2>7, <2>8, <3>1, <3>2
    <3>3. CASE j # n + 1
      <4>1. j \in 1 .. n
        BY <3>3
      <4> QED BY <1>1, <2>1, <2>7, <2>9, <3>1, <4>1 DEF InOrder
    <3> QED BY <3>2, <3>3
  <2>10. InOrder(events)'
    BY <2>7, <2>9 DEF InOrder
  <2> QED BY <1>1, <1>4, <2>7, <2>10 DEF NodeIsSound
<1>5. CASE writerInSync' = ~writerInSync /\ UNCHANGED <<clock, refTime, events>>
  BY <1>1, <1>5 DEF NodeIsSound, InOrder
<1> QED BY <1>2, <1>3, <1>4, <1>5 DEF NodeLives

(* What is processed is of the node's committee and its guardians.          *)
LEMMA ProcessedState ==
  ASSUME NodeIsSound, NEW now
  PROVE  LET s == UpdateSystemState(ManagementStatus, now)
         IN /\ s.RefTime = refTime
            /\ NodesOfTheirKeys(s.CommitteeNodes) /\ DOMAIN s.CommitteeNodes = CurrentCommittee
            /\ NodesOfTheirKeys(s.StandByNodes)
<1> DEFINE all == ExtractGuardians(ManagementStatus, now)
           candidates == ManagementStatus.CurrentCandidates
           standby == {g \in DOMAIN candidates : candidates[g]}
           C == [g \in CurrentCommittee |-> all[g]]
           B == [g \in standby |-> all[g]]
<1>1. CurrentCommittee \subseteq NodeGuardians
  <2>1. CASE events = <<>>
    BY <2>1 DEF CurrentCommittee
  <2>2. CASE events # <<>>
    <3>1. Len(events) \in DOMAIN events
      BY <2>2 DEF NodeIsSound
    <3>2. events[Len(events)] \in Event
      BY <3>1 DEF NodeIsSound
    <3> QED BY <2>2, <3>2 DEF CurrentCommittee, Last, Event
  <2> QED BY <2>1, <2>2
<1>2. standby \subseteq NodeGuardians
  BY DEF ManagementStatus
<1>3. \A g \in NodeGuardians : all[g].EthAddress = EnsurePrefix(Bare(g))
  BY DEF ExtractGuardians
<1>4. UpdateSystemState(ManagementStatus, now)
        = [CommitteeNodes |-> C, StandByNodes |-> B, RefTime |-> refTime]
  <2>1. ManagementStatus.CurrentCommittee = CurrentCommittee /\ ManagementStatus.CurrentRefTime = refTime
    BY DEF ManagementStatus
  <2> HIDE DEF all, candidates
  <2>2. UpdateSystemState(ManagementStatus, now)
          = [CommitteeNodes |-> [g \in ManagementStatus.CurrentCommittee |-> all[g]],
             StandByNodes |-> B, RefTime |-> ManagementStatus.CurrentRefTime]
    BY DEF UpdateSystemState, all, candidates
  <2> QED BY <2>1, <2>2
<1> HIDE DEF all, standby
<1>5. NodesOfTheirKeys(C) /\ DOMAIN C = CurrentCommittee
  BY <1>1, <1>3 DEF NodesOfTheirKeys
<1>6. NodesOfTheirKeys(B)
  BY <1>2, <1>3 DEF NodesOfTheirKeys
<1> QED BY <1>4, <1>5, <1>6

(* A store that goes on, or settles without data, stays sound.              *)
LEMMA StoreMoves ==
  ASSUME NodeInv, store.at \in {"management", "writer", "read"}, NodeIsSound', UNCHANGED refTime, UNCHANGED cuts,
         NEW S, store' \in StoreRecords(S),
         store'.at = "writer" => store'.seen \in Int /\ store'.seen <= refTime,
         store'.at = "read" =>
           store'.checkedAt \in Int /\ refTime >= store'.checkedAt - ACCEPTED_RANGE_IN_SECONDS,
         store'.doneLoading = store.doneLoading
  PROVE  NodeInv'
<1>1. ~store.doneLoading
  BY DEF NodeInv, StoreIsSound, StateIsSound
<1>2. StoreIsSound'
  BY <1>1 DEF StoreIsSound
<1>3. CutsAreSound'
  BY DEF NodeInv, CutsAreSound
<1> QED BY <1>2, <1>3 DEF NodeInv

(* A store that ends in an error.                                           *)
LEMMA StoreFails ==
  ASSUME NodeInv, store.at \in {"management", "writer", "read"},
         store' = FindSyncedCommitteeAndReadData, UNCHANGED <<clock, refTime, writerInSync, events, cuts>>
  PROVE  NodeInv'
<1>1. PICK S : store \in StoreRecords(S)
  BY DEF NodeInv
<1>2. store' = [store EXCEPT !.at = "settled", !.errorLoading = TRUE]
  BY DEF FindSyncedCommitteeAndReadData, ErrorLoading
<1>3. PICK T : T = S \cup {"settled", TRUE}
  OBVIOUS
<1>4. store' \in StoreRecords(T) /\ store'.at = "settled" /\ store'.doneLoading = store.doneLoading
  BY <1>1, <1>2, <1>3 DEF StoreRecords
<1>5. NodeIsSound'
  BY DEF NodeInv, NodeIsSound, InOrder
<1>6. "settled" # "writer" /\ "settled" # "read"
  OBVIOUS
<1> QED BY <1>4, <1>5, <1>6, StoreMoves

LEMMA NodeStepSound == NodeInv /\ [NodeNext]_nodeVars => NodeInv'
<1> SUFFICES ASSUME NodeInv, [NodeNext]_nodeVars PROVE NodeInv'
  OBVIOUS
<1>0. NodeIsSound /\ StoreIsSound /\ CutsAreSound
  BY DEF NodeInv
<1>1. PICK S : store \in StoreRecords(S)
  BY DEF NodeInv
<1>2. ASSUME NodeIsSound', refTime \in Int, refTime' \in Int, refTime <= refTime', UNCHANGED <<store, cuts>>
      PROVE  NodeInv'
  <2>1. ASSUME store.at = "writer" PROVE store.seen \in Int /\ store.seen <= refTime'
    <3>1. PICK seen \in Int : seen = store.seen /\ seen <= refTime
      BY <1>0, <2>1 DEF StoreIsSound
    <3> QED BY <1>2, <3>1
  <2>2. ASSUME store.at = "read"
        PROVE  store.checkedAt \in Int /\ refTime' >= store.checkedAt - ACCEPTED_RANGE_IN_SECONDS
    <3>1. PICK at \in Int : at = store.checkedAt /\ refTime >= at - ACCEPTED_RANGE_IN_SECONDS
      BY <1>0, <2>2 DEF StoreIsSound
    <3>2. ACCEPTED_RANGE_IN_SECONDS \in Nat
      BY NodeAssumption
    <3> QED BY <1>2, <3>1, <3>2
  <2>3. StoreIsSound'
    BY <1>0, <1>2, <2>1, <2>2 DEF StoreIsSound, StateIsSound, NodesOfTheirKeys
  <2>4. CutsAreSound'
    BY <1>0, <1>2 DEF CutsAreSound
  <2>5. \E T : store' \in StoreRecords(T)
    BY <1>1, <1>2
  <2> QED BY <1>2, <2>3, <2>4, <2>5 DEF NodeInv
<1>3. CASE UNCHANGED nodeVars
  <2>1. NodeIsSound' /\ refTime \in Int /\ refTime' \in Int /\ refTime <= refTime' /\ UNCHANGED <<store, cuts>>
    BY <1>0, <1>3 DEF nodeVars, NodeIsSound, InOrder
  <2> QED BY <1>2, <2>1
<1>4. CASE NodeLives
  <2>1. NodeIsSound' /\ refTime <= refTime'
    BY <1>0, <1>4, NodeStaysSound
  <2>2. refTime \in Int /\ refTime' \in Int /\ UNCHANGED <<store, cuts>>
    BY <1>0, <1>4, <2>1 DEF NodeIsSound, NodeLives
  <2> QED BY <1>2, <2>1, <2>2
<1>5. ASSUME UNCHANGED <<clock, refTime, writerInSync, events>> PROVE NodeIsSound' /\ UNCHANGED refTime
  BY <1>0, <1>5 DEF NodeIsSound, InOrder
<1>6. CASE FetchFails
  <2>1. store.at \in {"management", "writer", "read"} /\ UNCHANGED <<clock, refTime, writerInSync, events, cuts>>
    BY <1>6 DEF FetchFails
  <2>2. CASE store' = FindSyncedCommitteeAndReadData
    BY <2>1, <2>2, StoreFails
  <2>3. CASE store' = [store EXCEPT !.tries = @ + 1]
    <3>1. PICK tries : store' = [store EXCEPT !.tries = tries]
      BY <2>3
    <3>2. PICK T : T = S \cup {tries}
      OBVIOUS
    <3>3. /\ store' \in StoreRecords(T) /\ store'.at = store.at /\ store'.seen = store.seen
          /\ store'.checkedAt = store.checkedAt /\ store'.doneLoading = store.doneLoading
      BY <1>1, <3>1, <3>2 DEF StoreRecords
    <3>4. /\ store'.at = "writer" => store'.seen \in Int /\ store'.seen <= refTime
          /\ store'.at = "read" =>
               store'.checkedAt \in Int /\ refTime >= store'.checkedAt - ACCEPTED_RANGE_IN_SECONDS
      BY <1>0, <3>3 DEF StoreIsSound
    <3> QED BY <1>5, <2>1, <3>3, <3>4, StoreMoves
  <2> QED BY <1>6, <2>2, <2>3 DEF FetchFails
<1>7. CASE FetchNodeManagementStatus
  <2>1. /\ store.at \in {"management", "writer", "read"} /\ UNCHANGED <<clock, refTime, writerInSync, events, cuts>>
        /\ store' = [store EXCEPT !.at = "writer", !.tries = 0, !.seen = refTime]
    BY <1>7 DEF FetchNodeManagementStatus, ManagementStatus
  <2>2. PICK T : T = S \cup {"writer", 0, refTime}
    OBVIOUS
  <2>3. store' \in StoreRecords(T) /\ store'.at = "writer" /\ store'.seen = refTime
    BY <1>1, <2>1, <2>2 DEF StoreRecords
  <2>4. store'.doneLoading = store.doneLoading
    BY <1>1, <2>1 DEF StoreRecords
  <2>5. store'.seen \in Int /\ store'.seen <= refTime
    BY <1>0, <2>3 DEF NodeIsSound
  <2>6. "writer" # "read"
    OBVIOUS
  <2> QED BY <1>5, <2>1, <2>3, <2>4, <2>5, <2>6, StoreMoves
<1>8. CASE FetchNodeEthereumWriterStatus
  <2>1. /\ store.at = "writer" /\ store.at \in {"management", "writer", "read"}
        /\ UNCHANGED <<clock, refTime, writerInSync, events, cuts>>
    BY <1>8 DEF FetchNodeEthereumWriterStatus
  <2>2. CASE store' = FindSyncedCommitteeAndReadData
    BY <2>1, <2>2, StoreFails
  <2>3. ASSUME IsInSync(store.seen, writerInSync, clock),
               store' = [store EXCEPT !.at = "read", !.tries = 0, !.checkedAt = clock]
        PROVE  NodeInv'
    <3>1. PICK T : T = S \cup {"read", 0, clock}
      OBVIOUS
    <3>2. /\ store' \in StoreRecords(T) /\ store'.at = "read" /\ store'.checkedAt = clock
          /\ store'.doneLoading = store.doneLoading
      BY <1>1, <2>3, <3>1 DEF StoreRecords
    <3>3. PICK seen \in Int : seen = store.seen /\ seen <= refTime
      BY <1>0, <2>1 DEF StoreIsSound
    <3>4. seen >= clock - ACCEPTED_RANGE_IN_SECONDS
      BY <2>3, <3>3 DEF IsInSync
    <3>5. ACCEPTED_RANGE_IN_SECONDS \in Nat /\ clock \in Int /\ refTime \in Int
      BY <1>0, NodeAssumption DEF NodeIsSound
    <3>6. refTime >= clock - ACCEPTED_RANGE_IN_SECONDS
      BY <3>3, <3>4, <3>5
    <3>7. store'.checkedAt \in Int /\ refTime >= store'.checkedAt - ACCEPTED_RANGE_IN_SECONDS
      BY <3>2, <3>5, <3>6
    <3>8. "writer" # "read"
      OBVIOUS
    <3> QED BY <1>5, <2>1, <3>2, <3>7, <3>8, StoreMoves
  <2> QED BY <1>8, <2>2, <2>3 DEF FetchNodeEthereumWriterStatus
<1>9. CASE ReadAndProcessSystemState
  <2>1. /\ store.at = "read" /\ store.at \in {"management", "writer", "read"}
        /\ UNCHANGED <<clock, refTime, writerInSync, events>>
    BY <1>9 DEF ReadAndProcessSystemState
  <2>2. CASE store' = FindSyncedCommitteeAndReadData /\ UNCHANGED cuts
    BY <2>1, <2>2, StoreFails
  <2>3. ASSUME store' = [store EXCEPT !.at = "settled", !.doneLoading = TRUE,
                           !.systemState = UpdateSystemState(ManagementStatus, clock),
                           !.committeeMembers = ManagementStatus.CurrentCommittee],
               cuts' = [cuts EXCEPT !.at = "reading", !.left = NodeGuardians]
        PROVE  NodeInv'
    <3>1. PICK s, members : s = UpdateSystemState(ManagementStatus, clock) /\ members = CurrentCommittee
      OBVIOUS
    <3>2. store' = [store EXCEPT !.at = "settled", !.doneLoading = TRUE, !.systemState = s,
                                 !.committeeMembers = members]
      BY <2>3, <3>1 DEF ManagementStatus
    <3>3. PICK T : T = S \cup {"settled", TRUE, s, members}
      OBVIOUS
    <3>4. store' \in StoreRecords(T)
      BY <1>1, <3>2, <3>3 DEF StoreRecords
    <3>5. /\ store'.at = "settled" /\ store'.systemState = s /\ store'.committeeMembers = members
          /\ store'.checkedAt = store.checkedAt
      BY <1>1, <3>2 DEF StoreRecords
    <3>6. /\ s.RefTime = refTime
          /\ NodesOfTheirKeys(s.CommitteeNodes) /\ DOMAIN s.CommitteeNodes = members
          /\ NodesOfTheirKeys(s.StandByNodes)
      BY <1>0, <3>1, ProcessedState
    <3>7. store.checkedAt \in Int /\ refTime >= store.checkedAt - ACCEPTED_RANGE_IN_SECONDS /\ refTime \in Int
      BY <1>0, <2>1 DEF StoreIsSound, NodeIsSound
    <3>8. StateIsSound'
      BY <3>5, <3>6, <3>7 DEF StateIsSound, NodesOfTheirKeys
    <3>9. "settled" # "writer" /\ "settled" # "read"
      OBVIOUS
    <3>10. StoreIsSound'
      BY <3>5, <3>8, <3>9 DEF StoreIsSound
    <3>11. CutsAreSound'
      BY <1>0, <2>3 DEF CutsAreSound
    <3> QED BY <1>5, <2>1, <3>4, <3>10, <3>11 DEF NodeInv
  <2> QED BY <1>9, <2>2, <2>3 DEF ReadAndProcessSystemState
<1>10. CASE ReadDelegatorsCut
  <2>1. UNCHANGED <<clock, refTime, writerInSync, events, store>> /\ cuts.at = "reading"
    BY <1>10 DEF ReadDelegatorsCut
  <2>2. NodeIsSound' /\ StoreIsSound' /\ \E T : store' \in StoreRecords(T)
    BY <1>0, <1>1, <1>5, <2>1 DEF StoreIsSound, StateIsSound, NodesOfTheirKeys
  <2>3. CASE cuts' = [at |-> "idle", left |-> {}, read |-> {}, shown |-> {}]
    BY <2>2, <2>3 DEF NodeInv, CutsAreSound
  <2>4. ASSUME NEW g \in cuts.left,
               cuts' = [at |-> "idle", left |-> {}, read |-> {}, shown |-> cuts.read \cup {g}], cuts.left = {g}
        PROVE  NodeInv'
    <3>1. cuts.read \cup {g} = NodeGuardians
      BY <1>0, <2>1, <2>4 DEF CutsAreSound
    <3>2. CutsAreSound'
      BY <2>4, <3>1 DEF CutsAreSound
    <3> QED BY <2>2, <3>2 DEF NodeInv
  <2>5. ASSUME NEW g \in cuts.left, cuts' = [cuts EXCEPT !.left = @ \ {g}, !.read = @ \cup {g}]
        PROVE  NodeInv'
    <3>1. CutsAreSound'
      BY <1>0, <2>1, <2>5 DEF CutsAreSound
    <3> QED BY <2>2, <3>1 DEF NodeInv
  <2> QED BY <1>10, <2>3, <2>4, <2>5 DEF ReadDelegatorsCut
<1> QED BY <1>3, <1>4, <1>6, <1>7, <1>8, <1>9, <1>10 DEF NodeNext

(* What the table shows of a sound store.                                   *)
LEMMA SoundIsShown == NodeInv => TableShowsTheNode
<1> SUFFICES ASSUME NodeInv PROVE TableShowsTheNode
  OBVIOUS
<1>1. ShownWasInSync
  BY DEF NodeInv, StoreIsSound, StateIsSound, ShownWasInSync
<1>2. ParticipationIsAShare
  <2>1. events \in Seq(Event) /\ InOrder(events) /\ ManagementStatus.CommitteeEvents = events
    BY DEF NodeInv, NodeIsSound, ManagementStatus
  <2>2. ASSUME CanBeProcessed(ManagementStatus, clock), NEW g \in NodeGuardians
        PROVE  IsAShare(Participation(g, events, clock), events,
                        {i \in DOMAIN events : events[i].RefTime >= clock - TIME_RANGE_IN_SECONDS}, g)
    <3>1. \E i \in DOMAIN events : events[i].RefTime >= clock - TIME_RANGE_IN_SECONDS
      BY <2>1, <2>2 DEF CanBeProcessed
    <3> QED BY <2>1, <3>1, SharesOfTheWindow
  <2> QED BY <2>2 DEF ParticipationIsAShare, IsAShare
<1>3. ASSUME NEW row \in Table
      PROVE  /\ \E g \in NodeGuardians : row.address = EnsurePrefix(Bare(g))
             /\ store.doneLoading
             /\ \E guardian : row = Row(guardian)
  <2>1. PICK guardian \in StoreGuardians : store.doneLoading /\ row = Row(guardian)
    BY <1>3 DEF Table
  <2>2. StateIsSound
    BY <2>1 DEF NodeInv, StoreIsSound
  <2>3. \E g \in NodeGuardians : guardian.EthAddress = EnsurePrefix(Bare(g))
    BY <2>1, <2>2 DEF StoreGuardians, StateIsSound, NodesOfTheirKeys
  <2>4. row.address = guardian.EthAddress
    BY <2>1 DEF Row
  <2> QED BY <2>1, <2>3, <2>4
<1>4. ASSUME NEW row \in Table
      PROVE  LET nodes == store.systemState.CommitteeNodes
                 inCommittee == \E g \in DOMAIN nodes : nodes[g].EthAddress = row.address
             IN /\ (row.icon # "guardian") <=> inCommittee
                /\ row.tooltip.note <=> ~inCommittee
  <2>1. PICK guardian : row = Row(guardian)
    BY <1>3
  <2>2. /\ row.address = guardian.EthAddress /\ row.icon = GuardianQualifications(guardian)
        /\ row.tooltip.note = ~IsCommitteeMember(guardian)
    BY <2>1 DEF Row, GuardianQualificationsTooltip
  <2>3. StateIsSound
    BY <1>3 DEF NodeInv, StoreIsSound
  <2>4. IsCommitteeMember(guardian) <=>
          \E g \in DOMAIN store.systemState.CommitteeNodes :
            store.systemState.CommitteeNodes[g].EthAddress = guardian.EthAddress
    BY <2>3 DEF IsCommitteeMember, StateIsSound, NodesOfTheirKeys
  <2>5. (GuardianQualifications(guardian) # "guardian") <=> IsCommitteeMember(guardian)
    BY DEF GuardianQualifications
  <2> QED BY <2>2, <2>4, <2>5
<1>5. ASSUME NEW row \in Table, NEW other \in Table PROVE row.cut <=> other.cut
  <2>1. PICK a, b : row = Row(a) /\ other = Row(b)
    BY <1>3
  <2>2. /\ row.cut = HasCut(a) /\ row.address = a.EthAddress
        /\ other.cut = HasCut(b) /\ other.address = b.EthAddress
    BY <2>1 DEF Row
  <2>3. cuts.shown = {} \/ cuts.shown = NodeGuardians
    BY DEF NodeInv, CutsAreSound
  <2>4. /\ \E g \in NodeGuardians : a.EthAddress = EnsurePrefix(Bare(g))
        /\ \E g \in NodeGuardians : b.EthAddress = EnsurePrefix(Bare(g))
    BY <1>3, <2>2
  <2>5. (HasCut(a) <=> cuts.shown # {}) /\ (HasCut(b) <=> cuts.shown # {})
    BY <2>3, <2>4 DEF HasCut
  <2> QED BY <2>2, <2>5
<1> QED BY <1>1, <1>2, <1>4, <1>5 DEF TableShowsTheNode, IconsAreTheCommittees, CutsComeTogether

-----------------------------------------------------------------------------
(* The rewards page and its snapshot.                                       *)
Entries == {CompleteData(set, a, b) : set \in DataSets, a \in Holders, b \in BOOLEAN}

AddressesOf(entries) == {entries[k].address : k \in DOMAIN entries}

(* The addresses of the chunks from the m-th on.                            *)
InChunks(m, n) == {a \in Holders : \E j \in m .. n : a \in ToSet(AllAddresses[j])}

LEMMA EntryShape ==
  ASSUME NEW e \in Entries
  PROVE  /\ e.address \in Holders
         /\ e.guardianInfo.voted \in BOOLEAN /\ e.guardianInfo.hasEligibleVote \in BOOLEAN
<1>1. PICK set \in DataSets, a \in Holders, b \in BOOLEAN : e = CompleteData(set, a, b)
  BY DEF Entries
<1>2. e.address = a /\ e.guardianInfo = DelegationAndGuardianInfo(set, a, b).guardianInfo
  BY <1>1 DEF CompleteData
<1>3. e.guardianInfo = EMPTY_GUARDIAN_INFO \/ \E to : e.guardianInfo = GuardianOf(to)
  <2>1. DelegationAndGuardianInfo(set, a, b).guardianInfo = EMPTY_GUARDIAN_INFO
        \/ \E to : DelegationAndGuardianInfo(set, a, b).guardianInfo = GuardianOf(to)
    BY DEF DelegationAndGuardianInfo
  <2> QED BY <1>2, <2>1
<1>4. EMPTY_GUARDIAN_INFO.voted = FALSE /\ EMPTY_GUARDIAN_INFO.hasEligibleVote = FALSE
  BY DEF EMPTY_GUARDIAN_INFO
<1>5. \A to : GuardianOf(to).voted = TRUE /\ GuardianOf(to).hasEligibleVote = FALSE
  BY DEF GuardianOf
<1>6. PICK info : info = e.guardianInfo
  OBVIOUS
<1>7. info.voted \in BOOLEAN /\ info.hasEligibleVote \in BOOLEAN
  BY ONLY <1>3, <1>4, <1>5, <1>6
<1> QED BY <1>2, <1>6, <1>7

LEMMA EntriesAre ==
  ASSUME NEW set \in DataSets, NEW a \in Holders, NEW b \in BOOLEAN
  PROVE  CompleteData(set, a, b) \in Entries /\ CompleteData(set, a, b).address = a
<1>1. CompleteData(set, a, b).address = a
  BY DEF CompleteData
<1> QED BY <1>1 DEF Entries

(* The entries and those of one more chunk.                                 *)
WithChunk(set, data, chunk, failing) ==
  data \o [k \in DOMAIN chunk |-> CompleteData(set, chunk[k], chunk[k] \in failing)]

(* Reading a chunk adds an entry for each of its addresses.                 *)
LEMMA ChunkAdds ==
  ASSUME NEW set \in DataSets, NEW data \in Seq(Entries), NEW chunk \in Seq(Holders), NEW failing,
         NEW more, more = WithChunk(set, data, chunk, failing)
  PROVE  /\ more \in Seq(Entries)
         /\ AddressesOf(more) = AddressesOf(data) \cup ToSet(chunk)
<1> DEFINE new == [k \in DOMAIN chunk |-> CompleteData(set, chunk[k], chunk[k] \in failing)]
<1>1. \A k \in DOMAIN chunk : new[k] \in Entries /\ new[k].address = chunk[k]
  <2> TAKE k \in DOMAIN chunk
  <2>1. chunk[k] \in Holders /\ (chunk[k] \in failing) \in BOOLEAN
    OBVIOUS
  <2>2. new[k] = CompleteData(set, chunk[k], chunk[k] \in failing)
    OBVIOUS
  <2> HIDE DEF new
  <2>3. PICK b \in BOOLEAN : b = (chunk[k] \in failing)
    BY <2>1
  <2>4. CompleteData(set, chunk[k], b) \in Entries /\ CompleteData(set, chunk[k], b).address = chunk[k]
    BY <2>1, EntriesAre
  <2> QED BY <2>2, <2>3, <2>4
<1>2. Len(chunk) \in Nat /\ DOMAIN chunk = 1 .. Len(chunk) /\ DOMAIN new = DOMAIN chunk
  OBVIOUS
<1>2a. new = [k \in DOMAIN chunk |-> new[k]] /\ more = data \o new
  BY DEF WithChunk
<1> HIDE DEF new
<1>3. new \in Seq(Entries)
  <2>1. new \in [1 .. Len(chunk) -> Entries]
    BY <1>1, <1>2, <1>2a
  <2> QED BY ONLY <1>2, <2>1
<1>4. ToSet(more) = ToSet(data) \cup ToSet(new) /\ more \in Seq(Entries)
  <2>1. more = data \o new /\ data \in Seq(Entries)
    BY <1>2a
  <2> QED BY ONLY <1>3, <2>1, JoinedLists
<1>5. \A l \in Seq(Entries) : \A a : a \in AddressesOf(l) <=> \E e \in ToSet(l) : e.address = a
  BY DEF AddressesOf, ToSet
<1>6. \A a : (\E e \in ToSet(new) : e.address = a) <=> a \in ToSet(chunk)
  BY <1>1, <1>2 DEF ToSet
<1>7. \A a : a \in AddressesOf(more) <=> a \in AddressesOf(data) \/ a \in ToSet(chunk)
  <2>1. data \in Seq(Entries)
    OBVIOUS
  <2> QED BY ONLY <1>3, <1>4, <1>5, <1>6, <2>1
<1> QED BY <1>4, <1>7

-----------------------------------------------------------------------------
(* Merging takes the first entry of each address, from whichever shard.     *)
ShardsTyped ==
  /\ IsFiniteSet(DOMAIN shards) /\ shards = [s \in DOMAIN shards |-> shards[s]]
  /\ \A s \in DOMAIN shards : shards[s] \in Seq(Entries)

LEMMA OrderIsAll ==
  ASSUME NEW S, IsFiniteSet(S), NEW order \in SetToSeqs(S)
  PROVE  /\ order \in Seq(S) /\ \A s \in S : \E k \in DOMAIN order : order[k] = s
<1> DEFINE n == Cardinality(S)
<1>1. n \in Nat
  BY FS_CardinalityType
<1>2. order \in [1 .. n -> S] /\ \A i, j \in 1 .. n : i # j => order[i] # order[j]
  BY DEF SetToSeqs
<1> HIDE DEF n
<1>3. order \in Injection(1 .. n, S)
  BY <1>2 DEF Injection, IsInjective
<1>4. Cardinality(1 .. n) = n
  BY <1>1, FS_Interval
<1>5. order \in Surjection(1 .. n, S)
  BY <1>3, <1>4, FS_Injection DEF n
<1> QED BY <1>1, <1>2, <1>5 DEF Surjection

LEMMA MergeIs ==
  ASSUME ShardsTyped, NEW order \in SetToSeqs(DOMAIN shards)
  PROVE  /\ Merge(order) \in Seq(Entries) /\ IsSane(Merge(order))
         /\ \A a : a \in AddressesOf(Merge(order)) <=> \E s \in DOMAIN shards : a \in AddressesOf(shards[s])
<1> DEFINE q == [k \in DOMAIN order |-> shards[order[k]]]
           all == FlattenSeq(q)
           first == {k \in DOMAIN all : \A j \in 1..(k - 1) : all[j].address # all[k].address}
           n == Cardinality(first)
           m == Merge(order)
<1>1. order \in Seq(DOMAIN shards) /\ \A s \in DOMAIN shards : \E k \in DOMAIN order : order[k] = s
  BY OrderIsAll DEF ShardsTyped
<1>2. Len(order) \in Nat /\ DOMAIN order = 1 .. Len(order) /\ \A k \in DOMAIN order : order[k] \in DOMAIN shards
  BY <1>1
<1>3. q \in Seq(Seq(Entries)) /\ DOMAIN q = DOMAIN order
  <2>1. q \in [1 .. Len(order) -> Seq(Entries)]
    BY <1>2 DEF ShardsTyped
  <2> HIDE DEF q
  <2>2. q \in Seq(Seq(Entries))
    BY <1>2, <2>1
  <2> QED BY <1>2, <2>1, <2>2
<1>q. \A k \in DOMAIN order : q[k] = shards[order[k]]
  OBVIOUS
<1>4. m = [k \in 1 .. n |-> all[KthOf(first, k)]]
  BY DEF Merge, KthOf
<1> HIDE DEF q
<1>5. all \in Seq(Entries) /\ \A x : x \in ToSet(all) <=> \E i \in DOMAIN q : x \in ToSet(q[i])
  BY <1>3, FlattenIs
<1> HIDE DEF all, m
<1>6. Len(all) \in Nat /\ DOMAIN all = 1 .. Len(all) /\ \A k \in DOMAIN all : all[k] \in Entries
  BY <1>5
<1>7. first \in SUBSET Nat /\ IsFiniteSet(first) /\ first \subseteq DOMAIN all
  <2>1. IsFiniteSet(1 .. Len(all))
    BY <1>6, FS_Interval
  <2>2. first \in SUBSET (1 .. Len(all))
    BY <1>6
  <2> HIDE DEF first
  <2>3. IsFiniteSet(first)
    BY <2>1, <2>2, FS_Subset
  <2> QED BY <1>6, <2>2, <2>3
<1>8. \A i, j \in first : i < j => all[i].address # all[j].address
  BY <1>6
<1>9. ASSUME NEW k \in DOMAIN all PROVE \E i \in first : all[i].address = all[k].address
  <2> DEFINE Same == {i \in DOMAIN all : all[i].address = all[k].address}
  <2>1. Same \in SUBSET Nat /\ k \in Same
    BY <1>6
  <2>2. PICK i \in Same : \A j \in Same : i <= j
    <3> HIDE DEF Same
    <3> QED BY <2>1, SmallestNumber
  <2>3. i \in DOMAIN all /\ i \in Nat /\ all[i].address = all[k].address
    BY <1>6, <2>2
  <2>4. \A j \in 1 .. (i - 1) : j \in DOMAIN all /\ j < i
    BY <1>6, <2>3
  <2>5. \A j \in 1 .. (i - 1) : j \notin Same
    <3> TAKE j \in 1 .. (i - 1)
    <3>1. j \in Nat /\ ~(i <= j)
      BY <2>3, <2>4
    <3> HIDE DEF Same
    <3> QED BY <2>2, <3>1
  <2>6. \A j \in 1 .. (i - 1) : all[j].address # all[i].address
    BY <2>3, <2>4, <2>5
  <2> QED BY <2>3, <2>6
<1> HIDE DEF first
<1>10. CountedUp(first)
  BY <1>7, KthInOrder
<1>11. /\ n \in Nat /\ \A k \in 1 .. n : KthOf(first, k) \in first
       /\ \A i \in first : \E k \in 1 .. n : KthOf(first, k) = i
       /\ \A k, l \in 1 .. n : k < l => KthOf(first, k) < KthOf(first, l)
  BY <1>10 DEF CountedUp
<1> HIDE DEF n
<1>12. \A k \in 1 .. n : m[k] = all[KthOf(first, k)] /\ m[k] \in Entries
  BY <1>4, <1>6, <1>7, <1>11
<1>13. m \in Seq(Entries) /\ DOMAIN m = 1 .. n
  <2>1. m \in [1 .. n -> Entries]
    BY <1>4, <1>12
  <2> QED BY <1>11, <2>1
<1>14. \A k, l \in 1 .. n : k < l => m[k].address # m[l].address
  BY <1>8, <1>11, <1>12
<1>15. IsSane(m)
  <2>1. ASSUME NEW k \in 1 .. n, NEW l \in 1 .. n, m[k].address = m[l].address PROVE k = l
    <3>1. k \in Int /\ l \in Int /\ ~(k < l) /\ ~(l < k)
      BY <1>11, <1>14, <2>1
    <3> QED BY <3>1
  <2> QED BY <1>13, <2>1 DEF IsSane, IsInjective
<1>16. ASSUME NEW a PROVE a \in AddressesOf(m) <=> \E s \in DOMAIN shards : a \in AddressesOf(shards[s])
  <2>1. a \in AddressesOf(m) <=> \E k \in DOMAIN all : all[k].address = a
    <3>1. ASSUME a \in AddressesOf(m) PROVE \E k \in DOMAIN all : all[k].address = a
      BY <1>7, <1>11, <1>12, <1>13, <3>1 DEF AddressesOf
    <3>2. ASSUME NEW k \in DOMAIN all, all[k].address = a PROVE a \in AddressesOf(m)
      <4>1. PICK i \in first : all[i].address = a
        BY <1>9, <3>2
      <4>2. PICK l \in 1 .. n : KthOf(first, l) = i
        BY <1>11
      <4> QED BY <1>12, <1>13, <4>1, <4>2 DEF AddressesOf
    <3> QED BY <3>1, <3>2
  <2>2. (\E k \in DOMAIN all : all[k].address = a) <=> \E x \in ToSet(all) : x.address = a
    BY DEF ToSet
  <2>3. (\E x \in ToSet(all) : x.address = a) <=> \E i \in DOMAIN q : \E x \in ToSet(q[i]) : x.address = a
    BY <1>5
  <2>4. \A s \in DOMAIN shards : a \in AddressesOf(shards[s]) <=> \E x \in ToSet(shards[s]) : x.address = a
    BY DEF AddressesOf, ToSet
  <2>5. (\E i \in DOMAIN q : \E x \in ToSet(q[i]) : x.address = a)
          <=> \E s \in DOMAIN shards : \E x \in ToSet(shards[s]) : x.address = a
    BY <1>1, <1>2, <1>3, <1>q
  <2> QED BY <2>1, <2>2, <2>3, <2>4, <2>5
<1> QED BY <1>13, <1>15, <1>16 DEF m

-----------------------------------------------------------------------------
(* The shards hold the chunks read so far; the job holds those of its run.  *)
ShardsHoldTheChunks ==
  /\ lastEnd \in 0 .. Len(AllAddresses)
  /\ ShardsTyped
  /\ \A s \in DOMAIN shards : s[2] \in Nat /\ s[2] <= lastEnd
  /\ \A a : a \in InChunks(1, lastEnd) <=> \E s \in DOMAIN shards : a \in AddressesOf(shards[s])

Jobs == [running : {TRUE}, from : Nat, i : Nat, startIndex : Nat, counter : Nat, data : Seq(Entries)]

JobHoldsItsRun ==
  IF job.running
  THEN /\ job \in Jobs
       /\ job.from <= lastEnd /\ lastEnd <= job.i /\ job.i < Len(AllAddresses)
       /\ AddressesOf(job.data) = InChunks(job.from + 1, job.i)
       /\ merged[reading] = <<>>
  ELSE job = NoJob

IsWhole(entries) ==
  /\ entries \in Seq(Entries) /\ IsSane(entries)
  /\ AddressesOf(entries) = InChunks(1, Len(AllAddresses))

MergedIsWhole ==
  /\ reading \in DataSets /\ merged = [set \in DataSets |-> merged[set]]
  /\ \A set \in DataSets : merged[set] # <<>> => IsWhole(merged[set])

(* The data set a file is written from.                                     *)
SourceOf(f) == IF f = "distributionHistoryMap" THEN "AfterLastElections" ELSE "Snapshot"

FilesAreOfTheMerged ==
  \A f \in DOMAIN files : merged[SourceOf(f)] # <<>> /\ files[f] = ProcessAllData(merged[SourceOf(f)])[f]

SnapshotInv == ShardsHoldTheChunks /\ JobHoldsItsRun /\ MergedIsWhole /\ FilesAreOfTheMerged

LEMMA ChunksAreLists ==
  /\ Len(AllAddresses) \in Nat /\ DOMAIN AllAddresses = 1 .. Len(AllAddresses)
  /\ \A j \in 1 .. Len(AllAddresses) : ToSet(AllAddresses[j]) \subseteq Holders
<1>1. AllAddresses \in Seq(Seq(Holders))
  BY SnapshotAssumption
<1>2. Len(AllAddresses) \in Nat /\ DOMAIN AllAddresses = 1 .. Len(AllAddresses)
  BY <1>1
<1>3. \A j \in 1 .. Len(AllAddresses) : AllAddresses[j] \in Seq(Holders)
  BY <1>1
<1>4. \A c \in Seq(Holders) : ToSet(c) \subseteq Holders
  BY DEF ToSet
<1> QED BY <1>2, <1>3, <1>4

(* Chunks one after the other.                                              *)
LEMMA OneChunkMore ==
  ASSUME NEW m \in Nat, NEW i \in Nat, m <= i, i < Len(AllAddresses)
  PROVE  InChunks(m + 1, i + 1) = InChunks(m + 1, i) \cup ToSet(AllAddresses[i + 1])
<1>1. \A j : j \in m + 1 .. i + 1 <=> j \in m + 1 .. i \/ j = i + 1
  OBVIOUS
<1>2. i + 1 \in 1 .. Len(AllAddresses)
  BY ChunksAreLists
<1>3. ToSet(AllAddresses[i + 1]) \subseteq Holders
  BY <1>2, ChunksAreLists
<1> QED BY <1>1, <1>3 DEF InChunks

LEMMA ChunksOverlap ==
  ASSUME NEW l \in Nat, NEW m \in Nat, NEW n \in Nat, m <= l, l <= n
  PROVE  InChunks(1, n) = InChunks(1, l) \cup InChunks(m + 1, n)
<1>1. \A j : j \in 1 .. n <=> j \in 1 .. l \/ j \in m + 1 .. n
  OBVIOUS
<1> QED BY <1>1 DEF InChunks

LEMMA NoChunks == ASSUME NEW m \in Nat PROVE InChunks(m + 1, m) = {}
<1>1. m + 1 .. m = {}
  OBVIOUS
<1> QED BY <1>1 DEF InChunks

LEMMA NobodyHeld == AddressesOf(<<>>) = {} /\ <<>> \in Seq(Entries)
  BY DEF AddressesOf

LEMMA SnapshotStarts == SnapshotInit => SnapshotInv
<1> SUFFICES ASSUME SnapshotInit PROVE SnapshotInv
  OBVIOUS
<1>1. /\ job = NoJob /\ shards = <<>> /\ lastEnd = 0 /\ reading = "Snapshot"
      /\ merged = [set \in DataSets |-> <<>>] /\ files = <<>>
      /\ DOMAIN shards = {} /\ DOMAIN files = {}
  BY DEF SnapshotInit, NoFiles
<1>2. ShardsHoldTheChunks
  <2>1. IsFiniteSet({})
    BY FS_EmptySet
  <2>2. InChunks(1, 0) = {}
    BY NoChunks
  <2>3. shards = [s \in DOMAIN shards |-> shards[s]]
    BY <1>1
  <2> QED BY <1>1, <2>1, <2>2, <2>3, ChunksAreLists DEF ShardsHoldTheChunks, ShardsTyped
<1>3. JobHoldsItsRun
  BY <1>1 DEF JobHoldsItsRun, NoJob
<1>4. MergedIsWhole /\ FilesAreOfTheMerged
  BY <1>1 DEF MergedIsWhole, FilesAreOfTheMerged, DataSets
<1> QED BY <1>2, <1>3, <1>4 DEF SnapshotInv

LEMMA JobStarts == SnapshotInv /\ StartJob => SnapshotInv'
<1> SUFFICES ASSUME SnapshotInv, StartJob PROVE SnapshotInv'
  OBVIOUS
<1>1. /\ lastEnd < Len(AllAddresses) /\ lastEnd \in Nat
      /\ job' = [running |-> TRUE, from |-> lastEnd, i |-> lastEnd, startIndex |-> lastEnd,
                 counter |-> 1, data |-> <<>>]
      /\ shards' = shards /\ lastEnd' = lastEnd /\ merged' = merged /\ files' = files
      /\ reading' = reading /\ merged[reading] = <<>>
  BY ChunksAreLists DEF StartJob, SnapshotInv, ShardsHoldTheChunks
<1>2. job' \in Jobs /\ job'.running = TRUE /\ job'.from = lastEnd /\ job'.i = lastEnd /\ job'.data = <<>>
  BY <1>1, NobodyHeld DEF Jobs
<1>3. AddressesOf(job'.data) = InChunks(lastEnd + 1, lastEnd)
  BY <1>1, <1>2, NobodyHeld, NoChunks
<1>4. JobHoldsItsRun'
  BY <1>1, <1>2, <1>3 DEF JobHoldsItsRun
<1>5. ShardsHoldTheChunks' /\ MergedIsWhole' /\ FilesAreOfTheMerged'
  BY <1>1 DEF SnapshotInv, ShardsHoldTheChunks, ShardsTyped, MergedIsWhole, FilesAreOfTheMerged
<1> QED BY <1>4, <1>5 DEF SnapshotInv

(* The shards and one more.                                                 *)
WithShard(name, data) == [s \in DOMAIN shards \cup {name} |-> IF s = name THEN data ELSE shards[s]]

(* A shard is written beside those there are.                               *)
LEMMA ShardWritten ==
  ASSUME ShardsHoldTheChunks, NEW data \in Seq(Entries), NEW from \in Nat, NEW end \in Nat, NEW start,
         from <= lastEnd, lastEnd < end, end <= Len(AllAddresses),
         AddressesOf(data) = InChunks(from + 1, end),
         NEW name, name = <<start, end>>,
         shards' = WithShard(name, data),
         lastEnd' = end
  PROVE  ShardsHoldTheChunks'
<1>1. /\ lastEnd \in Nat /\ ShardsTyped
      /\ \A s \in DOMAIN shards : s[2] \in Nat /\ s[2] <= lastEnd
      /\ \A a : a \in InChunks(1, lastEnd) <=> \E s \in DOMAIN shards : a \in AddressesOf(shards[s])
  BY ChunksAreLists DEF ShardsHoldTheChunks
<1>2. name[2] = end
  OBVIOUS
<1>3. name \notin DOMAIN shards
  BY <1>1, <1>2
<1>4. /\ DOMAIN shards' = DOMAIN shards \cup {name} /\ shards'[name] = data
      /\ \A s \in DOMAIN shards : shards'[s] = shards[s]
      /\ shards' = [s \in DOMAIN shards' |-> shards'[s]]
  BY <1>3 DEF WithShard
<1>5. IsFiniteSet(DOMAIN shards')
  <2>1. PICK D : D = DOMAIN shards /\ IsFiniteSet(D)
    BY <1>1 DEF ShardsTyped
  <2>2. DOMAIN shards' = D \cup {name}
    BY <1>4, <2>1
  <2>3. IsFiniteSet(D \cup {name})
    BY ONLY <2>1, FS_AddElement
  <2> QED BY <2>2, <2>3
<1>6. ShardsTyped'
  BY <1>1, <1>4, <1>5 DEF ShardsTyped
<1>7. \A s \in DOMAIN shards' : s[2] \in Nat /\ s[2] <= lastEnd'
  <2> TAKE s \in DOMAIN shards'
  <2>1. CASE s = name
    BY <1>2, <2>1
  <2>2. CASE s \in DOMAIN shards
    BY <1>1, <2>2
  <2> QED BY <1>4, <2>1, <2>2
<1>8. InChunks(1, end) = InChunks(1, lastEnd) \cup InChunks(from + 1, end)
  BY <1>1, ChunksOverlap
<1>9. \A a : a \in InChunks(1, end) <=> \E s \in DOMAIN shards' : a \in AddressesOf(shards'[s])
  BY <1>1, <1>4, <1>8
<1>10. lastEnd' \in 0 .. Len(AllAddresses)
  BY ChunksAreLists
<1> QED BY <1>6, <1>7, <1>9, <1>10 DEF ShardsHoldTheChunks

LEMMA ChunkIsRead ==
  ASSUME SnapshotInv, job.running, NEW failing, ReadChunk(failing) PROVE SnapshotInv'
<1> DEFINE chunk == AllAddresses[job.i + 1]
           data == job.data \o [k \in DOMAIN chunk |->
                     CompleteData(reading, chunk[k], chunk[k] \in failing)]
           counter == job.counter + 1
           due == IsShardDue(counter, job.i)
           end == job.i + 1
           name == <<job.startIndex, end>>
<1>1. /\ shards' = IF due THEN [s \in DOMAIN shards \cup {name} |->
                                  IF s = name THEN data ELSE shards[s]]
                    ELSE shards
      /\ lastEnd' = IF due THEN end ELSE lastEnd
      /\ job' = IF end = Len(AllAddresses) THEN NoJob
                ELSE [job EXCEPT !.i = end, !.data = data,
                                 !.startIndex = IF due THEN end + 1 ELSE @,
                                 !.counter = IF due THEN 0 ELSE counter]
      /\ merged' = merged /\ files' = files /\ reading' = reading
  BY DEF ReadChunk
<1>2. /\ job \in Jobs /\ lastEnd \in Nat /\ Len(AllAddresses) \in Nat
      /\ job.from <= lastEnd /\ lastEnd <= job.i /\ job.i < Len(AllAddresses)
      /\ AddressesOf(job.data) = InChunks(job.from + 1, job.i)
      /\ ShardsHoldTheChunks /\ merged[reading] = <<>> /\ reading \in DataSets
  BY ChunksAreLists DEF SnapshotInv, JobHoldsItsRun, ShardsHoldTheChunks, MergedIsWhole
<1>3. job.i \in Nat /\ job.from \in Nat /\ job.data \in Seq(Entries) /\ job.startIndex \in Nat /\ job.counter \in Nat
  BY <1>2 DEF Jobs
<1>4. data \in Seq(Entries) /\ AddressesOf(data) = AddressesOf(job.data) \cup ToSet(chunk)
  <2>1. AllAddresses \in Seq(Seq(Holders)) /\ job.i + 1 \in 1 .. Len(AllAddresses)
    BY <1>2, <1>3, SnapshotAssumption
  <2>2. PICK set \in DataSets, l \in Seq(Entries), c \in Seq(Holders) :
          l = job.data /\ c = chunk /\ data = WithChunk(set, l, c, failing)
    <3>1. data = WithChunk(reading, job.data, chunk, failing)
      BY DEF WithChunk
    <3>2. chunk \in Seq(Holders)
      BY <2>1
    <3> HIDE DEF data, chunk
    <3> QED BY <1>2, <1>3, <3>1, <3>2
  <2> HIDE DEF data
  <2>3. data \in Seq(Entries) /\ AddressesOf(data) = AddressesOf(l) \cup ToSet(c)
    BY ONLY <2>2, ChunkAdds
  <2> QED BY <2>2, <2>3
<1>d. due \in BOOLEAN /\ (job.i = Len(AllAddresses) - 1 => due)
  BY DEF IsShardDue
<1> HIDE DEF data, chunk, due
<1>5. AddressesOf(data) = InChunks(job.from + 1, end)
  <2>1. InChunks(job.from + 1, job.i + 1) = InChunks(job.from + 1, job.i) \cup ToSet(AllAddresses[job.i + 1])
    <3>1. PICK i \in Nat, m \in Nat : i = job.i /\ m = job.from
      BY <1>3
    <3>2. m <= i /\ i < Len(AllAddresses)
      <4>1. PICK l \in Nat : l = lastEnd
        BY <1>2
      <4> QED BY <1>2, <3>1, <4>1
    <3>3. InChunks(m + 1, i + 1) = InChunks(m + 1, i) \cup ToSet(AllAddresses[i + 1])
      BY ONLY <3>1, <3>2, OneChunkMore
    <3> QED BY <3>1, <3>3
  <2> QED BY <1>2, <1>4, <2>1 DEF chunk
<1>6. end \in Nat /\ end <= Len(AllAddresses) /\ lastEnd < end
  BY <1>2, <1>3
<1>7. ShardsHoldTheChunks'
  <2>1. CASE due
    <3>1. shards' = WithShard(name, data) /\ lastEnd' = end
      BY <1>1, <2>1 DEF WithShard
    <3> HIDE DEF end
    <3>2. PICK p, start : p = name /\ p = <<start, end>>
      OBVIOUS
    <3> HIDE DEF name
    <3>3. PICK from \in Nat : from = job.from
      BY <1>3
    <3>4. shards' = WithShard(p, data) /\ from <= lastEnd /\ AddressesOf(data) = InChunks(from + 1, end)
      BY <1>2, <1>5, <3>1, <3>2, <3>3
    <3> QED BY ONLY <1>2, <1>4, <1>6, <3>1, <3>2, <3>3, <3>4, ShardWritten
  <2>2. CASE ~due
    <3>1. shards' = shards /\ lastEnd' = lastEnd
      BY <1>1, <2>2
    <3> QED BY <1>2, <3>1 DEF ShardsHoldTheChunks, ShardsTyped
  <2> QED BY <1>d, <2>1, <2>2
<1>8. JobHoldsItsRun'
  <2>1. CASE end = Len(AllAddresses)
    <3>1. job' = NoJob /\ ~job'.running
      BY <1>1, <2>1 DEF NoJob
    <3> QED BY <3>1 DEF JobHoldsItsRun
  <2>2. CASE end # Len(AllAddresses)
    <3>1. PICK s \in Nat, c \in Nat : job' = [job EXCEPT !.i = end, !.data = data, !.startIndex = s, !.counter = c]
      <4>1. CASE due
        <5>1. job' = [job EXCEPT !.i = end, !.data = data, !.startIndex = end + 1, !.counter = 0]
          BY <1>1, <2>2, <4>1
        <5>2. end + 1 \in Nat
          BY <1>6
        <5> QED BY <5>1, <5>2
      <4>2. CASE ~due
        <5>1. job' = [job EXCEPT !.i = end, !.data = data, !.startIndex = job.startIndex, !.counter = counter]
          BY <1>1, <2>2, <4>2
        <5>2. counter \in Nat
          BY <1>3
        <5> QED BY <1>3, <5>1, <5>2
      <4> QED BY <1>d, <4>1, <4>2
    <3> HIDE DEF end
    <3>2. job' \in Jobs /\ job'.running = TRUE /\ job'.from = job.from /\ job'.i = end /\ job'.data = data
      BY <1>2, <1>4, <1>6, <3>1 DEF Jobs
    <3>3. lastEnd' = end \/ lastEnd' = lastEnd
      BY <1>1
    <3>4. job.from <= lastEnd' /\ lastEnd' <= end /\ end < Len(AllAddresses)
      BY <1>2, <1>3, <1>6, <2>2, <3>3
    <3> QED BY <1>1, <1>2, <1>5, <3>2, <3>4 DEF JobHoldsItsRun
  <2> QED BY <2>1, <2>2
<1>9. MergedIsWhole' /\ FilesAreOfTheMerged'
  BY <1>1 DEF SnapshotInv, MergedIsWhole, FilesAreOfTheMerged
<1> QED BY <1>7, <1>8, <1>9 DEF SnapshotInv

LEMMA SnapshotStep == SnapshotInv /\ [SnapshotNext]_snapshotVars => SnapshotInv'
<1> SUFFICES ASSUME SnapshotInv, [SnapshotNext]_snapshotVars PROVE SnapshotInv'
  OBVIOUS
<1>1. CASE StartJob
  BY <1>1, JobStarts
<1>2. CASE JobFails
  <2>1. /\ job' = NoJob /\ ~job'.running
        /\ shards' = shards /\ lastEnd' = lastEnd /\ merged' = merged /\ files' = files
        /\ reading' = reading
    BY <1>2 DEF JobFails, NoJob
  <2> QED BY <2>1 DEF SnapshotInv, ShardsHoldTheChunks, ShardsTyped, JobHoldsItsRun, MergedIsWhole, FilesAreOfTheMerged
<1>3. CASE MergeAllShards
  <2>0. PICK order \in SetToSeqs(DOMAIN shards) : merged' = [merged EXCEPT ![reading] = Merge(order)]
    BY <1>3 DEF MergeAllShards
  <2>1. PICK m : m = Merge(order) /\ merged' = [merged EXCEPT ![reading] = m]
    BY <2>0
  <2>2. /\ job' = job /\ shards' = shards /\ lastEnd' = lastEnd /\ files' = files /\ reading' = reading
        /\ ~job.running /\ merged[reading] = <<>> /\ lastEnd = Len(AllAddresses)
    BY <1>3 DEF MergeAllShards
  <2>3. ShardsHoldTheChunks /\ ShardsTyped
    BY DEF SnapshotInv, ShardsHoldTheChunks
  <2>4. /\ m \in Seq(Entries) /\ IsSane(m)
        /\ \A a : a \in AddressesOf(m) <=> \E s \in DOMAIN shards : a \in AddressesOf(shards[s])
    BY <2>1, <2>3, MergeIs
  <2>5. AddressesOf(m) = InChunks(1, Len(AllAddresses))
    BY <2>2, <2>3, <2>4 DEF ShardsHoldTheChunks
  <2>6. IsWhole(m)
    BY <2>4, <2>5 DEF IsWhole
  <2>7. /\ reading \in DataSets /\ merged = [set \in DataSets |-> merged[set]]
        /\ \A set \in DataSets : merged[set] # <<>> => IsWhole(merged[set])
    BY DEF SnapshotInv, MergedIsWhole
  <2>8. merged' = [set \in DataSets |-> IF set = reading THEN m ELSE merged[set]]
    BY <2>1, <2>7
  <2>9. MergedIsWhole'
    <3>1. merged' = [set \in DataSets |-> merged'[set]]
      BY <2>8
    <3>2. ASSUME NEW set \in DataSets, merged'[set] # <<>> PROVE IsWhole(merged'[set])
      BY <2>6, <2>7, <2>8, <3>2
    <3> QED BY <2>2, <2>7, <3>1, <3>2 DEF MergedIsWhole
  <2>10. FilesAreOfTheMerged'
    <3> SUFFICES ASSUME NEW f \in DOMAIN files
                 PROVE  merged'[SourceOf(f)] = merged[SourceOf(f)]
      BY <2>2 DEF SnapshotInv, FilesAreOfTheMerged
    <3>1. merged[SourceOf(f)] # <<>> /\ SourceOf(f) \in DataSets
      BY DEF SnapshotInv, FilesAreOfTheMerged, SourceOf, DataSets
    <3> QED BY <2>2, <2>8, <3>1
  <2> QED BY <2>2, <2>9, <2>10 DEF SnapshotInv, ShardsHoldTheChunks, ShardsTyped, JobHoldsItsRun
<1>4. ASSUME NEW onlyHistory \in BOOLEAN, WriteFiles(onlyHistory) PROVE SnapshotInv'
  <2> DEFINE written == FilesWritten(onlyHistory)
             source == FileRead(onlyHistory)
  <2>1. /\ job' = job /\ shards' = shards /\ lastEnd' = lastEnd /\ merged' = merged /\ reading' = reading
        /\ merged[source] # <<>> /\ files' = WithFiles(onlyHistory, merged[source])
    BY <1>4 DEF WriteFiles
  <2>2. ASSUME NEW f \in written PROVE SourceOf(f) = source
    <3>1. onlyHistory <=> f = "distributionHistoryMap"
      BY <2>2 DEF FilesWritten
    <3> QED BY <3>1 DEF SourceOf, FileRead
  <2>3. /\ DOMAIN files' = DOMAIN files \cup written
        /\ \A f \in DOMAIN files' : files'[f] = IF f \in written THEN ProcessAllData(merged[source])[f] ELSE files[f]
    BY <2>1 DEF WithFiles
  <2> HIDE DEF written, source
  <2>4. ASSUME NEW f \in DOMAIN files'
        PROVE  merged[SourceOf(f)] # <<>> /\ files'[f] = ProcessAllData(merged[SourceOf(f)])[f]
    <3>1. CASE f \in written
      BY <2>1, <2>2, <2>3, <2>4, <3>1
    <3>2. CASE f \notin written
      BY <2>3, <2>4, <3>2 DEF SnapshotInv, FilesAreOfTheMerged
    <3> QED BY <3>1, <3>2
  <2>5. FilesAreOfTheMerged'
    BY <2>1, <2>4 DEF FilesAreOfTheMerged
  <2> QED BY <2>1, <2>5 DEF SnapshotInv, ShardsHoldTheChunks, ShardsTyped, JobHoldsItsRun, MergedIsWhole
<1>7. CASE ReadAfterLastElections
  <2>1. /\ job' = job /\ shards' = <<>> /\ lastEnd' = 0 /\ merged' = merged /\ files' = files
        /\ reading' = "AfterLastElections" /\ merged[reading] # <<>> /\ DOMAIN shards' = {}
    BY <1>7 DEF ReadAfterLastElections
  <2>2. ~job.running /\ job = NoJob
    BY <2>1 DEF SnapshotInv, JobHoldsItsRun
  <2>3. ShardsHoldTheChunks'
    <3>1. IsFiniteSet({})
      BY FS_EmptySet
    <3>2. InChunks(1, 0) = {}
      BY NoChunks
    <3>3. shards' = [s \in DOMAIN shards' |-> shards'[s]]
      BY <2>1
    <3> QED BY <2>1, <3>1, <3>2, <3>3, ChunksAreLists DEF ShardsHoldTheChunks, ShardsTyped
  <2>4. JobHoldsItsRun'
    BY <2>1, <2>2 DEF JobHoldsItsRun
  <2>5. MergedIsWhole' /\ FilesAreOfTheMerged'
    BY <2>1 DEF SnapshotInv, MergedIsWhole, FilesAreOfTheMerged, DataSets
  <2> QED BY <2>3, <2>4, <2>5 DEF SnapshotInv
<1>5. ASSUME job.running, NEW failing, ReadChunk(failing) PROVE SnapshotInv'
  BY <1>5, ChunkIsRead
<1>6. CASE UNCHANGED snapshotVars
  BY <1>6 DEF snapshotVars, SnapshotInv, ShardsHoldTheChunks, ShardsTyped, JobHoldsItsRun, MergedIsWhole, FilesAreOfTheMerged
<1> QED BY <1>1, <1>2, <1>3, <1>4, <1>5, <1>6, <1>7 DEF SnapshotNext

-----------------------------------------------------------------------------
(* What the page finds of an address is what its entry has.                 *)
FoundIn(f, a, entry, value, empty) ==
  IF a \in DOMAIN f THEN f[a] = value /\ value # empty ELSE value = empty \/ entry = EmptyCompleteAddressInfo

LEMMA MapsAreOfEntries ==
  ASSUME NEW set, NEW m, m = merged[set], m \in Seq(Entries), IsSane(m), NEW field, NEW empty, NEW a,
         NEW f, f = NonEmpty(m, field, empty)
  PROVE  FoundIn(f, a, EntryOf(set, a), EntryOf(set, a)[field], empty)
<1> DEFINE K == {j \in DOMAIN m : m[j].address = a}
           kept == {k \in DOMAIN m : m[k][field] # empty}
<1>1. /\ DOMAIN f = {m[k].address : k \in kept}
      /\ \A x \in DOMAIN f : f[x] = m[CHOOSE k \in kept : m[k].address = x][field]
  BY DEF NonEmpty
<1>2. \A i, j \in DOMAIN m : m[i].address = m[j].address => i = j
  BY DEF IsSane, IsInjective
<1>3. CASE K = {}
  <2>1. EntryOf(set, a) = EmptyCompleteAddressInfo
    BY <1>3 DEF EntryOf
  <2>2. a \notin DOMAIN f
    BY <1>1, <1>3
  <2> QED BY <2>1, <2>2 DEF FoundIn
<1>4. ASSUME NEW k \in K PROVE FoundIn(f, a, EntryOf(set, a), EntryOf(set, a)[field], empty)
  <2>1. k \in DOMAIN m /\ m[k].address = a /\ \A j \in K : j = k
    BY <1>2, <1>4
  <2>2. EntryOf(set, a) = m[CHOOSE j \in K : TRUE]
    BY <1>4 DEF EntryOf
  <2> HIDE DEF K
  <2>3. (CHOOSE j \in K : TRUE) = k
    BY <1>4, <2>1
  <2>4. EntryOf(set, a) = m[k]
    BY <2>2, <2>3
  <2>5. PICK value : value = m[k][field]
    OBVIOUS
  <2>6. CASE value = empty
    <3>1. a \notin DOMAIN f
      <4> SUFFICES ASSUME a \in DOMAIN f PROVE FALSE
        OBVIOUS
      <4>1. PICK j \in kept : m[j].address = a
        BY <1>1
      <4>2. j \in DOMAIN m /\ m[j][field] # empty
        BY <4>1
      <4>3. j = k
        BY <1>2, <2>1, <4>1, <4>2
      <4> QED BY <2>5, <2>6, <4>2, <4>3
    <3> QED BY <2>4, <2>5, <2>6, <3>1 DEF FoundIn
  <2>7. CASE value # empty
    <3>1. k \in kept /\ \A j \in kept : m[j].address = a => j = k
      BY <1>2, <2>1, <2>5, <2>7
    <3> HIDE DEF kept
    <3>2. a \in DOMAIN f
      BY <1>1, <2>1, <3>1
    <3>3. (CHOOSE j \in kept : m[j].address = a) = k
      BY <2>1, <3>1
    <3>4. f[a] = value
      BY <1>1, <2>5, <3>2, <3>3
    <3> QED BY <2>4, <2>5, <2>7, <3>2, <3>4 DEF FoundIn
  <2> QED BY <2>6, <2>7
<1> QED BY <1>3, <1>4

(* Once loaded, a file with an empty value of the page's own gives what the *)
(* entry has.                                                               *)
IsOfFile(key, a, entry, value, empty) ==
  FoundIn(files[key], a, entry, value, empty) /\ (entry = EmptyCompleteAddressInfo => value = empty)

Got(key, there, none) == IF Loaded(key) THEN there ELSE none

LEMMA FoundIsTheEntrys ==
  \A key, a, entry, value, empty :
    IsOfFile(key, a, entry, value, empty) => Found(key, a, empty) = Got(key, value, empty)
<1> TAKE key, a, entry, value, empty
<1> QED BY DEF Found, FoundIn, IsOfFile, Got

(* The fields of an entry, and those of none.                               *)
LEMMA NothingShown ==
  /\ EmptyCompleteAddressInfo.rewardsSummary = EMPTY_REWARDS_SUMMARY
  /\ EmptyCompleteAddressInfo.distributionsHistory = EMPTY_DISTRIBUTION_HISTORY
  /\ EmptyCompleteAddressInfo.guardianInfo = EMPTY_GUARDIAN_INFO
  /\ EmptyCompleteAddressInfo.stakingInfo = EMPTY_STAKING_INFO
  /\ EMPTY_GUARDIAN_INFO.voted = FALSE /\ EMPTY_GUARDIAN_INFO.hasEligibleVote = FALSE
  /\ EMPTY_STAKING_INFO.stakedOrbs = 0
<1>1. /\ EmptyCompleteAddressInfo.rewardsSummary = EMPTY_REWARDS_SUMMARY
      /\ EmptyCompleteAddressInfo.distributionsHistory = EMPTY_DISTRIBUTION_HISTORY
      /\ EmptyCompleteAddressInfo.guardianInfo = EMPTY_GUARDIAN_INFO
      /\ EmptyCompleteAddressInfo.stakingInfo = EMPTY_STAKING_INFO
  BY DEF EmptyCompleteAddressInfo
<1>2. /\ EMPTY_GUARDIAN_INFO.voted = FALSE /\ EMPTY_GUARDIAN_INFO.hasEligibleVote = FALSE
      /\ EMPTY_STAKING_INFO.stakedOrbs = 0
  BY DEF EMPTY_GUARDIAN_INFO, EMPTY_STAKING_INFO
<1> QED BY <1>1, <1>2

LEMMA FilesAreMaps ==
  ASSUME NEW m
  PROVE  /\ ProcessAllData(m)["guardianInfoMap"] = NonEmpty(m, "guardianInfo", EMPTY_GUARDIAN_INFO)
         /\ ProcessAllData(m)["delegatorInfoMap"] = NonEmpty(m, "delegatorInfo", EMPTY_DELEGATOR_INFO)
         /\ ProcessAllData(m)["stakingInfoMap"] = NonEmpty(m, "stakingInfo", EMPTY_STAKING_INFO)
         /\ ProcessAllData(m)["rewardsSummaryMap"] = NonEmpty(m, "rewardsSummary", EMPTY_REWARDS_SUMMARY)
         /\ ProcessAllData(m)["distributionHistoryMap"]
              = NonEmpty(m, "distributionsHistory", EMPTY_DISTRIBUTION_HISTORY)
  BY DEF ProcessAllData, DelegatorInfos

(* What the files hold once all of them are written.                        *)
LEMMA FilesOfTheSets ==
  ASSUME SnapshotInv, DOMAIN files = Files, NEW s, s = merged["Snapshot"], NEW l, l = merged["AfterLastElections"]
  PROVE  /\ IsWhole(s) /\ IsWhole(l)
         /\ files["guardianInfoMap"] = NonEmpty(s, "guardianInfo", EMPTY_GUARDIAN_INFO)
         /\ files["delegatorInfoMap"] = NonEmpty(s, "delegatorInfo", EMPTY_DELEGATOR_INFO)
         /\ files["stakingInfoMap"] = NonEmpty(s, "stakingInfo", EMPTY_STAKING_INFO)
         /\ files["rewardsSummaryMap"] = NonEmpty(s, "rewardsSummary", EMPTY_REWARDS_SUMMARY)
         /\ files["distributionHistoryMap"] = NonEmpty(l, "distributionsHistory", EMPTY_DISTRIBUTION_HISTORY)
<1>1. /\ SourceOf("guardianInfoMap") = "Snapshot" /\ SourceOf("delegatorInfoMap") = "Snapshot"
      /\ SourceOf("stakingInfoMap") = "Snapshot" /\ SourceOf("rewardsSummaryMap") = "Snapshot"
      /\ SourceOf("distributionHistoryMap") = "AfterLastElections"
  BY DEF SourceOf
<1>2. ASSUME NEW f \in Files
      PROVE  merged[SourceOf(f)] # <<>> /\ files[f] = ProcessAllData(merged[SourceOf(f)])[f]
  BY DEF SnapshotInv, FilesAreOfTheMerged
<1>3. /\ "guardianInfoMap" \in Files /\ "delegatorInfoMap" \in Files /\ "stakingInfoMap" \in Files
      /\ "rewardsSummaryMap" \in Files /\ "distributionHistoryMap" \in Files
  BY DEF Files
<1>4. s # <<>> /\ l # <<>>
  BY <1>1, <1>2, <1>3
<1>5. IsWhole(s) /\ IsWhole(l)
  BY <1>4 DEF SnapshotInv, MergedIsWhole, DataSets
<1>6. /\ files["guardianInfoMap"] = ProcessAllData(s)["guardianInfoMap"]
      /\ files["delegatorInfoMap"] = ProcessAllData(s)["delegatorInfoMap"]
      /\ files["stakingInfoMap"] = ProcessAllData(s)["stakingInfoMap"]
      /\ files["rewardsSummaryMap"] = ProcessAllData(s)["rewardsSummaryMap"]
      /\ files["distributionHistoryMap"] = ProcessAllData(l)["distributionHistoryMap"]
  BY <1>1, <1>2, <1>3
<1> QED BY <1>5, <1>6, FilesAreMaps

LEMMA SnapshotIsShown == SnapshotInv => PageShowsTheSnapshot
<1> SUFFICES ASSUME SnapshotInv PROVE PageShowsTheSnapshot
  OBVIOUS
<1>1. EveryAddressOnce
  <2> SUFFICES ASSUME NEW set \in DataSets, merged[set] # <<>>
               PROVE  /\ {merged[set][k].address : k \in DOMAIN merged[set]} =
                            UNION {ToSet(c) : c \in ToSet(AllAddresses)}
                      /\ IsSane(merged[set])
    BY DEF EveryAddressOnce
  <2>1. AddressesOf(merged[set]) = InChunks(1, Len(AllAddresses)) /\ IsSane(merged[set])
    BY DEF SnapshotInv, MergedIsWhole, IsWhole
  <2>2. \A c : c \in ToSet(AllAddresses) <=> \E j \in 1 .. Len(AllAddresses) : AllAddresses[j] = c
    BY ChunksAreLists DEF ToSet
  <2>3. \A a : a \in UNION {ToSet(c) : c \in ToSet(AllAddresses)}
                 <=> \E j \in 1 .. Len(AllAddresses) : a \in ToSet(AllAddresses[j])
    BY <2>2
  <2>4. \A a : a \in InChunks(1, Len(AllAddresses))
                 <=> \E j \in 1 .. Len(AllAddresses) : a \in ToSet(AllAddresses[j])
    BY ChunksAreLists DEF InChunks
  <2>5. InChunks(1, Len(AllAddresses)) = UNION {ToSet(c) : c \in ToSet(AllAddresses)}
    BY <2>3, <2>4
  <2> QED BY <2>1, <2>5 DEF AddressesOf
<1>2. ShownIsTheEntry
  <2> DEFINE a == queryAddress
             entry == EntryOf("Snapshot", a)
             later == EntryOf("AfterLastElections", a)
             shown == AddressData(a)
             nothing == EmptyCompleteAddressInfo
  <2> SUFFICES ASSUME DOMAIN files = Files PROVE ShownIsTheEntry
    BY DEF ShownIsTheEntry
  <2>m. PICK s, l : s = merged["Snapshot"] /\ l = merged["AfterLastElections"]
    OBVIOUS
  <2>1. /\ IsWhole(s) /\ IsWhole(l) /\ s \in Seq(Entries) /\ IsSane(s) /\ l \in Seq(Entries) /\ IsSane(l)
        /\ files["guardianInfoMap"] = NonEmpty(s, "guardianInfo", EMPTY_GUARDIAN_INFO)
        /\ files["delegatorInfoMap"] = NonEmpty(s, "delegatorInfo", EMPTY_DELEGATOR_INFO)
        /\ files["stakingInfoMap"] = NonEmpty(s, "stakingInfo", EMPTY_STAKING_INFO)
        /\ files["rewardsSummaryMap"] = NonEmpty(s, "rewardsSummary", EMPTY_REWARDS_SUMMARY)
        /\ files["distributionHistoryMap"] = NonEmpty(l, "distributionsHistory", EMPTY_DISTRIBUTION_HISTORY)
    BY <2>m, FilesOfTheSets DEF IsWhole
  <2>2. shown.rewardsSummary = Got("rewardsSummaryMap", entry.rewardsSummary, nothing.rewardsSummary)
    <3>1. FoundIn(files["rewardsSummaryMap"], a, entry, entry.rewardsSummary, EMPTY_REWARDS_SUMMARY)
      BY <2>m, <2>1, MapsAreOfEntries
    <3>2. shown.rewardsSummary = Found("rewardsSummaryMap", a, EMPTY_REWARDS_SUMMARY)
      BY NothingShown DEF AddressData, StaticRewardsSummary
    <3> HIDE DEF a, entry, later, shown
    <3>3. (entry = EmptyCompleteAddressInfo => entry.rewardsSummary = EMPTY_REWARDS_SUMMARY) /\ nothing.rewardsSummary = EMPTY_REWARDS_SUMMARY
      BY NothingShown
    <3>4. PICK value, none : value = entry.rewardsSummary /\ none = EMPTY_REWARDS_SUMMARY
      OBVIOUS
    <3>5. IsOfFile("rewardsSummaryMap", a, entry, value, none)
      BY <3>1, <3>3, <3>4 DEF IsOfFile
    <3>6. Found("rewardsSummaryMap", a, none) = Got("rewardsSummaryMap", value, none)
      BY ONLY <3>5, FoundIsTheEntrys
    <3> QED BY <3>2, <3>3, <3>4, <3>6
  <2>3. shown.distributionsHistory
          = Got("distributionHistoryMap", later.distributionsHistory, nothing.distributionsHistory)
    <3>1. FoundIn(files["distributionHistoryMap"], a, later, later.distributionsHistory, EMPTY_DISTRIBUTION_HISTORY)
      BY <2>m, <2>1, MapsAreOfEntries
    <3>2. shown.distributionsHistory = Found("distributionHistoryMap", a, EMPTY_DISTRIBUTION_HISTORY)
      BY NothingShown DEF AddressData, StaticDistributionHistory
    <3> HIDE DEF a, entry, later, shown
    <3>3. (later = EmptyCompleteAddressInfo => later.distributionsHistory = EMPTY_DISTRIBUTION_HISTORY) /\ nothing.distributionsHistory = EMPTY_DISTRIBUTION_HISTORY
      BY NothingShown
    <3>4. PICK value, none : value = later.distributionsHistory /\ none = EMPTY_DISTRIBUTION_HISTORY
      OBVIOUS
    <3>5. IsOfFile("distributionHistoryMap", a, later, value, none)
      BY <3>1, <3>3, <3>4 DEF IsOfFile
    <3>6. Found("distributionHistoryMap", a, none) = Got("distributionHistoryMap", value, none)
      BY ONLY <3>5, FoundIsTheEntrys
    <3> QED BY <3>2, <3>3, <3>4, <3>6
  <2>4. shown.guardianInfo = Got("guardianInfoMap", entry.guardianInfo, nothing.guardianInfo)
    <3>1. FoundIn(files["guardianInfoMap"], a, entry, entry.guardianInfo, EMPTY_GUARDIAN_INFO)
      BY <2>m, <2>1, MapsAreOfEntries
    <3>2. shown.guardianInfo = Found("guardianInfoMap", a, EMPTY_GUARDIAN_INFO)
      BY NothingShown DEF AddressData, StaticGuardianInfo
    <3> HIDE DEF a, entry, later, shown
    <3>3. (entry = EmptyCompleteAddressInfo => entry.guardianInfo = EMPTY_GUARDIAN_INFO) /\ nothing.guardianInfo = EMPTY_GUARDIAN_INFO
      BY NothingShown
    <3>4. PICK value, none : value = entry.guardianInfo /\ none = EMPTY_GUARDIAN_INFO
      OBVIOUS
    <3>5. IsOfFile("guardianInfoMap", a, entry, value, none)
      BY <3>1, <3>3, <3>4 DEF IsOfFile
    <3>6. Found("guardianInfoMap", a, none) = Got("guardianInfoMap", value, none)
      BY ONLY <3>5, FoundIsTheEntrys
    <3> QED BY <3>2, <3>3, <3>4, <3>6
  <2>5. shown.stakingInfo = Got("stakingInfoMap", entry.stakingInfo, nothing.stakingInfo)
    <3>1. FoundIn(files["stakingInfoMap"], a, entry, entry.stakingInfo, EMPTY_STAKING_INFO)
      BY <2>m, <2>1, MapsAreOfEntries
    <3>2. shown.stakingInfo = Found("stakingInfoMap", a, EMPTY_STAKING_INFO)
      BY NothingShown DEF AddressData, StaticStakingInfo
    <3> HIDE DEF a, entry, later, shown
    <3>3. (entry = EmptyCompleteAddressInfo => entry.stakingInfo = EMPTY_STAKING_INFO) /\ nothing.stakingInfo = EMPTY_STAKING_INFO
      BY NothingShown
    <3>4. PICK value, none : value = entry.stakingInfo /\ none = EMPTY_STAKING_INFO
      OBVIOUS
    <3>5. IsOfFile("stakingInfoMap", a, entry, value, none)
      BY <3>1, <3>3, <3>4 DEF IsOfFile
    <3>6. Found("stakingInfoMap", a, none) = Got("stakingInfoMap", value, none)
      BY ONLY <3>5, FoundIsTheEntrys
    <3> QED BY <3>2, <3>3, <3>4, <3>6
  <2>6. /\ entry.delegatorInfo # EMPTY_DELEGATOR_INFO
             => shown.delegatorInfo = Got("delegatorInfoMap", entry.delegatorInfo, nothing.delegatorInfo)
        /\ entry.delegatorInfo = EMPTY_DELEGATOR_INFO => shown.delegatorInfo = nothing.delegatorInfo
    <3>1. FoundIn(files["delegatorInfoMap"], a, entry, entry.delegatorInfo, EMPTY_DELEGATOR_INFO)
      BY <2>m, <2>1, MapsAreOfEntries
    <3>2. shown.delegatorInfo = Found("delegatorInfoMap", a, nothing.delegatorInfo)
      BY DEF AddressData, StaticDelegatorInfo
    <3> HIDE DEF a, entry, later, shown
    <3>3. CASE entry = EmptyCompleteAddressInfo
      BY <3>1, <3>2, <3>3 DEF Found, FoundIn, Got
    <3>4. CASE entry # EmptyCompleteAddressInfo
      BY <3>1, <3>2, <3>4 DEF Found, FoundIn, Got
    <3> QED BY <3>3, <3>4
  <2>7. entry.guardianInfo.voted \in BOOLEAN /\ entry.guardianInfo.hasEligibleVote \in BOOLEAN
    <3>1. CASE entry = EmptyCompleteAddressInfo
      <4>1. entry.guardianInfo = EMPTY_GUARDIAN_INFO
        BY <3>1, NothingShown
      <4> QED BY <4>1, NothingShown
    <3>2. CASE entry # EmptyCompleteAddressInfo
      <4>1. PICK K : K = {j \in DOMAIN s : s[j].address = a}
        OBVIOUS
      <4>2. K # {} /\ entry = s[CHOOSE j \in K : TRUE]
        BY <2>m, <3>2, <4>1 DEF EntryOf
      <4>3. PICK j \in K : entry = s[j]
        BY <4>2
      <4>4. entry \in Entries
        BY <2>1, <4>1, <4>3
      <4> HIDE DEF entry
      <4> QED BY <4>4, EntryShape
    <3> QED BY <3>1, <3>2
  <2> HIDE DEF shown, nothing, entry, later
  <2>8. ASSUME NEW key
        PROVE  /\ (Loaded(key) \/ ~Loaded(key))
               /\ Loaded(key) => \A x, y : Got(key, x, y) = x
               /\ ~Loaded(key) => \A x, y : Got(key, x, y) = y
    BY DEF Got
  <2>9. \A d : /\ Rendered(d)["rewards"] = RewardsTable(d.rewardsSummary)
               /\ Rendered(d)["history"] = RewardsHistoryTable(d.distributionsHistory)
               /\ Rendered(d)["delegation"] = DelegationInfoTable(d)
               /\ Rendered(d).guardianAndStake = GuardianAndStakeRows(d)
    BY DEF Rendered
  <2>10. \A d, e : d.delegatorInfo = e.delegatorInfo => DelegationInfoTable(d) = DelegationInfoTable(e)
    BY DEF DelegationInfoTable
  <2> DEFINE Shows(which, key, from) ==
               Rendered(shown)[which]
                 = IF Loaded(key) THEN Rendered(from)[which] ELSE Rendered(nothing)[which]
  <2>11. Shows("rewards", "rewardsSummaryMap", entry)
    BY <2>2, <2>8, <2>9
  <2>12. Shows("history", "distributionHistoryMap", later)
    BY <2>3, <2>8, <2>9
  <2>13. entry.delegatorInfo # EMPTY_DELEGATOR_INFO => Shows("delegation", "delegatorInfoMap", entry)
    BY <2>6, <2>8, <2>9, <2>10
  <2>14. entry.delegatorInfo = EMPTY_DELEGATOR_INFO => Rendered(shown).delegation = Rendered(nothing).delegation
    BY <2>6, <2>9, <2>10
  <2>15. Rendered(shown).guardianAndStake
           = [voted |-> Loaded("guardianInfoMap") /\ entry.guardianInfo.voted,
              eligible |-> Loaded("guardianInfoMap") /\ entry.guardianInfo.hasEligibleVote,
              stakedOrbs |-> IF Loaded("stakingInfoMap") THEN entry.stakingInfo.stakedOrbs ELSE 0]
    <3>1. /\ shown.guardianInfo.voted = (Loaded("guardianInfoMap") /\ entry.guardianInfo.voted)
          /\ shown.guardianInfo.hasEligibleVote = (Loaded("guardianInfoMap") /\ entry.guardianInfo.hasEligibleVote)
      <4>1. CASE Loaded("guardianInfoMap")
        BY <2>4, <2>7, <2>8, <4>1
      <4>2. CASE ~Loaded("guardianInfoMap")
        <5>1. shown.guardianInfo = EMPTY_GUARDIAN_INFO
          BY <2>4, <2>8, <4>2, NothingShown DEF nothing
        <5> QED BY <4>2, <5>1, NothingShown
      <4> QED BY <4>1, <4>2
    <3>2. shown.stakingInfo.stakedOrbs = IF Loaded("stakingInfoMap") THEN entry.stakingInfo.stakedOrbs ELSE 0
      BY <2>5, <2>8, NothingShown DEF nothing
    <3>3. Rendered(shown).guardianAndStake
            = [voted |-> shown.guardianInfo.voted, eligible |-> shown.guardianInfo.hasEligibleVote,
               stakedOrbs |-> shown.stakingInfo.stakedOrbs]
      BY <2>9 DEF GuardianAndStakeRows
    <3> QED BY <3>1, <3>2, <3>3
  <2> QED BY <2>11, <2>12, <2>13, <2>14, <2>15 DEF ShownIsTheEntry, shown, nothing, entry, later
<1> QED BY <1>1, <1>2 DEF PageShowsTheSnapshot

-----------------------------------------------------------------------------
(* The proxy answers each call with its own read and no route takes         *)
(* another's; the shards merged before the last elections and those merged  *)
(* after them have each address once, and the rewards page, whatever it has *)
(* loaded of the seven files, shows of an address the history its entry has *)
(* among the later and for the rest what its entry has among the earlier;   *)
(* and the guardians' table is of a node that was in sync, with shares of   *)
(* the node's window, the committee's icons and cuts that come together.    *)
(* For any addresses, chunks, failed reads, orders of the shards,           *)
(* committees, events, ranges and clocks.                                   *)
THEOREM WhatIsKeptIsShown == ProxySpec /\ SnapshotSpec /\ NodeSpec => []ShownIsWhatIsKept
<1>1. CallsInv /\ SnapshotInv /\ NodeInv => ShownIsWhatIsKept
  BY AsMeantIsByItsRead, SnapshotIsShown, SoundIsShown DEF ShownIsWhatIsKept
<1>2. ProxySpec => []CallsInv
  BY CallsStartAsMeant, CallsStayAsMeant, PTL DEF ProxySpec
<1>3. SnapshotSpec => []SnapshotInv
  BY SnapshotStarts, SnapshotStep, PTL DEF SnapshotSpec
<1>4. NodeSpec => []NodeInv
  BY NodeStartsSound, NodeStepSound, PTL DEF NodeSpec
<1> QED
  BY <1>1, <1>2, <1>3, <1>4, PTL

=============================================================================
