---------------------------- MODULE OrbsGuardians ----------------------------
(***************************************************************************)
(* The register of guardians and the page that registers them.  The         *)
(* contract keeps a list and, for each guardian, its index in the list: who *)
(* leaves is replaced by the last.  Each guardian has a deposit in it.  The *)
(* page (MetamaskService.registerGuardian) asks for the account, reads      *)
(* whether it is a guardian, and then registers or updates it.              *)
(***************************************************************************)
EXTENDS Integers, SequencesExt, FiniteSetsExt

CONSTANTS
  Candidates,             \* accounts
  Names,                  \* what one may register with: names that are not empty
  NoName,
  registrationDepositWei,
  registrationMinTime,
  MaxGuardianTime,        \* bound: time
  MaxGuardianRequests     \* bound: registrations from the page

ASSUME DepositAssumption ==
  /\ registrationDepositWei \in Nat \ {0}
  /\ {registrationMinTime, MaxGuardianTime, MaxGuardianRequests} \subseteq Nat
  /\ IsFiniteSet(Candidates)

VARIABLES
  guardians,       \* the list
  guardiansData,   \* of each account: [index, name, registeredOn]
  depositsHeld,    \* the contract's ether
  guardianTime,    \* now, from 1
  guardianRequests \* of the page: [at, name, from, method]

guardianContractVars == <<guardians, guardiansData, depositsHeld>>
guardianVars == <<guardianContractVars, guardianTime, guardianRequests>>

-----------------------------------------------------------------------------
(* The contract.  Indexes count from 0.                                     *)

NoGuardian == [index |-> 0, name |-> NoName, registeredOn |-> 0]

IsGuardian(account) == guardiansData[account].registeredOn > 0

AcceptsRegistration(sender, value) == ~IsGuardian(sender) /\ value = registrationDepositWei

RegisterGuardian(sender, name, value) ==
  /\ AcceptsRegistration(sender, value)
  /\ guardians' = Append(guardians, sender)
  /\ guardiansData' = [guardiansData EXCEPT ![sender] =
                         [index |-> Len(guardians), name |-> name, registeredOn |-> guardianTime]]
  /\ depositsHeld' = depositsHeld + value

AcceptsUpdateWithValue(sender, value) == IsGuardian(sender)

(* Not payable: a call that comes with ether is refused.                    *)
AcceptsUpdate(sender, value) == IsGuardian(sender) /\ value = 0

UpdateGuardian(sender, name, value) ==
  /\ AcceptsUpdate(sender, value)
  /\ guardiansData' = [guardiansData EXCEPT ![sender].name = name]
  /\ depositsHeld' = depositsHeld + value
  /\ UNCHANGED guardians

GuardianLeaves(sender) ==
  /\ IsGuardian(sender)
  /\ guardianTime >= guardiansData[sender].registeredOn + registrationMinTime
  /\ LET i == guardiansData[sender].index
         last == guardians[Len(guardians)]
     IN /\ guardians[i + 1] = sender
        /\ guardians' = SubSeq([guardians EXCEPT ![i + 1] = last], 1, Len(guardians) - 1)
        /\ guardiansData' = [[guardiansData EXCEPT ![last].index = i] EXCEPT ![sender] = NoGuardian]
  /\ depositsHeld' = depositsHeld - registrationDepositWei

GetGuardians(offset, limit) ==
  IF offset >= Len(guardians) THEN <<>>
  ELSE SubSeq(guardians, offset + 1,
              IF offset + limit > Len(guardians) THEN Len(guardians) ELSE offset + limit)

-----------------------------------------------------------------------------
(* The page                                                                 *)

GuardiansInit ==
  /\ guardians = <<>> /\ guardiansData = [a \in Candidates |-> NoGuardian]
  /\ depositsHeld = 0 /\ guardianTime = 1 /\ guardianRequests = <<>>

AddGuardian(name) ==
  /\ Len(guardianRequests) < MaxGuardianRequests
  /\ \E account \in Candidates :
       guardianRequests' = Append(guardianRequests,
         [at |-> "enabled", name |-> name, from |-> account, method |-> "none"])
  /\ UNCHANGED <<guardianContractVars, guardianTime>>

ChooseGuardianMethod(i) ==
  /\ guardianRequests[i].at = "enabled"
  /\ guardianRequests' =
       [guardianRequests EXCEPT
          ![i].at = "sent",
          ![i].method = IF IsGuardian(guardianRequests[i].from) THEN "update" ELSE "register"]
  /\ UNCHANGED <<guardianContractVars, guardianTime>>

(* The deposit is sent along in either case; the user may not sign.         *)
GuardianRequestMined(i) ==
  /\ guardianRequests[i].at = "sent"
  /\ LET r == guardianRequests[i]
         value == registrationDepositWei
     IN \/ /\ \/ r.method = "register" /\ RegisterGuardian(r.from, r.name, value)
              \/ r.method = "update" /\ UpdateGuardian(r.from, r.name, value)
           /\ guardianRequests' = [guardianRequests EXCEPT ![i].at = "mined"]
        \/ /\ ~(IF r.method = "register" THEN AcceptsRegistration(r.from, value)
                ELSE AcceptsUpdate(r.from, value))
           /\ guardianRequests' = [guardianRequests EXCEPT ![i].at = "refused"]
           /\ UNCHANGED guardianContractVars
        \/ /\ guardianRequests' = [guardianRequests EXCEPT ![i].at = "unsigned"]
           /\ UNCHANGED guardianContractVars
  /\ UNCHANGED guardianTime

(* Who calls the contract by other means.                                   *)
GuardianCalls ==
  /\ \E sender \in Candidates :
       \/ \E name \in Names :
            \/ RegisterGuardian(sender, name, registrationDepositWei)
            \/ UpdateGuardian(sender, name, 0)
       \/ GuardianLeaves(sender)
  /\ UNCHANGED <<guardianTime, guardianRequests>>

GuardianTimePasses ==
  /\ guardianTime < MaxGuardianTime /\ guardianTime' = guardianTime + 1
  /\ UNCHANGED <<guardianContractVars, guardianRequests>>

GuardiansNext ==
  \/ GuardianCalls \/ GuardianTimePasses
  \/ \E name \in Names : AddGuardian(name)
  \/ \E i \in DOMAIN guardianRequests : ChooseGuardianMethod(i) \/ GuardianRequestMined(i)

GuardiansSpec == GuardiansInit /\ [][GuardiansNext]_guardianVars

-----------------------------------------------------------------------------
GuardiansTypeOK ==
  /\ guardians \in Seq(Candidates)
  /\ guardiansData \in [Candidates ->
                          [index : Nat, name : Names \cup {NoName}, registeredOn : Nat]]
  /\ depositsHeld \in Nat /\ guardianTime \in Nat \ {0}
  /\ guardianRequests \in Seq([at : {"enabled", "sent", "mined", "refused", "unsigned"}, name : Names,
                               from : Candidates, method : {"none", "register", "update"}])

(* The list and the indexes are inverse and hold exactly the guardians,     *)
(* each once, whoever left from the middle and came back: leave() relies on *)
(* it with an assert that would burn all gas and hold the deposit for ever. *)
RosterIsExact ==
  /\ \A i \in DOMAIN guardians :
       IsGuardian(guardians[i]) /\ guardiansData[guardians[i]].index = i - 1
  /\ \A a \in Candidates :
       IsGuardian(a) => /\ guardiansData[a].index + 1 \in DOMAIN guardians
                        /\ guardians[guardiansData[a].index + 1] = a

(* The contract holds one deposit for each guardian: all can be taken back, *)
(* and no ether is left that nobody can take, though the page sends a       *)
(* deposit with every request.                                              *)
DepositsAreHeld == depositsHeld = registrationDepositWei * Len(guardians)

(* Who left took one deposit and one place, and nobody else's.              *)
GuardiansAreExact == GuardiansTypeOK /\ RosterIsExact /\ DepositsAreHeld

(* The instructions for guardians: "A Guardian may update her registration  *)
(* data at any time".  From the page it never is taken, since the page      *)
(* sends the deposit along.                                                 *)
UpdatesAreTaken ==
  [][\A i \in DOMAIN guardianRequests :
       LET r == guardianRequests[i]
       IN r.at = "sent" /\ r.method = "update" /\ IsGuardian(r.from)
            => guardianRequests'[i].at # "refused"]_guardianVars

-----------------------------------------------------------------------------
(* The Elections contract and the status page read the guardians page after *)
(* page, as of one block, until one comes back short.                       *)
ReadGuardiansFromEthereum(pageSize) ==
  LET page(k) == GetGuardians(k * pageSize, pageSize)
      lastPage == Min({k \in 0..Len(guardians) : Len(page(k)) < pageSize})
  IN FlattenSeq([k \in 1..(lastPage + 1) |-> page(k - 1)])

(* The pages are the list, whatever their size and also when the last one   *)
(* is full.                                                                 *)
PagesAreTheList ==
  \A pageSize \in 1..(Cardinality(Candidates) + 1) :
    ReadGuardiansFromEthereum(pageSize) = guardians

=============================================================================
