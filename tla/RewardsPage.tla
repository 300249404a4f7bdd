---------------------------- MODULE RewardsPage ----------------------------
(***************************************************************************)
(* The rewards page.  It loads the seven static files, each by a query of   *)
(* its own that may be answered before or after any other or fail, and      *)
(* looks the address of the URL up in those that are there.                 *)
(***************************************************************************)
EXTENDS RewardsSnapshot

CONSTANTS
  Typed,    \* what a user may ask for
  MaxErrors \* bound: files that cannot be loaded

VARIABLES
  queries,      \* of each file: loading, loaded or failed
  queryAddress, \* the address in the URL, or "" for none
  formAddress   \* the text of the input

pageVars == <<queries, queryAddress, formAddress>>

-----------------------------------------------------------------------------
(* The hooks                                                                *)

Loaded(key) == queries[key] = "loaded"

Found(key, address, empty) ==
  IF Loaded(key) /\ address \in DOMAIN files[key] THEN files[key][address] ELSE empty

HasActiveDelegation(address) ==
  Loaded("hasActiveDelegationSet") /\ address \in files.hasActiveDelegationSet

IsDelegatingToValidGuardian(address) ==
  Loaded("delegatingToValidGuardianSet") /\ address \in files.delegatingToValidGuardianSet

StaticDelegatorInfo(address, empty) == Found("delegatorInfoMap", address, empty)
StaticDistributionHistory(address, empty) == Found("distributionHistoryMap", address, empty)
StaticGuardianInfo(address, empty) == Found("guardianInfoMap", address, empty)
StaticRewardsSummary(address, empty) == Found("rewardsSummaryMap", address, empty)
StaticStakingInfo(address, empty) == Found("stakingInfoMap", address, empty)

EmptyCompleteAddressInfo ==
  [hasActiveDelegation |-> FALSE,
   delegatingToValidGuardian |-> FALSE,
   delegatorInfo |-> [delegatorBalance |-> 0, delegationType |-> "", delegatedTo |-> "",
                      delegationBlockNumber |-> "0", delegationTimestamp |-> "0"],
   distributionsHistory |-> EMPTY_DISTRIBUTION_HISTORY,
   guardianInfo |-> EMPTY_GUARDIAN_INFO,
   rewardsSummary |-> EMPTY_REWARDS_SUMMARY,
   stakingInfo |-> EMPTY_STAKING_INFO]

AddressData(address) ==
  LET e == EmptyCompleteAddressInfo
  IN [hasActiveDelegation |-> HasActiveDelegation(address),
      delegatingToValidGuardian |-> IsDelegatingToValidGuardian(address),
      delegatorInfo |-> StaticDelegatorInfo(address, e.delegatorInfo),
      distributionsHistory |-> StaticDistributionHistory(address, e.distributionsHistory),
      guardianInfo |-> StaticGuardianInfo(address, e.guardianInfo),
      rewardsSummary |-> StaticRewardsSummary(address, e.rewardsSummary),
      stakingInfo |-> StaticStakingInfo(address, e.stakingInfo)]

-----------------------------------------------------------------------------
(* What the tables show                                                     *)

DelegationInfoTable(data) ==
  LET info == data.delegatorInfo
      delegated == info.delegationType # NOT_DELEGATED
  IN [nonStakedOrbs |-> info.delegatorBalance,
      delegatedTo |-> IF delegated THEN info.delegatedTo ELSE "-",
      blockNumber |-> IF delegated THEN info.delegationBlockNumber ELSE "-",
      timestamp |-> IF ~delegated THEN "-"
                    ELSE IF info.delegationTimestamp # "0" THEN info.delegationTimestamp ELSE "--",
      method |-> info.delegationType]

GuardianAndStakeRows(data) ==
  [voted |-> data.guardianInfo.voted, eligible |-> data.guardianInfo.hasEligibleVote,
   stakedOrbs |-> data.stakingInfo.stakedOrbs]

RewardsTable(summary) ==
  [delegator |-> summary.delegatorReward, guardian |-> summary.guardianReward,
   validator |-> summary.validatorReward,
   total |-> summary.delegatorReward + summary.guardianReward + summary.validatorReward]

RewardsHistoryTable(history) ==
  [rows |-> history, total |-> FoldFunction(+, 0, history)]

Rendered(data) ==
  [delegation |-> DelegationInfoTable(data), guardianAndStake |-> GuardianAndStakeRows(data),
   rewards |-> RewardsTable(data.rewardsSummary),
   history |-> RewardsHistoryTable(data.distributionsHistory)]

-----------------------------------------------------------------------------
PageInit ==
  /\ queries = [f \in Files |-> "loading"]
  /\ queryAddress = "" /\ formAddress = ""

QuerySettles(key) ==
  /\ queries[key] = "loading"
  /\ \/ queries' = [queries EXCEPT ![key] = "loaded"]
     \/ /\ Cardinality({f \in Files : queries[f] = "failed"}) < MaxErrors
        /\ queries' = [queries EXCEPT ![key] = "failed"]
  /\ UNCHANGED <<queryAddress, formAddress>>

TypeAddress(text) ==
  formAddress' = text /\ UNCHANGED <<queries, queryAddress>>

(* submitHandler                                                            *)
Submit ==
  /\ queryAddress' = formAddress
  /\ UNCHANGED <<queries, formAddress>>

(* Back, forward or a link: the effect puts the new address in the input.   *)
Navigate(address) ==
  /\ queryAddress' = address
  /\ formAddress' = IF address # "" THEN address ELSE formAddress
  /\ UNCHANGED queries

PageNext ==
  \/ \E key \in Files : QuerySettles(key)
  \/ \E text \in Typed : TypeAddress(text)
  \/ Submit
  \/ \E address \in Typed \cup {""} : Navigate(address)

-----------------------------------------------------------------------------
EntryOf(set, address) ==
  LET k == {j \in DOMAIN merged[set] : merged[set][j].address = address}
  IN IF k = {} THEN EmptyCompleteAddressInfo ELSE merged[set][CHOOSE j \in k : TRUE]

(* Delegation, guardian and stake and rewards of the address in the URL are *)
(* those of its entry in the snapshot, and the history is that of its entry *)
(* among those read after the last elections, once their files are loaded,  *)
(* whatever was shown before; until then or when a file fails they are      *)
(* those of an empty entry, never another's.  The entries of which          *)
(* processAllData leaves the delegation out (none, and no balance) are the  *)
(* exception: the page shows its own empty delegation, not Not-Delegated.   *)
ShownIsTheEntry ==
  LET shown == Rendered(AddressData(queryAddress))
      entry == EntryOf("Snapshot", queryAddress)
      later == EntryOf("AfterLastElections", queryAddress)
      nothing == Rendered(EmptyCompleteAddressInfo)
      Shows(part, key, from) ==
        shown[part] = IF Loaded(key) THEN Rendered(from)[part] ELSE nothing[part]
  IN DOMAIN files = Files =>
       /\ Shows("rewards", "rewardsSummaryMap", entry)
       /\ Shows("history", "distributionHistoryMap", later)
       /\ entry.delegatorInfo # EMPTY_DELEGATOR_INFO => Shows("delegation", "delegatorInfoMap", entry)
       /\ entry.delegatorInfo = EMPTY_DELEGATOR_INFO => shown.delegation = nothing.delegation
       /\ shown.guardianAndStake =
            [voted |-> Loaded("guardianInfoMap") /\ entry.guardianInfo.voted,
             eligible |-> Loaded("guardianInfoMap") /\ entry.guardianInfo.hasEligibleVote,
             stakedOrbs |-> IF Loaded("stakingInfoMap") THEN entry.stakingInfo.stakedOrbs ELSE 0]

(* From the shards of an interrupted job to the tables of an address.       *)
PageShowsTheSnapshot == EveryAddressOnce /\ ShownIsTheEntry

=============================================================================
