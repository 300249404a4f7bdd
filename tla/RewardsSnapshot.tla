-------------------------- MODULE RewardsSnapshot --------------------------
(***************************************************************************)
(* The scripts that froze the rewards page: a job reads everything about    *)
(* each address that ever held ORBS, chunk by chunk, and writes shards; it  *)
(* ends at the first read that keeps failing and the operator starts it     *)
(* again; the shards are merged, and the merged file is split into the      *)
(* files the page reads, one for each field, without the empty values.  All *)
(* this is done twice, before the last elections and after them, as after   *)
(* them the data of guardians that have left is missing: only the history   *)
(* of the distributions is taken from what was read after.                  *)
(***************************************************************************)
EXTENDS Integers, SequencesExt, FiniteSetsExt

CONSTANTS
  AllAddresses,   \* allAddressesThatEverHeldOrbs, in chunks
  World,          \* in each data set of each address:
                  \* [type, to, valid, readable, balance, staked, rewards, history]
  CHUNKS_A_SHARD, \* 5 in the code
  EMPTY_ADDRESS,
  MaxRuns,        \* bound: runs of the job for a data set
  MaxFailures     \* bound: delegation reads that fail though the next would not

(* allAddressesDataSnapshot.json and allAddressesDataAfterLastElections.json *)
DataSets == {"Snapshot", "AfterLastElections"}

(* The chunks are lists of addresses.                                       *)
Holders == DOMAIN World["Snapshot"]

ASSUME SnapshotAssumption == AllAddresses \in Seq(Seq(Holders))

VARIABLES
  reading,  \* the data set that is read
  job,      \* [running, from, i, startIndex, counter, data]
  runs, failures,
  shards,   \* the files: <<startIndex, endIndex>> to entries
  lastEnd,  \* endIndex of the last one written
  merged,   \* of each data set its merged file, or <<>>
  files     \* staticDataToUse: what was written, by file

snapshotVars == <<reading, job, runs, failures, shards, lastEnd, merged, files>>

NOT_DELEGATED == "Not-Delegated"

EMPTY_GUARDIAN_INFO == [voted |-> FALSE, hasEligibleVote |-> FALSE, name |-> ""]
EMPTY_DELEGATOR_INFO ==
  [delegatorBalance |-> 0, delegationType |-> NOT_DELEGATED, delegatedTo |-> EMPTY_ADDRESS]
EMPTY_STAKING_INFO == [stakedOrbs |-> 0]
EMPTY_REWARDS_SUMMARY == [delegatorReward |-> 0, guardianReward |-> 0, validatorReward |-> 0]
EMPTY_DISTRIBUTION_HISTORY == <<>>

-----------------------------------------------------------------------------
(* What is read of an address.  Only the delegation and the guardian may    *)
(* fail without failing the whole: nothing is retried for them.             *)

(* The answer of /delegation: no block or time when there is no delegation. *)
DelegationAnswer(set, address) ==
  LET w == World[set][address]
      answer == [delegatorBalance |-> w.balance, delegationType |-> w.type, delegatedTo |-> w.to]
  IN IF w.type = NOT_DELEGATED THEN answer
     ELSE answer @@ [delegationBlockNumber |-> "block", delegationTimestamp |-> "time"]

FailedDelegation ==
  [delegatorBalance |-> 0, delegationType |-> NOT_DELEGATED, delegatedTo |-> EMPTY_ADDRESS,
   delegationBlockNumber |-> "0", delegationTimestamp |-> "0"]

GuardianOf(to) == [voted |-> TRUE, hasEligibleVote |-> FALSE, name |-> to]

DelegationAndGuardianInfo(set, address, fails) ==
  LET info == IF fails THEN FailedDelegation ELSE DelegationAnswer(set, address)
      active == info.delegationType # NOT_DELEGATED
      valid == active /\ World[set][address].valid
  IN [delegatorInfo |-> info,
      hasActiveDelegation |-> active,
      delegatingToValidGuardian |-> valid,
      guardianInfo |-> IF valid /\ World[set][address].readable THEN GuardianOf(info.delegatedTo)
                       ELSE EMPTY_GUARDIAN_INFO]

StakingInfo(set, address) == [stakedOrbs |-> World[set][address].staked]

CompleteData(set, address, fails) ==
  LET d == DelegationAndGuardianInfo(set, address, fails)
  IN [address |-> address,
      distributionsHistory |-> World[set][address].history,
      delegatorInfo |-> d.delegatorInfo, guardianInfo |-> d.guardianInfo,
      hasActiveDelegation |-> d.hasActiveDelegation,
      delegatingToValidGuardian |-> d.delegatingToValidGuardian,
      stakingInfo |-> StakingInfo(set, address),
      rewardsSummary |-> World[set][address].rewards]

-----------------------------------------------------------------------------
NoJob == [running |-> FALSE]
NoFiles == <<>>

SnapshotInit ==
  /\ reading = "Snapshot"
  /\ job = NoJob /\ runs = 0 /\ failures = 0
  /\ shards = <<>> /\ lastEnd = 0
  /\ merged = [set \in DataSets |-> <<>>] /\ files = NoFiles

(* loopStartsFrom is edited by hand: the end of the last shard.             *)
StartJob ==
  /\ ~job.running /\ runs < MaxRuns /\ merged[reading] = <<>> /\ lastEnd < Len(AllAddresses)
  /\ runs' = runs + 1
  /\ job' = [running |-> TRUE, from |-> lastEnd, i |-> lastEnd, startIndex |-> lastEnd,
             counter |-> 1, data |-> <<>>]
  /\ UNCHANGED <<reading, failures, shards, lastEnd, merged, files>>

IsShardDue(counter, i) == counter >= CHUNKS_A_SHARD \/ i = Len(AllAddresses) - 1

(* The entries of the run so far are never cleared: each shard also holds   *)
(* those of the earlier ones of the run.                                    *)
ReadChunk(failing) ==
  /\ job.running
  /\ failures + Cardinality(failing) <= MaxFailures
  /\ LET chunk == AllAddresses[job.i + 1]
         data == job.data \o [k \in DOMAIN chunk |->
                   CompleteData(reading, chunk[k], chunk[k] \in failing)]
         counter == job.counter + 1
         due == IsShardDue(counter, job.i)
         end == job.i + 1
         name == <<job.startIndex, end>>
     IN /\ failing \subseteq ToSet(chunk)
        /\ shards' = IF due THEN [s \in DOMAIN shards \cup {name} |->
                                   IF s = name THEN data ELSE shards[s]]
                     ELSE shards
        /\ lastEnd' = IF due THEN end ELSE lastEnd
        /\ job' = IF end = Len(AllAddresses) THEN NoJob
                  ELSE [job EXCEPT !.i = end, !.data = data,
                                   !.startIndex = IF due THEN end + 1 ELSE @,
                                   !.counter = IF due THEN 0 ELSE counter]
  /\ failures' = failures + Cardinality(failing)
  /\ UNCHANGED <<reading, runs, merged, files>>

(* Five retries of an address failed: main rejects.                         *)
JobFails ==
  /\ job.running /\ job' = NoJob
  /\ UNCHANGED <<reading, runs, failures, shards, lastEnd, merged, files>>

(* The first entry of each address, over the shards in the order in which   *)
(* the directory lists them.                                                *)
Merge(order) ==
  LET all == FlattenSeq([k \in DOMAIN order |-> shards[order[k]]])
      first == {k \in DOMAIN all : \A j \in 1..(k - 1) : all[j].address # all[k].address}
      At(k) == CHOOSE i \in first : Cardinality({j \in first : j <= i}) = k
  IN [k \in 1..Cardinality(first) |-> all[At(k)]]

MergeAllShards ==
  /\ ~job.running /\ merged[reading] = <<>> /\ lastEnd = Len(AllAddresses)
  /\ \E order \in SetToSeqs(DOMAIN shards) : merged' = [merged EXCEPT ![reading] = Merge(order)]
  /\ UNCHANGED <<reading, job, runs, failures, shards, lastEnd, files>>

(* After the last elections all is read again, from the first chunk and     *)
(* into a directory of its own; the file merged before is kept.             *)
ReadAfterLastElections ==
  /\ reading = "Snapshot" /\ merged[reading] # <<>>
  /\ reading' = "AfterLastElections"
  /\ runs' = 0 /\ shards' = <<>> /\ lastEnd' = 0
  /\ UNCHANGED <<job, failures, merged, files>>

(* A map of the addresses whose value is not the empty one.                 *)
NonEmpty(entries, field, empty) ==
  LET kept == {k \in DOMAIN entries : entries[k][field] # empty}
  IN [a \in {entries[k].address : k \in kept} |->
        entries[CHOOSE k \in kept : entries[k].address = a][field]]

Having(entries, field) == {entries[k].address : k \in {j \in DOMAIN entries : entries[j][field]}}

DelegatorInfos(entries) == NonEmpty(entries, "delegatorInfo", EMPTY_DELEGATOR_INFO)

(* Everything is computed of the one file that was read...                  *)
ProcessAllData(entries) ==
  [hasActiveDelegationSet |-> Having(entries, "hasActiveDelegation"),
   delegatingToValidGuardianSet |-> Having(entries, "delegatingToValidGuardian"),
   guardianInfoMap |-> NonEmpty(entries, "guardianInfo", EMPTY_GUARDIAN_INFO),
   delegatorInfoMap |-> DelegatorInfos(entries),
   stakingInfoMap |-> NonEmpty(entries, "stakingInfo", EMPTY_STAKING_INFO),
   rewardsSummaryMap |-> NonEmpty(entries, "rewardsSummary", EMPTY_REWARDS_SUMMARY),
   distributionHistoryMap |-> NonEmpty(entries, "distributionsHistory", EMPTY_DISTRIBUTION_HISTORY)]

Files ==
  {"hasActiveDelegationSet", "delegatingToValidGuardianSet", "guardianInfoMap",
   "delegatorInfoMap", "stakingInfoMap", "rewardsSummaryMap", "distributionHistoryMap"}

(* ...which file is read and which are written depends on                   *)
(* isRunningForOnlyDistributionHistory, set by hand.                        *)
FilesWritten(onlyHistory) ==
  {f \in Files : onlyHistory <=> f = "distributionHistoryMap"}

FileReadIsTheSnapshot(onlyHistory) == "Snapshot"

FileRead(onlyHistory) == IF onlyHistory THEN "AfterLastElections" ELSE "Snapshot"

(* The script refuses a file in which an address occurs twice.              *)
IsSane(entries) == IsInjective([k \in DOMAIN entries |-> entries[k].address])

WithFiles(onlyHistory, entries) ==
  [f \in DOMAIN files \cup FilesWritten(onlyHistory) |->
     IF f \in FilesWritten(onlyHistory) THEN ProcessAllData(entries)[f] ELSE files[f]]

WriteFiles(onlyHistory) ==
  LET entries == merged[FileRead(onlyHistory)]
  IN  /\ entries # <<>> /\ IsSane(entries)
      /\ files' = WithFiles(onlyHistory, entries)
  /\ UNCHANGED <<reading, job, runs, failures, shards, lastEnd, merged>>

SnapshotNext ==
  \/ StartJob \/ JobFails \/ MergeAllShards \/ ReadAfterLastElections
  \/ \E onlyHistory \in BOOLEAN : WriteFiles(onlyHistory)
  \/ job.running /\ \E failing \in SUBSET ToSet(AllAddresses[job.i + 1]) : ReadChunk(failing)

SnapshotSpec == SnapshotInit /\ [][SnapshotNext]_snapshotVars

-----------------------------------------------------------------------------
(* However often the job had to be started again and in whatever order the  *)
(* shards are merged, either merged file has every address exactly once,    *)
(* though the shards of a run overlap.                                      *)
EveryAddressOnce ==
  \A set \in DataSets : merged[set] # <<>> =>
    /\ {merged[set][k].address : k \in DOMAIN merged[set]} =
         UNION {ToSet(c) : c \in ToSet(AllAddresses)}
    /\ IsSane(merged[set])

=============================================================================
