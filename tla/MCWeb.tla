------------------------------- MODULE MCWeb -------------------------------
(***************************************************************************)
(* The web client, the servers it talks to and the contracts it registers   *)
(* guardians and validators with.  The parts share nothing, so a behaviour  *)
(* follows one of them, but for the rewards page, which shows the files     *)
(* that jobs have left.                                                     *)
(***************************************************************************)
EXTENDS ProxyServer, RewardsPage, GuardiansTable, VotingPage, OrbsGuardians, OrbsValidators

CONSTANTS a1, a2, a3, a4, g1, g2, g3, v1, v2, v3

VARIABLE part

Account(type, to, valid, readable, balance, staked, reward, history) ==
  [type |-> type, to |-> to, valid |-> valid, readable |-> readable, balance |-> balance,
   staked |-> staked, history |-> history,
   rewards |-> [delegatorReward |-> reward, guardianReward |-> 0, validatorReward |-> reward]]

(* One delegates to a guardian, one without a balance to somebody else, one *)
(* has only a stake, and one nothing at all; after the last elections the   *)
(* guardian has left, and two were given more.                              *)
MCWorld ==
  [Snapshot |->
     a1 :> Account("Delegate", "ann", TRUE, TRUE, 3, 0, 2, <<1, 2>>)
       @@ a2 :> Account("Transfer", "bob", FALSE, TRUE, 0, 0, 0, <<3>>)
       @@ a3 :> Account(NOT_DELEGATED, EMPTY_ADDRESS, FALSE, FALSE, 0, 2, 1, <<>>)
       @@ a4 :> Account(NOT_DELEGATED, EMPTY_ADDRESS, FALSE, FALSE, 0, 0, 0, <<>>),
   AfterLastElections |->
     a1 :> Account("Delegate", "ann", FALSE, FALSE, 3, 0, 2, <<1, 2, 4>>)
       @@ a2 :> Account("Transfer", "bob", FALSE, TRUE, 0, 0, 0, <<3>>)
       @@ a3 :> Account(NOT_DELEGATED, EMPTY_ADDRESS, FALSE, FALSE, 0, 2, 2, <<1>>)
       @@ a4 :> Account(NOT_DELEGATED, EMPTY_ADDRESS, FALSE, FALSE, 0, 0, 0, <<>>)]

MCAllAddresses == << <<a1>>, <<a2>>, <<a3>>, <<a4>> >>

(* What jobs may have left: any one delegation read may have failed.        *)
Left(set, failing) ==
  [k \in DOMAIN MCAllAddresses |->
     CompleteData(set, MCAllAddresses[k][1], MCAllAddresses[k][1] = failing)]

MCFirstEvents ==
  { <<>>,
    << [RefTime |-> 0, Committee |-> {g1, g2}], [RefTime |-> 3, Committee |-> {g1}] >>,
    << [RefTime |-> 0, Committee |-> {g2}], [RefTime |-> 2, Committee |-> {g1, g2}] >> }

MCStake ==
  [g \in {g1, g2, g3} |->
     [EffectiveStake |-> 1, SelfStake |-> IF g = g3 THEN 0 ELSE 1, DelegatedStake |-> 9]]
MCCommittees == {{g1}, {g2, g3}}
MCFirstVotesOut == {{v1, v2}}

(* On the page that lists all validators one vote is sent, by an account    *)
(* that stays; two votes are sent, while the account may change, on one     *)
(* that was able to read one validator only.                                *)
AllListed == VotingInit /\ \A a \in Accounts \ {account} : voted[a] = NoVote

OneListed ==
  /\ switches = 0 /\ voted \in [Accounts -> FirstVotesOut \cup {NoVote}]
  /\ stored = [a \in Accounts |-> VoteIn(voted[a])]
  /\ restored = stored[account] /\ fetching = [listed |-> TRUE, left |-> {}]
  /\ validators = [v \in {v1} |-> v \in restored] /\ selectionDisabled = FALSE
  /\ lastVote = {} /\ lastVoteReads = <<Unanswered>>
  /\ commits = <<>> /\ votingHistory = NoHistory

(* A store that has nothing to do any more.                                 *)
NodeIdle ==
  /\ clock = 0 /\ refTime = 0 /\ writerInSync = TRUE /\ events = <<>>
  /\ store = [at |-> "settled", tries |-> 0, seen |-> 0, checkedAt |-> 0,
              systemState |-> NoState, committeeMembers |-> {},
              doneLoading |-> FALSE, errorLoading |-> TRUE]
  /\ cuts = [at |-> "idle", left |-> {}, read |-> {}, shown |-> {}]

Init ==
  /\ part \in {"proxy", "snapshot", "page", "node", "voting", "votes", "guardians", "validators"}
  /\ ProxyInit /\ PageInit /\ GuardiansInit /\ ValidatorsInit
  /\ \/ /\ part = "page" /\ reading = "AfterLastElections"
        /\ \E failing \in {a1, a2, a3, a4, EMPTY_ADDRESS} :
             merged = [set \in DataSets |-> Left(set, failing)]
        /\ files = [f \in Files |-> ProcessAllData(merged[FileRead(f = "distributionHistoryMap")])[f]]
        /\ job = NoJob /\ runs = 0 /\ failures = 0 /\ shards = <<>> /\ lastEnd = 0
     \/ part # "page" /\ SnapshotInit
  /\ IF part = "node" THEN NodeInit ELSE NodeIdle
  /\ account = (CHOOSE a \in Accounts : TRUE)
  /\ IF part = "votes" THEN OneListed ELSE AllListed
  /\ part \notin {"voting", "votes"} => \A a \in Accounts : voted[a] = NoVote

Next ==
  \/ /\ part = "proxy" /\ ProxyNext
     /\ UNCHANGED <<part, snapshotVars, pageVars, nodeVars, votingVars, guardianVars, validatorVars>>
  \/ /\ part = "snapshot" /\ SnapshotNext
     /\ UNCHANGED <<part, calls, pageVars, nodeVars, votingVars, guardianVars, validatorVars>>
  \/ /\ part = "page" /\ PageNext
     /\ UNCHANGED <<part, calls, snapshotVars, nodeVars, votingVars, guardianVars, validatorVars>>
  \/ /\ part = "node" /\ NodeNext
     /\ UNCHANGED <<part, calls, snapshotVars, pageVars, votingVars, guardianVars, validatorVars>>
  \/ /\ part = "voting" /\ VotingNext /\ Len(commits') <= 1 /\ switches' = 0
     /\ UNCHANGED <<part, calls, snapshotVars, pageVars, nodeVars, guardianVars, validatorVars>>
  \/ /\ part = "votes" /\ VotingNext
     /\ UNCHANGED <<part, calls, snapshotVars, pageVars, nodeVars, guardianVars, validatorVars>>
  \/ /\ part = "guardians" /\ GuardiansNext
     /\ UNCHANGED <<part, calls, snapshotVars, pageVars, nodeVars, votingVars, validatorVars>>
  \/ /\ part = "validators" /\ ValidatorsNext
     /\ UNCHANGED <<part, calls, snapshotVars, pageVars, nodeVars, votingVars, guardianVars>>

vars == <<part, calls, snapshotVars, pageVars, nodeVars, votingVars, guardianVars, validatorVars>>

Spec == Init /\ [][Next]_vars /\ ProxyFairness /\ StoreFairness

(* What is shown is what is kept elsewhere: the proxy answers a call with   *)
(* its own read, the rewards page shows what jobs left of both data sets,   *)
(* each field from its own, and the guardians' table the state of a node.   *)
ShownIsWhatIsKept == AnsweredByItsRead /\ PageShowsTheSnapshot /\ TableShowsTheNode

(* Who reads the registers gets everybody in them, and each once.           *)
ReadersGetTheRegisters == PagesAreTheList /\ TopologyNamesNodesOnce

(* Calls of the proxy and loading the store come to an end.                 *)
WebSettles == CallsSettle /\ StoreSettles

=============================================================================
