----------------------------- MODULE VotingPage -----------------------------
(***************************************************************************)
(* The page on which a guardian votes validators out.  It lists the         *)
(* validators, restores from the browser's storage whom this account voted  *)
(* against, and sends votes through MetaMask, of which the user may change  *)
(* the account at any time.  A vote is three calls, each awaited: who am I, *)
(* who am I again, send; only then is it stored.                            *)
(***************************************************************************)
EXTENDS Integers, Sequences, FiniteSets

CONSTANTS
  Validators, Accounts, NoVote,
  MAX_VOTED_OUT, \* 3 in the code and in the contract
  FirstVotesOut, \* what an account may have voted before the page is opened
  MaxVotes,      \* bound: votes sent
  MaxSwitches    \* bound: changes of the account

(* A page shows finitely many validators, and having no vote is no vote.    *)
ASSUME VotingAssumption ==
  /\ IsFiniteSet(Validators) /\ MAX_VOTED_OUT \in Nat \ {0}
  /\ \A vote \in SUBSET Validators : vote # NoVote

VARIABLES
  account,           \* MetaMask's current account
  switches,
  stored,            \* localStorage: of each account
  voted,             \* OrbsVoting: the current vote of each, or NoVote
  fetching,          \* validators whose data is awaited, with their checks; a set once listed
  validators,        \* those shown: which are checked
  restored,          \* those that were checked when the page was opened
  selectionDisabled,
  lastVote,          \* what the page says
  lastVoteReads,     \* getLastVote calls: what each was answered, if it was
  commits,           \* the votes: [at, keys, from, staged, sender]
  votingHistory      \* what happened to votes and reads; the page keeps none of it:
                     \* [latest, mixedUp, overtaken, switched]

votingVars ==
  <<account, switches, stored, voted, fetching, validators, restored, selectionDisabled,
    lastVote, lastVoteReads, commits, votingHistory>>

(* Of each account the vote mined last; the accounts of which another asked *)
(* for the vote than sent it, or the receipt of the latest vote overtook an *)
(* earlier one's; whether an answer of getLastVote overtook an earlier      *)
(* call's, and whether the account changed since the last call.             *)
NoHistory ==
  [latest |-> [a \in Accounts |-> 0], mixedUp |-> {}, overtaken |-> FALSE, switched |-> FALSE]

Unanswered == [answered |-> FALSE, delivered |-> FALSE, vote |-> NoVote]
NoReads == \A k \in DOMAIN lastVoteReads : lastVoteReads[k].delivered

Checked == {v \in DOMAIN validators : validators[v]}
NotListed == [listed |-> FALSE, left |-> {}]

(* Nothing of a vote is read once it is over.                               *)
Over(at) == [at |-> at, keys |-> {}, from |-> NoVote, staged |-> {}, sender |-> NoVote]

VotingInit ==
  /\ account \in Accounts /\ switches = 0
  /\ voted \in [Accounts -> FirstVotesOut \cup {NoVote}]
  /\ stored = [a \in Accounts |-> IF voted[a] = NoVote THEN {} ELSE voted[a]]
  /\ fetching = NotListed /\ validators = <<>> /\ restored = {}
  /\ selectionDisabled = FALSE
  /\ lastVote = {} /\ lastVoteReads = <<Unanswered>>
  /\ commits = <<>> /\ votingHistory = NoHistory

(* fetchValidators: the storage is read only if MetaMask is enabled.        *)
FetchValidators ==
  /\ ~fetching.listed
  /\ \E found \in {stored[account], {}} :
       restored' = found /\ fetching' = [listed |-> TRUE, left |-> Validators]
  /\ UNCHANGED <<account, switches, stored, voted, validators, selectionDisabled, lastVote,
                 lastVoteReads, commits, votingHistory>>

FetchValidator(v) ==
  /\ v \in fetching.left
  /\ fetching' = [fetching EXCEPT !.left = @ \ {v}]
  /\ validators' = [w \in DOMAIN validators \cup {v} |->
                      IF w = v THEN v \in restored ELSE validators[w]]
  /\ UNCHANGED <<account, switches, stored, voted, restored, selectionDisabled, lastVote,
                 lastVoteReads, commits, votingHistory>>

IsSelectionFull(checked) == Cardinality(checked) = MAX_VOTED_OUT

(* The check is flipped in the record that all copies of the list share,    *)
(* also when validateVoteOutAmount says no; a check of a list that is full  *)
(* can only be taken away.                                                  *)
ToggleCheck(v) ==
  /\ v \in DOMAIN validators
  /\ validators[v] \/ ~selectionDisabled
  /\ validators' = [validators EXCEPT ![v] = ~@]
  /\ selectionDisabled' =
       IsSelectionFull({w \in DOMAIN validators : validators[w] # (w = v)})
  /\ UNCHANGED <<account, switches, stored, voted, fetching, restored, lastVote, lastVoteReads,
                 commits, votingHistory>>

(* Keep everyone or Vote out: one of the buttons is enabled once a          *)
(* validator is listed.                                                     *)
CommitVote ==
  /\ validators # <<>> /\ Len(commits) < MaxVotes
  /\ commits' = Append(commits, [at |-> "asking", keys |-> DOMAIN validators,
                                 from |-> NoVote, staged |-> {}, sender |-> NoVote])
  /\ UNCHANGED <<account, switches, stored, voted, fetching, validators, restored,
                 selectionDisabled, lastVote, lastVoteReads, votingHistory>>

(* The checks are taken when the address is there, not at the click.        *)
AddressGiven(i) ==
  /\ commits[i].at = "asking"
  /\ commits' = [commits EXCEPT ![i].at = "enabling", ![i].from = account,
                                ![i].staged = Checked \cap commits[i].keys]
  /\ UNCHANGED <<account, switches, stored, voted, fetching, validators, restored,
                 selectionDisabled, lastVote, lastVoteReads, votingHistory>>

(* MetamaskService.voteOut asks for the account itself.                     *)
VoteOut(i) ==
  /\ commits[i].at = "enabling"
  /\ commits' = [commits EXCEPT ![i].at = "sent", ![i].sender = account]
  /\ votingHistory' = [votingHistory EXCEPT !.mixedUp =
                   IF commits[i].from = account THEN @ ELSE @ \cup {commits[i].from, account}]
  /\ UNCHANGED <<account, switches, stored, voted, fetching, validators, restored, selectionDisabled,
                 lastVote, lastVoteReads>>

(* The contract takes at most three; the user may also refuse to sign.       *)
Mined(i) ==
  /\ commits[i].at = "sent"
  /\ \A j \in 1..(i - 1) : commits[j].sender = commits[i].sender => commits[j].at # "sent"
  /\ \/ /\ Cardinality(commits[i].staged) <= MAX_VOTED_OUT
        /\ voted' = [voted EXCEPT ![commits[i].sender] = commits[i].staged]
        /\ commits' = [commits EXCEPT ![i].at = "mined"]
        /\ votingHistory' = [votingHistory EXCEPT !.latest[commits[i].sender] = i]
     \/ commits' = [commits EXCEPT ![i] = Over("failed")] /\ UNCHANGED <<voted, votingHistory>>
  /\ UNCHANGED <<account, switches, stored, fetching, validators, restored, selectionDisabled,
                 lastVote, lastVoteReads>>

Awaiting(a) == {i \in DOMAIN commits : commits[i].at = "mined" /\ commits[i].from = a}

(* save(from, stagedValidators)                                             *)
SavedForTheCurrent(i) == account

SavedFor(i) == commits[i].from

Receipt(i) ==
  /\ commits[i].at = "mined"
  /\ stored' = [stored EXCEPT ![SavedFor(i)] = commits[i].staged]
  /\ commits' = [commits EXCEPT ![i] = Over("saved")]
  /\ lastVoteReads' = Append(lastVoteReads, Unanswered)
  /\ LET from == commits[i].from
         overtakes == i = votingHistory.latest[from] /\ Awaiting(from) # {i}
     IN votingHistory' = [votingHistory EXCEPT !.mixedUp = IF overtakes THEN @ \cup {from} ELSE @,
                                   !.switched = FALSE]
  /\ UNCHANGED <<account, switches, voted, fetching, validators, restored, selectionDisabled,
                 lastVote>>

AnswerLastVote(k) ==
  /\ ~lastVoteReads[k].answered
  /\ lastVoteReads' = [lastVoteReads EXCEPT ![k].answered = TRUE, ![k].vote = voted[account]]
  /\ UNCHANGED <<account, switches, stored, voted, fetching, validators, restored,
                 selectionDisabled, lastVote, commits, votingHistory>>

(* For an account that never voted the call fails and the text stays.       *)
FetchLastVote(k) ==
  /\ lastVoteReads[k].answered /\ ~lastVoteReads[k].delivered
  /\ lastVoteReads' = [lastVoteReads EXCEPT ![k].delivered = TRUE, ![k].vote = NoVote]
  /\ lastVote' = IF lastVoteReads[k].vote = NoVote THEN lastVote ELSE lastVoteReads[k].vote
  /\ votingHistory' = [votingHistory EXCEPT !.overtaken =
                   @ \/ \E l \in DOMAIN lastVoteReads : l > k /\ lastVoteReads[l].delivered]
  /\ UNCHANGED <<account, switches, stored, voted, fetching, validators, restored,
                 selectionDisabled, commits>>

SwitchAccount ==
  /\ switches < MaxSwitches /\ switches' = switches + 1
  /\ \E a \in Accounts \ {account} : account' = a
  /\ votingHistory' = [votingHistory EXCEPT !.switched = TRUE]
  /\ UNCHANGED <<stored, voted, fetching, validators, restored, selectionDisabled, lastVote,
                 lastVoteReads, commits>>

VotingNext ==
  \/ FetchValidators \/ CommitVote \/ SwitchAccount
  \/ \E v \in Validators : FetchValidator(v) \/ ToggleCheck(v)
  \/ \E i \in DOMAIN commits : AddressGiven(i) \/ VoteOut(i) \/ Mined(i) \/ Receipt(i)
  \/ \E k \in DOMAIN lastVoteReads : AnswerLastVote(k) \/ FetchLastVote(k)

VotingSpec == VotingInit /\ [][VotingNext]_votingVars

-----------------------------------------------------------------------------
(* When no selection was restored no order of answers, checks and clicks    *)
(* lets more than three be selected (the contract refuses more).  Restored  *)
(* checks are not counted until the next click, so with some there can be   *)
(* four and more.                                                           *)
SelectionStaysWithinThree == restored = {} => Cardinality(Checked) <= MAX_VOTED_OUT

VoteIn(vote) == IF vote = NoVote THEN {} ELSE vote

(* The browser remembers for each account the vote it has on chain, also    *)
(* when votes overlap, are refused or fail and when the account changes     *)
(* before, between and after them, but for the time between the block of a  *)
(* vote and its receipt.  Two things break it, and only for whom they       *)
(* concern: a change between the two asks, which stores the vote of one     *)
(* account for another, and the receipt of the latest vote overtaking an    *)
(* earlier one's.                                                           *)
StoredIsTheVote ==
  \A a \in Accounts \ votingHistory.mixedUp :
    Awaiting(a) = {} => stored[a] = VoteIn(voted[a])

(* The page says against whom the account voted last, once the read that    *)
(* follows the last receipt is answered, unless answers overtook each other *)
(* or the account changed since; of an account that never voted it says     *)
(* nothing, unless it said something of another before.                     *)
LastVoteIsTheVote ==
  /\ switches = 0 /\ voted[account] = NoVote => lastVote = {}
  /\ /\ NoReads /\ ~votingHistory.overtaken /\ ~votingHistory.switched
     /\ \A i \in DOMAIN commits : commits[i].at # "mined"
     /\ voted[account] # NoVote
     => lastVote = voted[account]

(* What is selected can be sent, and what is shown and stored was.          *)
VotesAreKept == SelectionStaysWithinThree /\ StoredIsTheVote /\ LastVoteIsTheVote

=============================================================================
