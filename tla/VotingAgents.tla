---------------------------- MODULE VotingAgents ----------------------------
(***************************************************************************)
(* The processing agents (voting/processor/process.js): scheduled jobs that *)
(* push an election through the contract with batches of processVoting      *)
(* transactions, and announce it when it is over.                           *)
(*                                                                         *)
(* An agent sends a batch, waits for all the answers and decides by them;   *)
(* an answer may be that the transaction is still pending, or an error of   *)
(* the network, and the transaction may be executed all the same, later     *)
(* and for another agent's benefit.  Several agents run at once and some    *)
(* may be killed.  The contract is reduced to what agents see of it: an     *)
(* election takes StagesOfElection successful calls once its mirror period  *)
(* is over, and a call outside that time is refused.                        *)
(***************************************************************************)
EXTENDS Integers, Sequences

CONSTANTS
  Agent,            \* the jobs
  KilledAgents,     \* those that may be killed while running
  Validator,        \* who may be elected
  BatchSize,        \* batchSize, 20
  MaxBatches,       \* maxBatches, 120
  MaxErrors,        \* maxErrors, 10
  StagesOfElection, \* calls an election takes
  MaxElections,     \* bound: elections that come due
  MaxPool           \* bound: unanswered transactions still to be executed

ASSUME AgentsAssumption ==
  /\ KilledAgents \subseteq Agent
  /\ {BatchSize, MaxBatches, MaxErrors, StagesOfElection} \subseteq Nat \ {0}
  /\ {MaxElections, MaxPool} \subseteq Nat

VARIABLES
  due,        \* elections whose mirror period is over
  progress,   \* calls executed of the election in progress, 0: not begun
  elected,    \* the committees of the elections held
  pool,       \* transactions nobody waits for that may still be executed
  jobStage,      \* per agent: what the job is doing
  batch,      \* j: batches judged
  unanswered, \* answers of the batch still awaited
  foundDone,  \* an answer of the batch was ProcessDone
  numErrors,  \* ProcessError answers of the run
  heldAtStart,\* history: elections held when the run found it is needed
  announced   \* electionNumber as sendSuccessSlack read it

electionVars == <<due, progress, elected>>
jobVars == <<batch, unanswered, foundDone, numErrors, heldAtStart, announced>>
agentVars == <<electionVars, pool, jobStage, jobVars>>

Held == Len(elected)                      \* getNumberOfElections

(* How a run ends: not needed, announced, or it failed with a message       *)
(* (no url, too many errors, not over, something thrown) or was killed.     *)
Ended == {"idle", "success", "failed"}
Stages == Ended \cup {"sending", "waiting", "checking", "reading", "announcing"}

AgentsInit ==
  /\ due = 0 /\ progress = 0 /\ elected = <<>> /\ pool = 0
  /\ jobStage = [a \in Agent |-> "idle"]
  /\ batch = [a \in Agent |-> 0]
  /\ unanswered = [a \in Agent |-> 0]
  /\ foundDone = [a \in Agent |-> FALSE]
  /\ numErrors = [a \in Agent |-> 0]
  /\ heldAtStart = [a \in Agent |-> 0]
  /\ announced = [a \in Agent |-> 0]

-----------------------------------------------------------------------------
(* The contract, as agents see it.                                          *)

ProcessingPeriod == progress > 0 \/ due > Held

MirrorPeriodEnds ==
  /\ due < MaxElections
  /\ due' = due + 1
  /\ UNCHANGED <<progress, elected, pool, jobStage, jobVars>>

(* A processVoting transaction is executed: a stage, the last stage, or a   *)
(* refusal ("mirror period of election ... did not end").                   *)
ProcessStage ==
  /\ ProcessingPeriod /\ progress + 1 < StagesOfElection
  /\ progress' = progress + 1
  /\ UNCHANGED <<due, elected>>

LastStage ==
  /\ ProcessingPeriod /\ progress + 1 >= StagesOfElection
  /\ progress' = 0
  /\ \E committee \in SUBSET Validator : elected' = Append(elected, committee)
  /\ UNCHANGED due

RefuseCall == ~ProcessingPeriod /\ UNCHANGED electionVars

(* A transaction that was answered as pending, or not at all, reaches a     *)
(* block after all.                                                         *)
LateExecution ==
  /\ pool > 0
  /\ pool' = pool - 1
  /\ ProcessStage \/ LastStage \/ RefuseCall
  /\ UNCHANGED <<jobStage, jobVars>>

(* count transactions of nobody: each may be lost or stay in the pool.      *)
Abandon(count) ==
  \E kept \in 0 .. count : pool' = pool + kept /\ pool' <= MaxPool

-----------------------------------------------------------------------------
(* A run of process.js                                                      *)

MoveTo(a, s) == jobStage' = [jobStage EXCEPT ![a] = s]

(* orbs.js create: no url of the list answers.                              *)
CannotConnect(a) ==
  /\ jobStage[a] \in Ended
  /\ MoveTo(a, "failed")
  /\ UNCHANGED <<electionVars, pool, jobVars>>

(* main: the run is needed only in a processing period.                     *)
Start(a) ==
  /\ jobStage[a] \in Ended
  /\ IF ProcessingPeriod
       THEN /\ MoveTo(a, "sending")
            /\ heldAtStart' = [heldAtStart EXCEPT ![a] = Held]
       ELSE MoveTo(a, "idle") /\ UNCHANGED heldAtStart
  /\ batch' = [batch EXCEPT ![a] = 0]
  /\ numErrors' = [numErrors EXCEPT ![a] = 0]
  /\ foundDone' = [foundDone EXCEPT ![a] = FALSE]
  /\ announced' = [announced EXCEPT ![a] = 0]
  /\ UNCHANGED <<electionVars, pool, unanswered>>

SendBatch(a) ==
  /\ jobStage[a] = "sending"
  /\ MoveTo(a, "waiting")
  /\ unanswered' = [unanswered EXCEPT ![a] = BatchSize]
  /\ UNCHANGED <<electionVars, pool, batch, foundDone, numErrors, heldAtStart, announced>>

Answered(a) ==
  /\ jobStage[a] = "waiting" /\ unanswered[a] > 0
  /\ unanswered' = [unanswered EXCEPT ![a] = unanswered[a] - 1]
  /\ UNCHANGED <<jobStage, batch, heldAtStart, announced>>

(* processVote: COMPLETED.  Done when the election is over, be it by this   *)
(* call or by an earlier one that made the contract refuse this.            *)
AnswerExecuted(a) ==
  /\ Answered(a)
  /\ \/ ProcessStage /\ UNCHANGED foundDone
     \/ /\ LastStage \/ RefuseCall
        /\ foundDone' = [foundDone EXCEPT ![a] = TRUE]
  /\ UNCHANGED <<pool, numErrors>>

(* processVote: still pending; it may or may not be executed later.         *)
AnswerPending(a) ==
  /\ Answered(a)
  /\ Abandon(1)
  /\ UNCHANGED <<electionVars, foundDone, numErrors>>

(* processVote: any other status, which tells nothing of the transaction.   *)
AnswerError(a) ==
  /\ Answered(a)
  /\ numErrors' = [numErrors EXCEPT ![a] = numErrors[a] + 1]
  /\ Abandon(1)
  /\ UNCHANGED <<electionVars, foundDone>>

(* A request fails: Promise.all rejects without waiting for the others.     *)
AnswerThrows(a) ==
  /\ jobStage[a] = "waiting" /\ unanswered[a] > 0
  /\ Abandon(unanswered[a])
  /\ unanswered' = [unanswered EXCEPT ![a] = 0]
  /\ MoveTo(a, "failed")
  /\ UNCHANGED <<electionVars, batch, foundDone, numErrors, heldAtStart, announced>>

(* processResultsAndCheckForDone and the rest of the loop.                  *)
JudgeBatch(a) ==
  /\ jobStage[a] = "waiting" /\ unanswered[a] = 0
  /\ batch' = [batch EXCEPT ![a] = batch[a] + 1]
  /\ MoveTo(a, CASE foundDone[a] -> "checking"
                 [] ~foundDone[a] /\ numErrors[a] >= MaxErrors -> "failed"
                 [] ~foundDone[a] /\ numErrors[a] < MaxErrors ->
                      IF batch[a] + 1 < MaxBatches THEN "sending" ELSE "checking")
  /\ UNCHANGED <<electionVars, pool, unanswered, foundDone, numErrors, heldAtStart, announced>>

(* processCall after the loop.                                              *)
CheckEndedByAnswers(a) ==
  /\ jobStage[a] = "checking"
  /\ MoveTo(a, IF foundDone[a] \/ numErrors[a] = 0 THEN "reading" ELSE "failed")
  /\ UNCHANGED <<electionVars, pool, jobVars>>

CheckEnded(a) ==
  /\ jobStage[a] = "checking"
  /\ MoveTo(a, IF ProcessingPeriod THEN "failed" ELSE "reading")
  /\ UNCHANGED <<electionVars, pool, jobVars>>

(* sendSuccessSlack: the number first, then the committees and stakes of    *)
(* that number; the announcement names the member with the least stake and  *)
(* throws when there is no member.                                          *)
ReadElectionNumber(a) ==
  /\ jobStage[a] = "reading"
  /\ announced' = [announced EXCEPT ![a] = Held]
  /\ MoveTo(a, "announcing")
  /\ UNCHANGED <<electionVars, pool, batch, unanswered, foundDone, numErrors, heldAtStart>>

Announce(a) ==
  /\ jobStage[a] = "announcing"
  /\ MoveTo(a, IF elected[announced[a]] = {} THEN "failed" ELSE "success")
  /\ UNCHANGED <<electionVars, pool, jobVars>>

(* The job is killed; its transactions go their own way.                    *)
Kill(a) ==
  /\ a \in KilledAgents /\ jobStage[a] \notin Ended
  /\ Abandon(unanswered[a])
  /\ unanswered' = [unanswered EXCEPT ![a] = 0]
  /\ MoveTo(a, "failed")
  /\ UNCHANGED <<electionVars, batch, foundDone, numErrors, heldAtStart, announced>>

Answer(a) ==
  \/ AnswerExecuted(a) \/ AnswerPending(a) \/ AnswerError(a) \/ AnswerThrows(a)

Work(a) == SendBatch(a) \/ JudgeBatch(a) \/ CheckEnded(a) \/ ReadElectionNumber(a) \/ Announce(a)

AgentsNext ==
  \/ MirrorPeriodEnds \/ LateExecution
  \/ \E a \in Agent : CannotConnect(a) \/ Start(a) \/ Work(a) \/ Answer(a) \/ Kill(a)

(* A job that is not killed gets on, and its requests are answered.         *)
AgentsFairness ==
  \A a \in Agent \ KilledAgents : WF_agentVars(Work(a)) /\ WF_agentVars(Answer(a))

AgentsSpec == AgentsInit /\ [][AgentsNext]_agentVars /\ AgentsFairness

(* It is also started over and over, and not every answer is an error of    *)
(* the network.                                                             *)
KeepsTrying ==
  \A a \in Agent \ KilledAgents : WF_agentVars(Start(a)) /\ SF_agentVars(AnswerExecuted(a))

-----------------------------------------------------------------------------
AgentsTypeOK ==
  /\ due \in Nat /\ progress \in Nat /\ pool \in Nat
  /\ elected \in Seq(SUBSET Validator)
  /\ jobStage \in [Agent -> Stages]
  /\ batch \in [Agent -> Nat] /\ unanswered \in [Agent -> Nat] /\ numErrors \in [Agent -> Nat]
  /\ heldAtStart \in [Agent -> Nat] /\ announced \in [Agent -> Nat]
  /\ foundDone \in [Agent -> BOOLEAN]

(* The job announces an election only if one was concluded since the run    *)
(* began, whatever the answers said and whoever's calls concluded it, and   *)
(* the one it announces is not the one before.                              *)
AnnouncedElectionWasHeldMeanwhile ==
  \A a \in Agent : jobStage[a] \in {"announcing", "success"} =>
    heldAtStart[a] < announced[a] /\ announced[a] <= Held

(* A run that has seen a call conclude or be refused did not run in vain:   *)
(* the election it began with is over.                                      *)
DoneMeansConcluded ==
  \A a \in Agent : jobStage[a] \notin Ended /\ foundDone[a] => heldAtStart[a] < Held

(* A run of the job ends: its batches are limited and answers are awaited   *)
(* once.                                                                    *)
RunsEnd ==
  \A a \in Agent \ KilledAgents : jobStage[a] \notin Ended ~> jobStage[a] \in Ended

(* With one agent that is started again and again every election that is    *)
(* due is held, although agents are killed, transactions are lost or late   *)
(* and runs give up after their errors or batches.                          *)
DueElectionsAreHeld ==
  KeepsTrying => \A n \in 1 .. MaxElections : due >= n ~> Held >= n

(* What an agent finds and what it announces was so.                        *)
AgentsAreTruthful ==
  /\ AgentsTypeOK
  /\ DoneMeansConcluded
  /\ AnnouncedElectionWasHeldMeanwhile

(* Runs end, and elections are held by them.                                *)
AgentsGetOn == RunsEnd /\ DueElectionsAreHeld

=============================================================================
