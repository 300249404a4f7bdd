---------------------------- MODULE Agents_proofs ----------------------------
(***************************************************************************)
(* Proofs about the programs that send transactions and wait for them: the  *)
(* processor's jobs that push elections, for any number of jobs, any sizes  *)
(* and limits of batches and any number of lost or late transactions; the   *)
(* one that mirrors delegations, for every set of events and every way in   *)
(* which a window is cut into ranges; and the distribution of rewards with  *)
(* its contract, for any files, batch sizes, names and clients, and any     *)
(* transactions that are still under way.                                   *)
(***************************************************************************)
EXTENDS MirrorAgent, VotingAgents, RewardsDistribution, Sums_proofs, SequenceTheorems, TLAPS

-----------------------------------------------------------------------------
(* I.  The jobs that push elections.                                        *)

(* An election in progress is due.                                          *)
BegunIsDue == progress > 0 => due > Held

(* A run only begins while an election is due that is not held; what it has *)
(* seen since of the end of a processing period therefore is the end of     *)
(* that election or of a later one.                                         *)
RunsAreNeeded ==
  \A a \in Agent : jobStage[a] \notin Ended =>
    /\ heldAtStart[a] <= Held /\ heldAtStart[a] < due
    /\ jobStage[a] \in {"reading", "announcing"} => heldAtStart[a] < Held

AgentsInv ==
  /\ AgentsTypeOK /\ BegunIsDue /\ RunsAreNeeded
  /\ DoneMeansConcluded /\ AnnouncedElectionWasHeldMeanwhile

-----------------------------------------------------------------------------
(* What a call does to the contract: a stage, the last stage or nothing.    *)
Call == ProcessStage \/ LastStage \/ RefuseCall

(* No call takes an election back, and the due ones stay due.               *)
LEMMA CallsKeepElections ==
  ASSUME AgentsTypeOK, BegunIsDue, Call
  PROVE  /\ due' \in Nat /\ progress' \in Nat /\ elected' \in Seq(SUBSET Validator)
         /\ due' = due /\ Held' \in Nat /\ Held <= Held' /\ BegunIsDue'
<1> USE DEF AgentsTypeOK
<1>h. Held \in Nat
  BY DEF Held
<1> USE <1>h
<1>1. CASE ProcessStage
  BY <1>1 DEF ProcessStage, ProcessingPeriod, BegunIsDue, Held
<1>2. CASE LastStage
  <2>1. PICK committee \in SUBSET Validator : elected' = Append(elected, committee)
    BY <1>2 DEF LastStage
  <2>2. elected' \in Seq(SUBSET Validator) /\ Len(elected') = Len(elected) + 1
    BY <2>1
  <2> QED
    BY <1>2, <2>2 DEF LastStage, ProcessingPeriod, BegunIsDue, Held
<1>3. CASE RefuseCall
  BY <1>3 DEF RefuseCall, electionVars, BegunIsDue, Held
<1> QED
  BY <1>1, <1>2, <1>3 DEF Call

(* A call that is the last of an election, or refused while an election was *)
(* due at the start of a run, leaves more elections held than there were.   *)
LEMMA DoneHolds ==
  ASSUME AgentsTypeOK, BegunIsDue, LastStage \/ RefuseCall,
         NEW start \in Nat, start <= Held, start < due
  PROVE  start < Held'
<1> USE DEF AgentsTypeOK
<1>h. Held \in Nat
  BY DEF Held
<1> USE <1>h
<1>1. CASE LastStage
  <2>1. PICK committee \in SUBSET Validator : elected' = Append(elected, committee)
    BY <1>1 DEF LastStage
  <2>2. Len(elected') = Len(elected) + 1
    BY <2>1
  <2> QED
    BY <2>2 DEF Held
<1>2. CASE RefuseCall
  BY <1>2 DEF RefuseCall, electionVars, ProcessingPeriod, Held
<1> QED
  BY <1>1, <1>2

(* What keeps the invariant when nothing happens to the runs but that more  *)
(* elections are due or held.                                               *)
LEMMA RunsUndisturbed ==
  ASSUME AgentsInv, UNCHANGED <<jobStage, jobVars>>,
         due' \in Nat, progress' \in Nat, pool' \in Nat, elected' \in Seq(SUBSET Validator),
         due <= due', Held <= Held', BegunIsDue'
  PROVE  AgentsInv'
<1> USE DEF AgentsInv, AgentsTypeOK, jobVars
<1>h. Held \in Nat
  BY DEF Held
<1> USE <1>h
<1>0. Held' \in Nat
  BY DEF Held
<1>1. AgentsTypeOK'
  BY DEF AgentsTypeOK
<1>2. RunsAreNeeded'
  BY <1>0 DEF RunsAreNeeded
<1>3. DoneMeansConcluded'
  BY <1>0 DEF DoneMeansConcluded
<1>4. AnnouncedElectionWasHeldMeanwhile'
  BY <1>0 DEF AnnouncedElectionWasHeldMeanwhile
<1> QED
  BY <1>1, <1>2, <1>3, <1>4

(* What has to be shown of the one job that takes a step: the others keep   *)
(* what holds of them, since elections are only added.                      *)
OfRun(a) ==
  /\ jobStage[a] \notin Ended =>
       /\ heldAtStart[a] <= Held /\ heldAtStart[a] < due
       /\ jobStage[a] \in {"reading", "announcing"} => heldAtStart[a] < Held
       /\ foundDone[a] => heldAtStart[a] < Held
  /\ jobStage[a] \in {"announcing", "success"} =>
       heldAtStart[a] < announced[a] /\ announced[a] <= Held

LEMMA InvOfRun ==
  ASSUME AgentsInv, NEW a \in Agent
  PROVE  OfRun(a)
  BY DEF OfRun, AgentsInv, RunsAreNeeded, DoneMeansConcluded, AnnouncedElectionWasHeldMeanwhile

LEMMA OneRunSteps ==
  ASSUME AgentsInv, AgentsTypeOK', BegunIsDue', due <= due', Held <= Held',
         NEW a \in Agent, OfRun(a)',
         \A b \in Agent \ {a} :
           /\ jobStage'[b] = jobStage[b] /\ heldAtStart'[b] = heldAtStart[b]
           /\ foundDone'[b] = foundDone[b] /\ announced'[b] = announced[b]
  PROVE  AgentsInv'
<1>1. ASSUME NEW b \in Agent, b # a
      PROVE  OfRun(b)'
  <2>1. OfRun(b)
    BY InvOfRun
  <2>2. /\ jobStage'[b] = jobStage[b] /\ heldAtStart'[b] = heldAtStart[b]
        /\ foundDone'[b] = foundDone[b] /\ announced'[b] = announced[b]
    BY <1>1
  <2>3. /\ due \in Nat /\ due' \in Nat /\ Held \in Nat /\ Held' \in Nat
        /\ heldAtStart[b] \in Nat /\ announced[b] \in Nat
    <3>1. AgentsTypeOK /\ AgentsTypeOK'
      BY DEF AgentsInv
    <3>2. elected \in Seq(SUBSET Validator) /\ elected' \in Seq(SUBSET Validator)
      BY <3>1 DEF AgentsTypeOK
    <3>3. Held \in Nat /\ Held' \in Nat
      BY ONLY <3>2 DEF Held
    <3>4. due \in Nat /\ due' \in Nat /\ heldAtStart[b] \in Nat /\ announced[b] \in Nat
      BY <3>1 DEF AgentsTypeOK
    <3> QED
      BY <3>3, <3>4
  <2>4. due <= due' /\ Held <= Held'
    OBVIOUS
  <2> HIDE DEF Held
  <2> QED
    BY ONLY <2>1, <2>2, <2>3, <2>4, SMT DEF OfRun
<1>2. \A b \in Agent : OfRun(b)'
  BY <1>1
<1> QED
  BY <1>2 DEF OfRun, AgentsInv, RunsAreNeeded, DoneMeansConcluded, AnnouncedElectionWasHeldMeanwhile

-----------------------------------------------------------------------------
LEMMA AgentsInitInv == AgentsInit => AgentsInv
<1> SUFFICES ASSUME AgentsInit PROVE AgentsInv
  OBVIOUS
<1>1. AgentsTypeOK
  BY DEF AgentsInit, AgentsTypeOK, Stages, Ended
<1> QED
  BY <1>1 DEF AgentsInit, AgentsInv, BegunIsDue, RunsAreNeeded, DoneMeansConcluded,
     AnnouncedElectionWasHeldMeanwhile, Ended

LEMMA PoolTyped ==
  ASSUME AgentsTypeOK, NEW count \in Nat, Abandon(count)
  PROVE  pool' \in Nat
  BY DEF Abandon, AgentsTypeOK

(* The other jobs keep what a step of this one leaves alone.                *)
SameRun(b) ==
  /\ jobStage'[b] = jobStage[b] /\ heldAtStart'[b] = heldAtStart[b]
  /\ foundDone'[b] = foundDone[b] /\ announced'[b] = announced[b]

(* A job that ends without success, be it by an error or killed, and leaves *)
(* transactions behind.                                                     *)
LEMMA FailingKeepsInv ==
  ASSUME AgentsInv, NEW a \in Agent, pool' \in Nat,
         UNCHANGED <<due, progress, elected, batch, foundDone, numErrors, heldAtStart, announced>>,
         unanswered' = [unanswered EXCEPT ![a] = 0],
         jobStage' = [jobStage EXCEPT ![a] = "failed"]
  PROVE  AgentsInv'
<1>t. AgentsTypeOK /\ BegunIsDue
  BY DEF AgentsInv
<1>1. AgentsTypeOK'
  BY <1>t DEF AgentsTypeOK, Stages, Ended
<1>2. OfRun(a)'
  BY <1>t DEF OfRun, Ended, AgentsTypeOK
<1>3. BegunIsDue' /\ Held' = Held /\ Held \in Nat
  BY <1>t DEF BegunIsDue, Held, AgentsTypeOK
<1>4. \A b \in Agent \ {a} : SameRun(b)
  BY <1>t DEF SameRun, AgentsTypeOK
<1> QED
  BY <1>t, <1>1, <1>2, <1>3, <1>4, OneRunSteps DEF SameRun, AgentsTypeOK

LEMMA StartKeepsInv ==
  ASSUME AgentsInv, NEW a \in Agent, Start(a) \/ CannotConnect(a)
  PROVE  AgentsInv'
<1>t. AgentsTypeOK /\ BegunIsDue
  BY DEF AgentsInv
<1>0. UNCHANGED <<due, progress, elected, pool, unanswered>>
  BY DEF Start, CannotConnect, electionVars, jobVars
<1>1. due' = due /\ Held' = Held /\ Held \in Nat /\ BegunIsDue'
  BY <1>0, <1>t DEF BegunIsDue, Held, AgentsTypeOK
<1>le. due <= due' /\ Held <= Held'
  BY <1>1, <1>t DEF AgentsTypeOK
<1>2. CASE Start(a) /\ ProcessingPeriod
  <2>1. /\ jobStage' = [jobStage EXCEPT ![a] = "sending"]
        /\ heldAtStart' = [heldAtStart EXCEPT ![a] = Held]
        /\ batch' = [batch EXCEPT ![a] = 0] /\ numErrors' = [numErrors EXCEPT ![a] = 0]
        /\ foundDone' = [foundDone EXCEPT ![a] = FALSE] /\ announced' = [announced EXCEPT ![a] = 0]
    BY <1>2 DEF Start, MoveTo
  <2>2. AgentsTypeOK'
    BY <1>t, <1>0, <1>1, <2>1 DEF AgentsTypeOK, Stages, Ended
  <2>3. Held < due
    BY <1>2, <1>t DEF ProcessingPeriod, BegunIsDue, AgentsTypeOK
  <2>4. OfRun(a)'
    BY <1>t, <1>1, <2>1, <2>3 DEF OfRun, Ended, AgentsTypeOK
  <2>5. \A b \in Agent \ {a} : SameRun(b)
    BY <1>t, <2>1 DEF SameRun, AgentsTypeOK
  <2> QED
    BY <1>1, <1>le, <2>2, <2>4, <2>5, OneRunSteps DEF SameRun
<1>3. CASE Start(a) /\ ~ProcessingPeriod
  <2>1. /\ jobStage' = [jobStage EXCEPT ![a] = "idle"] /\ heldAtStart' = heldAtStart
        /\ batch' = [batch EXCEPT ![a] = 0] /\ numErrors' = [numErrors EXCEPT ![a] = 0]
        /\ foundDone' = [foundDone EXCEPT ![a] = FALSE] /\ announced' = [announced EXCEPT ![a] = 0]
    BY <1>3 DEF Start, MoveTo
  <2>2. AgentsTypeOK'
    BY <1>t, <1>0, <2>1 DEF AgentsTypeOK, Stages, Ended
  <2>4. OfRun(a)'
    BY <1>t, <2>1 DEF OfRun, Ended, AgentsTypeOK
  <2>5. \A b \in Agent \ {a} : SameRun(b)
    BY <1>t, <2>1 DEF SameRun, AgentsTypeOK
  <2> QED
    BY <1>1, <1>le, <2>2, <2>4, <2>5, OneRunSteps DEF SameRun
<1>4. CASE CannotConnect(a)
  <2>1. jobStage' = [jobStage EXCEPT ![a] = "failed"] /\ UNCHANGED jobVars
    BY <1>4 DEF CannotConnect, MoveTo
  <2>2. AgentsTypeOK'
    BY <1>t, <1>0, <2>1 DEF AgentsTypeOK, Stages, Ended, jobVars
  <2>4. OfRun(a)'
    BY <1>t, <2>1 DEF OfRun, Ended, AgentsTypeOK
  <2>5. \A b \in Agent \ {a} : SameRun(b)
    BY <1>t, <2>1 DEF SameRun, AgentsTypeOK, jobVars
  <2> QED
    BY <1>1, <1>le, <2>2, <2>4, <2>5, OneRunSteps DEF SameRun
<1> QED
  BY <1>2, <1>3, <1>4

LEMMA WorkKeepsInv ==
  ASSUME AgentsInv, NEW a \in Agent, Work(a)
  PROVE  AgentsInv'
<1>t. AgentsTypeOK /\ BegunIsDue /\ OfRun(a)
  BY InvOfRun DEF AgentsInv
<1>0. UNCHANGED <<due, progress, elected, pool, foundDone, numErrors, heldAtStart>>
  BY DEF Work, SendBatch, JudgeBatch, CheckEnded, ReadElectionNumber, Announce, electionVars, jobVars
<1>1. due' = due /\ Held' = Held /\ Held \in Nat /\ BegunIsDue'
  BY <1>0, <1>t DEF BegunIsDue, Held, AgentsTypeOK
<1>le. due <= due' /\ Held <= Held'
  BY <1>1, <1>t DEF AgentsTypeOK
<1>2. ASSUME NEW s \in Stages, jobStage' = [jobStage EXCEPT ![a] = s],
             batch' \in [Agent -> Nat], unanswered' \in [Agent -> Nat],
             NEW n \in Nat, announced' = [announced EXCEPT ![a] = n],
             s \notin Ended => jobStage[a] \notin Ended,
             s \in {"reading", "announcing"} => heldAtStart[a] < Held,
             s \in {"announcing", "success"} => heldAtStart[a] < n /\ n <= Held
      PROVE  AgentsInv'
  <2>1. AgentsTypeOK'
    BY <1>t, <1>0, <1>2 DEF AgentsTypeOK
  <2>2. /\ jobStage'[a] = s /\ announced'[a] = n
        /\ heldAtStart'[a] = heldAtStart[a] /\ foundDone'[a] = foundDone[a]
    BY <1>t, <1>0, <1>2 DEF AgentsTypeOK
  <2>3. OfRun(a)'
    BY ONLY <1>t, <1>1, <1>2, <2>2 DEF OfRun
  <2>4. \A b \in Agent \ {a} : SameRun(b)
    BY <1>t, <1>0, <1>2 DEF SameRun, AgentsTypeOK
  <2> QED
    BY <1>1, <1>le, <2>1, <2>3, <2>4, OneRunSteps DEF SameRun
<1>3. announced = [announced EXCEPT ![a] = announced[a]] /\ announced[a] \in Nat
  BY <1>t DEF AgentsTypeOK
<1>4. CASE SendBatch(a)
  <2>1. /\ jobStage[a] = "sending" /\ UNCHANGED <<batch, announced>>
        /\ jobStage' = [jobStage EXCEPT ![a] = "waiting"]
        /\ unanswered' = [unanswered EXCEPT ![a] = BatchSize]
    BY <1>4 DEF SendBatch, MoveTo
  <2>2. batch' \in [Agent -> Nat] /\ unanswered' \in [Agent -> Nat]
    BY <1>t, <2>1, AgentsAssumption DEF AgentsTypeOK
  <2>3. "waiting" \in Stages /\ "waiting" \notin Ended \cup {"reading", "announcing", "success"}
        /\ jobStage[a] \notin Ended
    BY <2>1 DEF Stages, Ended
  <2>4. announced' = [announced EXCEPT ![a] = announced[a]]
    BY <1>3, <2>1
  <2> QED
    BY ONLY <1>2, <1>3, <2>1, <2>2, <2>3, <2>4
<1>5. CASE JudgeBatch(a)
  <2>1. PICK s \in {"checking", "failed", "sending"} : jobStage' = [jobStage EXCEPT ![a] = s]
    <3>1. CASE foundDone[a]
      BY <1>5, <3>1 DEF JudgeBatch, MoveTo
    <3>2. CASE ~foundDone[a] /\ numErrors[a] >= MaxErrors
      <4>1. ~(numErrors[a] < MaxErrors)
        BY <1>t, <3>2, AgentsAssumption DEF AgentsTypeOK
      <4>2. jobStage' = [jobStage EXCEPT ![a] = "failed"]
        BY <1>5, <3>2, <4>1 DEF JudgeBatch, MoveTo
      <4> QED
        BY <4>2
    <3>3. CASE ~foundDone[a] /\ ~(numErrors[a] >= MaxErrors)
      <4>1. numErrors[a] < MaxErrors
        BY <1>t, <3>3, AgentsAssumption DEF AgentsTypeOK
      <4>2. jobStage' = [jobStage EXCEPT ![a] = IF batch[a] + 1 < MaxBatches THEN "sending" ELSE "checking"]
        BY <1>5, <3>3, <4>1 DEF JudgeBatch, MoveTo
      <4> QED
        BY <4>2
    <3> QED
      BY <3>1, <3>2, <3>3
  <2>2. batch' \in [Agent -> Nat] /\ unanswered' = unanswered /\ announced' = announced
        /\ jobStage[a] = "waiting"
    BY <1>5, <1>t DEF JudgeBatch, AgentsTypeOK
  <2> QED
    BY <1>t, <1>2, <1>3, <2>1, <2>2 DEF Stages, Ended, AgentsTypeOK
<1>6. CASE CheckEnded(a)
  <2>1. UNCHANGED <<batch, unanswered, announced>> /\ jobStage[a] = "checking"
    BY <1>6 DEF CheckEnded, jobVars
  <2>2. CASE ProcessingPeriod
    BY <1>6, <1>t, <1>2, <1>3, <2>1, <2>2 DEF CheckEnded, MoveTo, Stages, Ended, AgentsTypeOK
  <2>3. CASE ~ProcessingPeriod
    <3>1. jobStage' = [jobStage EXCEPT ![a] = "reading"]
      BY <1>6, <2>3 DEF CheckEnded, MoveTo
    <3>2. heldAtStart[a] < Held
      BY <1>t, <1>1, <2>1, <2>3 DEF ProcessingPeriod, OfRun, Ended, AgentsTypeOK
    <3> QED
      BY <1>t, <1>2, <1>3, <2>1, <3>1, <3>2 DEF Stages, Ended, AgentsTypeOK
  <2> QED
    BY <2>2, <2>3
<1>7. CASE ReadElectionNumber(a)
  <2>1. /\ jobStage[a] = "reading" /\ UNCHANGED <<batch, unanswered>>
        /\ jobStage' = [jobStage EXCEPT ![a] = "announcing"]
        /\ announced' = [announced EXCEPT ![a] = Held]
    BY <1>7 DEF ReadElectionNumber, MoveTo
  <2>2. heldAtStart[a] < Held /\ Held <= Held
    BY <1>t, <1>1, <2>1 DEF OfRun, Ended
  <2> QED
    BY <1>t, <1>1, <1>2, <2>1, <2>2 DEF Stages, Ended, AgentsTypeOK
<1>8. CASE Announce(a)
  <2>1. /\ jobStage[a] = "announcing" /\ UNCHANGED <<batch, unanswered, announced>>
    BY <1>8 DEF Announce, jobVars
  <2>2. PICK s \in {"failed", "success"} : jobStage' = [jobStage EXCEPT ![a] = s]
    BY <1>8 DEF Announce, MoveTo
  <2> QED
    BY <1>t, <1>2, <1>3, <2>1, <2>2 DEF Stages, Ended, OfRun, AgentsTypeOK
<1> QED
  BY <1>4, <1>5, <1>6, <1>7, <1>8 DEF Work

LEMMA AnswerKeepsInv ==
  ASSUME AgentsInv, NEW a \in Agent, Answer(a)
  PROVE  AgentsInv'
<1>t. AgentsTypeOK /\ BegunIsDue /\ OfRun(a)
  BY InvOfRun DEF AgentsInv
<1>1. CASE AnswerExecuted(a)
  <2>1. /\ jobStage[a] = "waiting" /\ UNCHANGED <<jobStage, batch, heldAtStart, announced, pool, numErrors>>
        /\ unanswered[a] > 0 /\ unanswered' = [unanswered EXCEPT ![a] = unanswered[a] - 1]
    BY <1>1 DEF AnswerExecuted, Answered
  <2>2. Call
    BY <1>1 DEF AnswerExecuted, Call
  <2>3. /\ due' = due /\ due' \in Nat /\ progress' \in Nat /\ elected' \in Seq(SUBSET Validator)
        /\ Held' \in Nat /\ Held <= Held' /\ BegunIsDue' /\ Held \in Nat
    BY <1>t, <2>2, CallsKeepElections DEF AgentsTypeOK, Held
  <2>4. foundDone' \in [Agent -> BOOLEAN] /\ \A b \in Agent \ {a} : foundDone'[b] = foundDone[b]
    BY <1>1, <1>t DEF AnswerExecuted, AgentsTypeOK
  <2>5. unanswered' \in [Agent -> Nat]
    BY <1>t, <2>1 DEF AgentsTypeOK
  <2>6. AgentsTypeOK'
    BY <1>t, <2>1, <2>3, <2>4, <2>5 DEF AgentsTypeOK
  <2>7. heldAtStart[a] \in Nat /\ heldAtStart[a] <= Held /\ heldAtStart[a] < due
    BY <1>t, <2>1 DEF OfRun, Ended, AgentsTypeOK
  <2>8. foundDone'[a] => heldAtStart[a] < Held'
    <3>1. CASE UNCHANGED foundDone
      <4>1. foundDone[a] => heldAtStart[a] < Held
        BY <1>t, <2>1 DEF OfRun, Ended
      <4> QED
        BY <2>3, <2>7, <3>1, <4>1
    <3>2. CASE LastStage \/ RefuseCall
      BY <1>t, <2>7, <3>2, DoneHolds
    <3> QED
      BY <1>1, <3>1, <3>2 DEF AnswerExecuted
  <2>9. OfRun(a)'
    BY <2>1, <2>3, <2>7, <2>8 DEF OfRun, Ended
  <2>10. due <= due' /\ Held <= Held'
    <3>1. due \in Nat
      BY <1>t DEF AgentsTypeOK
    <3> QED
      BY ONLY <2>3, <3>1
  <2>11. \A b \in Agent \ {a} :
           /\ jobStage'[b] = jobStage[b] /\ heldAtStart'[b] = heldAtStart[b]
           /\ foundDone'[b] = foundDone[b] /\ announced'[b] = announced[b]
    BY <2>1, <2>4
  <2> QED
    BY <2>3, <2>6, <2>9, <2>10, <2>11, OneRunSteps
<1>2. CASE AnswerPending(a) \/ AnswerError(a)
  <2>1. /\ UNCHANGED <<due, progress, elected, jobStage, batch, heldAtStart, announced, foundDone>>
        /\ unanswered[a] > 0 /\ unanswered' = [unanswered EXCEPT ![a] = unanswered[a] - 1]
    BY <1>2 DEF AnswerPending, AnswerError, Answered, electionVars
  <2>2. pool' \in Nat
    BY <1>2, <1>t, PoolTyped DEF AnswerPending, AnswerError
  <2>3. unanswered' \in [Agent -> Nat] /\ numErrors' \in [Agent -> Nat]
    <3>1. unanswered' \in [Agent -> Nat]
      BY <1>t, <2>1 DEF AgentsTypeOK
    <3>2. numErrors' = numErrors \/ numErrors' = [numErrors EXCEPT ![a] = numErrors[a] + 1]
      BY <1>2 DEF AnswerPending, AnswerError
    <3>3. numErrors \in [Agent -> Nat]
      BY <1>t DEF AgentsTypeOK
    <3>4. numErrors[a] + 1 \in Nat
      BY <3>3
    <3>5. [numErrors EXCEPT ![a] = numErrors[a] + 1] \in [Agent -> Nat]
      BY ONLY <3>3, <3>4
    <3>6. numErrors' \in [Agent -> Nat]
      BY ONLY <3>2, <3>3, <3>5
    <3> QED
      BY <3>1, <3>6
  <2>4. AgentsTypeOK'
    BY <1>t, <2>1, <2>2, <2>3 DEF AgentsTypeOK
  <2>5. OfRun(a)' /\ BegunIsDue' /\ Held' = Held /\ Held \in Nat
    BY <1>t, <2>1 DEF OfRun, BegunIsDue, Held, AgentsTypeOK
  <2>6. due <= due' /\ Held <= Held'
    <3>1. due \in Nat
      BY <1>t DEF AgentsTypeOK
    <3> QED
      BY ONLY <2>1, <2>5, <3>1
  <2>7. \A b \in Agent \ {a} :
          /\ jobStage'[b] = jobStage[b] /\ heldAtStart'[b] = heldAtStart[b]
          /\ foundDone'[b] = foundDone[b] /\ announced'[b] = announced[b]
    BY <2>1
  <2> QED
    BY <2>4, <2>5, <2>6, <2>7, OneRunSteps
<1>3. CASE AnswerThrows(a)
  <2>1. /\ UNCHANGED <<due, progress, elected, batch, foundDone, numErrors, heldAtStart, announced>>
        /\ unanswered' = [unanswered EXCEPT ![a] = 0]
        /\ jobStage' = [jobStage EXCEPT ![a] = "failed"]
    BY <1>3 DEF AnswerThrows, MoveTo, electionVars
  <2>2. pool' \in Nat
    BY <1>3, <1>t, PoolTyped DEF AnswerThrows, AgentsTypeOK
  <2> QED
    BY <1>t, <2>1, <2>2, FailingKeepsInv
<1> QED
  BY <1>1, <1>2, <1>3 DEF Answer

LEMMA KillKeepsInv ==
  ASSUME AgentsInv, NEW a \in Agent, Kill(a)
  PROVE  AgentsInv'
<1>t. AgentsTypeOK
  BY DEF AgentsInv
<1>1. /\ UNCHANGED <<due, progress, elected, batch, foundDone, numErrors, heldAtStart, announced>>
      /\ unanswered' = [unanswered EXCEPT ![a] = 0]
      /\ jobStage' = [jobStage EXCEPT ![a] = "failed"]
  BY DEF Kill, MoveTo, electionVars
<1>2. pool' \in Nat
  BY <1>t, PoolTyped DEF Kill, AgentsTypeOK
<1> QED
  BY <1>1, <1>2, FailingKeepsInv

(* Transactions that take effect late, for whomever, and elections that     *)
(* come due.                                                                *)
LEMMA OthersKeepInv ==
  ASSUME AgentsInv, MirrorPeriodEnds \/ LateExecution
  PROVE  AgentsInv'
<1> USE DEF AgentsInv, AgentsTypeOK
<1>h. Held \in Nat
  BY DEF Held
<1> USE <1>h
<1>1. CASE MirrorPeriodEnds
  <2>1. due <= due' /\ Held' = Held /\ BegunIsDue'
    BY <1>1 DEF MirrorPeriodEnds, BegunIsDue, Held
  <2> QED
    BY <1>1, <2>1, RunsUndisturbed DEF MirrorPeriodEnds, Held
<1>2. CASE LateExecution
  <2>1. Call /\ pool' \in Nat /\ UNCHANGED <<jobStage, jobVars>>
    BY <1>2 DEF LateExecution, Call
  <2>2. due <= due' /\ Held <= Held' /\ BegunIsDue'
    BY <2>1, CallsKeepElections
  <2> QED
    BY <2>1, <2>2, CallsKeepElections, RunsUndisturbed
<1> QED
  BY <1>1, <1>2

LEMMA AgentsNextInv == AgentsInv /\ [AgentsNext]_agentVars => AgentsInv'
<1> SUFFICES ASSUME AgentsInv, [AgentsNext]_agentVars PROVE AgentsInv'
  OBVIOUS
<1>1. CASE UNCHANGED agentVars
  BY <1>1 DEF agentVars, electionVars, jobVars, AgentsInv, AgentsTypeOK, BegunIsDue, RunsAreNeeded,
     DoneMeansConcluded, AnnouncedElectionWasHeldMeanwhile, Held
<1>2. CASE AgentsNext
  BY <1>2, StartKeepsInv, WorkKeepsInv, AnswerKeepsInv, KillKeepsInv, OthersKeepInv DEF AgentsNext
<1> QED
  BY <1>1, <1>2

(* What jobs find and announce is true, for any number of jobs, of lost and *)
(* late transactions, of errors and of killed jobs.                         *)
THEOREM AgentsAlwaysTruthful == AgentsSpec => []AgentsAreTruthful
<1>1. AgentsInv => AgentsAreTruthful
  BY DEF AgentsInv, AgentsAreTruthful
<1> QED
  BY <1>1, AgentsInitInv, AgentsNextInv, PTL DEF AgentsSpec

-----------------------------------------------------------------------------
(* II.  The mirroring job.  First what a mirrored event does to the record. *)

LEMMA EventIsTyped ==
  ASSUME NEW e \in DelegationEvents
  PROVE  /\ e.delegator \in Address /\ e.block \in Nat /\ e.block # 0 /\ e.tx \in Nat
         /\ e.method \in {DelegateMethod, TransferMethod} /\ e.agent \in Address
         /\ e.block \in Block
  BY EventsAssumption, MaxBlockAssumption DEF DelegationEvent, Block

LEMMA ExecutedEvent ==
  ASSUME NEW g \in DelegationEvents, Execute(g), MirrorTypeOK
  PROVE  /\ MirrorTypeOK'
         /\ \A d \in Address \ {g.delegator} : delegation'[d] = delegation[d]
         /\ \/ Supersedes(g, delegation[g.delegator]) /\ delegation'[g.delegator] = RecordOf(g)
            \/ ~Supersedes(g, delegation[g.delegator])
               /\ delegation'[g.delegator] = delegation[g.delegator]
<1>1. offered' = offered \cup {g} /\ MirrorDelegationData(g)
  BY DEF Execute, MirrorDelegation, MirrorDelegationByTransfer, MirrorDelegateImpl
<1>2. CASE Supersedes(g, delegation[g.delegator]) /\ WriteDelegation(g)
  <2>1. RecordOf(g) \in DelegationRecord
    BY EventIsTyped DEF RecordOf, DelegationRecord, StoredAgent, Account
  <2>2. delegators' \in Seq(Address)
    BY <1>2, EventIsTyped DEF WriteDelegation, MirrorTypeOK
  <2>3. delegation' = [delegation EXCEPT ![g.delegator] = RecordOf(g)]
    BY <1>2 DEF WriteDelegation
  <2> QED
    BY <1>1, <1>2, <2>1, <2>2, <2>3, EventIsTyped DEF MirrorTypeOK
<1>3. CASE ~Supersedes(g, delegation[g.delegator]) /\ UNCHANGED <<delegators, delegation>>
  BY <1>1, <1>3 DEF MirrorTypeOK
<1> QED
  BY <1>1, <1>2, <1>3 DEF MirrorDelegationData

LEMMA RecordReads ==
  ASSUME NEW e \in DelegationEvents
  PROVE  RecordOf(e).method = e.method /\ RecordOf(e).block = e.block /\ RecordOf(e).tx = e.tx
  BY DEF RecordOf

LEMMA MethodsDiffer ==
  /\ NoMethod # DelegateMethod /\ NoMethod # TransferMethod /\ DelegateMethod # TransferMethod
  BY DEF NoMethod, DelegateMethod, TransferMethod

(* What one event no longer supersedes, a stronger record no longer lets    *)
(* it supersede either.                                                     *)
LEMMA RecordsGrowStronger ==
  ASSUME NEW e \in DelegationEvents, NEW g \in DelegationEvents, NEW old \in DelegationRecord,
         ~Supersedes(e, old), Supersedes(g, old)
  PROVE  ~Supersedes(e, RecordOf(g))
<1>1. /\ old.block \in Nat /\ old.tx \in Nat
      /\ old.method \in {NoMethod, DelegateMethod, TransferMethod}
  BY MaxBlockAssumption DEF DelegationRecord, Block
<1>2. /\ e.method \in {DelegateMethod, TransferMethod} /\ e.block \in Nat /\ e.tx \in Nat
      /\ g.method \in {DelegateMethod, TransferMethod} /\ g.block \in Nat /\ g.tx \in Nat
  BY EventIsTyped
<1>3. PICK r : r = RecordOf(g)
  OBVIOUS
<1>4. /\ r.method = g.method /\ r.block = g.block /\ r.tx = g.tx
      /\ r.block \in Nat /\ r.tx \in Nat
  BY <1>2, <1>3, RecordReads
<1>5. ~Supersedes(e, r)
  BY ONLY ~Supersedes(e, old), Supersedes(g, old), <1>1, <1>2, <1>4, MethodsDiffer DEF Supersedes
<1> QED
  BY <1>3, <1>5

(* Whatever is mirrored stays mirrored, whoever submits.                    *)
LEMMA MirroredStays ==
  ASSUME MirrorTypeOK, NEW g \in DelegationEvents, Execute(g),
         NEW e \in DelegationEvents, Mirrored(e)
  PROVE  Mirrored(e)'
<1>1. delegation[e.delegator] \in DelegationRecord
  BY EventIsTyped DEF MirrorTypeOK
<1>2. CASE e.delegator # g.delegator
  BY <1>2, ExecutedEvent, EventIsTyped DEF Mirrored
<1>3. CASE e.delegator = g.delegator
  BY <1>1, <1>3, ExecutedEvent, RecordsGrowStronger DEF Mirrored
<1> QED
  BY <1>2, <1>3

(* An event that is no longer accepted makes the same of those of its       *)
(* method that are not newer.                                               *)
LEMMA OlderIsMirrored ==
  ASSUME NEW e \in DelegationEvents, NEW f \in DelegationEvents, NEW old \in DelegationRecord,
         f.method = e.method, ~IsNewer(e, f), ~Supersedes(f, old)
  PROVE  ~Supersedes(e, old)
<1>1. /\ old.block \in Nat /\ old.tx \in Nat
      /\ old.method \in {NoMethod, DelegateMethod, TransferMethod}
  BY MaxBlockAssumption DEF DelegationRecord, Block
<1>2. /\ e.method \in {DelegateMethod, TransferMethod} /\ e.block \in Nat /\ e.tx \in Nat
      /\ f.block \in Nat /\ f.tx \in Nat
  BY EventIsTyped
<1> QED
  BY ONLY f.method = e.method, ~IsNewer(e, f), ~Supersedes(f, old), <1>1, <1>2, MethodsDiffer
     DEF Supersedes, IsNewer

LEMMA ExecutedIsMirrored ==
  ASSUME MirrorTypeOK, NEW f \in DelegationEvents, Execute(f), NEW e \in DelegationEvents,
         f.delegator = e.delegator, f.method = e.method, ~IsNewer(e, f)
  PROVE  Mirrored(e)'
<1>1. delegation'[f.delegator] \in DelegationRecord
  BY ExecutedEvent, EventIsTyped DEF MirrorTypeOK
<1>2. ~Supersedes(f, delegation'[f.delegator])
  <2>1. ~Supersedes(f, RecordOf(f))
    <3>1. f.method \in {DelegateMethod, TransferMethod} /\ f.block \in Nat /\ f.tx \in Nat
      BY EventIsTyped
    <3>2. PICK r : r = RecordOf(f)
      OBVIOUS
    <3>3. /\ r.method = f.method /\ r.block = f.block /\ r.tx = f.tx
          /\ r.block \in Nat /\ r.tx \in Nat
      BY <3>1, <3>2, RecordReads
    <3>4. ~Supersedes(f, r)
      BY ONLY <3>1, <3>3, MethodsDiffer DEF Supersedes
    <3> QED
      BY <3>2, <3>4
  <2> QED
    BY <2>1, ExecutedEvent
<1>3. ~Supersedes(e, delegation'[f.delegator])
  BY <1>1, <1>2, OlderIsMirrored
<1> QED
  BY <1>3 DEF Mirrored

-----------------------------------------------------------------------------
(* Of the events of a range the latest of each delegator suffice.           *)
LEMMA LatestSuffice ==
  ASSUME NEW events \in SUBSET DelegationEvents, NEW e \in events
  PROVE  \E f \in LatestOfEach(events) : f.delegator = e.delegator /\ ~IsNewer(e, f)
<1> DEFINE Newest(f, T) == \A g \in T : ~IsNewer(g, f)
           mine == {f \in events : f.delegator = e.delegator}
           Good == {T \in SUBSET mine : T = {} \/ \E f \in T : Newest(f, T)}
<1>1. IsFiniteSet(mine)
  BY EventsAreFinite, FS_Subset
<1>2. ASSUME NEW T \in SUBSET mine, \A U \in SUBSET T : U # T => U \in Good
      PROVE  T \in Good
  <2>1. SUFFICES ASSUME NEW x \in T PROVE \E f \in T : Newest(f, T)
    OBVIOUS
  <2>2. T \ {x} \in Good
    BY <1>2
  <2>3. CASE T \ {x} = {}
    BY <2>3, EventIsTyped DEF IsNewer
  <2>4. CASE T \ {x} # {}
    <3>1. PICK f \in T \ {x} : Newest(f, T \ {x})
      BY <2>2, <2>4
    <3>2. \A g \in T : g \in DelegationEvents
      OBVIOUS
    <3>3. \A g \in T : g.block \in Nat /\ g.tx \in Nat
      BY <3>2, EventIsTyped
    <3>4. CASE IsNewer(x, f)
      BY <3>1, <3>3, <3>4 DEF IsNewer
    <3>5. CASE ~IsNewer(x, f)
      BY <3>1, <3>5
    <3> QED
      BY <3>4, <3>5
  <2> QED
    BY <2>3, <2>4
<1>3. mine \in Good
  <2> HIDE DEF mine, Good
  <2>1. \A T \in SUBSET mine : T \in Good
    BY <1>1, <1>2, SubsetInduction
  <2> QED
    BY <2>1
<1>4. PICK f \in mine : Newest(f, mine)
  BY <1>3
<1>5. f \in LatestOfEach(events)
  BY <1>4 DEF LatestOfEach
<1> QED
  BY <1>4, <1>5

(* The ranges of a window leave no block out, share their borders and are   *)
(* never a single block.                                                    *)
LEMMA RangesCover ==
  ASSUME NEW from \in Nat, NEW to \in Nat, from < to, NEW pace \in Nat \ {0}
  PROVE  /\ RangesOf(from, to, pace) \in Seq(RangeOfBlocks)
         /\ \A i \in DOMAIN RangesOf(from, to, pace) :
              RangesOf(from, to, pace)[i].from < RangesOf(from, to, pace)[i].to
         /\ \A b \in from .. to : \E i \in DOMAIN RangesOf(from, to, pace) :
              b \in RangesOf(from, to, pace)[i].from .. RangesOf(from, to, pace)[i].to
<1> DEFINE count == (to - from + pace - 1) \div pace
           first(i) == from + (i - 1) * pace
           last(i) == IF from + i * pace < to THEN from + i * pace ELSE to
           ranges == RangesOf(from, to, pace)
<1>1. /\ count \in Nat /\ count >= 1
      /\ pace * count <= to - from + pace - 1 /\ to - from <= pace * count
  <2>1. PICK x \in Int : x = to - from + pace - 1
    OBVIOUS
  <2>2. x = pace * (x \div pace) + (x % pace) /\ x % pace \in 0 .. pace - 1 /\ x \div pace \in Int
    BY DivisionOf
  <2>3. PICK q \in Int, r \in Int : q = x \div pace /\ r = x % pace
    BY <2>2
  <2>4. x = pace * q + r /\ r >= 0 /\ r <= pace - 1
    BY <2>2, <2>3
  <2>5. q >= 1
    <3>1. pace * q > 0
      BY <2>1, <2>4
    <3> QED
      BY <3>1
  <2> QED
    BY <2>1, <2>3, <2>4, <2>5
<1>2. ranges = [i \in 1 .. count |-> [from |-> first(i), to |-> last(i), pace |-> pace]]
  BY DEF RangesOf
<1> HIDE DEF count, ranges
<1>3. ASSUME NEW i \in 1 .. count
      PROVE  first(i) \in Nat /\ last(i) \in Nat /\ first(i) < last(i)
  <2>1. i \in Nat /\ i >= 1 /\ i <= count
    BY <1>1
  <2>2. PICK p \in Int, n \in Int : p = (i - 1) * pace /\ n = i * pace
    OBVIOUS
  <2>3. n = p + pace /\ p >= 0
    BY <2>1, <2>2
  <2>4. n <= pace * count
    BY <1>1, <2>1, <2>2
  <2>5. p < to - from
    BY <1>1, <2>3, <2>4
  <2> QED
    BY <2>2, <2>3, <2>5
<1>4. ranges \in Seq(RangeOfBlocks)
  <2>1. \A i \in 1 .. count : [from |-> first(i), to |-> last(i), pace |-> pace] \in RangeOfBlocks
    BY <1>3 DEF RangeOfBlocks
  <2> HIDE DEF first, last
  <2> QED
    BY <1>1, <1>2, <2>1
<1>5. DOMAIN ranges = 1 .. count
  BY <1>2
<1>6. \A i \in 1 .. count : ranges[i].from = first(i) /\ ranges[i].to = last(i)
  BY <1>2
<1>7. ASSUME NEW b \in from .. to
      PROVE  \E i \in 1 .. count : first(i) <= b /\ b <= last(i)
  <2>1. CASE b = to
    <3>1. PICK c \in Int, n \in Int : c = count /\ n = count * pace
      BY <1>1
    <3>2. count \in 1 .. count /\ last(count) = to
      BY <1>1
    <3> QED
      BY <1>3, <2>1, <3>2
  <2>2. CASE b < to
    <3>1. PICK x \in Nat : x = b - from
      OBVIOUS
    <3>2. x = pace * (x \div pace) + (x % pace) /\ x % pace \in 0 .. pace - 1 /\ x \div pace \in Int
      BY DivisionOf
    <3>3. PICK q \in Int, r \in Int : q = x \div pace /\ r = x % pace
      BY <3>2
    <3>4. x = pace * q + r /\ r >= 0 /\ r <= pace - 1 /\ q >= 0
      <4>1. x = pace * q + r /\ r >= 0 /\ r <= pace - 1
        BY <3>2, <3>3
      <4>2. pace * q > -pace
        BY <4>1
      <4>3. q >= 0
        BY <4>2
      <4> QED
        BY <4>1, <4>3
    <3>5. q + 1 <= count
      <4>1. pace * q < pace * count
        BY <1>1, <2>2, <3>1, <3>4
      <4>2. q < count
        BY <1>1, <4>1
      <4> QED
        BY <1>1, <4>2
    <3>6. (q + 1) - 1 = q /\ q * pace = pace * q /\ (q + 1) * pace = pace * q + pace
      BY <3>3
    <3>7. PICK p \in Int : p = pace * q
      BY <3>3
    <3>8. first(q + 1) = from + p
      BY <3>6, <3>7
    <3>9. last(q + 1) = IF from + (p + pace) < to THEN from + (p + pace) ELSE to
      BY <3>6, <3>7
    <3>10. first(q + 1) <= b /\ b <= last(q + 1)
      <4> HIDE DEF first, last
      <4> QED
        BY <2>2, <3>1, <3>4, <3>7, <3>8, <3>9
    <3>11. q + 1 \in 1 .. count
      BY <1>1, <3>3, <3>4, <3>5
    <3> HIDE DEF first, last
    <3> QED
      BY <3>10, <3>11
  <2> QED
    BY <2>1, <2>2
<1>8. \A i \in 1 .. count : ranges[i].from < ranges[i].to
  BY <1>3, <1>6
<1>9. \A b \in from .. to : \E i \in 1 .. count : b \in ranges[i].from .. ranges[i].to
  <2> SUFFICES ASSUME NEW b \in from .. to
               PROVE  \E i \in 1 .. count : b \in ranges[i].from .. ranges[i].to
    OBVIOUS
  <2>1. PICK i \in 1 .. count : first(i) <= b /\ b <= last(i)
    BY <1>7
  <2>2. ranges[i].from \in Nat /\ ranges[i].to \in Nat /\ ranges[i].from <= b /\ b <= ranges[i].to
    BY <1>3, <1>6, <2>1
  <2>3. b \in ranges[i].from .. ranges[i].to
    BY <2>2
  <2> QED
    BY <2>3
<1> QED
  BY <1>4, <1>5, <1>8, <1>9 DEF ranges

-----------------------------------------------------------------------------
(* What the run knows of the range at hand.  An event is in hand while one  *)
(* of its delegator that is not older is found or about to be sent.         *)

InHand(e) ==
  \E f \in found \cup newEvents :
    f.delegator = e.delegator /\ f.method = e.method /\ ~IsNewer(e, f)

RangeIsMirrored(method) ==
  \A e \in EventsIn(todo[1].from, todo[1].to, method) : Mirrored(e)

RangeIsInHand(method) ==
  \A e \in EventsIn(todo[1].from, todo[1].to, method) : Mirrored(e) \/ InHand(e)

RangeIsSearched ==
  undisturbed =>
    /\ stage = "queryTransfers" => RangeIsInHand(TransferMethod)
    /\ stage \in {"delegates", "queryDelegates"} => RangeIsMirrored(TransferMethod)
    /\ stage = "queryDelegates" => RangeIsInHand(DelegateMethod)

RangesAreWide == \A i \in DOMAIN todo : todo[i].from < todo[i].to

ThereIsARange == stage \in {"delegates"} \cup Querying => todo # <<>>

MirrorJobInv ==
  /\ AgentTypeOK /\ RangesAreWide /\ ThereIsARange
  /\ RangeIsSearched /\ WindowIsCovered /\ CompleteRunsMirrorAll

LEMMA EventsOfARange ==
  ASSUME NEW from, NEW to, NEW method, NEW e \in EventsIn(from, to, method)
  PROVE  e \in DelegationEvents /\ e.method = method /\ e.block \in from .. to
  BY DEF EventsIn

LEMMA EventsOfAWindow == ASSUME NEW from, NEW to, NEW e \in DelegationsIn(from, to)
  PROVE  /\ e \in DelegationEvents /\ e.block \in from .. to
         /\ e.method \in {DelegateMethod, TransferMethod}
         /\ e \in EventsIn(from, to, e.method)
  BY DEF DelegationsIn, EventsIn

(* A step in which mirrored events stay mirrored leaves the window and the  *)
(* complete runs covered, as long as no range is given up.                  *)
LEMMA CoverageStays ==
  ASSUME MirrorJobInv, \A e \in DelegationEvents : Mirrored(e) => Mirrored(e)'
  PROVE  /\ mirroredTo' = mirroredTo => CompleteRunsMirrorAll'
         /\ UNCHANGED <<window, todo>> /\ (stage' # "idle" => stage # "idle")
            /\ (undisturbed' => undisturbed) => WindowIsCovered'
<1>1. ASSUME mirroredTo' = mirroredTo PROVE CompleteRunsMirrorAll'
  <2> SUFFICES ASSUME NEW e \in DelegationsIn(0, mirroredTo) PROVE Mirrored(e)'
    BY <1>1 DEF CompleteRunsMirrorAll
  <2> QED
    BY EventsOfAWindow DEF MirrorJobInv, CompleteRunsMirrorAll
<1>2. ASSUME UNCHANGED <<window, todo>>, stage' # "idle" => stage # "idle",
             undisturbed' => undisturbed
      PROVE  WindowIsCovered'
  <2> SUFFICES ASSUME stage' # "idle", undisturbed',
                      NEW e \in DelegationsIn(window.from, window.to)
               PROVE  \/ Mirrored(e)'
                      \/ window.from = window.to
                      \/ \E i \in DOMAIN todo : e.block \in todo[i].from .. todo[i].to
    BY <1>2 DEF WindowIsCovered
  <2>1. \/ Mirrored(e)
        \/ window.from = window.to
        \/ \E i \in DOMAIN todo : e.block \in todo[i].from .. todo[i].to
    BY <1>2 DEF MirrorJobInv, WindowIsCovered
  <2>2. e \in DelegationEvents
    BY EventsOfAWindow
  <2> QED
    BY <2>1, <2>2
<1> QED
  BY <1>1, <1>2

LEMMA MirroredUnchanged ==
  ASSUME UNCHANGED mirrorVars PROVE \A e : Mirrored(e)' <=> Mirrored(e)
  BY DEF mirrorVars, Mirrored

(* The chains go on, and other agents mirror.                               *)
LEMMA OthersStep ==
  ASSUME MirrorJobInv, UNCHANGED runVars, MirrorTypeOK', ethBlock' \in Nat, electionBlock' \in Nat,
         \A e \in DelegationEvents : Mirrored(e) => Mirrored(e)'
  PROVE  MirrorJobInv'
<1>1. /\ stage' = stage /\ window' = window /\ todo' = todo /\ found' = found
      /\ newEvents' = newEvents /\ mirroredTo' = mirroredTo /\ undisturbed' = undisturbed
  BY DEF runVars
<1>2. AgentTypeOK' /\ RangesAreWide' /\ ThereIsARange'
  BY <1>1 DEF MirrorJobInv, AgentTypeOK, RangesAreWide, ThereIsARange
<1>3. \A e : InHand(e)' <=> InHand(e)
  BY <1>1 DEF InHand
<1>4. RangeIsSearched'
  <2>1. \A m : /\ RangeIsMirrored(m) => RangeIsMirrored(m)'
               /\ RangeIsInHand(m) => RangeIsInHand(m)'
    BY <1>1, <1>3, EventsOfARange DEF RangeIsMirrored, RangeIsInHand
  <2> QED
    BY <1>1, <2>1 DEF MirrorJobInv, RangeIsSearched
<1>5. WindowIsCovered' /\ CompleteRunsMirrorAll'
  BY <1>1, CoverageStays
<1> QED
  BY <1>2, <1>4, <1>5 DEF MirrorJobInv

LEMMA ChainsStep ==
  ASSUME MirrorJobInv, AdvanceEthereum \/ BeginProcessing \/ ConcludeElection
  PROVE  MirrorJobInv'
<1>1. UNCHANGED mirrorVars /\ UNCHANGED runVars
  BY DEF AdvanceEthereum, BeginProcessing, ConcludeElection
<1>2. MirrorTypeOK'
  BY <1>1 DEF MirrorJobInv, AgentTypeOK, MirrorTypeOK, mirrorVars
<1>3. ethBlock' \in Nat /\ electionBlock' \in Nat
  BY PaceAssumption DEF MirrorJobInv, AgentTypeOK, AdvanceEthereum, BeginProcessing, ConcludeElection
<1> QED
  BY <1>1, <1>2, <1>3, MirroredUnchanged, OthersStep

LEMMA OtherAgentStep ==
  ASSUME MirrorJobInv, OtherAgentMirrors PROVE MirrorJobInv'
<1>1. PICK g \in DelegationEvents : Execute(g) /\ UNCHANGED <<chainVars, runVars>>
  BY DEF OtherAgentMirrors
<1>2. MirrorTypeOK
  BY DEF MirrorJobInv, AgentTypeOK
<1>3. MirrorTypeOK' /\ \A e \in DelegationEvents : Mirrored(e) => Mirrored(e)'
  BY <1>1, <1>2, ExecutedEvent, MirroredStays
<1>4. ethBlock' \in Nat /\ electionBlock' \in Nat
  BY <1>1 DEF MirrorJobInv, AgentTypeOK, chainVars
<1> QED
  BY <1>1, <1>3, <1>4, OthersStep

-----------------------------------------------------------------------------
(* The run's own steps.                                                     *)

LEMMA StartRunStep == ASSUME MirrorJobInv, StartRun PROVE MirrorJobInv'
<1>1. PICK to : to = IF ethBlock > electionBlock THEN electionBlock ELSE ethBlock
  OBVIOUS
<1>2. PICK from \in {0, IF ethBlock > LookBack THEN ethBlock - LookBack ELSE 0} :
        /\ window' = [from |-> from, to |-> to]
        /\ todo' = IF from < to THEN RangesOf(from, to, Pace) ELSE <<>>
  BY <1>1 DEF StartRun
<1>3. /\ stage' = "transfers" /\ UNCHANGED <<mirrorVars, chainVars>>
      /\ found' = found /\ newEvents' = newEvents /\ mirroredTo' = mirroredTo
  BY DEF StartRun
<1>4. to \in Nat /\ from \in Nat /\ Pace \in Nat \ {0}
  BY <1>1, <1>2, PaceAssumption DEF MirrorJobInv, AgentTypeOK
<1>5. /\ todo' \in Seq(RangeOfBlocks) /\ RangesAreWide'
      /\ from < to => \A b \in from .. to : \E i \in DOMAIN todo' : b \in todo'[i].from .. todo'[i].to
  <2>1. CASE from < to
    BY <1>2, <1>4, <2>1, RangesCover DEF RangesAreWide
  <2>2. CASE ~(from < to)
    BY <1>2, <2>2 DEF RangesAreWide
  <2> QED
    BY <2>1, <2>2
<1>6. AgentTypeOK'
  <2>1. MirrorTypeOK' /\ ethBlock' \in Nat /\ electionBlock' \in Nat
    BY <1>3 DEF MirrorJobInv, AgentTypeOK, MirrorTypeOK, mirrorVars, chainVars
  <2> QED
    BY <1>2, <1>3, <1>4, <1>5, <2>1 DEF MirrorJobInv, AgentTypeOK, Searching
<1>7. ThereIsARange' /\ RangeIsSearched'
  BY <1>3 DEF ThereIsARange, RangeIsSearched, Querying
<1>8. WindowIsCovered'
  <2> SUFFICES ASSUME NEW e \in DelegationsIn(from, to)
               PROVE  from = to \/ \E i \in DOMAIN todo' : e.block \in todo'[i].from .. todo'[i].to
    BY <1>2 DEF WindowIsCovered
  <2>1. e.block \in from .. to
    BY EventsOfAWindow
  <2>2. from < to \/ from = to
    BY <1>4, <2>1
  <2> QED
    BY <1>5, <2>1, <2>2
<1>9. CompleteRunsMirrorAll'
  BY <1>3, CoverageStays, MirroredUnchanged
<1> QED
  BY <1>5, <1>6, <1>7, <1>8, <1>9 DEF MirrorJobInv

(* The contract is not called: what was mirrored remains so.                *)
LEMMA QuietStep ==
  ASSUME MirrorJobInv, UNCHANGED <<mirrorVars, chainVars, window, mirroredTo, undisturbed>>,
         stage # "idle"
  PROVE  /\ \A e : Mirrored(e)' <=> Mirrored(e)
         /\ CompleteRunsMirrorAll'
         /\ UNCHANGED todo => WindowIsCovered'
         /\ stage' \in {"idle"} \cup Searching \cup Querying /\ todo' \in Seq(RangeOfBlocks)
            /\ found' \cup newEvents' \subseteq DelegationEvents => AgentTypeOK'
<1>1. \A e : Mirrored(e)' <=> Mirrored(e)
  BY MirroredUnchanged
<1>2. CompleteRunsMirrorAll'
  BY <1>1, CoverageStays
<1>3. UNCHANGED todo => WindowIsCovered'
  BY <1>1, CoverageStays
<1>4. MirrorTypeOK' /\ ethBlock' \in Nat /\ electionBlock' \in Nat
  BY DEF MirrorJobInv, AgentTypeOK, MirrorTypeOK, mirrorVars, chainVars
<1> QED
  BY <1>1, <1>2, <1>3, <1>4 DEF MirrorJobInv, AgentTypeOK

LEMMA FetchEventsStep == ASSUME MirrorJobInv, FetchEvents PROVE MirrorJobInv'
<1>0. PICK method : method = MethodSearched
  OBVIOUS
<1> DEFINE events == EventsIn(todo[1].from, todo[1].to, method)
<1>1. /\ stage \in Searching /\ todo # <<>>
      /\ found' = LatestOfEach(events)
      /\ stage' = IF stage = "transfers" THEN "queryTransfers" ELSE "queryDelegates"
      /\ UNCHANGED <<mirrorVars, chainVars, window, mirroredTo, undisturbed>>
      /\ todo' = todo /\ newEvents' = newEvents
  BY <1>0 DEF FetchEvents
<1>2. stage # "idle"
  BY <1>1 DEF Searching
<1>3. events \in SUBSET DelegationEvents /\ LatestOfEach(events) \subseteq events
  BY DEF EventsIn, LatestOfEach
<1>4. AgentTypeOK' /\ WindowIsCovered' /\ CompleteRunsMirrorAll'
  <2>1. stage' \in Querying /\ found' \cup newEvents' \subseteq DelegationEvents
    BY <1>1, <1>3 DEF Querying, MirrorJobInv, AgentTypeOK
  <2>2. todo \in Seq(RangeOfBlocks)
    BY DEF MirrorJobInv, AgentTypeOK
  <2> HIDE DEF events
  <2> QED
    BY <1>1, <1>2, <2>1, <2>2, QuietStep
<1>5. RangesAreWide' /\ ThereIsARange'
  BY <1>1 DEF MirrorJobInv, RangesAreWide, ThereIsARange
<1>6. RangeIsInHand(method)'
  <2> SUFFICES ASSUME NEW e \in events PROVE InHand(e)'
    BY <1>1 DEF RangeIsInHand
  <2>1. PICK f \in LatestOfEach(events) : f.delegator = e.delegator /\ ~IsNewer(e, f)
    <3> HIDE DEF events
    <3> QED BY <1>3, LatestSuffice
  <2>2. f.method = e.method
    BY <1>3, <2>1, EventsOfARange
  <2> QED
    BY <1>1, <2>1, <2>2 DEF InHand
<1>7. RangeIsSearched'
  <2>1. CASE stage = "transfers"
    BY <1>0, <1>1, <1>6, <2>1 DEF RangeIsSearched, MethodSearched
  <2>2. CASE stage = "delegates"
    <3>1. undisturbed' => RangeIsMirrored(TransferMethod)'
      BY <1>1, <1>2, <2>2, QuietStep, EventsOfARange DEF MirrorJobInv, RangeIsSearched, RangeIsMirrored
    <3> QED
      BY <1>0, <1>1, <1>6, <2>2, <3>1 DEF RangeIsSearched, MethodSearched
  <2> QED
    BY <1>1, <2>1, <2>2 DEF Searching
<1> QED
  BY <1>4, <1>5, <1>7 DEF MirrorJobInv

LEMMA QueryEventStep == ASSUME MirrorJobInv, QueryEvent PROVE MirrorJobInv'
<1>1. PICK f \in found : /\ found' = found \ {f}
                         /\ newEvents' = IF Supersedes(f, delegation[f.delegator])
                                           THEN newEvents \cup {f} ELSE newEvents
  BY DEF QueryEvent
<1>2. /\ stage \in Querying /\ stage' = stage /\ todo' = todo
      /\ UNCHANGED <<mirrorVars, chainVars, window, mirroredTo, undisturbed>>
  BY DEF QueryEvent
<1>3. stage # "idle"
  BY <1>2 DEF Querying
<1>4. f \in DelegationEvents /\ found' \cup newEvents' \subseteq DelegationEvents
  BY <1>1 DEF MirrorJobInv, AgentTypeOK
<1>5. AgentTypeOK' /\ WindowIsCovered' /\ CompleteRunsMirrorAll'
  <2>1. stage' \in {"idle"} \cup Searching \cup Querying /\ todo' \in Seq(RangeOfBlocks)
    BY <1>2 DEF MirrorJobInv, AgentTypeOK
  <2> QED
    BY <1>2, <1>3, <1>4, <2>1, QuietStep
<1>6. RangesAreWide' /\ ThereIsARange'
  BY <1>2 DEF MirrorJobInv, RangesAreWide, ThereIsARange
<1>7. ASSUME NEW e \in DelegationEvents, Mirrored(e) \/ InHand(e) PROVE Mirrored(e)' \/ InHand(e)'
  <2>1. \A e1 : Mirrored(e1)' <=> Mirrored(e1)
    BY <1>2, MirroredUnchanged
  <2>2. CASE Mirrored(e)
    BY <2>1, <2>2
  <2>3. CASE InHand(e)
    <3>1. PICK g \in found \cup newEvents :
            g.delegator = e.delegator /\ g.method = e.method /\ ~IsNewer(e, g)
      BY <2>3 DEF InHand
    <3>2. CASE g \in found' \cup newEvents'
      BY <3>1, <3>2 DEF InHand
    <3>3. CASE g \notin found' \cup newEvents'
      <4>1. g = f /\ ~Supersedes(f, delegation[f.delegator])
        BY <1>1, <3>1, <3>3
      <4>2. delegation[f.delegator] \in DelegationRecord
        BY <1>4, EventIsTyped DEF MirrorJobInv, AgentTypeOK, MirrorTypeOK
      <4>3. ~Supersedes(e, delegation[f.delegator])
        BY <1>4, <3>1, <4>1, <4>2, OlderIsMirrored
      <4>4. Mirrored(e)
        BY <3>1, <4>1, <4>3 DEF Mirrored
      <4> QED
        BY <2>1, <4>4
    <3> QED
      BY <3>2, <3>3
  <2> QED
    BY <1>7, <2>2, <2>3
<1>8. RangeIsSearched'
  <2>1. \A m : RangeIsInHand(m) => RangeIsInHand(m)'
    BY <1>2, <1>7, EventsOfARange DEF RangeIsInHand
  <2>2. \A m : RangeIsMirrored(m) => RangeIsMirrored(m)'
    BY <1>2, MirroredUnchanged DEF RangeIsMirrored
  <2> QED
    BY <1>2, <2>1, <2>2 DEF MirrorJobInv, RangeIsSearched
<1> QED
  BY <1>5, <1>6, <1>8 DEF MirrorJobInv

LEMMA SendEventStep == ASSUME MirrorJobInv, SendEvent PROVE MirrorJobInv'
<1>1. PICK f \in newEvents : /\ newEvents' = newEvents \ {f}
                             /\ \/ Execute(f) /\ UNCHANGED undisturbed
                                \/ UNCHANGED mirrorVars /\ undisturbed' = FALSE
  BY DEF SendEvent
<1>2. /\ stage \in Querying /\ stage' = stage /\ todo' = todo /\ found' = found
      /\ window' = window /\ mirroredTo' = mirroredTo /\ UNCHANGED chainVars
  BY DEF SendEvent
<1>3. f \in DelegationEvents /\ MirrorTypeOK
  BY <1>1 DEF MirrorJobInv, AgentTypeOK
<1>4. MirrorTypeOK' /\ \A e \in DelegationEvents : Mirrored(e) => Mirrored(e)'
  <2>1. CASE Execute(f)
    BY <1>3, <2>1, ExecutedEvent, MirroredStays
  <2>2. CASE UNCHANGED mirrorVars
    <3>1. MirrorTypeOK'
      BY <1>3, <2>2 DEF MirrorTypeOK, mirrorVars
    <3> QED
      BY <2>2, <3>1, MirroredUnchanged
  <2> QED
    BY <1>1, <2>1, <2>2
<1>5. AgentTypeOK' /\ RangesAreWide' /\ ThereIsARange'
  BY <1>1, <1>2, <1>4 DEF MirrorJobInv, AgentTypeOK, RangesAreWide, ThereIsARange, chainVars
<1>6. WindowIsCovered' /\ CompleteRunsMirrorAll'
  <2>1. UNCHANGED <<window, todo>> /\ (stage' # "idle" => stage # "idle")
        /\ (undisturbed' => undisturbed)
    BY <1>1, <1>2
  <2> QED
    BY <1>2, <1>4, <2>1, CoverageStays
<1>7. ASSUME undisturbed', NEW e \in DelegationEvents, Mirrored(e) \/ InHand(e)
      PROVE  Mirrored(e)' \/ InHand(e)'
  <2>1. CASE Mirrored(e)
    BY <1>4, <2>1
  <2>2. CASE InHand(e)
    <3>1. PICK g \in found \cup newEvents :
            g.delegator = e.delegator /\ g.method = e.method /\ ~IsNewer(e, g)
      BY <2>2 DEF InHand
    <3>2. CASE g = f
      <4>1. Execute(f)
        BY <1>1, <1>7
      <4> QED
        BY <1>3, <3>1, <3>2, <4>1, ExecutedIsMirrored
    <3>3. CASE g # f
      BY <1>1, <1>2, <3>1, <3>3 DEF InHand
    <3> QED
      BY <3>2, <3>3
  <2> QED
    BY <1>7, <2>1, <2>2
<1>8. RangeIsSearched'
  <2> SUFFICES ASSUME undisturbed' PROVE RangeIsSearched'
    BY DEF RangeIsSearched
  <2>0. undisturbed
    BY <1>1
  <2>1. \A m : RangeIsInHand(m) => RangeIsInHand(m)'
    BY <1>2, <1>7, EventsOfARange DEF RangeIsInHand
  <2>2. \A m : RangeIsMirrored(m) => RangeIsMirrored(m)'
    BY <1>2, <1>4, EventsOfARange DEF RangeIsMirrored
  <2> QED
    BY <1>2, <2>0, <2>1, <2>2 DEF MirrorJobInv, RangeIsSearched
<1> QED
  BY <1>5, <1>6, <1>8 DEF MirrorJobInv

(* A block of some range is of the first one or of the others, and what     *)
(* replaces the first range comes before the others.                        *)
LEMMA FirstAndOthers ==
  ASSUME NEW ranges \in Seq(RangeOfBlocks), ranges # <<>>,
         \A i \in DOMAIN ranges : ranges[i].from < ranges[i].to
  PROVE  /\ ranges[1] \in RangeOfBlocks /\ ranges[1].from < ranges[1].to
         /\ Tail(ranges) \in Seq(RangeOfBlocks)
         /\ \A i \in DOMAIN Tail(ranges) : Tail(ranges)[i].from < Tail(ranges)[i].to
         /\ \A b : \A i \in DOMAIN ranges : b \in ranges[i].from .. ranges[i].to =>
              \/ b \in ranges[1].from .. ranges[1].to
              \/ \E j \in DOMAIN Tail(ranges) : b \in Tail(ranges)[j].from .. Tail(ranges)[j].to
<1>1. /\ DOMAIN ranges = 1 .. Len(ranges) /\ Len(ranges) \in Nat \ {0}
      /\ \A i \in 1 .. Len(ranges) : ranges[i] \in RangeOfBlocks
  BY EmptySeq, ElementOfSeq, LenProperties
<1>2. /\ Tail(ranges) \in Seq(RangeOfBlocks) /\ DOMAIN Tail(ranges) = 1 .. Len(ranges) - 1
      /\ \A i \in 1 .. Len(ranges) - 1 : Tail(ranges)[i] = ranges[i + 1]
  BY <1>1, HeadTailProperties
<1>3. \A i \in 1 .. Len(ranges) - 1 : i + 1 \in 1 .. Len(ranges)
  BY <1>1
<1>4. \A i \in 1 .. Len(ranges) : i = 1 \/ (i - 1 \in 1 .. Len(ranges) - 1 /\ (i - 1) + 1 = i)
  BY <1>1
<1>5. \A b : \A i \in DOMAIN ranges : b \in ranges[i].from .. ranges[i].to =>
              \/ b \in ranges[1].from .. ranges[1].to
              \/ \E j \in DOMAIN Tail(ranges) : b \in Tail(ranges)[j].from .. Tail(ranges)[j].to
  <2> SUFFICES ASSUME NEW b, NEW i \in 1 .. Len(ranges), b \in ranges[i].from .. ranges[i].to
               PROVE  \/ b \in ranges[1].from .. ranges[1].to
                      \/ \E j \in DOMAIN Tail(ranges) : b \in Tail(ranges)[j].from .. Tail(ranges)[j].to
    BY <1>1
  <2>1. CASE i = 1
    BY <2>1
  <2>2. CASE i # 1
    <3>1. i - 1 \in DOMAIN Tail(ranges) /\ Tail(ranges)[i - 1] = ranges[i]
      BY <1>2, <1>4, <2>2
    <3> QED
      BY <3>1
  <2> QED
    BY <2>1, <2>2
<1>6. \A i \in 1 .. Len(ranges) - 1 : Tail(ranges)[i].from < Tail(ranges)[i].to
  BY <1>1, <1>2, <1>3
<1>7. 1 \in 1 .. Len(ranges)
  BY <1>1
<1> QED
  BY <1>1, <1>2, <1>5, <1>6, <1>7

LEMMA RangesAppended ==
  ASSUME NEW some \in Seq(RangeOfBlocks), NEW others \in Seq(RangeOfBlocks),
         \A i \in DOMAIN some : some[i].from < some[i].to,
         \A i \in DOMAIN others : others[i].from < others[i].to
  PROVE  /\ some \o others \in Seq(RangeOfBlocks)
         /\ \A i \in DOMAIN (some \o others) : (some \o others)[i].from < (some \o others)[i].to
         /\ \A i \in DOMAIN some : i \in DOMAIN (some \o others) /\ (some \o others)[i] = some[i]
         /\ \A j \in DOMAIN others : \E i \in DOMAIN (some \o others) : (some \o others)[i] = others[j]
<1> DEFINE both == some \o others
<1>1. /\ DOMAIN some = 1 .. Len(some) /\ DOMAIN others = 1 .. Len(others)
      /\ Len(some) \in Nat /\ Len(others) \in Nat
  BY LenProperties
<1>2. /\ both \in Seq(RangeOfBlocks) /\ DOMAIN both = 1 .. Len(some) + Len(others)
      /\ \A i \in 1 .. Len(some) + Len(others) :
           both[i] = IF i <= Len(some) THEN some[i] ELSE others[i - Len(some)]
  <2>1. /\ both \in Seq(RangeOfBlocks) /\ Len(both) = Len(some) + Len(others)
        /\ \A i \in 1 .. Len(some) + Len(others) :
             both[i] = IF i <= Len(some) THEN some[i] ELSE others[i - Len(some)]
    BY ConcatProperties
  <2> HIDE DEF both
  <2>2. DOMAIN both = 1 .. Len(both)
    BY <2>1, LenProperties
  <2> QED
    BY <2>1, <2>2
<1> HIDE DEF both
<1>3. ASSUME NEW i \in 1 .. Len(some) + Len(others) PROVE both[i].from < both[i].to
  <2>1. CASE i <= Len(some)
    <3>1. i \in DOMAIN some /\ both[i] = some[i]
      BY <1>1, <1>2, <2>1
    <3> QED
      BY <3>1
  <2>2. CASE ~(i <= Len(some))
    <3>1. i - Len(some) \in DOMAIN others /\ both[i] = others[i - Len(some)]
      BY <1>1, <1>2, <2>2
    <3> QED
      BY <3>1
  <2> QED
    BY <2>1, <2>2
<1>4. \A i \in 1 .. Len(some) : i \in 1 .. Len(some) + Len(others) /\ i <= Len(some)
  BY <1>1
<1>5. ASSUME NEW j \in 1 .. Len(others)
      PROVE  \E i \in 1 .. Len(some) + Len(others) : both[i] = others[j]
  <2>1. PICK i : i = Len(some) + j
    OBVIOUS
  <2>2. i \in 1 .. Len(some) + Len(others) /\ ~(i <= Len(some)) /\ i - Len(some) = j
    BY <1>1, <2>1
  <2> QED
    BY <1>2, <2>2
<1> QED
  BY <1>1, <1>2, <1>3, <1>4, <1>5 DEF both

LEMMA RetrySlowerStep == ASSUME MirrorJobInv, RetrySlower PROVE MirrorJobInv'
<1>1. /\ stage \in Searching \cup Querying /\ todo # <<>> /\ todo[1].pace >= MinPace
      /\ todo' = RangesOf(todo[1].from, todo[1].to, todo[1].pace \div SlowDown) \o Tail(todo)
      /\ found' = {} /\ newEvents' = {} /\ stage' = "transfers"
      /\ UNCHANGED <<mirrorVars, chainVars, window, mirroredTo, undisturbed>>
  BY DEF RetrySlower
<1>2. todo \in Seq(RangeOfBlocks) /\ \A i \in DOMAIN todo : todo[i].from < todo[i].to
  BY DEF MirrorJobInv, AgentTypeOK, RangesAreWide
<1>3. PICK from, to, pace : from = todo[1].from /\ to = todo[1].to /\ pace = todo[1].pace \div SlowDown
  OBVIOUS
<1>4. todo[1] \in RangeOfBlocks /\ from < to
  BY <1>1, <1>2, <1>3, FirstAndOthers
<1>5. from \in Nat /\ to \in Nat /\ pace \in Nat \ {0}
  <2>1. PICK p \in Nat : p = todo[1].pace
    BY <1>4 DEF RangeOfBlocks
  <2>2. SlowDown \in Nat \ {0} /\ p >= SlowDown
    BY <1>1, <2>1, PaceAssumption
  <2>3. p = SlowDown * (p \div SlowDown) + (p % SlowDown) /\ p % SlowDown \in 0 .. SlowDown - 1
        /\ p \div SlowDown \in Int
    BY <2>2, DivisionOf, p \in Int
  <2>4. PICK q \in Int, r \in Int : q = p \div SlowDown /\ r = p % SlowDown
    BY <2>3
  <2>5. SlowDown * q > 0
    BY <2>2, <2>3, <2>4
  <2>6. q > 0
    BY <2>2, <2>5
  <2> QED
    BY <1>3, <1>4, <2>1, <2>4, <2>6 DEF RangeOfBlocks
<1>6. PICK slower, others : slower = RangesOf(from, to, pace) /\ others = Tail(todo)
  OBVIOUS
<1>7. /\ slower \in Seq(RangeOfBlocks) /\ \A i \in DOMAIN slower : slower[i].from < slower[i].to
      /\ \A b \in from .. to : \E i \in DOMAIN slower : b \in slower[i].from .. slower[i].to
  BY <1>4, <1>5, <1>6, RangesCover
<1>8. /\ others \in Seq(RangeOfBlocks) /\ \A i \in DOMAIN others : others[i].from < others[i].to
      /\ \A b : \A i \in DOMAIN todo : b \in todo[i].from .. todo[i].to =>
           \/ b \in from .. to
           \/ \E j \in DOMAIN others : b \in others[j].from .. others[j].to
  BY <1>1, <1>2, <1>3, <1>6, FirstAndOthers
<1>9. todo' = slower \o others
  BY <1>1, <1>3, <1>6
<1>10. /\ todo' \in Seq(RangeOfBlocks) /\ \A i \in DOMAIN todo' : todo'[i].from < todo'[i].to
       /\ \A i \in DOMAIN slower : i \in DOMAIN todo' /\ todo'[i] = slower[i]
       /\ \A j \in DOMAIN others : \E i \in DOMAIN todo' : todo'[i] = others[j]
  BY <1>7, <1>8, <1>9, RangesAppended
<1>11. stage # "idle"
  BY <1>1 DEF Searching, Querying
<1>12. AgentTypeOK' /\ CompleteRunsMirrorAll' /\ \A e : Mirrored(e)' <=> Mirrored(e)
  BY <1>1, <1>10, <1>11, QuietStep DEF Searching
<1>13. RangesAreWide' /\ ThereIsARange' /\ RangeIsSearched'
  BY <1>1, <1>10 DEF RangesAreWide, ThereIsARange, RangeIsSearched, Querying
<1>14. WindowIsCovered'
  <2> SUFFICES ASSUME undisturbed, NEW e \in DelegationsIn(window.from, window.to)
               PROVE  \/ Mirrored(e) \/ window.from = window.to
                      \/ \E i \in DOMAIN todo' : e.block \in todo'[i].from .. todo'[i].to
    BY <1>1, <1>12 DEF WindowIsCovered
  <2>1. \/ Mirrored(e) \/ window.from = window.to
        \/ \E i \in DOMAIN todo : e.block \in todo[i].from .. todo[i].to
    BY <1>11 DEF MirrorJobInv, WindowIsCovered
  <2>2. ASSUME NEW i \in DOMAIN todo, e.block \in todo[i].from .. todo[i].to
        PROVE  \E k \in DOMAIN todo' : e.block \in todo'[k].from .. todo'[k].to
    <3>1. CASE e.block \in from .. to
      BY <1>7, <1>10, <3>1
    <3>2. CASE \E j \in DOMAIN others : e.block \in others[j].from .. others[j].to
      BY <1>10, <3>2
    <3> QED
      BY <1>8, <2>2, <3>1, <3>2
  <2> QED
    BY <2>1, <2>2
<1> QED
  BY <1>12, <1>13, <1>14 DEF MirrorJobInv

LEMMA GiveUpStep == ASSUME MirrorJobInv, GiveUp PROVE MirrorJobInv'
<1>1. /\ stage \in Searching \cup Querying /\ stage' = "idle" /\ todo' = <<>>
      /\ found' = {} /\ newEvents' = {}
      /\ UNCHANGED <<mirrorVars, chainVars, window, mirroredTo, undisturbed>>
  BY DEF GiveUp
<1>2. stage # "idle"
  BY <1>1 DEF Searching, Querying
<1>3. AgentTypeOK' /\ CompleteRunsMirrorAll'
  <2>1. todo' \in Seq(RangeOfBlocks)
    BY <1>1
  <2> QED
    BY <1>1, <1>2, <2>1, QuietStep
<1> QED
  BY <1>1, <1>3
     DEF MirrorJobInv, RangesAreWide, ThereIsARange, RangeIsSearched, WindowIsCovered, Querying

LEMMA FinishRangeStep == ASSUME MirrorJobInv, FinishRange PROVE MirrorJobInv'
<1>1. /\ stage \in Querying /\ found = {} /\ newEvents = {}
      /\ found' = found /\ newEvents' = newEvents
      /\ UNCHANGED <<mirrorVars, chainVars, window, mirroredTo, undisturbed>>
      /\ IF stage = "queryTransfers"
           THEN stage' = "delegates" /\ todo' = todo
           ELSE stage' = "transfers" /\ todo' = Tail(todo)
  BY DEF FinishRange
<1>2. stage # "idle" /\ todo # <<>>
  BY <1>1 DEF Querying, MirrorJobInv, ThereIsARange
<1>3. \A m : RangeIsInHand(m) => RangeIsMirrored(m)
  BY <1>1 DEF RangeIsInHand, RangeIsMirrored, InHand
<1>4. found' \cup newEvents' \subseteq DelegationEvents /\ todo \in Seq(RangeOfBlocks)
      /\ \A i \in DOMAIN todo : todo[i].from < todo[i].to
  BY <1>1 DEF MirrorJobInv, AgentTypeOK, RangesAreWide
<1>5. CASE stage = "queryTransfers"
  <2>1. stage' = "delegates" /\ todo' = todo /\ stage' \in Searching
    BY <1>1, <1>5 DEF Searching
  <2>2. AgentTypeOK' /\ CompleteRunsMirrorAll' /\ WindowIsCovered'
        /\ \A e : Mirrored(e)' <=> Mirrored(e)
    BY <1>1, <1>2, <1>4, <2>1, QuietStep
  <2>3. RangesAreWide' /\ ThereIsARange'
    BY <1>2, <1>4, <2>1 DEF RangesAreWide, ThereIsARange
  <2>4. undisturbed => RangeIsMirrored(TransferMethod)
    BY <1>3, <1>5 DEF MirrorJobInv, RangeIsSearched
  <2>5. RangeIsMirrored(TransferMethod) => RangeIsMirrored(TransferMethod)'
    BY <2>1, <2>2 DEF RangeIsMirrored
  <2>6. RangeIsSearched'
    BY <1>1, <2>1, <2>4, <2>5 DEF RangeIsSearched
  <2> QED
    BY <2>2, <2>3, <2>6 DEF MirrorJobInv
<1>6. CASE stage = "queryDelegates"
  <2>1. stage' = "transfers" /\ todo' = Tail(todo) /\ stage' \in Searching
    BY <1>1, <1>6 DEF Searching
  <2>2. /\ todo' \in Seq(RangeOfBlocks) /\ \A i \in DOMAIN todo' : todo'[i].from < todo'[i].to
        /\ \A b : \A i \in DOMAIN todo : b \in todo[i].from .. todo[i].to =>
             \/ b \in todo[1].from .. todo[1].to
             \/ \E j \in DOMAIN todo' : b \in todo'[j].from .. todo'[j].to
    BY <1>2, <1>4, <2>1, FirstAndOthers
  <2>3. AgentTypeOK' /\ CompleteRunsMirrorAll' /\ \A e : Mirrored(e)' <=> Mirrored(e)
    BY <1>1, <1>2, <1>4, <2>1, <2>2, QuietStep
  <2>4. RangesAreWide' /\ ThereIsARange' /\ RangeIsSearched'
    BY <2>1, <2>2 DEF RangesAreWide, ThereIsARange, RangeIsSearched, Querying
  <2>5. WindowIsCovered'
    <3> SUFFICES ASSUME undisturbed, NEW e \in DelegationsIn(window.from, window.to)
                 PROVE  \/ Mirrored(e) \/ window.from = window.to
                        \/ \E i \in DOMAIN todo' : e.block \in todo'[i].from .. todo'[i].to
      BY <1>1, <2>3 DEF WindowIsCovered
    <3>1. RangeIsMirrored(TransferMethod) /\ RangeIsMirrored(DelegateMethod)
      BY <1>3, <1>6 DEF MirrorJobInv, RangeIsSearched
    <3>2. e.block \in todo[1].from .. todo[1].to => Mirrored(e)
      <4>1. /\ e \in DelegationEvents /\ e.method \in {DelegateMethod, TransferMethod}
            /\ e.method = TransferMethod => IsDelegationValue(e)
        BY DEF DelegationsIn, EventsIn
      <4>2. e.block \in todo[1].from .. todo[1].to => e \in EventsIn(todo[1].from, todo[1].to, e.method)
        BY <4>1 DEF EventsIn
      <4> QED
        BY <3>1, <4>1, <4>2 DEF RangeIsMirrored
    <3>3. \/ Mirrored(e) \/ window.from = window.to
          \/ \E i \in DOMAIN todo : e.block \in todo[i].from .. todo[i].to
      BY <1>2 DEF MirrorJobInv, WindowIsCovered
    <3> QED
      BY <2>2, <3>2, <3>3
  <2> QED
    BY <2>3, <2>4, <2>5 DEF MirrorJobInv
<1> QED
  BY <1>1, <1>5, <1>6 DEF Querying

LEMMA FinishRunStep == ASSUME MirrorJobInv, FinishRun PROVE MirrorJobInv'
<1>1. /\ stage = "transfers" /\ todo = <<>> /\ stage' = "idle" /\ todo' = todo
      /\ found' = found /\ newEvents' = newEvents /\ window' = window
      /\ undisturbed' = undisturbed /\ UNCHANGED <<mirrorVars, chainVars>>
      /\ mirroredTo' = IF undisturbed /\ window.from <= mirroredTo /\ mirroredTo < window.to
                         THEN window.to ELSE mirroredTo
  BY DEF FinishRun
<1>2. \A e : Mirrored(e)' <=> Mirrored(e)
  BY <1>1, MirroredUnchanged
<1>3. window.from \in Nat /\ window.to \in Nat /\ mirroredTo \in Nat
  BY DEF MirrorJobInv, AgentTypeOK
<1>4. AgentTypeOK'
  BY <1>1, <1>3 DEF MirrorJobInv, AgentTypeOK, MirrorTypeOK, mirrorVars, chainVars
<1>5. RangesAreWide' /\ ThereIsARange' /\ RangeIsSearched' /\ WindowIsCovered'
  BY <1>1 DEF MirrorJobInv, RangesAreWide, ThereIsARange, RangeIsSearched, WindowIsCovered, Querying
<1>6. CASE mirroredTo' = mirroredTo
  BY <1>2, <1>4, <1>5, <1>6, CoverageStays DEF MirrorJobInv
<1>7. CASE mirroredTo' # mirroredTo
  <2>1. undisturbed /\ window.from <= mirroredTo /\ mirroredTo < window.to /\ mirroredTo' = window.to
    BY <1>1, <1>7
  <2>2. ASSUME NEW e \in DelegationsIn(0, mirroredTo') PROVE Mirrored(e)
    <3>1. /\ e \in DelegationEvents /\ e.method \in {DelegateMethod, TransferMethod}
          /\ e.method = TransferMethod => IsDelegationValue(e)
          /\ e.block \in 0 .. window.to
      BY <2>1 DEF DelegationsIn, EventsIn
    <3>2. e.block \in 0 .. mirroredTo \/ e.block \in window.from .. window.to
      BY <1>3, <2>1, <3>1
    <3>3. CASE e.block \in 0 .. mirroredTo
      <4>1. e \in DelegationsIn(0, mirroredTo)
        BY <3>1, <3>3 DEF DelegationsIn, EventsIn
      <4> QED
        BY <4>1 DEF MirrorJobInv, CompleteRunsMirrorAll
    <3>4. CASE e.block \in window.from .. window.to
      <4>1. e \in DelegationsIn(window.from, window.to)
        BY <3>1, <3>4 DEF DelegationsIn, EventsIn
      <4>2. window.from # window.to /\ stage # "idle" /\ DOMAIN todo = {}
        BY <1>1, <1>3, <2>1
      <4> QED
        BY <2>1, <4>1, <4>2 DEF MirrorJobInv, WindowIsCovered
    <3> QED
      BY <3>2, <3>3, <3>4
  <2> QED
    BY <1>2, <1>4, <1>5, <2>2 DEF MirrorJobInv, CompleteRunsMirrorAll
<1> QED
  BY <1>6, <1>7

LEMMA StartOfAgent == MirrorAgentInit => MirrorJobInv
<1> SUFFICES ASSUME MirrorAgentInit PROVE MirrorJobInv
  OBVIOUS
<1>1. MirrorTypeOK
  BY MaxBlockAssumption
     DEF MirrorAgentInit, MirrorInit, MirrorTypeOK, NoDelegation, DelegationRecord, Block, Account
<1>2. AgentTypeOK
  BY <1>1, PaceAssumption DEF MirrorAgentInit, AgentTypeOK
<1>3. RangesAreWide /\ ThereIsARange /\ RangeIsSearched /\ WindowIsCovered
  BY DEF MirrorAgentInit, RangesAreWide, ThereIsARange, RangeIsSearched, WindowIsCovered, Querying
<1>4. CompleteRunsMirrorAll
  <2> SUFFICES ASSUME NEW e \in DelegationsIn(0, 0) PROVE FALSE
    BY DEF CompleteRunsMirrorAll, MirrorAgentInit
  <2>1. e \in DelegationEvents /\ e.block \in 0 .. 0
    BY EventsOfAWindow
  <2> QED
    BY <2>1, EventIsTyped
<1> QED
  BY <1>2, <1>3, <1>4 DEF MirrorJobInv

LEMMA StepOfAgent == MirrorJobInv /\ [MirrorAgentNext]_mirrorAgentVars => MirrorJobInv'
<1> SUFFICES ASSUME MirrorJobInv, [MirrorAgentNext]_mirrorAgentVars PROVE MirrorJobInv'
  OBVIOUS
<1>1. CASE UNCHANGED mirrorAgentVars
  <2>1. UNCHANGED mirrorVars /\ UNCHANGED runVars /\ UNCHANGED chainVars
    BY <1>1 DEF mirrorAgentVars
  <2>2. MirrorTypeOK' /\ ethBlock' \in Nat /\ electionBlock' \in Nat
    BY <2>1 DEF MirrorJobInv, AgentTypeOK, MirrorTypeOK, mirrorVars, chainVars
  <2> QED
    BY <2>1, <2>2, MirroredUnchanged, OthersStep
<1>2. CASE MirrorAgentNext
  BY <1>2, ChainsStep, OtherAgentStep, StartRunStep, FetchEventsStep, QueryEventStep,
     RetrySlowerStep, GiveUpStep, SendEventStep, FinishRangeStep, FinishRunStep
     DEF MirrorAgentNext, Run
<1> QED
  BY <1>1, <1>2

(* NothingIsLeftBehind: whatever becomes of Ethereum, the election and the  *)
(* other agents meanwhile, and however often a range is searched again, an  *)
(* undisturbed run loses no event of its window.                            *)
THEOREM NothingIsEverLeftBehind == MirrorAgentSpec => []NothingIsLeftBehind
<1>1. MirrorJobInv => NothingIsLeftBehind
  BY DEF MirrorJobInv, NothingIsLeftBehind
<1> QED
  BY <1>1, StartOfAgent, StepOfAgent, PTL DEF MirrorAgentSpec

-----------------------------------------------------------------------------
(* III.  The distribution of rewards.                                       *)

Left(d) == {i \in DOMAIN d.batchHashes : d.batchHashes[i] # NoHash}

(* What the contract holds of one name.                                     *)
CountIsExact(d) ==
  /\ d = [batchHashes |-> d.batchHashes, pendingBatchCount |-> d.pendingBatchCount,
          hasPendingBatches |-> d.hasPendingBatches]
  /\ d.batchHashes = [i \in DOMAIN d.batchHashes |-> d.batchHashes[i]]
  /\ IsFiniteSet(DOMAIN d.batchHashes)
  /\ d.pendingBatchCount = Cardinality(Left(d))
  /\ d.hasPendingBatches \in BOOLEAN
  /\ d.hasPendingBatches <=> Left(d) # {}

CountsAreExact ==
  /\ distributions = [n \in Names |-> distributions[n]]
  /\ \A n \in Names : CountIsExact(distributions[n])

-----------------------------------------------------------------------------
(* The announced hashes                                                     *)

Reward == [address : Recipients, amount : Nat]

LEMMA BatchTyped ==
  ASSUME NEW file \in Files, NEW size \in BatchSizes, NEW b \in DOMAIN Batches(file, size)
  PROVE  Batches(file, size)[b] \in Seq(Reward)
<1>1. file \in Seq(Reward) /\ size \in Nat \ {0} /\ Len(file) \in Nat
  <2>1. file \in Seq(Reward) /\ size \in Nat \ {0}
    BY RewardsAssumption DEF Reward
  <2> QED
    BY <2>1
<1> DEFINE k == (Len(file) + size - 1) \div size
           first == (b - 1) * size + 1
           last == Min({b * size, Len(file)})
<1>2. b \in 1..k /\ k \in Int
  BY <1>1 DEF Batches
<1>3. b \in Nat \ {0}
  BY <1>2
<1>4. b * size \in Int /\ first \in Nat \ {0}
  <2>1. (b - 1) * size \in Nat /\ b * size \in Int
    BY <1>1, <1>3
  <2> QED
    BY <2>1
<1>5. last \in Int /\ last <= Len(file)
  <2>1. \E x \in {b * size, Len(file)} : \A y \in {b * size, Len(file)} : x <= y
    BY <1>1, <1>4
  <2>2. last \in {b * size, Len(file)} /\ \A y \in {b * size, Len(file)} : last <= y
    BY <2>1 DEF Min
  <2> QED
    BY <1>1, <1>4, <2>2
<1>6. Batches(file, size)[b] = SubSeq(file, first, last)
  BY <1>2 DEF Batches
<1> HIDE DEF first, last
<1> QED
  BY <1>1, <1>4, <1>5, <1>6

LEMMA HashIsSome ==
  ASSUME NEW b \in Nat, NEW part \in Seq(Reward)
  PROVE  HashBatch(b, part) # NoHash
<1>1. Addresses(part) \in Seq(Recipients) /\ Amounts(part) \in Seq(Nat)
  <2>1. Len(part) \in Nat /\ DOMAIN part = 1..Len(part) /\ \A i \in 1..Len(part) : part[i] \in Reward
    OBVIOUS
  <2>2. \A i \in 1..Len(part) : part[i].address \in Recipients /\ part[i].amount \in Nat
    BY <2>1 DEF Reward
  <2>3. /\ Addresses(part) = [i \in 1..Len(part) |-> part[i].address]
        /\ Amounts(part) = [i \in 1..Len(part) |-> part[i].amount]
    BY <2>1 DEF Addresses, Amounts
  <2> QED
    BY <2>1, <2>2, <2>3
<1>2. Addresses(part) \in Seq(Recipients \cup Nat) /\ Amounts(part) \in Seq(Recipients \cup Nat)
  BY <1>1
<1> DEFINE head == <<b, Len(part)>>
<1>3. head \in Seq(Recipients \cup Nat) /\ Len(head) = 2
  <2>1. b \in Recipients \cup Nat /\ Len(part) \in Recipients \cup Nat
    OBVIOUS
  <2> QED
    BY <2>1
<1> HIDE DEF head
<1>4. head \o Addresses(part) \in Seq(Recipients \cup Nat) /\ Len(head \o Addresses(part)) >= 2
  <2>1. head \o Addresses(part) \in Seq(Recipients \cup Nat)
        /\ Len(head \o Addresses(part)) = Len(head) + Len(Addresses(part))
    BY <1>2, <1>3, ConcatProperties, Zenon
  <2>2. Len(Addresses(part)) \in Nat
    BY <1>2
  <2> QED
    BY <1>3, <2>1, <2>2
<1>5. Len((head \o Addresses(part)) \o Amounts(part)) >= 2
  <2>1. Len((head \o Addresses(part)) \o Amounts(part)) =
          Len(head \o Addresses(part)) + Len(Amounts(part))
    BY <1>2, <1>4, ConcatProperties, Zenon
  <2>2. Len(Amounts(part)) \in Nat
    BY <1>2
  <2>3. Len(head \o Addresses(part)) \in Nat
    BY <1>4
  <2> QED
    BY <1>4, <2>1, <2>2, <2>3
<1> QED
  BY <1>5 DEF HashBatch, NoHash, head

-----------------------------------------------------------------------------
(* The contract's operations                                                *)

LEMMA NothingLeft == CountIsExact(NoDistribution)
<1>1. Left(NoDistribution) = {}
  BY DEF Left, NoDistribution
<1> QED
  BY <1>1, FS_EmptySet DEF CountIsExact, NoDistribution

LEMMA AnnouncingCounts ==
  ASSUME NEW hashes, NEW k \in Nat, DOMAIN hashes = 1..k, Len(hashes) = k, k > 0,
         hashes = [i \in 1..k |-> hashes[i]], \A i \in 1..k : hashes[i] # NoHash
  PROVE  CountIsExact([batchHashes |-> hashes, pendingBatchCount |-> Len(hashes),
                       hasPendingBatches |-> TRUE])
<1> DEFINE d == [batchHashes |-> hashes, pendingBatchCount |-> Len(hashes), hasPendingBatches |-> TRUE]
<1>1. Left(d) = 1..k
  BY DEF Left
<1>2. IsFiniteSet(1..k) /\ Cardinality(1..k) = k
  BY FS_Interval
<1>3. 1 \in 1..k
  OBVIOUS
<1> QED
  BY <1>1, <1>2, <1>3 DEF CountIsExact

(* One batch is cleared: the count drops by one, to zero with the last.     *)
LEMMA ClearingCounts ==
  ASSUME NEW d, CountIsExact(d), NEW index \in Left(d), d.hasPendingBatches
  PROVE  CountIsExact(IF Cleared(d, index).pendingBatchCount = 0 THEN NoDistribution
                      ELSE Cleared(d, index))
<1> DEFINE c == Cleared(d, index)
<1>1. /\ c.batchHashes = [d.batchHashes EXCEPT ![index] = NoHash]
      /\ c.pendingBatchCount = d.pendingBatchCount - 1
      /\ c.hasPendingBatches = d.hasPendingBatches
      /\ c = [batchHashes |-> c.batchHashes, pendingBatchCount |-> c.pendingBatchCount,
              hasPendingBatches |-> c.hasPendingBatches]
  BY DEF Cleared
<1> HIDE DEF c
<1>2. /\ DOMAIN c.batchHashes = DOMAIN d.batchHashes
      /\ \A i \in DOMAIN d.batchHashes : c.batchHashes[i] = IF i = index THEN NoHash ELSE d.batchHashes[i]
      /\ c.batchHashes = [i \in DOMAIN c.batchHashes |-> c.batchHashes[i]]
  BY <1>1 DEF Left
<1>3. Left(c) = Left(d) \ {index}
  BY <1>2 DEF Left
<1>4. IsFiniteSet(Left(d))
  BY FS_Subset DEF Left, CountIsExact
<1>5. Cardinality(Left(c)) = Cardinality(Left(d)) - 1 /\ IsFiniteSet(Left(c))
  BY <1>3, <1>4, FS_RemoveElement
<1>6. c.pendingBatchCount = Cardinality(Left(c))
  BY <1>1, <1>5 DEF CountIsExact
<1>7. CASE c.pendingBatchCount = 0
  BY <1>7, NothingLeft DEF c
<1>8. CASE c.pendingBatchCount # 0
  <2>1. Left(c) # {}
    BY <1>6, <1>8, FS_EmptySet
  <2>2. CountIsExact(c)
    BY <1>1, <1>2, <1>6, <2>1 DEF CountIsExact
  <2> QED
    BY <1>8, <2>2 DEF c
<1> QED
  BY <1>7, <1>8

LEMMA OneNameChanges ==
  ASSUME CountsAreExact, NEW n, NEW d, distributions' = [distributions EXCEPT ![n] = d],
         n \in Names => CountIsExact(d)
  PROVE  CountsAreExact'
<1>1. \A m \in Names : distributions'[m] = IF m = n THEN d ELSE distributions[m]
  BY DEF CountsAreExact
<1>2. distributions' = [m \in Names |-> distributions'[m]]
  BY DEF CountsAreExact
<1> QED
  BY <1>1, <1>2 DEF CountsAreExact

-----------------------------------------------------------------------------
LEMMA InitCounts == Init => CountsAreExact
  BY NothingLeft DEF Init, CountsAreExact

LEMMA AnnounceCounts ==
  ASSUME CountsAreExact, NEW n \in Names, NEW file \in Files, NEW size \in BatchSizes,
         AnnounceFile(n, file, size)
  PROVE  CountsAreExact'
<1> DEFINE k == (Len(file) + size - 1) \div size
           hashes == [b \in DOMAIN Batches(file, size) |-> HashBatch(b, Batches(file, size)[b])]
<1>1. /\ hashes # <<>>
      /\ distributions' = [distributions EXCEPT ![n] =
           [batchHashes |-> hashes, pendingBatchCount |-> Len(hashes), hasPendingBatches |-> TRUE]]
  BY DEF AnnounceFile, AnnounceDistributionEvent
<1>2. file \in Seq(Reward) /\ size \in Nat \ {0} /\ Len(file) \in Nat
  <2>1. file \in Seq(Reward) /\ size \in Nat \ {0}
    BY RewardsAssumption DEF Reward
  <2> QED
    BY <2>1
<1>3. DOMAIN Batches(file, size) = 1..k /\ k \in Int
  BY <1>2 DEF Batches
<1>4. \A b \in 1..k : hashes[b] = HashBatch(b, Batches(file, size)[b])
  BY <1>3
<1>5. ASSUME NEW b \in 1..k
      PROVE  hashes[b] # NoHash
  <2>1. b \in Nat /\ Batches(file, size)[b] \in Seq(Reward)
    BY <1>3, BatchTyped
  <2> QED
    BY <1>4, <2>1, HashIsSome
<1>6. DOMAIN hashes = 1..k /\ hashes = [b \in 1..k |-> hashes[b]]
  BY <1>3
<1> HIDE DEF hashes, k
<1>7. k \in Nat /\ k > 0 /\ Len(hashes) = k
  <2>1. k > 0
    <3>1. ASSUME ~(k > 0) PROVE FALSE
      <4>1. 1..k = {}
        BY <1>3, <3>1
      <4> QED
        BY <1>1, <1>6, <4>1
    <3> QED
      BY <3>1
  <2> QED
    BY <1>3, <1>6, <2>1
<1>8. CountIsExact([batchHashes |-> hashes, pendingBatchCount |-> Len(hashes),
                    hasPendingBatches |-> TRUE])
  BY <1>5, <1>6, <1>7, AnnouncingCounts
<1> QED
  BY <1>1, <1>8, OneNameChanges

LEMMA MineCounts ==
  ASSUME CountsAreExact, NEW c \in Clients, Mine(c)
  PROVE  CountsAreExact'
<1> DEFINE tx == mempool[c][1]
           d == distributions[tx.name]
           e == Cleared(d, tx.index)
<1>1. CASE Succeeds(tx)
  <2>1. /\ d.hasPendingBatches /\ tx.index \in Left(d)
        /\ distributions' = [distributions EXCEPT ![tx.name] =
             IF e.pendingBatchCount = 0 THEN NoDistribution ELSE e]
    BY <1>1 DEF Mine, Succeeds, Acceptable, ExecuteCommittedBatch, PendingBatches, Left
  <2>2. tx.name \in Names => CountIsExact(IF e.pendingBatchCount = 0 THEN NoDistribution ELSE e)
    BY <2>1, ClearingCounts DEF CountsAreExact
  <2> HIDE DEF tx, d, e
  <2> QED
    BY <2>1, <2>2, OneNameChanges
<1>2. CASE ~Succeeds(tx)
  BY <1>2 DEF Mine, contractVars, CountsAreExact
<1> QED
  BY <1>1, <1>2

LEMMA StepCounts == CountsAreExact /\ [Next]_vars => CountsAreExact'
<1> SUFFICES ASSUME CountsAreExact, [Next]_vars PROVE CountsAreExact'
  OBVIOUS
<1>1. CASE UNCHANGED distributions
  BY <1>1 DEF CountsAreExact
<1>2. ASSUME NEW n \in Names, Abort(n)
      PROVE  CountsAreExact'
  BY <1>2, NothingLeft, OneNameChanges DEF Abort, AbortDistributionEvent
<1>3. ASSUME NEW n \in Names, NEW file \in Files, NEW size \in BatchSizes, AnnounceFile(n, file, size)
      PROVE  CountsAreExact'
  BY <1>3, AnnounceCounts
<1>4. ASSUME NEW c \in Clients, Mine(c)
      PROVE  CountsAreExact'
  BY <1>4, MineCounts
<1>5. (DrainOrbs \/ Refund \/ (\E new \in {Nobody, Owner} : ReassignRewardsDistributor(new))
        \/ \E payment \in DirectRewards : DistributeRewardsDirectly(Owner, payment))
      => UNCHANGED distributions
  BY DEF DrainOrbs, Refund, ReassignRewardsDistributor, DistributeRewardsDirectly
<1>6. ASSUME NEW c \in Clients, \/ Submit(c) \/ Timeout(c) \/ Finish(c)
                                \/ \E n \in Names, file \in Files, size \in BatchSizes : Launch(c, n, file, size)
      PROVE  UNCHANGED distributions
  BY <1>6 DEF Submit, Timeout, Finish, Launch, contractVars
<1>7. CASE UNCHANGED vars
  BY <1>1, <1>7 DEF vars, contractVars
<1> QED
  BY <1>1, <1>2, <1>3, <1>4, <1>5, <1>6, <1>7 DEF Next

(* The contract's count of pending batches is right under every name,       *)
(* whatever was announced, aborted, executed twice or late: pages and       *)
(* aborts of a distribution never fail and it ends with its last batch.     *)
THEOREM PendingCountIsAlwaysExact == Spec => []PendingCountIsExact
<1>1. CountsAreExact => PendingCountIsExact
  BY DEF CountsAreExact, CountIsExact, PendingCountIsExact, PendingBatches, Left
<1> QED
  BY <1>1, InitCounts, StepCounts, PTL DEF Spec

-----------------------------------------------------------------------------
(* What a hash says                                                         *)

(* A sum does not depend on how its terms are named.                        *)
LEMMA SumRenamed ==
  ASSUME NEW S, IsFiniteSet(S), NEW T, IsFiniteSet(T), NEW q,
         \A x \in S : q[x] \in T,
         \A t \in T : \E x \in S : q[x] = t,
         \A x, y \in S : q[x] = q[y] => x = y,
         NEW f, NEW g, \A x \in S : f[x] \in Int /\ f[x] = g[q[x]]
  PROVE  SumFunctionOnSet(f, S) = SumFunctionOnSet(g, T)
<1>1. PICK parts : parts = [t \in T |-> {x \in S : q[x] = t}]
  OBVIOUS
<1>2. \A t \in T : parts[t] \subseteq S /\ \A x \in S : x \in parts[t] <=> q[x] = t
  BY <1>1
<1>3. ASSUME NEW t \in T
      PROVE  g[t] = SumFunctionOnSet(f, parts[t])
  <2>1. PICK x \in S : q[x] = t
    OBVIOUS
  <2>2. parts[t] = {x}
    BY <1>2, <2>1
  <2>3. f[x] \in Int /\ f[x] = g[t]
    BY <2>1
  <2>4. SumFunctionOnSet(f, {x}) = f[x]
    BY <2>3, SumSingleton
  <2> QED
    BY <2>2, <2>3, <2>4
<1>4. \A x \in S : f[x] \in Int
  OBVIOUS
<1>5. \A t \in T : g[t] = SumFunctionOnSet(f, parts[t])
  BY <1>3
<1> QED
  BY ONLY <1>2, <1>4, <1>5, SumOfParts, IsFiniteSet(S), IsFiniteSet(T), \A x \in S : q[x] \in T

(* What somebody receives is a natural, nothing where nobody is named, and  *)
(* all that is received is all that is paid.                                *)
LEMMA ReceivedIsPaid ==
  ASSUME NEW recipients \in Seq(Recipients), NEW amounts \in Seq(Nat),
         Len(recipients) = Len(amounts)
  PROVE  /\ \A a : Received(recipients, amounts, a) \in Nat
         /\ \A a : a \notin Recipients => Received(recipients, amounts, a) = 0
         /\ Sum(amounts, DOMAIN amounts) \in Nat
         /\ \A g : (\A a \in Recipients : g[a] = Received(recipients, amounts, a))
              => SumFunctionOnSet(g, Recipients) = Sum(amounts, DOMAIN amounts)
<1>1. PICK k \in Nat : k = Len(amounts)
  OBVIOUS
<1>2. /\ DOMAIN amounts = 1..k /\ DOMAIN recipients = 1..k
      /\ \A i \in 1..k : amounts[i] \in Nat /\ recipients[i] \in Recipients
  BY <1>1
<1>3. PICK parts : parts = [a \in Recipients |-> {i \in 1..k : recipients[i] = a}]
  OBVIOUS
<1>4. IsFiniteSet(1..k)
  BY FS_Interval
<1>5. \A T \in SUBSET (1..k) : SumFunctionOnSet(amounts, T) \in Nat
  BY <1>2, <1>4, SumType, FS_Subset
<1>6. \A a : Received(recipients, amounts, a) = SumFunctionOnSet(amounts, {i \in 1..k : recipients[i] = a})
  BY <1>2 DEF Received, Sum
<1>7. \A a : Received(recipients, amounts, a) \in Nat
  BY <1>5, <1>6
<1>8. ASSUME NEW a, a \notin Recipients PROVE Received(recipients, amounts, a) = 0
  <2>1. {i \in 1..k : recipients[i] = a} = {}
    BY <1>2, <1>8
  <2> QED
    BY <1>6, <2>1, SumEmpty
<1>9. Sum(amounts, DOMAIN amounts) = SumFunctionOnSet(amounts, 1..k)
  BY <1>2 DEF Sum
<1>10. ASSUME NEW g, \A a \in Recipients : g[a] = Received(recipients, amounts, a)
       PROVE  SumFunctionOnSet(g, Recipients) = SumFunctionOnSet(amounts, 1..k)
  <2>1. \A r \in Recipients : parts[r] \subseteq 1..k /\ \A x \in 1..k : x \in parts[r] <=> recipients[x] = r
    BY <1>3
  <2>2. \A r \in Recipients : g[r] = SumFunctionOnSet(amounts, parts[r])
    BY <1>3, <1>6, <1>10
  <2>3. IsFiniteSet(Recipients)
    BY RewardsAssumption
  <2>4. \A x \in 1..k : recipients[x] \in Recipients
    BY <1>2
  <2>5. \A x \in 1..k : amounts[x] \in Int
    BY <1>2
  <2>6. PICK S : S = 1..k
    OBVIOUS
  <2>7. \A r \in Recipients : parts[r] \subseteq S /\ \A x \in S : x \in parts[r] <=> recipients[x] = r
    BY ONLY <2>1, <2>6
  <2>8. IsFiniteSet(S)
    BY ONLY <1>4, <2>6
  <2>9. \A x \in S : recipients[x] \in Recipients
    BY ONLY <2>4, <2>6
  <2>10. \A x \in S : amounts[x] \in Int
    BY ONLY <2>5, <2>6
  <2>11. SumFunctionOnSet(g, Recipients) = SumFunctionOnSet(amounts, S)
    BY ONLY <2>2, <2>3, <2>7, <2>8, <2>9, <2>10, SumOfParts
  <2> QED
    BY ONLY <2>6, <2>11
<1>11. \A g : (\A a \in Recipients : g[a] = Received(recipients, amounts, a))
              => SumFunctionOnSet(g, Recipients) = Sum(amounts, DOMAIN amounts)
  BY <1>9, <1>10
<1> QED
  BY <1>5, <1>7, <1>8, <1>9, <1>11

LEMMA ColumnsTyped ==
  ASSUME NEW part \in Seq(Reward)
  PROVE  /\ Addresses(part) \in Seq(Recipients) /\ Amounts(part) \in Seq(Nat)
         /\ Len(Addresses(part)) = Len(part) /\ Len(Amounts(part)) = Len(part)
         /\ \A i \in 1..Len(part) : /\ Addresses(part)[i] = part[i].address
                                     /\ Amounts(part)[i] = part[i].amount
<1>1. Len(part) \in Nat /\ DOMAIN part = 1..Len(part) /\ \A i \in 1..Len(part) : part[i] \in Reward
  OBVIOUS
<1>2. \A i \in 1..Len(part) : part[i].address \in Recipients /\ part[i].amount \in Nat
  BY <1>1 DEF Reward
<1>3. /\ Addresses(part) = [i \in 1..Len(part) |-> part[i].address]
      /\ Amounts(part) = [i \in 1..Len(part) |-> part[i].amount]
  BY <1>1 DEF Addresses, Amounts
<1> QED
  BY <1>1, <1>2, <1>3

(* The places of a hash.                                                    *)
HashReads(h, recipients, amounts) ==
  /\ h[2] = Len(recipients)
  /\ \A k \in 1..Len(recipients) : h[2 + k] = recipients[k]
  /\ \A k \in 1..Len(recipients) : h[2 + h[2] + k] = amounts[k]

LEMMA HashPlaces ==
  ASSUME NEW recipients \in Seq(Recipients), NEW amounts \in Seq(Nat), NEW index \in Nat,
         Len(recipients) = Len(amounts)
  PROVE  HashReads(CalcBatchHash(recipients, amounts, index), recipients, amounts)
<1>0. PICK h : h = CalcBatchHash(recipients, amounts, index)
  OBVIOUS
<1> DEFINE Word == Recipients \cup Nat
<1>1. PICK head : head = <<index, Len(recipients)>>
  OBVIOUS
<1>2. head \in Seq(Word) /\ Len(head) = 2 /\ head[2] = Len(recipients)
  <2>1. index \in Word /\ Len(recipients) \in Word
    OBVIOUS
  <2> HIDE DEF Word
  <2> QED
    BY <1>1, <2>1
<1>3. recipients \in Seq(Word) /\ amounts \in Seq(Word)
  OBVIOUS
<1> HIDE DEF Word
<1>4. PICK m \in Nat : m = Len(recipients)
  OBVIOUS
<1>5. PICK t : t = head \o recipients
  OBVIOUS
<1>6. /\ t \in Seq(Word) /\ Len(t) = 2 + m
      /\ \A j \in 1..(2 + m) : t[j] = IF j <= 2 THEN head[j] ELSE recipients[j - 2]
  <2>1. /\ t \in Seq(Word)
        /\ Len(t) = Len(head) + Len(recipients)
        /\ \A j \in 1..Len(head) + Len(recipients) :
             t[j] = IF j <= Len(head) THEN head[j] ELSE recipients[j - Len(head)]
    BY ONLY <1>2, <1>3, <1>5, ConcatProperties
  <2> QED
    BY ONLY <1>2, <1>4, <2>1
<1>7. h = t \o amounts
  BY <1>0, <1>1, <1>5 DEF CalcBatchHash
<1>8. \A j \in 1..((2 + m) + m) : h[j] = IF j <= 2 + m THEN t[j] ELSE amounts[j - (2 + m)]
  BY <1>3, <1>4, <1>6, <1>7
<1>9. h[2] = m
  BY <1>2, <1>4, <1>6, <1>8
<1>10. ASSUME NEW k \in 1..m PROVE h[2 + k] = recipients[k]
  <2>1. 2 + k \in 1..(2 + m) /\ 2 + k \in 1..((2 + m) + m) /\ ~(2 + k <= 2) /\ (2 + k) - 2 = k /\ 2 + k <= 2 + m
    OBVIOUS
  <2> QED
    BY <1>6, <1>8, <2>1
<1>11. ASSUME NEW k \in 1..m PROVE h[2 + m + k] = amounts[k]
  <2>1. 2 + m + k \in 1..((2 + m) + m) /\ ~(2 + m + k <= 2 + m) /\ (2 + m + k) - (2 + m) = k
    OBVIOUS
  <2> QED
    BY <1>8, <2>1
<1>12. HashReads(h, recipients, amounts)
  BY ONLY <1>4, <1>9, <1>10, <1>11 DEF HashReads
<1> QED
  BY ONLY <1>0, <1>12

(* A hash promises what the batch it was made from says.                    *)
LEMMA HashPromises ==
  ASSUME NEW recipients \in Seq(Recipients), NEW amounts \in Seq(Nat), NEW index \in Nat,
         Len(recipients) = Len(amounts), NEW a
  PROVE  Owed(PaymentsOf(CalcBatchHash(recipients, amounts, index)), a) =
           Received(recipients, amounts, a)
<1>1. PICK h : h = CalcBatchHash(recipients, amounts, index)
  OBVIOUS
<1>2. PICK m \in Nat : m = Len(recipients)
  OBVIOUS
<1>3. /\ h[2] = m
      /\ \A k \in 1..m : h[2 + k] = recipients[k]
      /\ \A k \in 1..m : h[2 + h[2] + k] = amounts[k]
  <2>1. HashReads(h, recipients, amounts)
    BY <1>1, HashPlaces
  <2> QED
    BY ONLY <1>2, <2>1 DEF HashReads
<1>4. PICK p : p = PaymentsOf(h)
  OBVIOUS
<1>5. DOMAIN p = 1..m /\ \A k \in 1..m : p[k].to = recipients[k] /\ p[k].amount = amounts[k]
  BY <1>3, <1>4 DEF PaymentsOf
<1>6. PICK T : T = {k \in DOMAIN p : p[k].to = a}
  OBVIOUS
<1>7. T = {i \in DOMAIN recipients : recipients[i] = a} /\ T \subseteq 1..m
  <2>1. DOMAIN recipients = 1..m
    BY <1>2
  <2> QED
    BY <1>5, <1>6, <2>1
<1>8. PICK f : f = [k \in DOMAIN p |-> p[k].amount]
  OBVIOUS
<1>9. \A x \in T : f[x] = amounts[x]
  BY <1>5, <1>7, <1>8
<1>10. IsFiniteSet(T)
  BY <1>7, FS_Interval, FS_Subset
<1>11. SumFunctionOnSet(f, T) = SumFunctionOnSet(amounts, T)
  BY ONLY <1>9, <1>10, SumSame
<1>12. Owed(p, a) = SumFunctionOnSet(f, T)
  BY <1>6, <1>8 DEF Owed, Sum
<1>13. Received(recipients, amounts, a) = SumFunctionOnSet(amounts, T)
  BY <1>7 DEF Received, Sum
<1> QED
  BY <1>1, <1>4, <1>11, <1>12, <1>13

-----------------------------------------------------------------------------
(* The batches of a file                                                    *)

(* Multiples of a number are in the order of their factors.                 *)
LEMMA MultiplesOrdered ==
  ASSUME NEW s \in Nat \ {0}, NEW b \in Int, NEW c \in Int
  PROVE  /\ s * b \in Int
         /\ b <= c => s * b <= s * c
         /\ s * (b + 1) = s * b + s /\ s * (b - 1) = s * b - s
         /\ s * b < s * c => b < c
<1>1. /\ s * b \in Int /\ s * c \in Int
      /\ s * (b + 1) = s * b + s /\ s * (b - 1) = s * b - s
  OBVIOUS
<1>2. b <= c => s * b <= s * c
  OBVIOUS
<1>3. c <= b => s * c <= s * b
  OBVIOUS
<1> QED
  BY <1>1, <1>2, <1>3

(* A batch holds the rewards of the file from the one after low to the      *)
(* n-th after low, and no other batch holds one of them.                    *)
Covers(file, size, b, low, n) ==
  /\ low + n <= Len(file) /\ Len(Batches(file, size)[b]) = n
  /\ \A i \in 1..n : Batches(file, size)[b][i] = file[low + i]
  /\ \A j \in 1..Len(file) : (low + 1 <= j /\ j <= low + n) <=> (j - 1) \div size + 1 = b

(* The batches cover the file: every reward is in one batch, and a batch    *)
(* reads the file from its first reward on.                                 *)
LEMMA BatchesCover ==
  ASSUME NEW file \in Files, NEW size \in BatchSizes,
         NEW k, k = Len(Batches(file, size)), NEW L, L = Len(file)
  PROVE  /\ k \in Nat /\ L \in Nat /\ DOMAIN Batches(file, size) = 1..k
         /\ \A b \in 1..k :
              /\ Batches(file, size)[b] \in Seq(Reward)
              /\ \E low \in Nat, n \in Nat : Covers(file, size, b, low, n)
         /\ \A j \in 1..L : (j - 1) \div size + 1 \in 1..k
<1>1. file \in Seq(Reward) /\ size \in Nat \ {0} /\ L \in Nat
  <2>1. file \in Seq(Reward) /\ size \in Nat \ {0}
    BY RewardsAssumption DEF Reward
  <2> QED
    BY <2>1
<1>2. PICK q, r : q = (L + size - 1) \div size /\ r = (L + size - 1) % size
  OBVIOUS
<1>3. q \in Int /\ r \in 0..size - 1 /\ L + size - 1 = size * q + r
  <2>1. L + size - 1 \in Int
    BY <1>1
  <2> QED
    BY ONLY <1>1, <1>2, <2>1, DivisionOf
<1>4. PICK top \in Int : top = size * q
  BY <1>1, <1>3
<1>5. q \in Nat
  <2>1. ASSUME q <= -1 PROVE FALSE
    <3>1. size * q <= size * (-1) /\ size * (-1) = -size
      BY <1>1, <1>3, <2>1, MultiplesOrdered
    <3> QED
      BY <1>1, <1>3, <1>4, <3>1
  <2> QED
    BY <1>3, <2>1
<1>6. PICK B : B = Batches(file, size)
  OBVIOUS
<1>7. DOMAIN B = 1..q /\ B = [b \in 1..q |-> SubSeq(file, (b - 1) * size + 1, Min({b * size, L}))]
  BY <1>2, <1>6 DEF Batches
<1>8. k = q
  <2>1. Len(B) = q
    BY <1>5, <1>7
  <2> QED
    BY <1>6, <2>1
<1>9. ASSUME NEW j \in 1..L
      PROVE  \E d \in Int : /\ d = (j - 1) \div size /\ d + 1 \in 1..q
                            /\ size * d <= j - 1 /\ j - 1 < size * d + size
  <2>1. PICK d, e : d = (j - 1) \div size /\ e = (j - 1) % size
    OBVIOUS
  <2>2. j - 1 \in Nat
    BY <1>1
  <2>3. j - 1 = size * d + e /\ e \in 0..size - 1 /\ d \in Int
    <3>1. j - 1 \in Int
      BY <2>2
    <3> QED
      BY ONLY <1>1, <2>1, <3>1, DivisionOf
  <2>4. PICK low \in Int : low = size * d
    BY <1>1, <2>3
  <2>5. low <= j - 1 /\ j - 1 < low + size
    BY ONLY <1>1, <2>2, <2>3, <2>4
  <2>6. d >= 0
    <3>1. size * (-1) < size * d
      <4>1. size * (-1) = -size
        BY <1>1
      <4> QED
        BY ONLY <1>1, <2>2, <2>4, <2>5, <4>1
    <3>2. -1 < d
      BY ONLY <1>1, <2>3, <3>1, MultiplesOrdered, -1 \in Int
    <3> QED
      BY <2>3, <3>2
  <2>7. d < q
    <3>1. size * d < size * q
      BY ONLY <1>1, <1>3, <1>4, <2>2, <2>4, <2>5, j \in 1..L
    <3> QED
      BY ONLY <1>1, <1>3, <2>3, <3>1, MultiplesOrdered
  <2>8. d + 1 \in 1..q
    BY ONLY <1>3, <2>3, <2>6, <2>7
  <2>9. size * d <= j - 1 /\ j - 1 < size * d + size
    BY ONLY <2>4, <2>5
  <2>10. d \in Int /\ d = (j - 1) \div size
    BY ONLY <2>1, <2>3
  <2> WITNESS d \in Int
  <2> QED
    BY ONLY <2>8, <2>9, <2>10
<1>10. ASSUME NEW b \in 1..q
       PROVE  /\ B[b] \in Seq(Reward)
              /\ \E low \in Nat, n \in Nat : Covers(file, size, b, low, n)
  <2>1. B[b] \in Seq(Reward)
    BY <1>6, <1>7, BatchTyped
  <2>2. b \in Nat \ {0} /\ b - 1 \in Nat
    BY <1>5
  <2>3. PICK low, high : low = size * (b - 1) /\ high = size * b
    OBVIOUS
  <2>4. low \in Nat /\ high \in Nat /\ high = low + size
    BY <1>1, <2>2, <2>3, MultiplesOrdered
  <2>5. low < L
    <3>1. size * b <= size * q
      BY <1>1, <1>3, <2>2, MultiplesOrdered
    <3> QED
      BY ONLY <1>1, <1>3, <2>3, <2>4, <3>1, <1>4
  <2>6. PICK last \in Nat : last = Min({high, L})
    BY <1>1, <2>4, SmallestNumber
  <2>7. last \in {high, L} /\ last <= high /\ last <= L
    BY <1>1, <2>4, <2>6, SmallestNumber
  <2>8. PICK n \in Nat : n = last - low
    BY <1>1, <2>4, <2>5, <2>6, <2>7
  <2>9. B[b] = SubSeq(file, low + 1, last)
    <3>1. (b - 1) * size = low /\ b * size = high
      BY <1>1, <2>2, <2>3
    <3> QED
      BY <1>7, <2>6, <3>1
  <2>10. Len(B[b]) = n /\ \A i \in 1..n : B[b][i] = file[low + i]
    <3>1. /\ low + 1 \in Nat \ {0} /\ last \in 0..Len(file) 
          /\ low + 1 \in 1..Len(file) + 1
      BY <1>1, <2>4, <2>5, <2>6, <2>7
    <3>2. n = (last - (low + 1)) + 1 /\ low + 1 <= last + 1
      BY <2>4, <2>5, <2>6, <2>7, <2>8, <1>1
    <3>3. PICK m \in 1..L + 1, t \in 0..L : m = low + 1 /\ t = last
      BY ONLY <1>1, <2>4, <2>5, <2>6, <2>7
    <3>4. PICK x : x = SubSeq(file, m, t)
      OBVIOUS
    <3>5. /\ Len(x) = IF m <= t THEN (t - m) + 1 ELSE 0
          /\ \A i \in 1..(t - m) + 1 : x[i] = file[(m + i) - 1]
      <4>1. \A i \in m..t : file[i] \in Reward
        <5>1. \A i \in m..t : i \in 1..L
          BY ONLY <1>1, m \in 1..L + 1, t \in 0..L
        <5>2. \A i \in 1..L : file[i] \in Reward
          BY <1>1
        <5> QED
          BY ONLY <5>1, <5>2
      <4>2. m \in Int /\ t \in Int
        BY <1>1
      <4> QED
        BY ONLY <3>4, <4>1, <4>2, SubSeqProperties
    <3>6. (t - m) + 1 = n /\ (IF m <= t THEN (t - m) + 1 ELSE 0) = n
      BY ONLY <2>4, <2>6, <2>8, <3>3
    <3>7. \A i \in 1..n : (m + i) - 1 = low + i
      BY ONLY <2>4, <2>8, <3>3
    <3> QED
      BY ONLY <2>9, <3>3, <3>4, <3>5, <3>6, <3>7
  <2>11. ASSUME NEW j \in 1..L
         PROVE  (low + 1 <= j /\ j <= low + n) <=> (j - 1) \div size + 1 = b
    <3>1. PICK d \in Int : /\ d = (j - 1) \div size /\ d + 1 \in 1..q
                            /\ size * d <= j - 1 /\ j - 1 < size * d + size
      BY <1>9
    <3>2. PICK m \in Int : m = size * d
      BY <1>1
    <3>3. j <= low + n <=> j <= high
      BY <1>1, <2>4, <2>7, <2>8
    <3>4. ASSUME d = b - 1 PROVE low + 1 <= j /\ j <= high
      BY ONLY <1>1, <2>3, <2>4, <3>1, <3>2, <3>4, j \in 1..L
    <3>5. ASSUME low + 1 <= j, j <= high PROVE d = b - 1
      <4>1. size * d < size * b
        BY ONLY <1>1, <2>3, <2>4, <3>1, <3>2, <3>5, j \in 1..L
      <4>2. size * (b - 1) < size * (d + 1)
        <5>1. size * (d + 1) = m + size
          BY <1>1, <3>2, MultiplesOrdered
        <5> QED
          BY ONLY <1>1, <2>3, <2>4, <3>1, <3>2, <3>5, <5>1, j \in 1..L
      <4>3. d < b
        BY ONLY <1>1, <2>2, <4>1, MultiplesOrdered, d \in Int
      <4>4. b - 1 < d + 1
        <5>1. b - 1 \in Int /\ d + 1 \in Int
          BY <2>2
        <5> QED
          BY ONLY <1>1, <4>2, <5>1, MultiplesOrdered
      <4> QED
        BY ONLY <2>2, <4>3, <4>4, d \in Int
    <3> QED
      BY ONLY <2>2, <3>1, <3>3, <3>4, <3>5, d \in Int
  <2>12. low + n <= L
    BY <2>4, <2>6, <2>7, <2>8, <1>1
  <2>13. Covers(file, size, b, low, n)
    <3>1. B[b] = Batches(file, size)[b] /\ L = Len(file)
      BY <1>6
    <3> QED
      BY ONLY <2>10, <2>11, <2>12, <3>1 DEF Covers
  <2> QED
    BY ONLY <2>1, <2>4, <2>8, <2>13
<1>11. ASSUME NEW j \in 1..L PROVE (j - 1) \div size + 1 \in 1..k
  BY <1>8, <1>9
<1>12. DOMAIN Batches(file, size) = 1..k /\ k \in Nat
  BY ONLY <1>5, <1>6, <1>7, <1>8
<1>13. ASSUME NEW b \in 1..k
       PROVE  /\ Batches(file, size)[b] \in Seq(Reward)
              /\ \E low \in Nat, n \in Nat : Covers(file, size, b, low, n)
  <2>1. b \in 1..q
    BY ONLY <1>8, b \in 1..k
  <2> QED
    BY ONLY <1>6, <1>10, <2>1
<1> QED
  BY ONLY <1>1, <1>11, <1>12, <1>13, Zenon

LEMMA PartOfInterval ==
  ASSUME NEW n \in Nat, NEW S, S \subseteq 1..n
  PROVE  IsFiniteSet(S)
<1>1. PICK T : T = 1..n
  OBVIOUS
<1>2. IsFiniteSet(T) /\ S \in SUBSET T
  BY <1>1, FS_Interval
<1> QED
  BY ONLY <1>2, FS_Subset

(* What the batches of a file pay somebody together is what the file says.  *)
LEMMA FileIsItsBatches ==
  ASSUME NEW file \in Files, NEW size \in BatchSizes, NEW a,
         NEW k, k = Len(Batches(file, size)),
         NEW g, \A b \in 1..k : g[b] = Received(Addresses(Batches(file, size)[b]),
                                                Amounts(Batches(file, size)[b]), a)
  PROVE  SumFunctionOnSet(g, 1..k) = Received(Addresses(file), Amounts(file), a)
<1>1. PICK L : L = Len(file)
  OBVIOUS
<1>2. PICK B : B = Batches(file, size)
  OBVIOUS
<1>3. /\ k \in Nat /\ L \in Nat
      /\ \A b \in 1..k : B[b] \in Seq(Reward) /\ \E low \in Nat, n \in Nat : Covers(file, size, b, low, n)
      /\ \A j \in 1..L : (j - 1) \div size + 1 \in 1..k
  BY ONLY <1>1, <1>2, BatchesCover, file \in Files, size \in BatchSizes, k = Len(Batches(file, size)), Zenon
<1>4. file \in Seq(Reward)
  BY RewardsAssumption DEF Reward
<1>5. PICK f : f = Amounts(file)
  OBVIOUS
<1>6. PICK D : D = {j \in 1..L : file[j].address = a}
  OBVIOUS
<1>7. /\ \A j \in 1..L : f[j] \in Nat /\ f[j] = file[j].amount
      /\ DOMAIN Addresses(file) = 1..L
      /\ \A j \in 1..L : Addresses(file)[j] = file[j].address
  <2>1. /\ f \in Seq(Nat) /\ Len(f) = L
        /\ Addresses(file) \in Seq(Recipients) /\ Len(Addresses(file)) = L
        /\ \A i \in 1..L : Addresses(file)[i] = file[i].address /\ f[i] = file[i].amount
    BY ONLY <1>1, <1>4, <1>5, ColumnsTyped
  <2> QED
    BY ONLY <2>1
<1>8. Received(Addresses(file), Amounts(file), a) = SumFunctionOnSet(f, D)
  <2>1. D = {i \in DOMAIN Addresses(file) : Addresses(file)[i] = a}
    BY <1>6, <1>7
  <2> QED
    BY <1>5, <2>1 DEF Received, Sum
<1>9. PICK p : p = [j \in 1..L |-> (j - 1) \div size + 1]
  OBVIOUS
<1>10. PICK parts : parts = [b \in 1..k |-> {j \in D : p[j] = b}]
  OBVIOUS
<1>11. D \subseteq 1..L /\ IsFiniteSet(D) /\ IsFiniteSet(1..k)
  <2>1. D \subseteq 1..L
    BY <1>6
  <2>2. k \in Nat /\ L \in Nat
    BY <1>3
  <2> QED
    BY ONLY <2>1, <2>2, PartOfInterval, FS_Interval
<1>12. /\ \A x \in D : p[x] \in 1..k
       /\ \A x \in D : f[x] \in Int
       /\ \A r \in 1..k : parts[r] \subseteq D /\ \A x \in D : x \in parts[r] <=> p[x] = r
  BY <1>3, <1>7, <1>9, <1>10, <1>11
<1>13. ASSUME NEW b \in 1..k
       PROVE  g[b] = SumFunctionOnSet(f, parts[b])
  <2>1. PICK low \in Nat, n \in Nat :
          /\ low + n <= L
          /\ Len(B[b]) = n
          /\ \A i \in 1..n : B[b][i] = file[low + i]
          /\ \A j \in 1..L : (low + 1 <= j /\ j <= low + n) <=> (j - 1) \div size + 1 = b
    BY <1>1, <1>2, <1>3 DEF Covers
  <2>2. PICK e : e = Amounts(B[b])
    OBVIOUS
  <2>3. PICK S : S = {i \in 1..n : B[b][i].address = a}
    OBVIOUS
  <2>4. /\ \A i \in 1..n : e[i] \in Nat /\ e[i] = B[b][i].amount
        /\ DOMAIN Addresses(B[b]) = 1..n
        /\ \A i \in 1..n : Addresses(B[b])[i] = B[b][i].address
    <3>1. B[b] \in Seq(Reward)
      BY <1>3
    <3>2. PICK x \in Seq(Reward) : x = B[b]
      BY <3>1
    <3>3. /\ e \in Seq(Nat) /\ Len(e) = n /\ Addresses(x) \in Seq(Recipients) /\ Len(Addresses(x)) = n
          /\ \A i \in 1..n : Addresses(x)[i] = x[i].address /\ e[i] = x[i].amount
      BY <2>1, <2>2, <3>2, ColumnsTyped
    <3> QED
      BY ONLY <3>2, <3>3
  <2>5. g[b] = SumFunctionOnSet(e, S)
    <3>1. S = {i \in DOMAIN Addresses(B[b]) : Addresses(B[b])[i] = a}
      BY <2>3, <2>4
    <3>2. g[b] = Received(Addresses(B[b]), Amounts(B[b]), a)
      BY <1>2
    <3> QED
      BY <2>2, <3>1, <3>2 DEF Received, Sum
  <2>6. PICK T : T = parts[b]
    OBVIOUS
  <2>7. \A j : j \in T <=> j \in 1..L /\ file[j].address = a /\ low + 1 <= j /\ j <= low + n
    <3>1. \A j : j \in T <=> j \in D /\ p[j] = b
      BY <1>10, <2>6
    <3>2. \A j \in 1..L : p[j] = b <=> (low + 1 <= j /\ j <= low + n)
      BY <1>9, <2>1
    <3>3. \A j : j \in D <=> j \in 1..L /\ file[j].address = a
      BY <1>6
    <3> QED
      BY ONLY <3>1, <3>2, <3>3
  <2>8. PICK q : q = [i \in 1..n |-> low + i]
    OBVIOUS
  <2>9. \A i \in 1..n : q[i] = low + i /\ low + i \in 1..L
    BY <1>3, <2>1, <2>8
  <2>10. \A x \in S : q[x] \in T
    <3>1. \A x \in 1..n : low + x \in 1..L /\ low + 1 <= low + x /\ low + x <= low + n
      <4>1. \A x \in 1..n : low + 1 <= low + x /\ low + x <= low + n
        OBVIOUS
      <4> QED
        BY ONLY <2>9, <4>1
    <3>2. \A x \in 1..n : B[b][x].address = a => file[low + x].address = a
      BY <2>1
    <3> QED
      BY ONLY <2>3, <2>7, <2>9, <3>1, <3>2
  <2>11. \A t \in T : \E x \in S : q[x] = t
    <3> SUFFICES ASSUME NEW t \in T PROVE \E x \in S : q[x] = t
      OBVIOUS
    <3>1. t \in 1..L /\ file[t].address = a /\ low + 1 <= t /\ t <= low + n
      BY <2>7
    <3>2. PICK x \in 1..n : low + x = t
      <4>1. t - low \in 1..n /\ low + (t - low) = t
        <5>1. t \in Int /\ low \in Nat /\ n \in Nat
          BY <1>3, <3>1
        <5> QED
          BY ONLY <3>1, <5>1
      <4> QED
        BY <4>1
    <3>3. B[b][x].address = a
      BY <2>1, <3>1, <3>2
    <3> QED
      BY <2>3, <2>9, <3>2, <3>3
  <2>12. \A x, y \in S : q[x] = q[y] => x = y
    <3>1. \A x, y \in 1..n : q[x] = q[y] => x = y
      BY <2>9
    <3> QED
      BY <2>3, <3>1
  <2>13. \A x \in S : e[x] \in Int /\ e[x] = f[q[x]]
    <3>1. \A x \in 1..n : e[x] \in Int /\ e[x] = f[q[x]]
      <4>1. \A x \in 1..n : e[x] \in Nat /\ e[x] = file[low + x].amount
        BY ONLY <2>1, <2>4
      <4> QED
        BY ONLY <1>7, <2>9, <4>1
    <3> QED
      BY <2>3, <3>1
  <2>14. IsFiniteSet(S) /\ IsFiniteSet(T)
    <3>1. S \subseteq 1..n /\ T \subseteq 1..L
      BY ONLY <2>3, <2>7
    <3>2. L \in Nat /\ n \in Nat
      BY <1>3
    <3> QED
      BY ONLY <3>1, <3>2, PartOfInterval
  <2>15. SumFunctionOnSet(e, S) = SumFunctionOnSet(f, T)
    BY ONLY <2>10, <2>11, <2>12, <2>13, <2>14, SumRenamed
  <2> QED
    BY <2>5, <2>6, <2>15
<1>14. PICK R : R = 1..k
  OBVIOUS
<1>15. SumFunctionOnSet(g, R) = SumFunctionOnSet(f, D)
  <2>1. IsFiniteSet(R) /\ IsFiniteSet(D)
    BY <1>11, <1>14
  <2>2. \A x \in D : p[x] \in R
    BY <1>12, <1>14
  <2>3. \A r \in R : parts[r] \subseteq D /\ \A x \in D : x \in parts[r] <=> p[x] = r
    BY <1>12, <1>14
  <2>4. \A r \in R : g[r] = SumFunctionOnSet(f, parts[r])
    BY <1>13, <1>14
  <2>5. \A x \in D : f[x] \in Int
    BY <1>12
  <2> QED
    BY ONLY <2>1, <2>2, <2>3, <2>4, <2>5, SumOfParts
<1> QED
  BY <1>8, <1>14, <1>15

-----------------------------------------------------------------------------
(* The tokens                                                               *)

MoneyIsKept ==
  /\ balance \in [Holder -> Nat] /\ SumFunctionOnSet(balance, Holder) = Funds
  /\ rewardsDistributor \in {Nobody, Owner}

LEMMA HoldersFinite == IsFiniteSet(Holder)
<1>1. IsFiniteSet(Recipients \cup {Owner}) /\ IsFiniteSet((Recipients \cup {Owner}) \cup {Distribution})
  BY RewardsAssumption, FS_AddElement
<1>2. Holder = (Recipients \cup {Owner}) \cup {Distribution}
  BY DEF Holder
<1> QED
  BY <1>1, <1>2

(* From the balances b to the balances c the contract pays d.               *)
Pays(b, c, d) ==
  /\ SumFunctionOnSet(d, Recipients) <= b[Distribution]
  /\ \A a \in Recipients : d[a] \in Nat /\ c[a] = b[a] + d[a]
  /\ c[Distribution] = b[Distribution] - SumFunctionOnSet(d, Recipients)
  /\ c[Owner] = b[Owner]

LEMMA PaymentMoves ==
  ASSUME NEW b \in [Holder -> Nat], NEW c, NEW d, Pays(b, c, d)
  PROVE  /\ \A a \in Holder : c[a] \in Nat
         /\ SumFunctionOnSet(c, Holder) = SumFunctionOnSet(b, Holder)
<1>0. PICK total : total = SumFunctionOnSet(d, Recipients)
  OBVIOUS
<1>d. /\ total <= b[Distribution] /\ c[Distribution] = b[Distribution] - total
      /\ \A a \in Recipients : d[a] \in Nat
      /\ \A a \in Recipients : c[a] = b[a] + d[a]
      /\ c[Owner] = b[Owner]
  BY <1>0 DEF Pays
<1>t. total \in Nat
  <2>1. IsFiniteSet(Recipients)
    BY RewardsAssumption
  <2> QED
    BY ONLY <1>0, <1>d, <2>1, SumType
<1>1. /\ \A a \in Holder : b[a] \in Nat
      /\ \A a \in Holder : a = Distribution \/ a = Owner \/ a \in Recipients
      /\ Distribution \in Holder /\ Owner \in Holder /\ Recipients \subseteq Holder
      /\ Distribution \notin Recipients /\ Owner \notin Recipients /\ Owner # Distribution
  BY RewardsAssumption DEF Holder
<1>2. \A a \in Holder : c[a] \in Nat
  <2>1. b[Distribution] - total \in Nat
    BY <1>1, <1>d, <1>t
  <2>2. \A a \in Recipients : b[a] + d[a] \in Nat
    BY <1>1, <1>d
  <2> QED
    BY <1>1, <1>d, <2>1, <2>2
<1>4. PICK mid : mid = [a \in Holder |-> IF a = Distribution THEN b[a] ELSE c[a]]
  OBVIOUS
<1>5. \A x \in Recipients : d[x] \in Int /\ mid[x] = b[x] + d[x]
  <2>1. \A x \in Recipients : mid[x] = c[x]
    BY <1>1, <1>4
  <2>2. \A x \in Recipients : d[x] \in Int
    BY <1>d
  <2> QED
    BY <1>d, <2>1, <2>2
<1>6. \A x \in Holder \ Recipients : mid[x] = b[x]
  <2>1. \A x \in Holder \ Recipients : x = Distribution \/ x = Owner
    BY <1>1
  <2>2. mid[Distribution] = b[Distribution] /\ mid[Owner] = b[Owner]
    BY <1>1, <1>4, <1>d
  <2> QED
    BY <2>1, <2>2
<1>7. SumFunctionOnSet(mid, Holder) = SumFunctionOnSet(b, Holder) + total
  <2>1. \A x \in Holder : b[x] \in Int
    BY <1>1
  <2>2. SumFunctionOnSet(mid, Holder) = SumFunctionOnSet(b, Holder) + SumFunctionOnSet(d, Recipients)
    BY ONLY <1>1, <1>5, <1>6, <2>1, HoldersFinite, SumChangeOn
  <2> QED
    BY <1>0, <2>2
<1>8. \A x \in Holder : mid[x] \in Int /\ c[x] \in Int
  <2>1. \A x \in Holder : mid[x] = b[x] \/ mid[x] = c[x]
    BY <1>4
  <2> QED
    BY ONLY <1>1, <1>2, <2>1
<1>9. \A x \in Holder \ {Distribution} : c[x] = mid[x]
  BY <1>4
<1>10. SumFunctionOnSet(c, Holder) = SumFunctionOnSet(mid, Holder) + (c[Distribution] - mid[Distribution])
  <2>1. Distribution \in Holder
    BY <1>1
  <2> QED
    BY ONLY <2>1, <1>8, <1>9, HoldersFinite, SumChange
<1>11. mid[Distribution] = b[Distribution]
  BY <1>1, <1>4
<1>12. SumFunctionOnSet(b, Holder) \in Int
  <2>1. \A x \in Holder : b[x] \in Int
    BY <1>1
  <2> QED
    BY ONLY <2>1, HoldersFinite, SumType
<1>13. b[Distribution] \in Int
  BY <1>1
<1> QED
  BY ONLY <1>2, <1>7, <1>10, <1>11, <1>12, <1>13, <1>d, <1>t

LEMMA PayBatchMoves ==
  ASSUME MoneyIsKept, NEW recipients \in Seq(Recipients), NEW amounts \in Seq(Nat),
         Len(recipients) = Len(amounts), CanPay(amounts), PayBatch(recipients, amounts)
  PROVE  balance' \in [Holder -> Nat] /\ SumFunctionOnSet(balance', Holder) = Funds
<1>1. PICK total : total = Sum(amounts, DOMAIN amounts)
  OBVIOUS
<1>2. PICK d : d = [a \in Recipients |-> Received(recipients, amounts, a)]
  OBVIOUS
<1>3. /\ total \in Nat /\ \A a \in Recipients : d[a] \in Nat
      /\ SumFunctionOnSet(d, Recipients) = total
      /\ Received(recipients, amounts, Owner) = 0
  BY <1>1, <1>2, ReceivedIsPaid, RewardsAssumption
<1>4. PICK b \in [Holder -> Nat] : b = balance
  BY DEF MoneyIsKept
<1>5. PICK c : c = balance'
  OBVIOUS
<1>6. total <= b[Distribution]
  BY <1>1, <1>4 DEF CanPay
<1>7. c = [a \in Holder |-> IF a = Distribution THEN b[a] - total
                            ELSE b[a] + Received(recipients, amounts, a)]
  BY <1>1, <1>4, <1>5 DEF PayBatch
<1>8. /\ Distribution \in Holder /\ Owner \in Holder /\ Recipients \subseteq Holder
      /\ Distribution \notin Recipients /\ Owner # Distribution /\ b[Owner] \in Nat
  BY RewardsAssumption DEF Holder
<1>9. c = [a \in Holder |-> c[a]]
  BY <1>7
<1>10. c[Distribution] = b[Distribution] - total
  BY <1>7, <1>8
<1>11. c[Owner] = b[Owner]
  BY <1>3, <1>7, <1>8
<1>12. \A a \in Recipients : c[a] = b[a] + d[a]
  BY <1>2, <1>7, <1>8
<1>13. c \in [Holder -> Nat] /\ SumFunctionOnSet(c, Holder) = SumFunctionOnSet(b, Holder)
  <2>0. c \in [Holder -> Nat] <=> \A a \in Holder : c[a] \in Nat
    BY <1>9
  <2>1. Pays(b, c, d)
    BY <1>3, <1>6, <1>10, <1>11, <1>12 DEF Pays
  <2>2. /\ \A a \in Holder : c[a] \in Nat
        /\ SumFunctionOnSet(c, Holder) = SumFunctionOnSet(b, Holder)
    BY <2>1, PaymentMoves
  <2> QED
    BY ONLY <2>0, <2>2
<1> QED
  BY <1>4, <1>5, <1>13 DEF MoneyIsKept

(* From the balances b to the balances c one holder gives all to another.   *)
GivesAll(b, c, from, to) == c = [b EXCEPT ![to] = @ + b[from], ![from] = 0]

LEMMA SwapMoves ==
  ASSUME NEW b \in [Holder -> Nat], NEW from \in Holder, NEW to \in Holder, from # to,
         NEW c, GivesAll(b, c, from, to)
  PROVE  c \in [Holder -> Nat] /\ SumFunctionOnSet(c, Holder) = SumFunctionOnSet(b, Holder)
<1>1. /\ c = [a \in Holder |-> c[a]] /\ c[to] = b[to] + b[from] /\ c[from] = 0
      /\ \A a \in Holder \ {from, to} : c[a] = b[a]
      /\ \A a \in Holder : b[a] \in Nat
  BY DEF GivesAll
<1>2. \A a \in Holder : c[a] \in Nat
  <2>1. b[to] + b[from] \in Nat
    BY <1>1
  <2> QED
    BY <1>1, <2>1
<1>3. \A x \in Holder : b[x] \in Int /\ c[x] \in Int
  BY <1>1, <1>2
<1>4. c[from] + c[to] = b[from] + b[to]
  BY <1>1
<1>5. SumFunctionOnSet(c, Holder) = SumFunctionOnSet(b, Holder)
  BY ONLY <1>1, <1>3, <1>4, SumMove, HoldersFinite, from \in Holder, to \in Holder, from # to
<1> QED
  BY <1>1, <1>2, <1>5

LEMMA SomeHolders == Owner \in Holder /\ Distribution \in Holder /\ Owner # Distribution
  BY RewardsAssumption DEF Holder

-----------------------------------------------------------------------------
(* The clients                                                              *)

ClientRun == {r \in [name : Names, batches : Seq(Seq(Reward)), i : Nat, waiting : BOOLEAN] :
          r.i \in 1 .. Len(r.batches) + 1 /\ (r.waiting => r.i <= Len(r.batches))}

Tx == [name : Names, recipients : Seq(Recipients), amounts : Seq(Nat), index : Nat]

ClientsTyped ==
  /\ runs \in [Clients -> {<<>>} \cup {<<r>> : r \in ClientRun}]
  /\ mempool \in [Clients -> Seq(Tx)]

LEMMA ARun ==
  ASSUME ClientsTyped, NEW c \in Clients, ~Idle(c)
  PROVE  runs[c][1] \in ClientRun /\ runs[c] = <<runs[c][1]>>
<1>1. PICK r \in ClientRun : runs[c] = <<r>>
  BY DEF ClientsTyped, Idle
<1> QED
  BY <1>1

LEMMA Proceeds ==
  ASSUME NEW r \in ClientRun, r.waiting, NEW ok
  PROVE  Proceed(r, ok) \in {<<q>> : q \in ClientRun}
<1>1. PICK q : q = [r EXCEPT !.i = @ + 1, !.waiting = FALSE]
  OBVIOUS
<1>2. /\ r \in [name : Names, batches : Seq(Seq(Reward)), i : Nat, waiting : BOOLEAN]
      /\ r.i \in 1 .. Len(r.batches) + 1 /\ r.i <= Len(r.batches)
  BY DEF ClientRun
<1>3. /\ q \in [name : Names, batches : Seq(Seq(Reward)), i : Nat, waiting : BOOLEAN]
      /\ q.i = r.i + 1 /\ q.batches = r.batches /\ q.waiting = FALSE
  <2>1. PICK n, w, i : n = r.name /\ w = r.batches /\ i = r.i
    OBVIOUS
  <2>2. n \in Names /\ w \in Seq(Seq(Reward)) /\ i + 1 \in Nat
    BY <1>2, <2>1
  <2>3. q = [name |-> n, batches |-> w, i |-> i + 1, waiting |-> FALSE]
    BY <1>1, <1>2, <2>1
  <2> QED
    BY ONLY <2>1, <2>2, <2>3
<1>4. q.i \in 1 .. Len(q.batches) + 1
  <2>1. PICK i, n : i = r.i /\ n = Len(r.batches)
    OBVIOUS
  <2>2. i \in Nat /\ n \in Nat /\ i \in 1..n + 1 /\ i <= n
    <3>1. r.batches \in Seq(Seq(Reward))
      BY <1>2
    <3>2. Len(r.batches) \in Nat
      BY <3>1
    <3> QED
      BY <1>2, <2>1, <3>2
  <2> QED
    BY <1>3, <2>1, <2>2
<1>5. q \in ClientRun
  BY <1>3, <1>4 DEF ClientRun
<1> QED
  BY <1>1, <1>5 DEF Proceed

LEMMA OneRunChanges ==
  ASSUME runs \in [Clients -> {<<>>} \cup {<<r>> : r \in ClientRun}], NEW c, NEW r,
         r \in {<<>>} \cup {<<q>> : q \in ClientRun}, runs' = [runs EXCEPT ![c] = r]
  PROVE  runs' \in [Clients -> {<<>>} \cup {<<q>> : q \in ClientRun}]
<1>1. PICK R : R = {<<>>} \cup {<<q>> : q \in ClientRun}
  OBVIOUS
<1>2. runs \in [Clients -> R] /\ r \in R
  BY <1>1
<1>3. runs' \in [Clients -> R]
  BY ONLY <1>2, runs' = [runs EXCEPT ![c] = r]
<1> QED
  BY <1>1, <1>3

LEMMA MempoolShrinks ==
  ASSUME ClientsTyped, NEW c \in Clients, Mine(c)
  PROVE  mempool' \in [Clients -> Seq(Tx)] /\ mempool[c][1] \in Tx
<1>1. mempool \in [Clients -> Seq(Tx)] /\ mempool[c] # <<>> /\ mempool[c] \in Seq(Tx)
      /\ mempool' = [mempool EXCEPT ![c] = Tail(@)]
  BY DEF Mine, ClientsTyped
<1>2. PICK s \in Seq(Tx) : s = mempool[c]
  BY <1>1
<1>3. s[1] \in Tx /\ Tail(s) \in Seq(Tx)
  <2>1. s # <<>>
    BY <1>1, <1>2
  <2> QED
    BY ONLY <2>1, s \in Seq(Tx)
<1> QED
  BY <1>1, <1>2, <1>3

LEMMA LaunchTyped ==
  ASSUME NEW n \in Names, NEW file \in Files, NEW size \in BatchSizes
  PROVE  [name |-> n, batches |-> Batches(file, size), i |-> 1, waiting |-> FALSE] \in ClientRun
<1>1. PICK B : B = Batches(file, size)
  OBVIOUS
<1>2. PICK k : k = Len(B)
  OBVIOUS
<1>3. k \in Nat /\ DOMAIN B = 1..k /\ \A b \in 1..k : B[b] \in Seq(Reward)
  BY <1>1, <1>2, BatchesCover
<1>4. B = [b \in 1..k |-> B[b]]
  BY <1>1, <1>3 DEF Batches
<1>5. B \in Seq(Seq(Reward))
  BY <1>3, <1>4
<1>6. 1 \in 1..Len(B) + 1
  BY <1>2, <1>3
<1> QED
  BY <1>1, <1>5, <1>6 DEF ClientRun

LEMMA SubmissionTyped ==
  ASSUME ClientsTyped, NEW c \in Clients, Submit(c)
  PROVE  Submission(c) \in Tx
<1>1. ~Idle(c) /\ runs[c][1].i <= Len(runs[c][1].batches)
  BY DEF Submit
<1>2. PICK r \in ClientRun : r = runs[c][1]
  BY <1>1, ARun
<1>3. r \in [name : Names, batches : Seq(Seq(Reward)), i : Nat, waiting : BOOLEAN]
      /\ r.i \in 1 .. Len(r.batches) + 1 /\ r.i <= Len(r.batches)
  BY <1>1, <1>2 DEF ClientRun
<1>4. PICK B \in Seq(Seq(Reward)), i \in Nat : B = r.batches /\ i = r.i
  BY <1>3
<1>5. i \in 1..Len(B)
  BY <1>3, <1>4
<1>6. PICK part \in Seq(Reward) : part = B[i]
  BY <1>5
<1>7. Submission(c) = [name |-> r.name, recipients |-> Addresses(part), amounts |-> Amounts(part), index |-> i]
  BY <1>2, <1>4, <1>6 DEF Submission
<1>8. Addresses(part) \in Seq(Recipients) /\ Amounts(part) \in Seq(Nat) /\ r.name \in Names
  BY <1>3, ColumnsTyped
<1> QED
  BY <1>7, <1>8 DEF Tx

LEMMA StepClients == ClientsTyped /\ [Next]_vars => ClientsTyped'
<1> SUFFICES ASSUME ClientsTyped, [Next]_vars PROVE ClientsTyped'
  OBVIOUS
<1>0. runs \in [Clients -> {<<>>} \cup {<<r>> : r \in ClientRun}] /\ mempool \in [Clients -> Seq(Tx)]
  BY DEF ClientsTyped
<1>1. CASE UNCHANGED <<runs, mempool>>
  BY <1>0, <1>1 DEF ClientsTyped
<1>2. ASSUME NEW c \in Clients, NEW n \in Names, NEW file \in Files, NEW size \in BatchSizes,
             Launch(c, n, file, size)
      PROVE  ClientsTyped'
  <2>1. PICK r : r = <<[name |-> n, batches |-> Batches(file, size), i |-> 1, waiting |-> FALSE]>>
    OBVIOUS
  <2>2. r \in {<<>>} \cup {<<q>> : q \in ClientRun}
    BY <2>1, LaunchTyped
  <2>3. runs' = [runs EXCEPT ![c] = r] /\ mempool' = mempool
    BY <1>2, <2>1 DEF Launch
  <2>4. runs' \in [Clients -> {<<>>} \cup {<<q>> : q \in ClientRun}]
    BY ONLY <1>0, <2>2, <2>3, OneRunChanges
  <2> QED
    BY <1>0, <2>3, <2>4 DEF ClientsTyped
<1>3. ASSUME NEW c \in Clients, Submit(c)
      PROVE  ClientsTyped'
  <2>1. runs[c][1] \in ClientRun /\ runs[c] = <<runs[c][1]>>
    BY <1>3, ARun DEF Submit
  <2>2. PICK r \in ClientRun : r = runs[c][1]
    BY <2>1
  <2>3. PICK q : q = [r EXCEPT !.waiting = TRUE]
    OBVIOUS
  <2>4. q \in ClientRun
    <3>1. r \in [name : Names, batches : Seq(Seq(Reward)), i : Nat, waiting : BOOLEAN]
          /\ r.i \in 1 .. Len(r.batches) + 1 /\ r.i <= Len(r.batches)
      BY <1>3, <2>2 DEF ClientRun, Submit
    <3>2. q \in [name : Names, batches : Seq(Seq(Reward)), i : Nat, waiting : BOOLEAN]
          /\ q.i = r.i /\ q.batches = r.batches
      BY <2>3, <3>1
    <3> QED
      BY <3>1, <3>2 DEF ClientRun
  <2>5. runs' = [runs EXCEPT ![c] = <<q>>]
    <3>1. runs' = [runs EXCEPT ![c][1].waiting = TRUE]
      BY <1>3 DEF Submit
    <3>2. [runs[c] EXCEPT ![1].waiting = TRUE] = <<q>>
      <4>1. PICK t : t = runs[c]
        OBVIOUS
      <4>2. t = <<r>>
        BY <2>1, <2>2, <4>1
      <4>3. [t EXCEPT ![1].waiting = TRUE] = <<q>>
        <5>1. PICK z : z = [t EXCEPT ![1].waiting = TRUE]
          OBVIOUS
        <5>2. z = [t EXCEPT ![1] = q]
          BY ONLY <2>3, <4>2, <5>1
        <5>3. z = <<q>>
          BY ONLY <4>2, <5>2
        <5> QED
          BY ONLY <5>1, <5>3
      <4> QED
        BY ONLY <4>1, <4>3
    <3> QED
      BY <3>1, <3>2
  <2>6. mempool' = [mempool EXCEPT ![c] = Append(@, Submission(c))]
    BY <1>3 DEF Submit
  <2>7. mempool' \in [Clients -> Seq(Tx)]
    <3>1. Append(mempool[c], Submission(c)) \in Seq(Tx)
      BY <1>0, <1>3, SubmissionTyped
    <3> QED
      BY <1>0, <2>6, <3>1
  <2>8. runs' \in [Clients -> {<<>>} \cup {<<x>> : x \in ClientRun}]
    <3>1. PICK x : x = <<q>>
      OBVIOUS
    <3>2. x \in {<<>>} \cup {<<y>> : y \in ClientRun} /\ runs' = [runs EXCEPT ![c] = x]
      BY <2>4, <2>5, <3>1
    <3> QED
      BY ONLY <1>0, <3>2, OneRunChanges
  <2> QED
    BY <2>7, <2>8 DEF ClientsTyped
<1>4. ASSUME NEW c \in Clients, ~Idle(c), runs[c][1].waiting, NEW ok,
             runs' = [runs EXCEPT ![c] = Proceed(runs[c][1], ok)]
      PROVE  runs' \in [Clients -> {<<>>} \cup {<<q>> : q \in ClientRun}]
  <2>1. PICK r : r = Proceed(runs[c][1], ok)
    OBVIOUS
  <2>2. r \in {<<>>} \cup {<<q>> : q \in ClientRun} /\ runs' = [runs EXCEPT ![c] = r]
    BY <1>4, <2>1, ARun, Proceeds
  <2> QED
    BY ONLY <1>0, <2>2, OneRunChanges
<1>5. ASSUME NEW c \in Clients, Timeout(c)
      PROVE  ClientsTyped'
  <2>1. ~Idle(c) /\ runs[c][1].waiting /\ runs' = [runs EXCEPT ![c] = Proceed(runs[c][1], FALSE)]
        /\ mempool' = mempool
    BY <1>5 DEF Timeout
  <2>2. runs' \in [Clients -> {<<>>} \cup {<<q>> : q \in ClientRun}]
    BY <1>4, <2>1
  <2> QED
    BY <1>0, <2>1, <2>2 DEF ClientsTyped
<1>6. ASSUME NEW c \in Clients, Finish(c)
      PROVE  ClientsTyped'
  <2>1. PICK r : r = <<>>
    OBVIOUS
  <2>2. r \in {<<>>} \cup {<<q>> : q \in ClientRun} /\ runs' = [runs EXCEPT ![c] = r] /\ mempool' = mempool
    BY <1>6, <2>1 DEF Finish
  <2>3. runs' \in [Clients -> {<<>>} \cup {<<q>> : q \in ClientRun}]
    BY ONLY <1>0, <2>2, OneRunChanges
  <2> QED
    BY <1>0, <2>2, <2>3 DEF ClientsTyped
<1>7. ASSUME NEW c \in Clients, Mine(c)
      PROVE  ClientsTyped'
  <2>1. BatchAnswered(c, Succeeds(mempool[c][1]))
    BY <1>7 DEF Mine
  <2>2. runs' \in [Clients -> {<<>>} \cup {<<q>> : q \in ClientRun}]
    <3>1. CASE Len(mempool[c]) = 1 /\ ~Idle(c) /\ runs[c][1].waiting
      <4>1. PICK ok : runs' = [runs EXCEPT ![c] = Proceed(runs[c][1], ok)]
        BY <2>1, <3>1 DEF BatchAnswered
      <4> QED
        BY <1>4, <3>1, <4>1
    <3>2. CASE ~(Len(mempool[c]) = 1 /\ ~Idle(c) /\ runs[c][1].waiting)
      BY <1>0, <2>1, <3>2 DEF BatchAnswered
    <3> QED
      BY <3>1, <3>2
  <2> QED
    BY <1>7, <2>2, MempoolShrinks DEF ClientsTyped
<1>8. ASSUME \/ \E n \in Names, file \in Files, size \in BatchSizes : AnnounceFile(n, file, size)
             \/ \E n \in Names : Abort(n)
             \/ DrainOrbs \/ Refund
             \/ \E new \in {Nobody, Owner} : ReassignRewardsDistributor(new)
             \/ \E payment \in DirectRewards : DistributeRewardsDirectly(Owner, payment)
      PROVE  UNCHANGED <<runs, mempool>>
  BY <1>8 DEF AnnounceFile, Abort, DrainOrbs, Refund, ReassignRewardsDistributor, DistributeRewardsDirectly
<1>9. CASE UNCHANGED vars
  BY <1>1, <1>9 DEF vars
<1> QED
  BY <1>1, <1>2, <1>3, <1>5, <1>6, <1>7, <1>8, <1>9 DEF Next

(* A transaction that takes effect is one of a batch with as many amounts   *)
(* as recipients.                                                           *)
LEMMA MinedTyped ==
  ASSUME ClientsTyped, NEW c \in Clients, Mine(c), Succeeds(mempool[c][1])
  PROVE  \E recipients \in Seq(Recipients), amounts \in Seq(Nat), n \in Names, index \in Nat :
           /\ Len(recipients) = Len(amounts)
           /\ Acceptable(n, recipients, amounts, index)
           /\ CanPay(amounts)
           /\ ExecuteCommittedBatch(n, recipients, amounts, index)
           /\ given' = [given EXCEPT ![n] =
                [a \in Recipients |-> @[a] + Received(recipients, amounts, a)]]
<1>1. PICK tx : tx = mempool[c][1]
  OBVIOUS
<1>2. tx \in Tx
  BY <1>1, MempoolShrinks
<1>3. /\ tx.recipients \in Seq(Recipients) /\ tx.amounts \in Seq(Nat)
      /\ tx.name \in Names /\ tx.index \in Nat
  BY <1>2 DEF Tx
<1>4. /\ Acceptable(tx.name, tx.recipients, tx.amounts, tx.index)
      /\ CanPay(tx.amounts)
  BY <1>1 DEF Succeeds
<1>5. Len(tx.recipients) = Len(tx.amounts)
  BY <1>4 DEF Acceptable
<1>6. /\ ExecuteCommittedBatch(tx.name, tx.recipients, tx.amounts, tx.index)
      /\ given' = [given EXCEPT ![tx.name] =
           [a \in Recipients |-> @[a] + Received(tx.recipients, tx.amounts, a)]]
  BY <1>1 DEF Mine
<1> QED
  BY ONLY <1>3, <1>4, <1>5, <1>6, Zenon

LEMMA MineFails ==
  ASSUME NEW c \in Clients, Mine(c), ~Succeeds(mempool[c][1])
  PROVE  UNCHANGED <<distributions, rewardsDistributor, balance, given, published>>
  BY DEF Mine, contractVars

LEMMA StepMoney == MoneyIsKept /\ ClientsTyped /\ [Next]_vars => MoneyIsKept'
<1> SUFFICES ASSUME MoneyIsKept, ClientsTyped, [Next]_vars PROVE MoneyIsKept'
  OBVIOUS
<1>0. /\ balance \in [Holder -> Nat] /\ SumFunctionOnSet(balance, Holder) = Funds
      /\ rewardsDistributor \in {Nobody, Owner}
  BY DEF MoneyIsKept
<1>1. CASE UNCHANGED <<balance, rewardsDistributor>>
  BY <1>1 DEF MoneyIsKept
<1>2. CASE DrainOrbs
  <2>1. PICK b \in [Holder -> Nat] : b = balance
    BY <1>0
  <2>c. PICK c : c = balance'
    OBVIOUS
  <2>2. GivesAll(b, c, Distribution, Owner)
    BY <1>2, <2>1, <2>c DEF DrainOrbs, GivesAll
  <2>3. c \in [Holder -> Nat] /\ SumFunctionOnSet(c, Holder) = SumFunctionOnSet(b, Holder)
    BY ONLY <2>2, SwapMoves, SomeHolders, b \in [Holder -> Nat]
  <2> QED
    BY <1>0, <1>2, <2>1, <2>c, <2>3 DEF DrainOrbs, MoneyIsKept
<1>3. CASE Refund
  <2>1. PICK b \in [Holder -> Nat] : b = balance
    BY <1>0
  <2>c. PICK c : c = balance'
    OBVIOUS
  <2>2. GivesAll(b, c, Owner, Distribution)
    BY <1>3, <2>1, <2>c DEF Refund, GivesAll
  <2>3. c \in [Holder -> Nat] /\ SumFunctionOnSet(c, Holder) = SumFunctionOnSet(b, Holder)
    BY ONLY <2>2, SwapMoves, SomeHolders, b \in [Holder -> Nat]
  <2> QED
    BY <1>0, <1>3, <2>1, <2>c, <2>3 DEF Refund, MoneyIsKept
<1>4. ASSUME NEW new \in {Nobody, Owner}, ReassignRewardsDistributor(new)
      PROVE  MoneyIsKept'
  BY <1>0, <1>4 DEF ReassignRewardsDistributor, MoneyIsKept
<1>5. ASSUME NEW payment \in DirectRewards, DistributeRewardsDirectly(Owner, payment)
      PROVE  MoneyIsKept'
  <2>1. payment.address \in Recipients /\ payment.amount \in Nat
    <3>1. payment \in [address : Recipients, amount : Nat]
      BY RewardsAssumption
    <3> QED
      BY <3>1
  <2>2. PICK r \in Seq(Recipients), m \in Seq(Nat) :
          r = <<payment.address>> /\ m = <<payment.amount>> /\ Len(r) = 1 /\ Len(m) = 1
    <3>1. <<payment.address>> \in Seq(Recipients) /\ Len(<<payment.address>>) = 1
      BY <2>1
    <3>2. <<payment.amount>> \in Seq(Nat) /\ Len(<<payment.amount>>) = 1
      BY <2>1
    <3> QED
      BY ONLY <3>1, <3>2, Zenon
  <2>3. Len(r) = Len(m)
    BY <2>2
  <2>4. CanPay(m) /\ PayBatch(r, m) /\ rewardsDistributor' = rewardsDistributor
    BY <1>5, <2>2 DEF DistributeRewardsDirectly
  <2>5. balance' \in [Holder -> Nat] /\ SumFunctionOnSet(balance', Holder) = Funds
    BY <2>3, <2>4, PayBatchMoves
  <2> QED
    BY <1>0, <2>4, <2>5 DEF MoneyIsKept
<1>6. ASSUME NEW c \in Clients, Mine(c)
      PROVE  MoneyIsKept'
  <2>1. CASE ~Succeeds(mempool[c][1])
    BY <1>1, <1>6, <2>1, MineFails
  <2>2. CASE Succeeds(mempool[c][1])
    <3>1. PICK r \in Seq(Recipients), m \in Seq(Nat), n \in Names, index \in Nat :
            /\ Len(r) = Len(m) /\ CanPay(m) /\ ExecuteCommittedBatch(n, r, m, index)
      BY <1>6, <2>2, MinedTyped
    <3>2. PayBatch(r, m) /\ rewardsDistributor' = rewardsDistributor
      BY <3>1 DEF ExecuteCommittedBatch
    <3>3. balance' \in [Holder -> Nat] /\ SumFunctionOnSet(balance', Holder) = Funds
      BY <3>1, <3>2, PayBatchMoves
    <3> QED
      BY <1>0, <3>2, <3>3 DEF MoneyIsKept
  <2> QED
    BY <2>1, <2>2
<1>7. ASSUME \/ \E n \in Names, file \in Files, size \in BatchSizes : AnnounceFile(n, file, size)
             \/ \E n \in Names : Abort(n)
             \/ \E c \in Clients, n \in Names, file \in Files, size \in BatchSizes :
                  Launch(c, n, file, size)
             \/ \E c \in Clients : Submit(c) \/ Timeout(c) \/ Finish(c)
      PROVE  UNCHANGED <<balance, rewardsDistributor>>
  BY <1>7 DEF AnnounceFile, AnnounceDistributionEvent, Abort, AbortDistributionEvent,
              Launch, Submit, Timeout, Finish, contractVars
<1>8. CASE UNCHANGED vars
  BY <1>1, <1>8 DEF vars, contractVars
<1> QED
  BY <1>1, <1>2, <1>3, <1>4, <1>5, <1>6, <1>7, <1>8 DEF Next

-----------------------------------------------------------------------------
(* What the contract still holds back                                       *)

OwedBy(d, a) == [i \in Left(d) |-> Owed(PaymentsOf(d.batchHashes[i]), a)]

HeldBack(d, a) == SumFunctionOnSet(OwedBy(d, a), Left(d))

(* Every hash that is left is one of a batch under its own index.           *)
HashesAreOfBatches(d) ==
  \A i \in Left(d) : i \in Nat /\ \E part \in Seq(Reward) : d.batchHashes[i] = HashBatch(i, part)

LEMMA OwedByBatch ==
  ASSUME NEW i \in Nat, NEW part \in Seq(Reward), NEW a
  PROVE  /\ Owed(PaymentsOf(HashBatch(i, part)), a) = Received(Addresses(part), Amounts(part), a)
         /\ Received(Addresses(part), Amounts(part), a) \in Nat
<1>1. PICK r \in Seq(Recipients), m \in Seq(Nat) : r = Addresses(part) /\ m = Amounts(part) /\ Len(r) = Len(m)
        /\ Len(r) = Len(part)
  BY ColumnsTyped
<1>2. HashBatch(i, part) = CalcBatchHash(r, m, i)
  BY <1>1 DEF HashBatch, CalcBatchHash
<1>3. Owed(PaymentsOf(CalcBatchHash(r, m, i)), a) = Received(r, m, a)
  BY <1>1, HashPromises
<1>4. Received(r, m, a) \in Nat
  BY <1>1, ReceivedIsPaid
<1> QED
  BY <1>1, <1>2, <1>3, <1>4

LEMMA OwedByIsNat ==
  ASSUME NEW d, HashesAreOfBatches(d), NEW a
  PROVE  \A i \in Left(d) : OwedBy(d, a)[i] \in Nat
<1> SUFFICES ASSUME NEW i \in Left(d) PROVE OwedBy(d, a)[i] \in Nat
  OBVIOUS
<1>1. PICK part \in Seq(Reward) : d.batchHashes[i] = HashBatch(i, part)
  BY DEF HashesAreOfBatches
<1>2. i \in Nat
  BY DEF HashesAreOfBatches
<1>3. OwedBy(d, a)[i] = Owed(PaymentsOf(HashBatch(i, part)), a)
  BY <1>1 DEF OwedBy
<1> QED
  BY <1>2, <1>3, OwedByBatch

LEMMA HeldBackEmpty ==
  ASSUME NEW d, Left(d) = {}, NEW a
  PROVE  HeldBack(d, a) = 0 /\ HashesAreOfBatches(d)
  BY SumEmpty DEF HeldBack, HashesAreOfBatches

(* Executing a batch pays what was held back for it.                        *)
LEMMA ClearingPays ==
  ASSUME NEW d, CountIsExact(d), HashesAreOfBatches(d), NEW index \in Left(d),
         NEW recipients \in Seq(Recipients), NEW amounts \in Seq(Nat),
         Len(recipients) = Len(amounts),
         d.batchHashes[index] = CalcBatchHash(recipients, amounts, index),
         NEW e, Left(e) = Left(d) \ {index},
         \A i \in Left(e) : e.batchHashes[i] = d.batchHashes[i]
  PROVE  /\ HashesAreOfBatches(e)
         /\ \A a : HeldBack(d, a) = Received(recipients, amounts, a) + HeldBack(e, a)
<1>1. HashesAreOfBatches(e)
  BY DEF HashesAreOfBatches
<1>2. ASSUME NEW a
      PROVE  HeldBack(d, a) = Received(recipients, amounts, a) + HeldBack(e, a)
  <2>1. PICK f, g : f = OwedBy(d, a) /\ g = OwedBy(e, a)
    OBVIOUS
  <2>2. \A i \in Left(d) : f[i] \in Int
    BY <2>1, OwedByIsNat
  <2>3. IsFiniteSet(Left(d)) /\ IsFiniteSet(Left(e))
    <3>1. IsFiniteSet(Left(d)) /\ Left(e) \in SUBSET Left(d)
      BY FS_Subset DEF Left, CountIsExact
    <3> QED
      BY ONLY <3>1, FS_Subset
  <2>4. \A i \in Left(e) : f[i] = g[i]
    BY <2>1 DEF OwedBy
  <2>5. SumFunctionOnSet(f, Left(d)) = f[index] + SumFunctionOnSet(f, Left(d) \ {index})
    BY ONLY <2>2, <2>3, SumRemove, index \in Left(d)
  <2>6. SumFunctionOnSet(f, Left(e)) = SumFunctionOnSet(g, Left(e))
    BY ONLY <2>3, <2>4, SumSame
  <2>7. f[index] = Received(recipients, amounts, a)
    <3>1. index \in Nat
      BY DEF HashesAreOfBatches
    <3>2. f[index] = Owed(PaymentsOf(CalcBatchHash(recipients, amounts, index)), a)
      BY <2>1 DEF OwedBy
    <3> QED
      BY <3>1, <3>2, HashPromises
  <2> QED
    BY <2>1, <2>5, <2>6, <2>7 DEF HeldBack
<1> QED
  BY <1>1, <1>2

(* What is announced holds back what the file says.                         *)
LEMMA AnnouncedIsHeldBack ==
  ASSUME NEW file \in Files, NEW size \in BatchSizes,
         NEW d, d.batchHashes = [b \in DOMAIN Batches(file, size) |->
                                   HashBatch(b, Batches(file, size)[b])]
  PROVE  /\ HashesAreOfBatches(d)
         /\ \A a : HeldBack(d, a) = Received(Addresses(file), Amounts(file), a)
<1>1. PICK B, k : B = Batches(file, size) /\ k = Len(Batches(file, size))
  OBVIOUS
<1>2. k \in Nat /\ DOMAIN B = 1..k /\ \A b \in 1..k : B[b] \in Seq(Reward)
  BY <1>1, BatchesCover
<1>3. PICK h : h = d.batchHashes
  OBVIOUS
<1>4. DOMAIN h = 1..k /\ \A b \in 1..k : h[b] = HashBatch(b, B[b]) /\ b \in Nat
  BY <1>1, <1>2, <1>3
<1>5. \A b \in 1..k : h[b] # NoHash
  BY <1>2, <1>4, HashIsSome
<1>6. Left(d) = 1..k
  BY <1>3, <1>4, <1>5 DEF Left
<1>7. HashesAreOfBatches(d)
  BY <1>2, <1>3, <1>4, <1>6 DEF HashesAreOfBatches
<1>8. ASSUME NEW a
      PROVE  HeldBack(d, a) = Received(Addresses(file), Amounts(file), a)
  <2>1. PICK g : g = OwedBy(d, a)
    OBVIOUS
  <2>2. \A b \in 1..k : g[b] = Owed(PaymentsOf(HashBatch(b, B[b])), a)
    BY <1>3, <1>4, <1>6, <2>1 DEF OwedBy
  <2>3. \A b \in 1..k : g[b] = Received(Addresses(Batches(file, size)[b]),
                                        Amounts(Batches(file, size)[b]), a)
    BY <1>1, <1>2, <1>4, <2>2, OwedByBatch
  <2>4. SumFunctionOnSet(g, 1..k) = Received(Addresses(file), Amounts(file), a)
    BY ONLY <1>1, <2>3, FileIsItsBatches, file \in Files, size \in BatchSizes
  <2> QED
    BY <1>6, <2>1, <2>4 DEF HeldBack
<1> QED
  BY <1>7, <1>8

IsKept(d, pub, giv) ==
  \A p \in Range(pub) : \A a \in Recipients :
    giv[a] + HeldBack(d, a) = Received(Addresses(p.file), Amounts(p.file), a)

FilesAreKept ==
  /\ DOMAIN published = Names
  /\ given \in [Names -> [Recipients -> Nat]]
  /\ \A n \in Names : HashesAreOfBatches(distributions[n]) /\ IsKept(distributions[n], published[n], given[n])

RewardsInv == CountsAreExact /\ MoneyIsKept /\ ClientsTyped /\ FilesAreKept

LEMMA OneNameIsKept ==
  ASSUME FilesAreKept, NEW n \in Names, NEW d, NEW pub, NEW giv,
         DOMAIN published' = Names, given' \in [Names -> [Recipients -> Nat]],
         distributions'[n] = d, published'[n] = pub, given'[n] = giv,
         \A m \in Names : m # n =>
           distributions'[m] = distributions[m] /\ published'[m] = published[m] /\ given'[m] = given[m],
         HashesAreOfBatches(d), IsKept(d, pub, giv)
  PROVE  FilesAreKept'
<1>1. ASSUME NEW m \in Names
      PROVE  HashesAreOfBatches(distributions'[m]) /\ IsKept(distributions'[m], published'[m], given'[m])
  <2>1. CASE m = n
    BY <2>1
  <2>2. CASE m # n
    BY <2>2 DEF FilesAreKept
  <2> QED
    BY <2>1, <2>2
<1> QED
  BY <1>1 DEF FilesAreKept

LEMMA NotPublished == ASSUME NEW d, NEW giv PROVE IsKept(d, <<>>, giv)
<1>1. Range(<<>>) = {}
  BY DEF Range
<1> QED
  BY <1>1 DEF IsKept

LEMMA NothingToHash == HashesAreOfBatches(NoDistribution)
<1>1. Left(NoDistribution) = {}
  BY DEF Left, NoDistribution
<1> QED
  BY <1>1, HeldBackEmpty

LEMMA AnnounceKeeps ==
  ASSUME RewardsInv, NEW n \in Names, NEW file \in Files, NEW size \in BatchSizes,
         AnnounceFile(n, file, size)
  PROVE  FilesAreKept'
<1>1. PICK h : h = [b \in DOMAIN Batches(file, size) |-> HashBatch(b, Batches(file, size)[b])]
  OBVIOUS
<1>2. PICK d : d = [batchHashes |-> h, pendingBatchCount |-> Len(h), hasPendingBatches |-> TRUE]
  OBVIOUS
<1>3. PICK pub, giv : pub = <<[file |-> file, size |-> size]>> /\ giv = [a \in Recipients |-> 0]
  OBVIOUS
<1>4. /\ distributions' = [distributions EXCEPT ![n] = d]
      /\ published' = [published EXCEPT ![n] = pub]
      /\ given' = [given EXCEPT ![n] = giv]
  BY <1>1, <1>2, <1>3 DEF AnnounceFile, AnnounceDistributionEvent
<1>5. /\ distributions = [m \in Names |-> distributions[m]] /\ DOMAIN published = Names
      /\ given \in [Names -> [Recipients -> Nat]] /\ giv \in [Recipients -> Nat]
  BY <1>3 DEF RewardsInv, CountsAreExact, FilesAreKept
<1>6. d.batchHashes = h
  BY <1>2
<1>7. HashesAreOfBatches(d) /\ \A a : HeldBack(d, a) = Received(Addresses(file), Amounts(file), a)
  <2>1. d.batchHashes = [b \in DOMAIN Batches(file, size) |-> HashBatch(b, Batches(file, size)[b])]
    BY <1>1, <1>6
  <2> QED
    BY <2>1, AnnouncedIsHeldBack
<1>8. IsKept(d, pub, giv)
  <2> SUFFICES ASSUME NEW p \in Range(pub), NEW a \in Recipients
               PROVE  giv[a] + HeldBack(d, a) = Received(Addresses(p.file), Amounts(p.file), a)
    BY DEF IsKept
  <2>1. p.file = file
    BY <1>3 DEF Range
  <2>2. HeldBack(d, a) \in Nat
    <3>1. file \in Seq(Reward)
      BY RewardsAssumption DEF Reward
    <3>2. PICK r \in Seq(Recipients), m \in Seq(Nat) : r = Addresses(file) /\ m = Amounts(file) /\ Len(r) = Len(m)
      BY <3>1, ColumnsTyped
    <3> QED
      BY <1>7, <3>2, ReceivedIsPaid
  <2>3. giv[a] = 0
    BY <1>3
  <2> QED
    BY <1>7, <2>1, <2>2, <2>3
<1>9. /\ DOMAIN published' = Names /\ given' \in [Names -> [Recipients -> Nat]]
      /\ distributions'[n] = d /\ published'[n] = pub /\ given'[n] = giv
      /\ \A m \in Names : m # n =>
           distributions'[m] = distributions[m] /\ published'[m] = published[m] /\ given'[m] = given[m]
  BY ONLY <1>4, <1>5, n \in Names
<1> QED
  BY <1>7, <1>8, <1>9, OneNameIsKept DEF RewardsInv

LEMMA AbortKeeps ==
  ASSUME RewardsInv, NEW n \in Names, Abort(n)
  PROVE  FilesAreKept'
<1>1. PICK d, pub : d = NoDistribution /\ pub = <<>>
  OBVIOUS
<1>2. /\ distributions' = [distributions EXCEPT ![n] = d]
      /\ published' = [published EXCEPT ![n] = pub] /\ given' = given
  BY <1>1 DEF Abort, AbortDistributionEvent
<1>3. /\ distributions = [m \in Names |-> distributions[m]] /\ DOMAIN published = Names
      /\ given \in [Names -> [Recipients -> Nat]]
  BY DEF RewardsInv, CountsAreExact, FilesAreKept
<1>4. PICK giv : giv = given[n]
  OBVIOUS
<1>5. /\ DOMAIN published' = Names /\ given' \in [Names -> [Recipients -> Nat]]
      /\ distributions'[n] = d /\ published'[n] = pub /\ given'[n] = giv
      /\ \A m \in Names : m # n =>
           distributions'[m] = distributions[m] /\ published'[m] = published[m] /\ given'[m] = given[m]
  BY ONLY <1>2, <1>3, <1>4, n \in Names
<1>6. HashesAreOfBatches(d) /\ IsKept(d, pub, giv)
  BY <1>1, NothingToHash, NotPublished
<1> QED
  BY <1>5, <1>6, OneNameIsKept DEF RewardsInv

(* A batch that is cleared is not left, the others are, as they were.       *)
LEMMA LeftWhenCleared ==
  ASSUME NEW d, CountIsExact(d), NEW index \in Left(d),
         NEW e, e = IF Cleared(d, index).pendingBatchCount = 0 THEN NoDistribution ELSE Cleared(d, index)
  PROVE  Left(e) = Left(d) \ {index} /\ \A i \in Left(e) : e.batchHashes[i] = d.batchHashes[i]
<1>1. PICK cl : cl = Cleared(d, index)
  OBVIOUS
<1>2. /\ cl.batchHashes = [d.batchHashes EXCEPT ![index] = NoHash]
      /\ cl.pendingBatchCount = d.pendingBatchCount - 1
  BY <1>1 DEF Cleared
<1>3. Left(cl) = Left(d) \ {index} /\ \A i \in Left(cl) : cl.batchHashes[i] = d.batchHashes[i]
  <2>1. PICK h : h = d.batchHashes
    OBVIOUS
  <2>2. PICK g : g = cl.batchHashes
    OBVIOUS
  <2>3. h = [i \in DOMAIN h |-> h[i]] /\ g = [h EXCEPT ![index] = NoHash] /\ index \in DOMAIN h
    BY <1>2, <2>1, <2>2 DEF CountIsExact, Left
  <2>4. DOMAIN g = DOMAIN h /\ \A i \in DOMAIN h : g[i] = IF i = index THEN NoHash ELSE h[i]
    BY ONLY <2>3
  <2> QED
    BY <2>1, <2>2, <2>4 DEF Left
<1>4. IsFiniteSet(Left(d)) /\ IsFiniteSet(Left(cl)) /\ Cardinality(Left(cl)) = cl.pendingBatchCount
  <2>1. IsFiniteSet(Left(d))
    BY FS_Subset DEF Left, CountIsExact
  <2>2. Cardinality(Left(cl)) = Cardinality(Left(d)) - 1 /\ IsFiniteSet(Left(cl))
    BY <1>3, <2>1, FS_RemoveElement
  <2> QED
    BY <1>2, <2>1, <2>2 DEF CountIsExact
<1>5. CASE cl.pendingBatchCount = 0
  <2>1. Left(cl) = {}
    BY <1>4, <1>5, FS_EmptySet
  <2>2. Left(e) = {}
    BY <1>1, <1>5 DEF Left, NoDistribution
  <2> QED
    BY <1>3, <2>1, <2>2
<1>6. CASE cl.pendingBatchCount # 0
  BY <1>1, <1>3, <1>6
<1> QED
  BY <1>5, <1>6

LEMMA MineKeeps ==
  ASSUME RewardsInv, NEW c \in Clients, Mine(c), Succeeds(mempool[c][1])
  PROVE  FilesAreKept'
<1>1. PICK r \in Seq(Recipients), w \in Seq(Nat), n \in Names, index \in Nat :
           /\ Len(r) = Len(w)
           /\ Acceptable(n, r, w, index)
           /\ ExecuteCommittedBatch(n, r, w, index)
           /\ given' = [given EXCEPT ![n] = [a \in Recipients |-> @[a] + Received(r, w, a)]]
  BY MinedTyped DEF RewardsInv
<1>2. PICK d : d = distributions[n]
  OBVIOUS
<1>4. PICK e : e = IF Cleared(d, index).pendingBatchCount = 0 THEN NoDistribution ELSE Cleared(d, index)
  OBVIOUS
<1>5. distributions' = [distributions EXCEPT ![n] = e]
  BY <1>1, <1>2, <1>4 DEF ExecuteCommittedBatch
<1>6. /\ CountIsExact(d) /\ HashesAreOfBatches(d) /\ IsKept(d, published[n], given[n])
      /\ index \in Left(d) /\ d.batchHashes[index] = CalcBatchHash(r, w, index)
  BY <1>1, <1>2 DEF RewardsInv, CountsAreExact, FilesAreKept, Acceptable, PendingBatches, Left
<1>9. IsFiniteSet(Left(d))
  BY <1>6, FS_Subset DEF Left, CountIsExact
<1>10. Left(e) = Left(d) \ {index} /\ \A i \in Left(e) : e.batchHashes[i] = d.batchHashes[i]
  BY ONLY <1>4, <1>6, LeftWhenCleared
<1>11. HashesAreOfBatches(e) /\ \A a : HeldBack(d, a) = Received(r, w, a) + HeldBack(e, a)
  <2>1. CountIsExact(d) /\ HashesAreOfBatches(d) /\ index \in Left(d)
    BY <1>6
  <2>2. d.batchHashes[index] = CalcBatchHash(r, w, index)
    BY <1>6
  <2>3. Len(r) = Len(w)
    BY <1>1
  <2>4. Left(e) = Left(d) \ {index}
    BY <1>10
  <2>5. \A i \in Left(e) : e.batchHashes[i] = d.batchHashes[i]
    BY <1>10
  <2>6. r \in Seq(Recipients) /\ w \in Seq(Nat)
    OBVIOUS
  <2> QED
    BY ONLY <2>1, <2>2, <2>3, <2>4, <2>5, <2>6, ClearingPays
<1>12. PICK giv : giv = [a \in Recipients |-> given[n][a] + Received(r, w, a)]
  OBVIOUS
<1>13. /\ distributions = [m \in Names |-> distributions[m]] /\ DOMAIN published = Names
       /\ given \in [Names -> [Recipients -> Nat]]
  BY DEF RewardsInv, CountsAreExact, FilesAreKept
<1>14. PICK old \in [Recipients -> Nat] : old = given[n]
  BY <1>13
<1>15. \A a : Received(r, w, a) \in Nat
  BY <1>1, ReceivedIsPaid
<1>16. giv \in [Recipients -> Nat] /\ \A a \in Recipients : giv[a] = old[a] + Received(r, w, a)
  <2>1. \A a \in Recipients : old[a] + Received(r, w, a) \in Nat
    BY <1>15
  <2> QED
    BY <1>12, <1>14, <2>1
<1>17. \A a : HeldBack(e, a) \in Nat
  <2> SUFFICES ASSUME NEW a PROVE HeldBack(e, a) \in Nat
    OBVIOUS
  <2>1. IsFiniteSet(Left(e))
    BY <1>9, <1>10, FS_Subset
  <2>2. PICK f : f = OwedBy(e, a)
    OBVIOUS
  <2>3. \A i \in Left(e) : f[i] \in Nat
    BY <1>11, <2>2, OwedByIsNat
  <2>4. SumFunctionOnSet(f, Left(e)) \in Nat
    BY ONLY <2>1, <2>3, SumType
  <2> QED
    BY <2>2, <2>4 DEF HeldBack
<1>18. IsKept(e, published[n], giv)
  <2> SUFFICES ASSUME NEW p \in Range(published[n]), NEW a \in Recipients
               PROVE  giv[a] + HeldBack(e, a) = Received(Addresses(p.file), Amounts(p.file), a)
    BY DEF IsKept
  <2>1. old[a] + HeldBack(d, a) = Received(Addresses(p.file), Amounts(p.file), a)
    BY <1>6, <1>14 DEF IsKept
  <2>2. PICK x \in Nat, y \in Nat, z \in Nat : x = old[a] /\ y = Received(r, w, a) /\ z = HeldBack(e, a)
    BY <1>15, <1>17
  <2>3. giv[a] = x + y /\ HeldBack(d, a) = y + z
    BY <1>11, <1>16, <2>2
  <2> QED
    BY ONLY <2>1, <2>2, <2>3
<1>19. given' = [given EXCEPT ![n] = giv]
  BY <1>1, <1>12
<1>20. published' = published
  BY DEF Mine
<1>21. /\ DOMAIN published' = Names /\ given' \in [Names -> [Recipients -> Nat]]
      /\ distributions'[n] = e /\ published'[n] = published[n] /\ given'[n] = giv
      /\ \A m \in Names : m # n =>
           distributions'[m] = distributions[m] /\ published'[m] = published[m] /\ given'[m] = given[m]
  <2>1. /\ \A m \in Names : m # n => distributions'[m] = distributions[m]
        /\ distributions'[n] = e
    BY ONLY <1>5, <1>13, n \in Names
  <2>2. \A m \in Names : m # n => given'[m] = given[m]
    BY ONLY <1>13, <1>19, n \in Names
  <2>3. given'[n] = giv /\ given' \in [Names -> [Recipients -> Nat]]
    BY ONLY <1>13, <1>16, <1>19, n \in Names
  <2> QED
    BY ONLY <1>13, <1>20, <2>1, <2>2, <2>3
<1>22. PICK pub : pub = published[n]
  OBVIOUS
<1> QED
  BY <1>11, <1>18, <1>21, <1>22, OneNameIsKept DEF RewardsInv

LEMMA StepFiles == RewardsInv /\ [Next]_vars => FilesAreKept'
<1> SUFFICES ASSUME RewardsInv, [Next]_vars PROVE FilesAreKept'
  OBVIOUS
<1>1. CASE UNCHANGED <<distributions, published, given>>
  BY <1>1 DEF RewardsInv, FilesAreKept
<1>2. ASSUME NEW n \in Names, NEW file \in Files, NEW size \in BatchSizes, AnnounceFile(n, file, size)
      PROVE  FilesAreKept'
  BY <1>2, AnnounceKeeps
<1>3. ASSUME NEW n \in Names, Abort(n)
      PROVE  FilesAreKept'
  BY <1>3, AbortKeeps
<1>4. ASSUME NEW c \in Clients, Mine(c)
      PROVE  FilesAreKept'
  BY <1>1, <1>4, MineFails, MineKeeps
<1>5. ASSUME \/ DrainOrbs \/ Refund
             \/ \E new \in {Nobody, Owner} : ReassignRewardsDistributor(new)
             \/ \E payment \in DirectRewards : DistributeRewardsDirectly(Owner, payment)
             \/ \E c \in Clients, n \in Names, file \in Files, size \in BatchSizes :
                  Launch(c, n, file, size)
             \/ \E c \in Clients : Submit(c) \/ Timeout(c) \/ Finish(c)
      PROVE  UNCHANGED <<distributions, published, given>>
  BY <1>5 DEF DrainOrbs, Refund, ReassignRewardsDistributor, DistributeRewardsDirectly,
              Launch, Submit, Timeout, Finish, contractVars, historyVars
<1>6. CASE UNCHANGED vars
  BY <1>1, <1>6 DEF vars, contractVars, historyVars
<1> QED
  BY <1>1, <1>2, <1>3, <1>4, <1>5, <1>6 DEF Next

LEMMA InitRewards == Init => RewardsInv
<1> SUFFICES ASSUME Init PROVE RewardsInv
  OBVIOUS
<1>1. CountsAreExact
  BY InitCounts
<1>2. MoneyIsKept
  <2>1. PICK b : b = balance
    OBVIOUS
  <2>2. b = [a \in Holder |-> IF a = Distribution THEN Funds ELSE 0]
    BY <2>1 DEF Init
  <2>3. Funds \in Nat
    BY RewardsAssumption
  <2>4. b[Distribution] = Funds /\ \A a \in Holder \ {Distribution} : b[a] = 0
    BY <2>2, SomeHolders
  <2>5. SumFunctionOnSet(b, Holder) = SumFunctionOnSet(b, {Distribution})
    <3>1. PICK D : D = {Distribution}
      OBVIOUS
    <3>2. D \in SUBSET Holder /\ \A x \in Holder \ D : b[x] = 0
      BY <2>4, <3>1, SomeHolders
    <3>3. \A x \in Holder : b[x] \in Int
      BY <2>2, <2>3
    <3>4. SumFunctionOnSet(b, Holder) = SumFunctionOnSet(b, D)
      BY ONLY <3>2, <3>3, HoldersFinite, SumWithoutZeros
    <3> QED
      BY <3>1, <3>4
  <2>6. SumFunctionOnSet(b, {Distribution}) = Funds
    BY <2>3, <2>4, SumSingleton
  <2>7. b \in [Holder -> Nat]
    BY <2>2, <2>3
  <2> QED
    BY <2>1, <2>5, <2>6, <2>7 DEF MoneyIsKept, Init
<1>3. ClientsTyped
  <2>1. PICK R : R = {<<>>} \cup {<<r>> : r \in ClientRun}
    OBVIOUS
  <2>2. <<>> \in R /\ <<>> \in Seq(Tx)
    BY <2>1
  <2>3. runs \in [Clients -> R] /\ mempool \in [Clients -> Seq(Tx)]
    BY <2>2 DEF Init
  <2> QED
    BY <2>1, <2>3 DEF ClientsTyped
<1>4. FilesAreKept
  <2>1. DOMAIN published = Names /\ given \in [Names -> [Recipients -> Nat]]
    BY DEF Init
  <2>2. \A n \in Names : distributions[n] = NoDistribution /\ published[n] = <<>>
    BY DEF Init
  <2> QED
    BY <2>1, <2>2, NothingToHash, NotPublished DEF FilesAreKept
<1> QED
  BY <1>1, <1>2, <1>3, <1>4 DEF RewardsInv

LEMMA StepRewards == RewardsInv /\ [Next]_vars => RewardsInv'
  BY StepCounts, StepMoney, StepClients, StepFiles DEF RewardsInv

LEMMA RewardsInvSays == RewardsInv => DistributionIsExact
<1> SUFFICES ASSUME RewardsInv PROVE DistributionIsExact
  OBVIOUS
<1>1. PendingCountIsExact
  BY DEF RewardsInv, CountsAreExact, CountIsExact, PendingCountIsExact, PendingBatches, Left
<1>2. RewardsTypeOK
  <2>1. ASSUME NEW n \in Names
        PROVE  distributions[n].pendingBatchCount \in Nat /\ distributions[n].hasPendingBatches \in BOOLEAN
    <3>1. PICK d : d = distributions[n]
      OBVIOUS
    <3>2. CountIsExact(d)
      BY <3>1 DEF RewardsInv, CountsAreExact
    <3>3. IsFiniteSet(Left(d))
      BY <3>2, FS_Subset DEF Left, CountIsExact
    <3>4. Cardinality(Left(d)) \in Nat
      BY <3>3, FS_CardinalityType
    <3> QED
      BY <3>1, <3>2, <3>4 DEF CountIsExact
  <2>2. balance \in [Holder -> 0 .. Funds] /\ Sum(balance, Holder) = Funds
    <3>1. PICK b \in [Holder -> Nat] : b = balance
      BY DEF RewardsInv, MoneyIsKept
    <3>2. SumFunctionOnSet(b, Holder) = Funds /\ Funds \in Nat
      BY <3>1, RewardsAssumption DEF RewardsInv, MoneyIsKept
    <3>3. \A a \in Holder : b[a] \in Nat
      OBVIOUS
    <3>4. \A a \in Holder : b[a] <= SumFunctionOnSet(b, Holder)
      <4>1. Holder \in SUBSET Holder
        OBVIOUS
      <4> QED
        BY ONLY <3>3, <4>1, HoldersFinite, SumBounds
    <3>5. \A a \in Holder : b[a] \in 0..Funds
      BY ONLY <3>2, <3>3, <3>4
    <3> QED
      BY <3>1, <3>2, <3>5 DEF Sum
  <2>3. ASSUME NEW c \in Clients, ~Idle(c)
        PROVE  runs[c][1].name \in Names /\ runs[c][1].i \in 1 .. Len(runs[c][1].batches) + 1
    <3>1. runs[c][1] \in ClientRun
      BY <2>3, ARun DEF RewardsInv
    <3> QED
      BY <3>1 DEF ClientRun
  <2> QED
    BY <2>1, <2>2, <2>3 DEF RewardsTypeOK, RewardsInv, MoneyIsKept
<1>3. EveryoneGetsTheFilesAmount
  <2> SUFFICES ASSUME NEW n \in Names, NEW p \in Range(published[n]), NEW a \in Recipients
               PROVE  given[n][a] + StillPending(n, a) = Received(Addresses(p.file), Amounts(p.file), a)
    BY DEF EveryoneGetsTheFilesAmount
  <2>1. StillPending(n, a) = HeldBack(distributions[n], a)
    BY DEF StillPending, HeldBack, OwedBy, PendingBatches, Left, Sum
  <2> QED
    BY <2>1 DEF RewardsInv, FilesAreKept, IsKept
<1> QED
  BY <1>1, <1>2, <1>3 DEF DistributionIsExact

(* Whoever runs the client, with whatever file and batch size, however      *)
(* often, and whatever transactions are still under way: what an            *)
(* announcement paid and what the contract still holds back of it are       *)
(* together the amounts of the file, for everyone; its count of pending     *)
(* batches is right and no token appears or vanishes.                       *)
THEOREM DistributionIsAlwaysExact == Spec => []DistributionIsExact
  BY InitRewards, StepRewards, RewardsInvSays, PTL DEF Spec

-----------------------------------------------------------------------------
(* The promises of the contract                                             *)

Pledge(n, d, i) == [name |-> n, index |-> i, payments |-> PaymentsOf(d.batchHashes[i])]

Pledged(n, d) == {Pledge(n, d, i) : i \in Left(d)}

AllPledged(ds) == UNION {Pledged(n, ds[n]) : n \in Names}

LEMMA PledgesAre ==
  ASSUME NEW ds, NEW n \in Names
  PROVE  /\ \A p : p \in AllPledged(ds) <=> \E m \in Names : p \in Pledged(m, ds[m])
         /\ \A p, m : p \in Pledged(m, ds[m]) => p.name = m
         /\ {p \in AllPledged(ds) : p.name = n} = Pledged(n, ds[n])
<1>1. \A p : p \in AllPledged(ds) <=> \E m \in Names : p \in Pledged(m, ds[m])
  BY DEF AllPledged
<1>2. \A p, m : p \in Pledged(m, ds[m]) => p.name = m
  BY DEF Pledged, Pledge
<1> QED
  BY <1>1, <1>2

LEMMA PledgesChange ==
  ASSUME NEW ds, NEW es, NEW n \in Names, \A m \in Names : m # n => es[m] = ds[m]
  PROVE  AllPledged(es) = (AllPledged(ds) \ Pledged(n, ds[n])) \cup Pledged(n, es[n])
<1>1. \A p : p \in AllPledged(ds) <=> \E m \in Names : p \in Pledged(m, ds[m])
  BY PledgesAre
<1>2. \A p : p \in AllPledged(es) <=> \E m \in Names : p \in Pledged(m, es[m])
  BY PledgesAre
<1>3. \A p : \A m \in Names : m # n /\ p \in Pledged(m, ds[m]) => p \notin Pledged(n, ds[n])
  BY PledgesAre
<1>4. \A m \in Names : m # n => Pledged(m, es[m]) = Pledged(m, ds[m])
  OBVIOUS
<1> QED
  BY ONLY <1>1, <1>2, <1>3, <1>4, n \in Names


LEMMA PromisesAre ==
  /\ Promises = AllPledged(distributions)
  /\ Promises' = AllPledged(distributions')
<1>1. Promises = AllPledged(distributions)
  BY DEF Promises, AllPledged, Pledged, Pledge, PendingBatches, Left
<1>2. Promises' = AllPledged(distributions')
  BY DEF Promises, AllPledged, Pledged, Pledge, PendingBatches, Left
<1> QED
  BY <1>1, <1>2

LEMMA OwedIsOwed == ASSUME NEW p, NEW a PROVE Commitments!Owed(p, a) = Owed(p, a)
<1>1. \A f, S : Commitments!SumFunctionOnSet(f, S) = SumFunctionOnSet(f, S)
  BY DEF SumFunctionOnSet, FoldFunctionOnSet, MapThenFoldSet,
         Commitments!SumFunctionOnSet, Commitments!FoldFunctionOnSet, Commitments!MapThenFoldSet
<1> QED
  BY <1>1 DEF Owed, Sum, Commitments!Owed

DirectTyped == direct \in [Recipients -> Nat]

LEMMA StepDirect == DirectTyped /\ [Next]_vars => DirectTyped'
<1> SUFFICES ASSUME DirectTyped, [Next]_vars PROVE DirectTyped'
  OBVIOUS
<1>1. CASE UNCHANGED direct
  BY <1>1 DEF DirectTyped
<1>2. ASSUME NEW payment \in DirectRewards, DistributeRewardsDirectly(Owner, payment)
      PROVE  DirectTyped'
  <2>1. PICK to \in Recipients, n \in Nat : to = payment.address /\ n = payment.amount
    <3>1. payment \in [address : Recipients, amount : Nat]
      BY RewardsAssumption
    <3> QED
      BY <3>1
  <2>2. direct' = [direct EXCEPT ![to] = @ + n]
    BY <1>2, <2>1 DEF DistributeRewardsDirectly
  <2> QED
    BY <2>2 DEF DirectTyped
<1>3. ASSUME \/ \E n \in Names, file \in Files, size \in BatchSizes : AnnounceFile(n, file, size)
             \/ \E n \in Names : Abort(n)
             \/ DrainOrbs \/ Refund
             \/ \E new \in {Nobody, Owner} : ReassignRewardsDistributor(new)
             \/ \E c \in Clients, n \in Names, file \in Files, size \in BatchSizes :
                  Launch(c, n, file, size)
             \/ \E c \in Clients : Submit(c) \/ Timeout(c) \/ Finish(c) \/ Mine(c)
      PROVE  UNCHANGED direct
  BY <1>3 DEF AnnounceFile, Abort, DrainOrbs, Refund, ReassignRewardsDistributor,
              Launch, Submit, Timeout, Finish, Mine, historyVars
<1>4. CASE UNCHANGED vars
  BY <1>1, <1>4 DEF vars, historyVars
<1> QED
  BY <1>1, <1>2, <1>3, <1>4 DEF Next

(* A file has at most as many batches as rewards.                           *)
LEMMA BatchesAreFew ==
  ASSUME NEW file \in Files, NEW size \in BatchSizes, IsFiniteSet(Files)
  PROVE  Max({Len(f) : f \in Files}) \in Nat /\ Len(Batches(file, size)) <= Max({Len(f) : f \in Files})
<1>1. PICK L, k : L = Len(file) /\ k = Len(Batches(file, size))
  OBVIOUS
<1>2. k \in Nat /\ L \in Nat
  BY <1>1, BatchesCover
<1>3. k <= L
  <2>1. file \in Seq(Reward) /\ size \in Nat \ {0}
    BY RewardsAssumption DEF Reward
  <2>2. PICK q, r : q = (L + size - 1) \div size /\ r = (L + size - 1) % size
    OBVIOUS
  <2>3. q \in Int /\ r \in 0..size - 1 /\ L + size - 1 = size * q + r
    <3>1. L + size - 1 \in Int
      BY <1>2, <2>1
    <3> QED
      BY ONLY <2>1, <2>2, <3>1, DivisionOf
  <2>4. k = q
    <3>1. DOMAIN Batches(file, size) = 1..q
      BY <1>1, <2>2 DEF Batches
    <3>2. DOMAIN Batches(file, size) = 1..k
      BY <1>1, BatchesCover
    <3>3. PICK B : B = Batches(file, size)
      OBVIOUS
    <3>4. q \in Nat
      <4>1. ASSUME q <= -1 PROVE FALSE
        <5>1. size * q <= size * (-1) /\ size * (-1) = -size
          BY <2>1, <2>3, <4>1, MultiplesOrdered
        <5>2. PICK top \in Int : top = size * q
          BY <2>1, <2>3
        <5> QED
          BY ONLY <1>2, <2>1, <2>3, <5>1, <5>2
      <4> QED
        BY <2>3, <4>1
    <3>5. B = [b \in 1..q |-> B[b]]
      BY <1>1, <2>2, <3>3 DEF Batches
    <3>6. Len(B) = q
      BY <3>4, <3>5
    <3> QED
      BY <1>1, <3>3, <3>6
  <2>5. ASSUME q >= L + 1 PROVE FALSE
    <3>1. size * (L + 1) <= size * q
      BY <1>2, <2>1, <2>3, <2>5, MultiplesOrdered
    <3>2. size * (L + 1) = size * L + size
      BY <1>2, <2>1, MultiplesOrdered
    <3>3. size * L >= L
      BY <1>2, <2>1
    <3>4. PICK x \in Int, top \in Int : x = size * L /\ top = size * q
      BY <1>2, <2>1, <2>3
    <3> QED
      BY ONLY <1>2, <2>1, <2>3, <3>1, <3>2, <3>3, <3>4
  <2> QED
    BY ONLY <1>2, <2>3, <2>4, <2>5
<1>4. PICK S : S = {Len(f) : f \in Files}
  OBVIOUS
<1>5. S \in SUBSET Nat /\ S # {} /\ L \in S
  <2>1. \A f \in Files : Len(f) \in Nat
    <3>1. \A f \in Files : f \in Seq(Reward)
      BY RewardsAssumption DEF Reward
    <3> QED
      BY <3>1
  <2> QED
    BY <1>1, <1>4, <2>1
<1>6. \E n \in Nat : \A j \in S : j <= n
  <2>1. PICK g : g = [f \in Files |-> Len(f)]
    OBVIOUS
  <2>2. \A f \in Files : g[f] \in Nat /\ g[f] = Len(f)
    BY <1>4, <1>5, <2>1
  <2>3. SumFunctionOnSet(g, Files) \in Nat
    BY ONLY <2>2, IsFiniteSet(Files), SumType
  <2>4. \A f \in Files : g[f] <= SumFunctionOnSet(g, Files)
    <3>1. Files \in SUBSET Files
      OBVIOUS
    <3> QED
      BY ONLY <2>2, <3>1, IsFiniteSet(Files), SumBounds
  <2> QED
    BY <1>4, <2>2, <2>3, <2>4
<1>7. \A j \in S : j <= Max(S)
  BY ONLY <1>5, <1>6, GreatestNumber
<1>8. Max(S) \in Nat
  BY ONLY <1>5, <1>6, GreatestNumber
<1> QED
  BY <1>1, <1>2, <1>3, <1>4, <1>5, <1>7, <1>8

-----------------------------------------------------------------------------
(* The steps of the commitments                                             *)

LEMMA NoPromiseMoves ==
  ASSUME UNCHANGED distributions, KeptSoFar' = KeptSoFar
  PROVE  UNCHANGED Commitments!promiseVars
<1>1. Promises' = Promises
  BY PromisesAre
<1> QED
  BY <1>1 DEF Commitments!promiseVars

(* Of a batch the hash promises the same under any index.                   *)
LEMMA IndexPromisesNothing ==
  ASSUME NEW i \in Nat, NEW part \in Seq(Reward)
  PROVE  PaymentsOf(HashBatch(i, part)) = PaymentsOf(HashBatch(1, part))
<1>1. PICK r \in Seq(Recipients), w \in Seq(Nat) :
        r = Addresses(part) /\ w = Amounts(part) /\ Len(r) = Len(w) /\ Len(r) = Len(part)
  BY ColumnsTyped
<1>2. PICK n \in Nat : n = Len(r)
  OBVIOUS
<1>3. ASSUME NEW j \in Nat
      PROVE  PaymentsOf(HashBatch(j, part)) = [k \in 1..n |-> [to |-> r[k], amount |-> w[k]]]
  <2>1. PICK h : h = CalcBatchHash(r, w, j)
    OBVIOUS
  <2>2. h = HashBatch(j, part)
    BY <1>1, <2>1 DEF HashBatch, CalcBatchHash
  <2>3. /\ h[2] = n
        /\ \A k \in 1..n : h[2 + k] = r[k]
        /\ \A k \in 1..n : h[2 + h[2] + k] = w[k]
    <3>1. Len(r) = Len(w)
      BY <1>1
    <3>2. r \in Seq(Recipients) /\ w \in Seq(Nat) /\ j \in Nat
      OBVIOUS
    <3>3. /\ h[2] = Len(r)
          /\ \A k \in 1..Len(r) : h[2 + k] = r[k]
          /\ \A k \in 1..Len(r) : h[2 + h[2] + k] = w[k]
      <4>1. HashReads(h, r, w)
        BY ONLY <2>1, <3>1, <3>2, HashPlaces
      <4> QED
        BY ONLY <4>1 DEF HashReads
    <3> QED
      BY ONLY <1>2, <3>3
  <2>4. PaymentsOf(h) = [k \in 1..n |-> [to |-> r[k], amount |-> w[k]]]
    BY <2>3 DEF PaymentsOf
  <2> QED
    BY <2>2, <2>4
<1> QED
  BY <1>3

LEMMA AnnouncePromises ==
  ASSUME RewardsInv, IsFiniteSet(Files), NEW n \in Names, NEW file \in Files, NEW size \in BatchSizes,
         AnnounceFile(n, file, size)
  PROVE  Commitments!Next
<1>1. PICK B, k : B = Batches(file, size) /\ k = Len(Batches(file, size))
  OBVIOUS
<1>2. k \in Nat /\ DOMAIN B = 1..k /\ \A b \in 1..k : B[b] \in Seq(Reward)
  BY <1>1, BatchesCover
<1>3. PICK h : h = [b \in DOMAIN B |-> HashBatch(b, B[b])]
  OBVIOUS
<1>4. PICK d : d = [batchHashes |-> h, pendingBatchCount |-> Len(h), hasPendingBatches |-> TRUE]
  OBVIOUS
<1>5. /\ ~distributions[n].hasPendingBatches /\ h # <<>>
      /\ distributions' = [distributions EXCEPT ![n] = d] /\ balance' = balance /\ direct' = direct
  BY <1>1, <1>3, <1>4 DEF AnnounceFile, AnnounceDistributionEvent
<1>6. DOMAIN h = 1..k /\ \A b \in 1..k : h[b] = HashBatch(b, B[b]) /\ b \in Nat
  BY <1>2, <1>3
<1>7. \A b \in 1..k : h[b] # NoHash
  BY <1>2, <1>6, HashIsSome
<1>8. Left(d) = 1..k
  BY <1>4, <1>6, <1>7 DEF Left
<1>9. PICK list : list = [b \in 1..k |-> PaymentsOf(h[b])]
  OBVIOUS
<1>10. \A b \in 1..k : PaymentsOf(h[b]) \in Promisable
  <2> SUFFICES ASSUME NEW b \in 1..k PROVE PaymentsOf(h[b]) \in Promisable
    OBVIOUS
  <2>1. b \in Nat /\ B[b] \in Seq(Reward) /\ h[b] = HashBatch(b, B[b])
    BY <1>2, <1>6
  <2>2. PaymentsOf(h[b]) = PaymentsOf(HashBatch(1, B[b]))
    BY <2>1, IndexPromisesNothing
  <2>3. B[b] \in Range(Batches(file, size))
    BY <1>1, <1>2 DEF Range
  <2>4. PICK one : one = {PaymentsOf(HashBatch(1, x)) : x \in Range(Batches(file, size))}
    OBVIOUS
  <2>5. PaymentsOf(h[b]) \in one
    BY <2>2, <2>3, <2>4
  <2>6. one \in {{PaymentsOf(HashBatch(1, x)) : x \in Range(Batches(f, s))} :
                       f \in Files, s \in BatchSizes}
    BY <2>4
  <2> QED
    BY <2>5, <2>6 DEF Promisable
<1>11. list \in [1..k -> Promisable]
  BY <1>9, <1>10
<1>12. k \in 1..Max({Len(f) : f \in Files})
  <2>1. k # 0
    <3>1. ASSUME k = 0 PROVE FALSE
      <4>1. DOMAIN h = {}
        BY <1>6, <3>1
      <4>2. h = <<>>
        BY <1>3, <1>6, <4>1
      <4> QED
        BY <1>5, <4>2
    <3> QED
      BY <3>1
  <2>2. PICK m : m = Max({Len(f) : f \in Files})
    OBVIOUS
  <2>3. m \in Nat /\ k <= m
    BY <1>1, <2>2, BatchesAreFew
  <2>4. k \in 1..m
    BY ONLY <1>2, <2>1, <2>3
  <2> QED
    BY ONLY <2>2, <2>4
<1>13. Left(distributions[n]) = {} /\ distributions = [m \in Names |-> distributions[m]]
  BY <1>5 DEF RewardsInv, CountsAreExact, CountIsExact
<1>14. distributions'[n] = d /\ \A m \in Names : m # n => distributions'[m] = distributions[m]
  BY <1>5, <1>13
<1>15. Pledged(n, distributions[n]) = {}
  BY <1>13 DEF Pledged
<1>16. Pledged(n, d) = {[name |-> n, index |-> i, payments |-> list[i]] : i \in DOMAIN list}
  <2>1. \A i \in 1..k : Pledge(n, d, i) = [name |-> n, index |-> i, payments |-> list[i]]
    BY <1>4, <1>9 DEF Pledge
  <2>2. DOMAIN list = 1..k
    BY <1>9
  <2> QED
    BY <1>8, <2>1, <2>2 DEF Pledged
<1>17. Promises' = Promises \cup {[name |-> n, index |-> i, payments |-> list[i]] : i \in DOMAIN list}
  <2>1. AllPledged(distributions') =
          (AllPledged(distributions) \ Pledged(n, distributions[n])) \cup Pledged(n, distributions'[n])
    BY <1>14, PledgesChange
  <2> QED
    BY <1>14, <1>15, <1>16, <2>1, PromisesAre
<1>18. {p \in Promises : p.name = n} = {}
  BY <1>15, PledgesAre, PromisesAre
<1>19. KeptSoFar' = KeptSoFar
  BY <1>5 DEF KeptSoFar
<1>20. Commitments!Promise(n, list)
  BY <1>17, <1>18, <1>19 DEF Commitments!Promise, Commitments!PromisedUnder
<1> QED
  BY <1>11, <1>12, <1>20 DEF Commitments!Next

LEMMA AbortRevokes ==
  ASSUME RewardsInv, NEW n \in Names, Abort(n)
  PROVE  Commitments!Next
<1>1. distributions' = [distributions EXCEPT ![n] = NoDistribution] /\ balance' = balance /\ direct' = direct
  BY DEF Abort, AbortDistributionEvent
<1>2. distributions = [m \in Names |-> distributions[m]]
  BY DEF RewardsInv, CountsAreExact
<1>3. distributions'[n] = NoDistribution /\ \A m \in Names : m # n => distributions'[m] = distributions[m]
  BY <1>1, <1>2
<1>4. Pledged(n, NoDistribution) = {}
  BY DEF Pledged, Left, NoDistribution
<1>5. Promises' = Promises \ {p \in Promises : p.name = n}
  <2>1. AllPledged(distributions') =
          (AllPledged(distributions) \ Pledged(n, distributions[n])) \cup Pledged(n, distributions'[n])
    BY <1>3, PledgesChange
  <2>2. {p \in AllPledged(distributions) : p.name = n} = Pledged(n, distributions[n])
    BY PledgesAre
  <2>3. Promises = AllPledged(distributions) /\ Promises' = AllPledged(distributions')
    BY PromisesAre
  <2> QED
    BY <1>3, <1>4, <2>1, <2>2, <2>3
<1>6. KeptSoFar' = KeptSoFar
  BY <1>1 DEF KeptSoFar
<1>7. Commitments!Revoke(n)
  BY <1>5, <1>6 DEF Commitments!Revoke, Commitments!PromisedUnder
<1> QED
  BY <1>7 DEF Commitments!Next

LEMMA MineKeepsAPromise ==
  ASSUME RewardsInv, DirectTyped, NEW c \in Clients, Mine(c), Succeeds(mempool[c][1])
  PROVE  Commitments!Next
<1>1. PICK r \in Seq(Recipients), w \in Seq(Nat), n \in Names, index \in Nat :
           /\ Len(r) = Len(w)
           /\ Acceptable(n, r, w, index)
           /\ ExecuteCommittedBatch(n, r, w, index)
  BY MinedTyped DEF RewardsInv
<1>2. PICK d : d = distributions[n]
  OBVIOUS
<1>3. PICK e : e = IF Cleared(d, index).pendingBatchCount = 0 THEN NoDistribution ELSE Cleared(d, index)
  OBVIOUS
<1>4. distributions' = [distributions EXCEPT ![n] = e] /\ PayBatch(r, w)
  BY <1>1, <1>2, <1>3 DEF ExecuteCommittedBatch
<1>5. /\ CountIsExact(d) /\ index \in Left(d) /\ d.batchHashes[index] = CalcBatchHash(r, w, index)
      /\ distributions = [m \in Names |-> distributions[m]]
  BY <1>1, <1>2 DEF RewardsInv, CountsAreExact, Acceptable, PendingBatches, Left
<1>6. Left(e) = Left(d) \ {index} /\ \A i \in Left(e) : e.batchHashes[i] = d.batchHashes[i]
  BY ONLY <1>3, <1>5, LeftWhenCleared
<1>7. distributions'[n] = e /\ \A m \in Names : m # n => distributions'[m] = distributions[m]
  BY <1>4, <1>5
<1>8. PICK p : p = Pledge(n, d, index)
  OBVIOUS
<1>9. Pledged(n, e) = Pledged(n, d) \ {p} /\ p \in Pledged(n, d)
  <2>1. \A i \in Left(e) : Pledge(n, e, i) = Pledge(n, d, i)
    BY <1>6 DEF Pledge
  <2>2. \A i, j : Pledge(n, d, i) = Pledge(n, d, j) => i = j
    BY DEF Pledge
  <2>3. \A x : x \in Pledged(n, d) <=> \E i \in Left(d) : x = Pledge(n, d, i)
    BY DEF Pledged
  <2>4. \A x : x \in Pledged(n, e) <=> \E i \in Left(e) : x = Pledge(n, e, i)
    BY DEF Pledged
  <2> QED
    BY ONLY <1>5, <1>6, <1>8, <2>1, <2>2, <2>3, <2>4
<1>10. p \in Promises /\ Promises' = Promises \ {p}
  <2>1. AllPledged(distributions') =
          (AllPledged(distributions) \ Pledged(n, distributions[n])) \cup Pledged(n, distributions'[n])
    BY <1>7, PledgesChange
  <2>2. {x \in AllPledged(distributions) : x.name = n} = Pledged(n, distributions[n])
    BY PledgesAre
  <2>3. Promises = AllPledged(distributions) /\ Promises' = AllPledged(distributions')
    BY PromisesAre
  <2>4. Pledged(n, distributions[n]) \subseteq AllPledged(distributions)
    BY <2>2
  <2> QED
    BY ONLY <1>2, <1>7, <1>9, <2>1, <2>3, <2>4
<1>11. p.payments = PaymentsOf(CalcBatchHash(r, w, index))
  BY <1>5, <1>8 DEF Pledge
<1>12. \A a : Commitments!Owed(p.payments, a) = Received(r, w, a) /\ Received(r, w, a) \in Nat
  BY <1>1, <1>11, OwedIsOwed, HashPromises, ReceivedIsPaid
<1>13. direct' = direct
  BY DEF Mine
<1>14. ASSUME NEW a \in Recipients
       PROVE  balance'[a] - direct'[a] = (balance[a] - direct[a]) + Commitments!Owed(p.payments, a)
  <2>1. a \in Holder /\ a # Distribution
    BY RewardsAssumption DEF Holder
  <2>2. balance'[a] = balance[a] + Received(r, w, a)
    BY <1>4, <2>1 DEF PayBatch
  <2>3. PICK x \in Nat, y \in Nat, z \in Nat : x = balance[a] /\ y = direct[a] /\ z = Received(r, w, a)
    BY <1>12, <2>1 DEF RewardsInv, MoneyIsKept, DirectTyped
  <2>4. balance'[a] = x + z /\ direct'[a] = y /\ Commitments!Owed(p.payments, a) = z
    BY <1>12, <1>13, <2>2, <2>3
  <2> QED
    BY ONLY <2>3, <2>4
<1>15. KeptSoFar' = [a \in Recipients |-> KeptSoFar[a] + Commitments!Owed(p.payments, a)]
  <2>1. KeptSoFar' = [a \in Recipients |-> balance'[a] - direct'[a]]
    BY DEF KeptSoFar
  <2>2. \A a \in Recipients : KeptSoFar[a] = balance[a] - direct[a]
    BY DEF KeptSoFar
  <2> QED
    BY <1>14, <2>1, <2>2
<1>16. Commitments!Keep(p)
  BY <1>10, <1>15 DEF Commitments!Keep, Commitments!Paid
<1> QED
  BY <1>10, <1>16 DEF Commitments!Next

LEMMA DirectMovesNoPromise ==
  ASSUME RewardsInv, DirectTyped, NEW payment \in DirectRewards, DistributeRewardsDirectly(Owner, payment)
  PROVE  UNCHANGED Commitments!promiseVars
<1>1. PICK to \in Recipients, n \in Nat : to = payment.address /\ n = payment.amount
  <2>1. payment \in [address : Recipients, amount : Nat]
    BY RewardsAssumption
  <2> QED
    BY <2>1
<1>2. PICK r, w : r = <<to>> /\ w = <<n>>
  OBVIOUS
<1>3. /\ PayBatch(r, w) /\ direct' = [direct EXCEPT ![to] = @ + n] /\ distributions' = distributions
  BY <1>1, <1>2 DEF DistributeRewardsDirectly
<1>4. ASSUME NEW a \in Recipients
      PROVE  Received(r, w, a) = IF a = to THEN n ELSE 0
  <2>1. DOMAIN r = {1} /\ r[1] = to /\ w[1] = n
    BY <1>2
  <2>2. PICK S : S = {i \in DOMAIN r : r[i] = a}
    OBVIOUS
  <2>3. Received(r, w, a) = SumFunctionOnSet(w, S)
    BY <2>2 DEF Received, Sum
  <2>4. CASE a = to
    <3>1. S = {1}
      BY <2>1, <2>2, <2>4
    <3>2. SumFunctionOnSet(w, {1}) = w[1]
      BY <2>1, SumSingleton
    <3> QED
      BY <2>1, <2>3, <2>4, <3>1, <3>2
  <2>5. CASE a # to
    <3>1. S = {}
      BY <2>1, <2>2, <2>5
    <3> QED
      BY <2>3, <2>5, <3>1, SumEmpty
  <2> QED
    BY <2>4, <2>5
<1>5. ASSUME NEW a \in Recipients
      PROVE  balance'[a] - direct'[a] = balance[a] - direct[a]
  <2>1. a \in Holder /\ a # Distribution
    BY RewardsAssumption DEF Holder
  <2>2. balance'[a] = balance[a] + Received(r, w, a)
    BY <1>3, <2>1 DEF PayBatch
  <2>3. PICK x \in Nat, y \in Nat : x = balance[a] /\ y = direct[a]
    BY <2>1 DEF RewardsInv, MoneyIsKept, DirectTyped
  <2>4. direct'[a] = IF a = to THEN y + n ELSE y
    BY <1>3, <2>3 DEF DirectTyped
  <2>5. CASE a = to
    BY <1>4, <2>2, <2>3, <2>4, <2>5
  <2>6. CASE a # to
    BY <1>4, <2>2, <2>3, <2>4, <2>6
  <2> QED
    BY <2>5, <2>6
<1>6. KeptSoFar' = KeptSoFar
  BY <1>5 DEF KeptSoFar
<1> QED
  BY <1>3, <1>6, NoPromiseMoves

LEMMA OwnerMovesNoPromise ==
  ASSUME RewardsInv, DrainOrbs \/ Refund
  PROVE  UNCHANGED Commitments!promiseVars
<1>1. distributions' = distributions /\ direct' = direct
  BY DEF DrainOrbs, Refund, historyVars
<1>2. PICK b \in [Holder -> Nat] : b = balance
  BY DEF RewardsInv, MoneyIsKept
<1>c. PICK c : c = balance'
  OBVIOUS
<1>3. \/ c = [b EXCEPT ![Owner] = @ + b[Distribution], ![Distribution] = 0]
      \/ c = [b EXCEPT ![Distribution] = @ + b[Owner], ![Owner] = 0]
  BY <1>2, <1>c DEF DrainOrbs, Refund
<1>4. \A a \in Recipients : a \in Holder /\ a # Owner /\ a # Distribution
  BY RewardsAssumption DEF Holder
<1>5. \A a \in Recipients : c[a] = b[a]
  BY ONLY <1>3, <1>4, b \in [Holder -> Nat]
<1>6. KeptSoFar' = KeptSoFar
  BY <1>1, <1>2, <1>c, <1>5 DEF KeptSoFar
<1> QED
  BY <1>1, <1>6, NoPromiseMoves

LEMMA StepOfCommitments ==
  ASSUME RewardsInv, DirectTyped, IsFiniteSet(Files), [Next]_vars
  PROVE  Commitments!Next \/ UNCHANGED Commitments!promiseVars
<1>1. ASSUME UNCHANGED <<distributions, balance, direct>>
      PROVE  UNCHANGED Commitments!promiseVars
  <2>1. KeptSoFar' = KeptSoFar
    BY <1>1 DEF KeptSoFar
  <2> QED
    BY <1>1, <2>1, NoPromiseMoves
<1>2. ASSUME NEW n \in Names, NEW file \in Files, NEW size \in BatchSizes, AnnounceFile(n, file, size)
      PROVE  Commitments!Next
  BY <1>2, AnnouncePromises
<1>3. ASSUME NEW n \in Names, Abort(n)
      PROVE  Commitments!Next
  BY <1>3, AbortRevokes
<1>4. ASSUME NEW c \in Clients, Mine(c)
      PROVE  Commitments!Next \/ UNCHANGED Commitments!promiseVars
  <2>1. CASE Succeeds(mempool[c][1])
    BY <1>4, <2>1, MineKeepsAPromise
  <2>2. CASE ~Succeeds(mempool[c][1])
    <3>1. direct' = direct
      BY <1>4 DEF Mine
    <3> QED
      BY <1>1, <1>4, <2>2, <3>1, MineFails
  <2> QED
    BY <2>1, <2>2
<1>5. ASSUME NEW payment \in DirectRewards, DistributeRewardsDirectly(Owner, payment)
      PROVE  UNCHANGED Commitments!promiseVars
  BY <1>5, DirectMovesNoPromise
<1>6. ASSUME DrainOrbs \/ Refund
      PROVE  UNCHANGED Commitments!promiseVars
  BY <1>6, OwnerMovesNoPromise
<1>7. ASSUME \/ \E new \in {Nobody, Owner} : ReassignRewardsDistributor(new)
             \/ \E c \in Clients, n \in Names, file \in Files, size \in BatchSizes :
                  Launch(c, n, file, size)
             \/ \E c \in Clients : Submit(c) \/ Timeout(c) \/ Finish(c)
      PROVE  UNCHANGED <<distributions, balance, direct>>
  BY <1>7 DEF ReassignRewardsDistributor, Launch, Submit, Timeout, Finish, contractVars, historyVars
<1>8. CASE UNCHANGED vars
  BY <1>1, <1>8 DEF vars, contractVars, historyVars
<1> QED
  BY <1>1, <1>2, <1>3, <1>4, <1>5, <1>6, <1>7, <1>8 DEF Next

LEMMA InitOfCommitments == Init => Commitments!Init /\ DirectTyped
<1> SUFFICES ASSUME Init PROVE Commitments!Init /\ DirectTyped
  OBVIOUS
<1>1. direct \in [Recipients -> Nat] /\ \A a \in Recipients : direct[a] = 0
  BY DEF Init
<1>2. \A n \in Names : Pledged(n, distributions[n]) = {}
  <2>1. Left(NoDistribution) = {}
    BY DEF Left, NoDistribution
  <2>2. \A n \in Names : distributions[n] = NoDistribution
    BY DEF Init
  <2> QED
    BY <2>1, <2>2 DEF Pledged
<1>3. Promises = {}
  BY <1>2, PromisesAre DEF AllPledged
<1>4. \A a \in Recipients : balance[a] = 0
  <2>1. \A a \in Recipients : a \in Holder /\ a # Distribution
    BY RewardsAssumption DEF Holder
  <2> QED
    BY <2>1 DEF Init
<1>5. KeptSoFar = [a \in Recipients |-> 0]
  BY <1>1, <1>4 DEF KeptSoFar
<1> QED
  BY <1>1, <1>3, <1>5 DEF Commitments!Init, DirectTyped

(* The contract implements RewardCommitments: every step keeps one promise, *)
(* all of it and for the first time, promises under a name that is free,    *)
(* revokes all of a name, or moves no promise.  The files are finitely      *)
(* many, for the greatest number of promises made together to exist.        *)
THEOREM ContractKeepsItsPromises ==
  ASSUME IsFiniteSet(Files)
  PROVE  Spec => ImplementsCommitments
<1>1. Init => RewardsInv /\ DirectTyped /\ Commitments!Init
  BY InitRewards, InitOfCommitments
<1>2. RewardsInv /\ DirectTyped /\ [Next]_vars => RewardsInv' /\ DirectTyped'
  BY StepRewards, StepDirect
<1>3. RewardsInv /\ DirectTyped /\ [Next]_vars => [Commitments!Next]_(Commitments!promiseVars)
  BY StepOfCommitments
<1> QED
  BY <1>1, <1>2, <1>3, PTL DEF Spec, ImplementsCommitments, Commitments!Spec

=============================================================================
