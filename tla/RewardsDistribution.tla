------------------------- MODULE RewardsDistribution -------------------------
(***************************************************************************)
(* The rewards distribution: OrbsRewardsDistribution.sol and its client     *)
(* (RewardsClient.js and the scripts around it).  The owner publishes a     *)
(* file of rewards and announces the hashes of its batches; then anybody    *)
(* may execute the batches, with the same file and batch size.              *)
(*                                                                         *)
(* keccak256 is taken as injective: a hash is the words that were hashed.   *)
(***************************************************************************)
EXTENDS Integers, SequencesExt

CONSTANTS
  Recipients,
  Owner, Distribution,  \* the contract's owner and the contract, as token holders
  Names,                \* the names of distribution events
  Files,                \* the files of rewards: sequences of [address, amount]
  BatchSizes,           \* the batch sizes people choose
  Clients,              \* the processes that execute batches
  DirectRewards,        \* what the assigned distributor may pay: [address, amount]
  Funds,                \* the tokens given to the contract
  MaxAnnouncements,     \* bound
  MaxUnmined,           \* bound: the transactions of a client not yet mined
  Nobody                \* the zero address

ASSUME RewardsAssumption ==
  /\ Owner \notin Recipients /\ Nobody \notin Recipients \cup {Owner, Distribution}
  /\ Distribution \notin Recipients \cup {Owner}
  /\ IsFiniteSet(Recipients)
  /\ Files \subseteq Seq([address : Recipients, amount : Nat])
  /\ DirectRewards \subseteq [address : Recipients, amount : Nat]
  /\ BatchSizes \subseteq Nat \ {0}
  /\ Funds \in Nat

VARIABLES
  distributions,        \* [batchHashes, pendingBatchCount, hasPendingBatches] by name
  rewardsDistributor,
  balance,              \* the token's balance of every holder
  mempool,              \* the transactions of each client not yet mined, by nonce
  runs,                 \* what each client is doing
  published,            \* the file and batch size of the last announcement by name
  given,                \* what was paid under a name since it was announced
  direct,               \* what the assigned distributor paid
  announcements

contractVars == <<distributions, rewardsDistributor, balance>>
historyVars == <<published, given, direct, announcements>>
vars == <<contractVars, mempool, runs, historyVars>>

Holder == Recipients \cup {Owner, Distribution}

Sum(f, S) == SumFunctionOnSet(f, S)

-----------------------------------------------------------------------------
(* The client's arithmetic                                                  *)

(* parseBatches: addresses are unique, or nothing is done.                  *)
WellFormed(file) ==
  \A i, j \in DOMAIN file : file[i].address = file[j].address => i = j

WholeBatches(file, size) ==
  [b \in 1 .. Len(file) \div size |-> SubSeq(file, (b - 1) * size + 1, b * size)]

Batches(file, size) ==
  [b \in 1 .. (Len(file) + size - 1) \div size |->
     SubSeq(file, (b - 1) * size + 1, Min({b * size, Len(file)}))]

Addresses(batch) == [i \in DOMAIN batch |-> batch[i].address]
Amounts(batch) == [i \in DOMAIN batch |-> batch[i].amount]

(* hashBatch.                                                               *)
HashBatch(batchId, batch) ==
  <<batchId, Len(batch)>> \o Addresses(batch) \o Amounts(batch)

-----------------------------------------------------------------------------
(* The contract                                                             *)

NoHash == <<>>

NoDistribution == [batchHashes |-> <<>>, pendingBatchCount |-> 0, hasPendingBatches |-> FALSE]

(* calcBatchHash.                                                           *)
CalcBatchHash(recipients, amounts, index) ==
  <<index, Len(recipients)>> \o recipients \o amounts

(* getPendingBatches: the indices, from 1.                                  *)
PendingBatches(n) ==
  {i \in DOMAIN distributions[n].batchHashes : distributions[n].batchHashes[i] # NoHash}

AnnounceDistributionEvent(n, hashes) ==
  /\ ~distributions[n].hasPendingBatches
  /\ hashes # <<>>
  /\ distributions' = [distributions EXCEPT ![n] =
       [batchHashes |-> hashes, pendingBatchCount |-> Len(hashes), hasPendingBatches |-> TRUE]]
  /\ UNCHANGED <<rewardsDistributor, balance>>

AbortDistributionEvent(n) ==
  /\ distributions[n].hasPendingBatches
  /\ distributions' = [distributions EXCEPT ![n] = NoDistribution]
  /\ UNCHANGED <<rewardsDistributor, balance>>

Received(recipients, amounts, a) ==
  Sum(amounts, {i \in DOMAIN recipients : recipients[i] = a})

(* _distributeRewards: when one transfer fails all of it is reverted.       *)
CanPay(amounts) == Sum(amounts, DOMAIN amounts) <= balance[Distribution]

PayBatch(recipients, amounts) ==
  balance' = [a \in Holder |->
    IF a = Distribution THEN balance[a] - Sum(amounts, DOMAIN amounts)
    ELSE balance[a] + Received(recipients, amounts, a)]

Cleared(d, index) ==
  [batchHashes |-> [d.batchHashes EXCEPT ![index] = NoHash],
   pendingBatchCount |-> d.pendingBatchCount - 1,
   hasPendingBatches |-> d.hasPendingBatches]

(* executeCommittedBatch; batch numbers are one more than the code's.       *)
Acceptable(n, recipients, amounts, index) ==
  /\ recipients # <<>> /\ Len(recipients) = Len(amounts)
  /\ distributions[n].hasPendingBatches
  /\ index \in PendingBatches(n)
  /\ distributions[n].batchHashes[index] = CalcBatchHash(recipients, amounts, index)

ExecuteCommittedBatchEndingEarly(n, recipients, amounts, index) ==
  /\ LET d == Cleared(distributions[n], index)
     IN  distributions' = [distributions EXCEPT ![n] =
           IF d.pendingBatchCount <= 1 THEN NoDistribution ELSE d]
  /\ PayBatch(recipients, amounts)
  /\ UNCHANGED rewardsDistributor

ExecuteCommittedBatch(n, recipients, amounts, index) ==
  /\ LET d == Cleared(distributions[n], index)
     IN  distributions' = [distributions EXCEPT ![n] =
           IF d.pendingBatchCount = 0 THEN NoDistribution ELSE d]
  /\ PayBatch(recipients, amounts)
  /\ UNCHANGED rewardsDistributor

-----------------------------------------------------------------------------
(* The owner                                                                *)

Init ==
  /\ distributions = [n \in Names |-> NoDistribution]
  /\ rewardsDistributor = Nobody
  /\ balance = [a \in Holder |-> IF a = Distribution THEN Funds ELSE 0]
  /\ mempool = [c \in Clients |-> <<>>]
  /\ runs = [c \in Clients |-> <<>>]
  /\ published = [n \in Names |-> <<>>]
  /\ given = [n \in Names |-> [a \in Recipients |-> 0]]
  /\ direct = [a \in Recipients |-> 0]
  /\ announcements = 0

(* getBatchHashes.js, and the announcement of what it printed.              *)
AnnounceFile(n, file, size) ==
  /\ announcements < MaxAnnouncements
  /\ WellFormed(file)
  /\ AnnounceDistributionEvent(n, [b \in DOMAIN Batches(file, size) |->
                                     HashBatch(b, Batches(file, size)[b])])
  /\ published' = [published EXCEPT ![n] = <<[file |-> file, size |-> size]>>]
  /\ given' = [given EXCEPT ![n] = [a \in Recipients |-> 0]]
  /\ announcements' = announcements + 1
  /\ UNCHANGED <<mempool, runs, direct>>

Abort(n) ==
  /\ AbortDistributionEvent(n)
  /\ published' = [published EXCEPT ![n] = <<>>]
  /\ UNCHANGED <<mempool, runs, given, direct, announcements>>

(* drainOrbs, and the return of what was drained.                           *)
DrainOrbs ==
  /\ balance[Distribution] > 0
  /\ balance' = [balance EXCEPT ![Owner] = @ + balance[Distribution], ![Distribution] = 0]
  /\ UNCHANGED <<distributions, rewardsDistributor, mempool, runs, historyVars>>

Refund ==
  /\ balance[Owner] > 0
  /\ balance' = [balance EXCEPT ![Distribution] = @ + balance[Owner], ![Owner] = 0]
  /\ UNCHANGED <<distributions, rewardsDistributor, mempool, runs, historyVars>>

ReassignRewardsDistributor(new) ==
  /\ rewardsDistributor' = new
  /\ UNCHANGED <<distributions, balance, mempool, runs, historyVars>>

(* distributeRewards, by whoever is assigned.                               *)
DistributeRewardsDirectly(caller, payment) ==
  /\ caller = rewardsDistributor
  /\ CanPay(<<payment.amount>>)
  /\ PayBatch(<<payment.address>>, <<payment.amount>>)
  /\ direct' = [direct EXCEPT ![payment.address] = @ + payment.amount]
  /\ UNCHANGED <<distributions, rewardsDistributor, mempool, runs,
                 published, given, announcements>>

-----------------------------------------------------------------------------
(* The clients: executeBatches.js                                           *)

Idle(c) == runs[c] = <<>>

Launch(c, n, file, size) ==
  /\ Idle(c)
  /\ WellFormed(file)
  /\ runs' = [runs EXCEPT ![c] =
       <<[name |-> n, batches |-> Batches(file, size), i |-> 1, waiting |-> FALSE]>>]
  /\ UNCHANGED <<contractVars, mempool, historyVars>>

(* getRemainingBatches.js shows that batches are left; somebody tries again  *)
(* with the published file.                                                 *)
Resume(c, n) ==
  /\ PendingBatches(n) # {}
  /\ \E p \in Range(published[n]) : Launch(c, n, p.file, p.size)

Submission(c) ==
  LET run   == runs[c][1]
      batch == run.batches[run.i]
  IN  [name |-> run.name, recipients |-> Addresses(batch),
       amounts |-> Amounts(batch), index |-> run.i]

Submit(c) ==
  /\ ~Idle(c)
  /\ ~runs[c][1].waiting /\ runs[c][1].i <= Len(runs[c][1].batches)
  /\ Len(mempool[c]) < MaxUnmined
  /\ mempool' = [mempool EXCEPT ![c] = Append(@, Submission(c))]
  /\ runs' = [runs EXCEPT ![c][1].waiting = TRUE]
  /\ UNCHANGED <<contractVars, historyVars>>

ProceedUnlessFailed(run, ok) ==
  IF ok THEN <<[run EXCEPT !.i = @ + 1, !.waiting = FALSE]>> ELSE <<>>

(* executeBatches catches errors and goes on with the next batch.           *)
Proceed(run, ok) == <<[run EXCEPT !.i = @ + 1, !.waiting = FALSE]>>

(* The transactions of an account are mined in order; the client awaits the *)
(* last.                                                                    *)
BatchAnswered(c, ok) ==
  runs' = IF Len(mempool[c]) = 1 /\ ~Idle(c) /\ runs[c][1].waiting
            THEN [runs EXCEPT ![c] = Proceed(runs[c][1], ok)] ELSE runs

Succeeds(tx) ==
  Acceptable(tx.name, tx.recipients, tx.amounts, tx.index) /\ CanPay(tx.amounts)

(* A transaction is mined: it takes effect, or it is reverted.              *)
Mine(c) ==
  /\ mempool[c] # <<>>
  /\ mempool' = [mempool EXCEPT ![c] = Tail(@)]
  /\ LET tx == mempool[c][1] IN
     /\ BatchAnswered(c, Succeeds(tx))
     /\ IF Succeeds(tx)
          THEN /\ ExecuteCommittedBatch(tx.name, tx.recipients, tx.amounts, tx.index)
               /\ given' = [given EXCEPT ![tx.name] =
                    [a \in Recipients |-> @[a] + Received(tx.recipients, tx.amounts, a)]]
          ELSE UNCHANGED <<contractVars, given>>
  /\ UNCHANGED <<published, direct, announcements>>

(* The client loses patience with a transaction that may still be mined.    *)
Timeout(c) ==
  /\ ~Idle(c) /\ runs[c][1].waiting
  /\ runs' = [runs EXCEPT ![c] = Proceed(runs[c][1], FALSE)]
  /\ UNCHANGED <<contractVars, mempool, historyVars>>

Finish(c) ==
  /\ ~Idle(c)
  /\ runs[c][1].i > Len(runs[c][1].batches)
  /\ runs' = [runs EXCEPT ![c] = <<>>]
  /\ UNCHANGED <<contractVars, mempool, historyVars>>

Next ==
  \/ \E n \in Names, file \in Files, size \in BatchSizes : AnnounceFile(n, file, size)
  \/ \E n \in Names : Abort(n)
  \/ DrainOrbs \/ Refund
  \/ \E new \in {Nobody, Owner} : ReassignRewardsDistributor(new)
  \/ \E payment \in DirectRewards : DistributeRewardsDirectly(Owner, payment)
  \/ \E c \in Clients, n \in Names, file \in Files, size \in BatchSizes :
       Launch(c, n, file, size)
  \/ \E c \in Clients : Submit(c) \/ Timeout(c) \/ Finish(c) \/ Mine(c)

Spec == Init /\ [][Next]_vars

(* Transactions are mined, a client goes on, and while batches are left     *)
(* somebody runs the client with the published file again.                  *)
Fairness ==
  /\ \A c \in Clients : WF_vars(Submit(c) \/ Finish(c)) /\ WF_vars(Mine(c))
  /\ \A n \in Names : SF_vars(\E c \in Clients : Resume(c, n))

FairSpec == Spec /\ Fairness

-----------------------------------------------------------------------------
(* Variables have their types; tokens neither appear nor vanish.            *)
RewardsTypeOK ==
  /\ \A n \in Names : /\ distributions[n].pendingBatchCount \in Nat
                       /\ distributions[n].hasPendingBatches \in BOOLEAN
  /\ rewardsDistributor \in {Nobody, Owner}
  /\ balance \in [Holder -> 0 .. Funds] /\ Sum(balance, Holder) = Funds
  /\ \A c \in Clients : ~Idle(c) =>
       runs[c][1].name \in Names /\ runs[c][1].i \in 1 .. Len(runs[c][1].batches) + 1

(* getPendingBatches allocates pendingBatchCount places and fills one for   *)
(* each hash that is left: were there more, neither it nor an abort could   *)
(* be called, and were there fewer, it would list batches that are none.    *)
PendingCountIsExact ==
  \A n \in Names :
    /\ distributions[n].pendingBatchCount = Cardinality(PendingBatches(n))
    /\ distributions[n].hasPendingBatches <=> PendingBatches(n) # {}

PaymentsOf(h) == [k \in 1 .. h[2] |-> [to |-> h[2 + k], amount |-> h[2 + h[2] + k]]]

Owed(payments, a) ==
  Sum([k \in DOMAIN payments |-> payments[k].amount],
      {k \in DOMAIN payments : payments[k].to = a})

StillPending(n, a) ==
  Sum([i \in PendingBatches(n) |-> Owed(PaymentsOf(distributions[n].batchHashes[i]), a)],
      PendingBatches(n))

(* Whoever runs the client, with whatever file and batch size, however      *)
(* often, and whatever transactions are still under way from before: what   *)
(* an announcement has paid and what it still holds back are the amounts of *)
(* the file it was made from, and in the end they are paid.                 *)
EveryoneGetsTheFilesAmount ==
  \A n \in Names : \A p \in Range(published[n]) : \A a \in Recipients :
    given[n][a] + StillPending(n, a) = Received(Addresses(p.file), Amounts(p.file), a)

Promises ==
  UNION {{[name |-> n, index |-> i, payments |-> PaymentsOf(distributions[n].batchHashes[i])] :
            i \in PendingBatches(n)} : n \in Names}

KeptSoFar == [a \in Recipients |-> balance[a] - direct[a]]

Promisable == UNION {{PaymentsOf(HashBatch(1, b)) : b \in Range(Batches(f, s))} :
                       f \in Files, s \in BatchSizes}

(* The contract implements RewardCommitments: a promise is kept once and as *)
(* a whole, or revoked, and only the distributor pays without one.          *)
Commitments == INSTANCE RewardCommitments WITH
  promises <- Promises, received <- KeptSoFar, Payments <- Promisable,
  MaxPromises <- Max({Len(f) : f \in Files})

ImplementsCommitments == Commitments!Spec

(* When the contract holds from some time on what it owes, every            *)
(* distribution ends, although transactions time out and the client gives   *)
(* no batch a second try.                                                   *)
Solvent ==
  Sum([a \in Recipients |-> Sum([n \in Names |-> StillPending(n, a)], Names)], Recipients)
    <= balance[Distribution]

DistributionCompletes ==
  <>[]Solvent => \A n \in Names :
    distributions[n].hasPendingBatches ~> ~distributions[n].hasPendingBatches

(* The contract's count of pending batches is right, and everyone gets the  *)
(* amount of the file.                                                      *)
DistributionIsExact == RewardsTypeOK /\ PendingCountIsExact /\ EveryoneGetsTheFilesAmount

=============================================================================
