------------------------ MODULE PosDataSubscriptions ------------------------
(***************************************************************************)
(* A subscription of orbs-pos-data: one call of subscribeToORBSBalance-     *)
(* Change, subscribeToAllowanceChange, subscribeToDelegateEvent or of all   *)
(* the subscribeTo...Event functions of StakingService, for one address.    *)
(* Each listens with emitters of web3, which get their id, and events, once *)
(* the node has answered.  A change of balance is not told from the event   *)
(* but read anew, and the answers to such reads may overtake each other.    *)
(*                                                                         *)
(* Errors of an emitter are passed on and change nothing here.              *)
(***************************************************************************)
EXTENDS Integers, SequencesExt, FiniteSetsExt

CONSTANTS
  Values,    \* of allowances and delegates
  MaxEvents  \* bound: what happens on the chain

Topics == {"balance", "stake", "allowance", "delegate"}

VARIABLES
  topic,       \* what is subscribed to, or "nothing"
  emitter,     \* [status, queue] of each emitter
  onChain,     \* the balance, stake, allowance or delegate
  events,      \* how many events there were, bounded by MaxEvents
  missed,      \* whether the last of them came before the emitters were connected
  reads,       \* readOrbsBalance calls under way: <<>>, or <<answer>>
  told,       \* the arguments of the callback, in order
  disordered,  \* whether notifications or answers overtook each other
  unsubscribed \* whether, and when, the function returned was called: [called, due]

subscriptionVars ==
  <<topic, emitter, onChain, events, missed, reads, told, disordered, unsubscribed>>

EmittersOf(t) ==
  CASE t = "balance" -> {"from", "to"}
    [] t = "stake" -> {"Staked", "Unstaked", "Restaked", "Withdrew"}
    [] t = "allowance" -> {"Approval"}
    [] t = "delegate" -> {"Delegate"}
    [] t = "nothing" -> {}

Emitters == DOMAIN emitter
Connected(e) == emitter[e].status = "connected"
Queued(e) == emitter[e].queue # <<>>

SubscriptionsInit ==
  /\ topic = "nothing"
  /\ emitter = <<>>
  /\ onChain = 1
  /\ events = 0 /\ missed = FALSE
  /\ reads = <<>> /\ told = <<>>
  /\ disordered = FALSE
  /\ unsubscribed = [called |-> FALSE, due |-> 0]

Subscribe(t) ==
  /\ topic = "nothing"
  /\ topic' = t
  /\ emitter' = [e \in EmittersOf(t) |-> [status |-> "connecting", queue |-> <<>>]]
  /\ UNCHANGED <<onChain, events, missed, reads, told, disordered, unsubscribed>>

-----------------------------------------------------------------------------
(* web3 and the node                                                        *)

(* The contracts emit notes, [emitter, value], one of each emitter.         *)
Emit(notes, newValue) ==
  /\ events < MaxEvents
  /\ events' = events + 1
  /\ onChain' = newValue
  /\ missed' = \E note \in notes : ~Connected(note.emitter)
  /\ emitter' = [e \in Emitters |->
       IF Connected(e)
         THEN [emitter[e] EXCEPT !.queue = @ \o SetToSeq({note \in notes : note.emitter = e})]
         ELSE emitter[e]]
  /\ UNCHANGED <<topic, reads, told, disordered, unsubscribed>>

Note(e, value) == [emitter |-> e, value |-> value]

Transfer ==
  /\ topic = "balance"
  /\ \/ Emit({Note("from", "out")}, onChain - 1)
     \/ Emit({Note("to", "in")}, onChain + 1)
     \/ Emit({Note("from", "self"), Note("to", "self")}, onChain)

StakingEvent ==
  /\ topic = "stake"
  /\ \/ \E e \in {"Staked", "Restaked"} : Emit({Note(e, [amount |-> 2, total |-> onChain + 2])}, onChain + 2)
     \/ Emit({Note("Unstaked", [amount |-> 2, total |-> onChain - 2])}, onChain - 2)
     \/ Emit({Note("Withdrew", [amount |-> 2, total |-> onChain])}, onChain)

OtherEvent ==
  /\ topic \in {"allowance", "delegate"}
  /\ \E value \in Values, e \in Emitters : Emit({Note(e, value)}, value)

(* Subscription.unsubscribe: what has not been told by then never is.       *)
Off == [status |-> "off", queue |-> <<>>]

(* getUnsubscribePromise.                                                   *)
GetUnsubscribePromiseAtOnce(e) ==
  IF emitter[e].status = "connecting" THEN emitter[e] ELSE Off

GetUnsubscribePromise(e) ==
  IF emitter[e].status = "connecting" THEN [emitter[e] EXCEPT !.status = "unsubscribing"]
  ELSE Off

Unsubscribed(e) == emitter[e].status \in {"off", "unsubscribing"}

(* The emitter gets its id; who waits for that unsubscribes.                *)
Connect(e) ==
  /\ emitter[e].status \in {"connecting", "unsubscribing"}
  /\ emitter' = [emitter EXCEPT ![e] =
       IF Unsubscribed(e) THEN Off ELSE [@ EXCEPT !.status = "connected"]]
  /\ UNCHANGED <<topic, onChain, events, missed, reads, told, disordered, unsubscribed>>

UnsubscribeFromAll ==
  /\ topic # "nothing" /\ ~unsubscribed.called
  /\ unsubscribed' = [called |-> TRUE, due |-> Len(told) + Len(reads)]
  /\ emitter' = [e \in Emitters |-> GetUnsubscribePromise(e)]
  /\ UNCHANGED <<topic, onChain, events, missed, reads, told, disordered>>

-----------------------------------------------------------------------------
(* The handlers                                                             *)

Popped(e) == [emitter EXCEPT ![e].queue = Tail(@)]

(* A transfer to oneself is left to the other emitter.                      *)
ReadsBalanceFor(e, note) == ~(e = "to" /\ note.value = "self")

OnTransfer(e) ==
  /\ topic = "balance" /\ Queued(e)
  /\ reads' = IF ReadsBalanceFor(e, Head(emitter[e].queue)) THEN Append(reads, <<>>) ELSE reads
  /\ emitter' = Popped(e)
  /\ UNCHANGED <<topic, onChain, events, missed, told, disordered, unsubscribed>>

(* readOrbsBalance, as the node answers it.                                 *)
AnswerRead(i) ==
  /\ reads[i] = <<>>
  /\ reads' = [reads EXCEPT ![i] = <<onChain>>]
  /\ UNCHANGED <<topic, emitter, onChain, events, missed, told, disordered, unsubscribed>>

TellBalance(i) ==
  /\ reads[i] # <<>>
  /\ told' = Append(told, reads[i][1])
  /\ reads' = RemoveAt(reads, i)
  /\ disordered' = (disordered \/ i # 1)
  /\ UNCHANGED <<topic, emitter, onChain, events, missed, unsubscribed>>

ToldAmount(note) == IF topic = "stake" THEN note.value.amount ELSE note.value

(* Of a staking event, the total of the owner.                              *)
ToldValue(note) == IF topic = "stake" THEN note.value.total ELSE note.value

OnEvent(e) ==
  /\ topic # "balance" /\ Queued(e)
  /\ told' = Append(told, ToldValue(Head(emitter[e].queue)))
  /\ emitter' = Popped(e)
  /\ disordered' = (disordered \/ \E other \in Emitters \ {e} : Queued(other))
  /\ UNCHANGED <<topic, onChain, events, missed, reads, unsubscribed>>

SubscriptionsNext ==
  \/ \E t \in Topics : Subscribe(t)
  \/ Transfer \/ StakingEvent \/ OtherEvent
  \/ UnsubscribeFromAll
  \/ \E e \in Emitters : Connect(e) \/ OnTransfer(e) \/ OnEvent(e)
  \/ \E i \in DOMAIN reads : AnswerRead(i) \/ TellBalance(i)

SubscriptionSpec == SubscriptionsInit /\ [][SubscriptionsNext]_subscriptionVars

(* The node answers, web3 calls back.                                       *)
SubscriptionsFairness ==
  /\ WF_subscriptionVars(\E e \in Emitters : Connect(e))
  /\ WF_subscriptionVars(\E e \in Emitters : OnTransfer(e) \/ OnEvent(e))
  /\ WF_subscriptionVars(\E i \in DOMAIN reads : AnswerRead(i) \/ TellBalance(i))

-----------------------------------------------------------------------------
Quiet == reads = <<>> /\ \A e \in Emitters : Connected(e) /\ ~Queued(e)

(* Once all that happened has been told, the last that the callback got is  *)
(* what the chain says, whichever emitter told it and although balances are *)
(* read after the event.  It is not so when answers overtook each other or  *)
(* two emitters had news at the same time.                                  *)
ToldIsCurrent ==
  (Quiet /\ events > 0 /\ ~missed /\ ~disordered) =>
    told # <<>> /\ Last(told) = onChain

(* No event is told twice, nor is a transfer to oneself, and after the call *)
(* to unsubscribe, also one made before the emitters had their ids, nothing *)
(* is told but balances whose read was under way.                           *)
NothingIsToldInExcess ==
  /\ Len(told) + Len(reads) <= events
  /\ unsubscribed.called => Len(told) + Len(reads) <= unsubscribed.due

(* Whoever unsubscribes, however early, is unsubscribed in the end.         *)
UnsubscribingEnds ==
  unsubscribed.called ~> (reads = <<>> /\ \A e \in Emitters : emitter[e].status = "off")

(* A subscriber ends with the truth and is told nothing beside it.          *)
SubscribersAreToldTheTruth == ToldIsCurrent /\ NothingIsToldInExcess

=============================================================================
