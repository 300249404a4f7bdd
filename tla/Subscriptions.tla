---------------------------- MODULE Subscriptions ----------------------------
(***************************************************************************)
(* Subscriptions of virtual chains (OrbsSubscriptions.sol, and its earlier  *)
(* version SubscriptionManager.sol): fees are collected in a pool of each   *)
(* month, and whoever calls distributeFees shares out a month's pool among  *)
(* those who run the network at that moment (getValidators, or the          *)
(* federation's getMembers).                                                *)
(*                                                                         *)
(* Who pays and who is paid are token holders elsewhere; approvals are      *)
(* given.                                                                   *)
(***************************************************************************)
EXTENDS Integers, Sequences, FiniteSetsExt, Functions

CONSTANTS
  SubscriptionIds,
  Fees,                        \* the values of payments
  minimalMonthlySubscription,
  ReceiverLists,               \* who may be running the network
  Days,                        \* the days on which anybody calls
  MaxSubscriptions             \* bound: payments

(* The code counts years in 16 bits: days end before those do.              *)
LastDay == 365 * 60000

ASSUME SubscriptionsAssumption ==
  /\ Fees \subseteq Nat \ {0} /\ minimalMonthlySubscription \in Nat \ {0}
  /\ Days \subseteq 0 .. LastDay /\ MaxSubscriptions \in Nat
  /\ IsFiniteSet(SubscriptionIds) /\ IsFiniteSet(ReceiverLists)
  /\ \A list \in ReceiverLists : list \in Seq({list[i] : i \in DOMAIN list})

-----------------------------------------------------------------------------
(* The calendar (DateTime.sol): the month of a time and the time a month    *)
(* begins.  Times are counted in days: nothing of a month depends on the    *)
(* time of the day.                                                         *)

ORIGIN_YEAR == 1970

IsLeapYear(year) == year % 4 = 0 /\ (year % 100 # 0 \/ year % 400 = 0)

LeapYearsBefore(year) ==
  (year - 1) \div 4 - (year - 1) \div 100 + (year - 1) \div 400

DaysInYear(year) == IF IsLeapYear(year) THEN 366 ELSE 365

GetDaysInMonth(year, month) ==
  CASE month \in {1, 3, 5, 7, 8, 10, 12} -> 31
    [] month \in {4, 6, 9, 11} -> 30
    [] month = 2 -> IF IsLeapYear(year) THEN 29 ELSE 28

(* The days before a year, from the number of leap years.                   *)
DaysAccountedFor(year) ==
  LET leapYears == LeapYearsBefore(year) - LeapYearsBefore(ORIGIN_YEAR)
  IN 366 * leapYears + 365 * (year - ORIGIN_YEAR - leapYears)

(* A guess as if no year were a leap year, and then back year by year.      *)
GetYear(day) ==
  LET guess == ORIGIN_YEAR + day \div 365
      accounted[year \in ORIGIN_YEAR..guess] ==
        IF year = guess THEN DaysAccountedFor(year)
                        ELSE accounted[year + 1] - DaysInYear(year)
  IN Max({year \in ORIGIN_YEAR..guess : accounted[year] <= day})

DaysOfMonths(year, months) == SumFunction([m \in months |-> GetDaysInMonth(year, m)])

GetMonth(day) ==
  LET year == GetYear(day)
  IN Min({month \in 1..12 : day < DaysAccountedFor(year) + DaysOfMonths(year, 1..month)})

GetTime(day) == <<GetYear(day), GetMonth(day)>>

(* toTimestamp: adds up the years from the first, and has a table of the    *)
(* months of its own.                                                       *)
ToTimestamp(year, month) ==
  LET monthDayCounts == <<31, IF IsLeapYear(year) THEN 29 ELSE 28, 31, 30, 31, 30,
                          31, 31, 30, 31, 30, 31>>
  IN SumFunction([y \in ORIGIN_YEAR..(year - 1) |-> DaysInYear(y)])
       + SumFunction([i \in 1..(month - 1) |-> monthDayCounts[i]])

GetNextMonth(year, month) ==
  IF month = 12 THEN <<year + 1, 1>> ELSE <<year, month + 1>>

-----------------------------------------------------------------------------
(* The two directions agree: a day is in a month if and only if the month   *)
(* has begun and the next one has not.                                      *)
DayIsInItsMonth(day) ==
  LET month == GetTime(day)
      next  == GetNextMonth(month[1], month[2])
  IN ToTimestamp(month[1], month[2]) <= day /\ day < ToTimestamp(next[1], next[2])

-----------------------------------------------------------------------------
VARIABLES
  today,
  subscriptions,  \* by month: [tokens, startTime by identifier, totalTokens]
  held,           \* the contract's tokens
  fees,           \* the tokens of those who were paid
  distributed,    \* history: what was paid of a month
  payments        \* history: how many

subscriptionVars == <<today, subscriptions, held, fees, distributed, payments>>

Months ==
  LET current == {GetTime(day) : day \in Days}
  IN current \cup {GetNextMonth(m[1], m[2]) : m \in current}

(* The calendar at the times that occur.                                    *)
BeginningOf == [m \in Months |-> ToTimestamp(m[1], m[2])]
MonthOf == [day \in Days \cup {BeginningOf[m] : m \in Months} |-> GetTime(day)]

Receivers == UNION {{list[i] : i \in DOMAIN list} : list \in ReceiverLists}

NoSubscriptions ==
  [tokens |-> [id \in SubscriptionIds |-> 0], startTime |-> [id \in SubscriptionIds |-> 0],
   totalTokens |-> 0]

SubscriptionsInit ==
  /\ today \in Days
  /\ subscriptions = [m \in Months |-> NoSubscriptions]
  /\ held = 0 /\ fees = [r \in Receivers |-> 0]
  /\ distributed = [m \in Months |-> 0] /\ payments = 0

(* Somebody calls on the next of the days.                                  *)
TimePasses ==
  /\ \E day \in Days : day > today
  /\ today' = Min({day \in Days : day > today})
  /\ UNCHANGED <<subscriptions, held, fees, distributed, payments>>

(* The first payment under an identifier sets its start.                    *)
Subscribe(id, value, startTime) ==
  /\ payments < MaxSubscriptions
  /\ startTime >= today
  /\ held' = held + value
  /\ \E m \in {MonthOf[startTime]} :
       LET month == subscriptions[m] IN
       /\ month.tokens[id] + value >= minimalMonthlySubscription
       /\ subscriptions' = [subscriptions EXCEPT ![m] =
            [tokens      |-> [month.tokens EXCEPT ![id] = @ + value],
             startTime   |-> IF month.tokens[id] = 0
                               THEN [month.startTime EXCEPT ![id] = startTime]
                               ELSE month.startTime,
             totalTokens |-> month.totalTokens + value]]
  /\ payments' = payments + 1
  /\ UNCHANGED <<today, fees, distributed>>

SubscribeForCurrentMonth(id, value) == Subscribe(id, value, today)

SubscribeForNextMonth(id, value) ==
  \E m \in {MonthOf[today]} :
    Subscribe(id, value, BeginningOf[GetNextMonth(m[1], m[2])])

(* The share of the receiver at an index: the first has the remainder too.  *)
ValidatorFee(pool, count, i) == pool \div count + IF i = 1 THEN pool % count ELSE 0

FeesAt(pool, list, indices) ==
  SumFunction([i \in indices |-> ValidatorFee(pool, Len(list), i)])

ReceivedFees(pool, list, receiver) ==
  FeesAt(pool, list, {i \in DOMAIN list : list[i] = receiver})

(* The pool is left as it was.                                              *)
DistributeFeesOfFullPool(m, list) ==
  LET pool == subscriptions[m].totalTokens
      paid == FeesAt(pool, list, DOMAIN list)
  IN /\ BeginningOf[MonthOf[today]] >= BeginningOf[m]
     /\ list # <<>> /\ pool \div Len(list) > 0
     /\ paid <= held
     /\ held' = held - paid
     /\ fees' = [r \in Receivers |-> fees[r] + ReceivedFees(pool, list, r)]
     /\ distributed' = [distributed EXCEPT ![m] = @ + paid]
     /\ UNCHANGED <<today, payments, subscriptions>>

(* distributeFees: of a month that has begun, and nothing when it would be  *)
(* nothing for most.                                                        *)
DistributeFees(m, list) ==
  LET pool == subscriptions[m].totalTokens
      paid == FeesAt(pool, list, DOMAIN list)
  IN /\ BeginningOf[MonthOf[today]] >= BeginningOf[m]
     /\ list # <<>> /\ pool \div Len(list) > 0
     /\ subscriptions' = [subscriptions EXCEPT ![m].totalTokens = @ - paid]
     /\ held' = held - paid
     /\ fees' = [r \in Receivers |-> fees[r] + ReceivedFees(pool, list, r)]
     /\ distributed' = [distributed EXCEPT ![m] = @ + paid]
     /\ UNCHANGED <<today, payments>>

SubscriptionsNext ==
  \/ TimePasses
  \/ \E id \in SubscriptionIds, value \in Fees :
       SubscribeForCurrentMonth(id, value) \/ SubscribeForNextMonth(id, value)
  \/ \E m \in Months, list \in ReceiverLists : DistributeFees(m, list)

SubscriptionsSpec == SubscriptionsInit /\ [][SubscriptionsNext]_subscriptionVars

-----------------------------------------------------------------------------
(* Whatever was paid into a month is in its pool or was given out, once;    *)
(* the pools are covered by the contract's tokens, and what left it is with *)
(* those who were to have it.                                               *)
FeesAreCovered ==
  /\ \A m \in Months :
       SumFunction(subscriptions[m].tokens) = subscriptions[m].totalTokens + distributed[m]
  /\ held = SumFunction([m \in Months |-> subscriptions[m].totalTokens])
  /\ SumFunction(distributed) = SumFunction(fees)

(* Nothing of a month is given out before it begins, by the calendar: not   *)
(* by the contract's arithmetic but by the day.                             *)
NothingIsPaidAhead ==
  \A m \in Months : distributed[m] > 0 => BeginningOf[m] <= today

(* A subscription is in the month in which it starts, and is of the         *)
(* minimum or more.                                                         *)
SubscriptionsAreInTheirMonth ==
  \A m \in Months, id \in SubscriptionIds :
    LET s == subscriptions[m] IN
    s.tokens[id] > 0 =>
      /\ s.tokens[id] >= minimalMonthlySubscription
      /\ BeginningOf[m] <= s.startTime[id]
      /\ \A later \in Months : BeginningOf[later] > BeginningOf[m] => s.startTime[id] < BeginningOf[later]

DaysAreInTheirMonths == \A day \in DOMAIN MonthOf : DayIsInItsMonth(day)

SubscriptionsAreExact ==
  /\ FeesAreCovered
  /\ NothingIsPaidAhead
  /\ SubscriptionsAreInTheirMonth
  /\ DaysAreInTheirMonths

=============================================================================
