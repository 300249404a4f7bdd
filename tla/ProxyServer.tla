---------------------------- MODULE ProxyServer ----------------------------
(***************************************************************************)
(* The proxy server and the RemoteService of the web client that calls it.  *)
(* Express tries the routes in the order in which the routers are mounted   *)
(* and the first that matches handles the request; a route makes one read   *)
(* of the data library.  Where a handler has no try, a read that fails is   *)
(* an unhandled rejection and the request is never answered.                *)
(***************************************************************************)
EXTENDS Integers, SequencesExt

CONSTANTS
  Addresses,
  MaxCalls \* bound: calls of RemoteService

(* An address is no word of a path.                                         *)
ASSUME AddressesAssumption == "elected" \notin Addresses

VARIABLE
  calls \* those made: [method, address, at, read, of]

-----------------------------------------------------------------------------
(* The routes: what each matches, the read it makes, whether it has a try.  *)

Param == ":address"
Route(path, read, guarded) == [path |-> path, read |-> read, guarded |-> guarded]

GuardiansRouterWithoutTry ==
  << Route(<<"api", "guardians">>, "getGuardiansList", TRUE),
     Route(<<"api", "guardians", Param>>, "getGuardianInfo", FALSE) >>
GuardiansRouter ==
  << Route(<<"api", "guardians">>, "getGuardiansList", TRUE),
     Route(<<"api", "guardians", Param>>, "getGuardianInfo", TRUE) >>

ElectedValidatorsRouter ==
  << Route(<<"api", "validators", "elected">>, "getElectedValidators", FALSE),
     Route(<<"api", "validators", "elected", Param>>, "getElectedValidatorInfo", TRUE) >>

ValidatorsRouter ==
  << Route(<<"api", "validators">>, "getValidators", TRUE),
     Route(<<"api", "validators", Param>>, "getValidatorInfo", TRUE) >>

RewardsRouter ==
  << Route(<<"api", "rewards", "history", Param>>, "getRewardsHistory", FALSE),
     Route(<<"api", "rewards", Param>>, "getRewards", FALSE) >>

NoRead == "nothing"

(* The handler of the second route is empty.                                *)
StakeRouter ==
  << Route(<<"api", "total-participating-tokens">>, "getTotalParticipatingTokens", TRUE),
     Route(<<"api", "stake", "validator", Param>>, NoRead, FALSE) >>

ElectionsRouter ==
  << Route(<<"api", "elections", "upcoming">>, "getUpcomingElectionBlockNumber", TRUE),
     Route(<<"api", "elections", "effective">>, "getEffectiveElectionBlockNumber", TRUE) >>

DelegationRouter ==
  << Route(<<"api", "delegation", "status">>, "getDelegatee", TRUE),
     Route(<<"api", "delegation">>, "getDelegationInfo", TRUE) >>

Server ==
  << GuardiansRouter, ElectedValidatorsRouter, ValidatorsRouter, RewardsRouter, StakeRouter,
     ElectionsRouter, DelegationRouter >>

Matches(pattern, path) ==
  /\ Len(pattern) = Len(path)
  /\ \A i \in DOMAIN path : pattern[i] \in {Param, path[i]}

(* By the first route that matches: router by router, each in its order.    *)
IsHandledBy(path, r, k) ==
  /\ Matches(Server[r][k].path, path)
  /\ \A q \in 1..r : \A j \in DOMAIN Server[q] :
       q < r \/ j < k => ~Matches(Server[q][j].path, path)

-----------------------------------------------------------------------------
(* RemoteService: the path of each method, and whether it names an address  *)
(* in the query instead of the path.                                        *)

Remote(method, path, query) == [method |-> method, path |-> path, query |-> query]

RemoteService(address) ==
  { Remote("getGuardians", <<"api", "guardians">>, FALSE),
    Remote("getGuardianData", <<"api", "guardians", address>>, FALSE),
    Remote("getValidators", <<"api", "validators">>, FALSE),
    Remote("getElectedValidators", <<"api", "validators", "elected">>, FALSE),
    Remote("getValidatorData", <<"api", "validators", address>>, FALSE),
    Remote("getElectedValidatorData", <<"api", "validators", "elected", address>>, FALSE),
    Remote("getRewards", <<"api", "rewards", address>>, FALSE),
    Remote("getRewardsHistory", <<"api", "rewards", "history", address>>, FALSE),
    Remote("getTotalParticipatingTokens", <<"api", "total-participating-tokens">>, FALSE),
    Remote("getUpcomingElectionBlockNumber", <<"api", "elections", "upcoming">>, FALSE),
    Remote("getEffectiveElectionBlockNumber", <<"api", "elections", "effective">>, FALSE),
    Remote("getCurrentDelegation", <<"api", "delegation", "status">>, TRUE),
    Remote("getCurrentDelegationInfo", <<"api", "delegation">>, TRUE) }

Nobody == "nobody"

ProxyInit == calls = <<>>

CallRemote ==
  /\ Len(calls) < MaxCalls
  /\ \E address \in Addresses : \E remote \in RemoteService(address) :
       calls' = Append(calls,
         [method |-> remote.method, path |-> remote.path,
          query |-> IF remote.query THEN address ELSE Nobody,
          address |-> address, at |-> "sent", guarded |-> TRUE, read |-> NoRead, of |-> Nobody])

(* Whose data a handler asks for: the parameter of the path, or the query.  *)
AddressOf(route, call) ==
  IF Last(route.path) = Param THEN Last(call.path) ELSE call.query

Handle(i) ==
  /\ calls[i].at = "sent"
  /\ \/ /\ \A r \in DOMAIN Server : \A k \in DOMAIN Server[r] :
             ~Matches(Server[r][k].path, calls[i].path)
        /\ calls' = [calls EXCEPT ![i].at = "refused"]
     \/ \E r \in DOMAIN Server : \E k \in DOMAIN Server[r] :
          /\ IsHandledBy(calls[i].path, r, k)
          /\ LET route == Server[r][k]
             IN calls' = [calls EXCEPT ![i].at = IF route.read = NoRead THEN "silent" ELSE "reading",
                                       ![i].read = route.read, ![i].guarded = route.guarded,
                                       ![i].of = AddressOf(route, calls[i])]

ReadSucceeds(i) ==
  /\ calls[i].at = "reading"
  /\ calls' = [calls EXCEPT ![i].at = "answered"]

ReadFails(i) ==
  /\ calls[i].at = "reading"
  /\ calls' = [calls EXCEPT ![i].at = IF calls[i].guarded THEN "refused" ELSE "silent"]

ProxyNext ==
  \/ CallRemote
  \/ \E i \in DOMAIN calls : Handle(i) \/ ReadSucceeds(i) \/ ReadFails(i)

ProxySpec == ProxyInit /\ [][ProxyNext]_calls

ProxyFairness ==
  \A i \in 1..MaxCalls :
    /\ WF_calls(i \in DOMAIN calls /\ Handle(i))
    /\ WF_calls(i \in DOMAIN calls /\ (ReadSucceeds(i) \/ ReadFails(i)))

-----------------------------------------------------------------------------
(* What the page wants to know when it calls a method.                      *)
Meant(method) ==
  CASE method = "getGuardians" -> "getGuardiansList"
    [] method = "getGuardianData" -> "getGuardianInfo"
    [] method = "getValidatorData" -> "getValidatorInfo"
    [] method = "getElectedValidatorData" -> "getElectedValidatorInfo"
    [] method = "getCurrentDelegation" -> "getDelegatee"
    [] method = "getCurrentDelegationInfo" -> "getDelegationInfo"
    [] OTHER -> method

OfAnAddress ==
  {"getGuardianData", "getValidatorData", "getElectedValidatorData", "getRewards",
   "getRewardsHistory", "getCurrentDelegation", "getCurrentDelegationInfo"}

(* Every method of RemoteService is answered with the read it is meant for  *)
(* and of the address it names, though some patterns match the paths of     *)
(* others (/validators/:address also matches /validators/elected).          *)
AnsweredByItsRead ==
  \A i \in DOMAIN calls :
    calls[i].at = "answered" =>
      /\ calls[i].read = Meant(calls[i].method)
      /\ calls[i].method \in OfAnAddress => calls[i].of = calls[i].address

(* Every call is answered or refused, also when the read fails, but those   *)
(* of the three routes without a try: a page that awaits one of those waits *)
(* for ever when the node is down.                                          *)
CallsSettle ==
  \A i \in 1..MaxCalls :
    (/\ i \in DOMAIN calls
     /\ calls[i].method \notin {"getElectedValidators", "getRewards", "getRewardsHistory"})
      ~> (i \in DOMAIN calls /\ calls[i].at \in {"answered", "refused"})

=============================================================================
