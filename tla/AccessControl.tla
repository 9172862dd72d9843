---------------------------- MODULE AccessControl ----------------------------
(***************************************************************************)
(* One request on its way to a handler: the router takes the first handler *)
(* of the controller whose verb and path match, then the guards of         *)
(* src/src/auth/guard run in order, then the handler.                      *)
(***************************************************************************)
EXTENDS Naturals, Sequences

CONSTANTS
  Controllers,
  Handlers,    (* the handlers of a controller in the order of its source: *)
               (* verb, path, and what its decorators say it needs         *)
  Users        (* who may ask: the realm and role an access token names    *)

ASSUME HandlersAssumption ==
  \A c \in Controllers, u \in Users : \A i \in DOMAIN Handlers[c] :
    LET needs == Handlers[c][i].needs
    IN  /\ needs.guards \in {<<>>, <<"token">>, <<"token", "access">>, <<"otp">>, <<"refresh">>}
        /\ needs.guards = <<"token", "access">> => needs.mode \in {"AND", "OR"}
        /\ u.token \in {"none", "access", "otp", "refresh"}

VARIABLES
  ask,       (* the controller, the handler that is meant, and who asks    *)
  reached,   (* the handler the router has found, 0 before *)
  passed,    (* how many of its guards have let the request pass *)
  answer     (* "pending", "served", or the refusal *)

accessVars == <<ask, reached, passed, answer>>

Asked == Handlers[ask.controller][ask.index]

Reached == Handlers[ask.controller][reached]

(* A ":id" of a handler's path matches any segment. *)
Matches(handler, verb, path) ==
  /\ handler.verb = verb
  /\ Len(handler.path) = Len(path)
  /\ \A i \in DOMAIN path : handler.path[i] \in {":id", path[i]}

(* AccessGuard.canActivate.  An empty list counts as a wildcard. *)
Wildcard(list) == "*" \in list \/ list = {}

(* Mutant: the OR branch taken whatever the mode. *)
GrantedByEither(needs, user) ==
  \/ Wildcard(needs.realms) \/ user.realm \in needs.realms
  \/ Wildcard(needs.roles)  \/ user.role \in needs.roles

Granted(needs, user) ==
  LET realmValid == Wildcard(needs.realms) \/ user.realm \in needs.realms
      roleValid  == Wildcard(needs.roles)  \/ user.role \in needs.roles
  IN  \/ Wildcard(needs.realms) /\ Wildcard(needs.roles)
      \/ IF needs.mode = "AND" THEN realmValid /\ roleValid ELSE realmValid \/ roleValid

(* AccessTokenJWTGuard takes any token signed with its secret, the one     *)
(* that waits for a code included; the guard of verify-otp, as Login       *)
(* shows, admits nobody.                                                   *)
Admits(guard, needs, user) ==
  \/ guard = "token" /\ user.token \in {"access", "otp"}
  \/ guard = "access" /\ Granted(needs, user)
  \/ guard = "refresh" /\ user.token = "refresh"

AccessInit ==
  /\ \E c \in Controllers, u \in Users : \E i \in DOMAIN Handlers[c] :
       ask = [controller |-> c, index |-> i, user |-> u]
  /\ reached = 0 /\ passed = 0 /\ answer = "pending"

(* The path of a request for a handler: any identifier in place of ":id".  *)
PathTo(handler) ==
  [i \in DOMAIN handler.path |-> IF handler.path[i] = ":id" THEN "x" ELSE handler.path[i]]

FirstMatch(handlers, verb, path, i) ==
  /\ Matches(handlers[i], verb, path)
  /\ \A j \in 1..i - 1 : ~ Matches(handlers[j], verb, path)

Route ==
  /\ reached = 0
  /\ \E i \in DOMAIN Handlers[ask.controller] :
       /\ FirstMatch(Handlers[ask.controller], Asked.verb, PathTo(Asked), i)
       /\ reached' = i
  /\ UNCHANGED <<ask, passed, answer>>

Waits == reached # 0 /\ answer = "pending"

NextGuard == Reached.needs.guards[passed + 1]

RunGuard ==
  /\ Waits /\ passed < Len(Reached.needs.guards)
  /\ \/ /\ Admits(NextGuard, Reached.needs, ask.user)
        /\ passed' = passed + 1
        /\ UNCHANGED answer
     \/ /\ ~ Admits(NextGuard, Reached.needs, ask.user)
        /\ answer' = IF NextGuard = "access" THEN "forbidden" ELSE "unauthorized"
        /\ UNCHANGED passed
  /\ UNCHANGED <<ask, reached>>

Serve ==
  /\ Waits /\ passed = Len(Reached.needs.guards)
  /\ answer' = "served"
  /\ UNCHANGED <<ask, reached, passed>>

AccessNext == Route \/ RunGuard \/ Serve

AccessSpec == AccessInit /\ [][AccessNext]_accessVars

-----------------------------------------------------------------------------
(*                            what is promised                             *)

(* The comment of RequireAccess (12-36 of access.decorator.ts): '*' allows *)
(* any realm or role, AND requires both conditions, OR at least one.       *)
Allowed(list, mine) == "*" \in list \/ mine \in list

Documented(realms, roles, mode, user) ==
  /\ user.token \in {"access", "otp"}
  /\ \/ mode = "AND" /\ Allowed(realms, user.realm) /\ Allowed(roles, user.role)
     \/ mode = "OR" /\ (Allowed(realms, user.realm) \/ Allowed(roles, user.role))

(* What the comment does not say: an empty list is taken for '*'.          *)
OrAny(list) == IF list = {} THEN {"*"} ELSE list

(* Whatever handler the router finds and whoever asks: behind AccessGuard  *)
(* a request is served if, and only if, the comment says so, an empty list *)
(* being read as the wildcard it is not said to be.                        *)
AnswersAsDocumented ==
  answer # "pending" /\ Reached.needs.guards = <<"token", "access">> =>
    LET needs == Reached.needs
    IN  answer = "served" <=>
          Documented(OrAny(needs.realms), OrAny(needs.roles), needs.mode, ask.user)

(* No handler hides behind one declared before it, but for GET stats of    *)
(* the trips (75 of trip.controller.ts), which ":id" (62) takes.           *)
EachReached == reached \in {0, ask.index} \/ Asked.path = <<"stats">>
=============================================================================
