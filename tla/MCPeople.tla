------------------------------- MODULE MCPeople -------------------------------
(***************************************************************************)
(* Drivers and their buses, and of an account its session, its passwords   *)
(* and the requests it makes, on a small instance.  The parts share no     *)
(* variable, so a behaviour of all of them is an interleaving of one of    *)
(* each, and a property of one cannot tell: each behaviour here moves one  *)
(* part and leaves the others as they began.                               *)
(***************************************************************************)
EXTENDS DriverAssignment, Login, Passwords, AccessControl, Endpoints, TLC

VARIABLE part

CONSTANT w1

(* Calls 1 and 2 give each driver a bus, call 3 gives the first driver the *)
(* second bus, and call 4 may be anything, the swap among it.              *)
SwapBodies ==
  [c \in Calls |-> IF c <= 2 THEN {<<c, c>>} ELSE IF c = 3 THEN {<<1, 2>>} ELSE Drivers \X Buses]

(* The handlers of the application, and beside them a controller for every *)
(* shape of rule that AccessGuard tells apart.                             *)
Shapes ==
  [realms : {{}, {"*"}, {"SYSTEM"}, {"TRANSPORT_COMPANY"}},
   roles : {{}, {"*"}, {"SUPER_ADMIN"}, {"SUPER_ADMIN", "COMPANY_ADMIN"}},
   mode : {"AND", "OR"}]

Shaped == {ToString(s) : s \in Shapes}

AllControllers ==
  Shaped \cup
  {"auth", "booking", "bus", "cancellation-policy", "cities", "drivers", "routes",
   "terminals", "transport-company", "trip", "user", "health"}

AllHandlers ==
  [c \in AllControllers |->
     IF c \in Shaped
     THEN LET shape == CHOOSE s \in Shapes : ToString(s) = c
          IN  <<Get(<<>>, shape @@ [guards |-> <<"token", "access">>])>>
     ELSE HandlersOf(c)]

AllUsers ==
  [token : {"access"}, realm : {"SYSTEM", "TRANSPORT_COMPANY", "CUSTOMER"},
   role : {"SUPER_ADMIN", "COMPANY_ADMIN", "DRIVER"}]
  \cup [token : {"none", "otp", "refresh"}, realm : {"undefined"}, role : {"undefined"}]

-----------------------------------------------------------------------------

(* Each part may begin in any of its initial states, the others in one.    *)
PeopleInit ==
  /\ part \in {"assignments", "session", "passwords", "requests"}
  /\ Init /\ LoginInit /\ PasswordsInit /\ AccessInit
  /\ part = "session" \/ twoFactor = FALSE
  /\ part = "passwords" \/ \A h \in Hashes : word[h] = w1
  /\ part = "requests" \/ (ask.controller = "cities" /\ ask.index = 1 /\ ask.user.token = "none")

(* The attempts of a login meet in the count, the lock and the block,      *)
(* which MCBackOffice looks at; here only the session and the tokens       *)
(* matter, and whoever logs in knows the password.                         *)
Knowing == counter' <= 1 /\ strikes' = 0

PeopleNext ==
  /\ \/ part = "assignments" /\ Next /\ UNCHANGED <<loginVars, passwordVars, accessVars>>
     \/ part = "session" /\ LoginNext /\ Knowing /\ UNCHANGED <<vars, passwordVars, accessVars>>
     \/ part = "passwords" /\ PasswordsNext /\ UNCHANGED <<vars, loginVars, accessVars>>
     \/ part = "requests" /\ AccessNext /\ UNCHANGED <<vars, loginVars, passwordVars>>
  /\ UNCHANGED part

peopleVars == <<vars, loginVars, passwordVars, accessVars, part>>

PeopleSpec ==
  PeopleInit /\ [][PeopleNext]_peopleVars /\ Fairness /\ LoginFairness
=============================================================================
