------------------------------ MODULE Endpoints ------------------------------
(***************************************************************************)
(* The handlers of every controller, in the order of its source, with what *)
(* their decorators require.  Controllers are reached by their own prefix. *)
(***************************************************************************)
EXTENDS Naturals, Sequences

Handler(verb, path, needs) == [verb |-> verb, path |-> path, needs |-> needs]

Get(path, needs)   == Handler("GET", path, needs)
Post(path, needs)  == Handler("POST", path, needs)
Patch(path, needs) == Handler("PATCH", path, needs)

Open     == [guards |-> <<>>]
Guard(g) == [guards |-> <<g>>]

Rule(realms, roles) ==
  [guards |-> <<"token", "access">>, realms |-> realms, roles |-> roles, mode |-> "AND"]

(* The rule of most handlers of the back office. *)
Office == Rule({"SYSTEM", "TRANSPORT_COMPANY"}, {"SUPER_ADMIN", "COMPANY_ADMIN"})

AuthHandlers ==
  << Post(<<"login">>, Open),
     Get(<<"me">>, Guard("token")),
     Post(<<"verify-otp">>, Guard("otp")),
     Post(<<"refresh-token">>, Guard("refresh")),
     Post(<<"change-password">>, Guard("token")),
     Post(<<"logout">>, Guard("token")),
     Post(<<"reset-password-request">>, Open),
     Post(<<"confirm-reset-password-request">>, Open) >>

BookingHandlers ==
  << Get(<<"search">>, Open),
     Get(<<"cancellation-policy", ":id">>, Open),
     Get(<<"trip", "detail", ":id">>, Open),
     Get(<<"detail", ":id">>, Open),
     Post(<<"create">>, Open),
     Post(<<"payment-callback">>, Open) >>

BusHandlers ==
  << Get(<<"detail", ":id">>, Office),
     Post(<<"model", "create">>, Office),
     Patch(<<"model", "toggle-status", ":id">>, Office),
     Patch(<<"model", ":id">>, Office),
     Get(<<"paginate">>, Office),
     Get(<<"model", "paginate">>, Office),
     Get(<<"model", ":id">>, Office),
     Post(<<"create">>, Office),
     Patch(<<":id">>, Office),
     Post(<<"duplicate">>, Office),
     Patch(<<"status", ":id">>, Office) >>

PolicyHandlers ==
  << Get(<<"paginate">>, Office),
     Get(<<"detail", ":id">>, Office),
     Post(<<"create">>, Office),
     Patch(<<"edit", ":id">>, Office) >>

(* Mutant: a city by its id, before the creation of one. *)
CityHandlersById ==
  << Get(<<>>, Open),
     Post(<<":id">>, Open),
     Post(<<"create">>, Rule({"SYSTEM", "TRANSPORT_COMPANY"}, {"SUPER_ADMIN"})) >>

CityHandlers ==
  << Get(<<>>, Open),
     Post(<<"create">>, Rule({"SYSTEM", "TRANSPORT_COMPANY"}, {"SUPER_ADMIN"})) >>

DriverHandlers ==
  << Get(<<"paginate">>, Office),
     Get(<<"count">>, Office),
     Get(<<":id">>, Office),
     Post(<<"create">>, Office),
     Get(<<"detail", ":id">>, Office),
     Post(<<"assign-bus", ":id">>, Office),
     Patch(<<"status", ":id">>, Office) >>

RouteHandlers ==
  << Get(<<"paginate">>, Office),
     Get(<<"count">>, Office),
     Get(<<":id">>, Office),
     Post(<<"create">>, Office),
     Patch(<<"status", ":id">>, Office),
     Patch(<<":id">>, Office) >>

(* No guard of this controller reads its decorators. *)
TerminalHandlers ==
  << Get(<<"paginate">>, Open),
     Get(<<"detail", ":id">>, Open),
     Get(<<"city", ":id">>, Open),
     Post(<<"create">>, Open),
     Patch(<<":id">>, Open),
     Patch(<<"status", ":id">>, Open) >>

(* Of two decorators on one handler the upper one is applied last and      *)
(* counts (84 and 107).                                                    *)
CompanyHandlers ==
  << Get(<<>>, Office),
     Get(<<":id">>, Rule({"SYSTEM"}, {"SUPER_ADMIN", "COMPANY_ADMIN"})),
     Patch(<<"update", ":id">>, Rule({"SYSTEM"}, {"SUPER_ADMIN", "COMPANY_ADMIN"})),
     Patch(<<"status", ":id">>, Office),
     Post(<<>>, Office) >>

TripHandlers ==
  << Get(<<"paginate">>, Office),
     Get(<<"busses">>, Office),
     Get(<<":id">>, Office),
     Get(<<"stats">>, Office),
     Post(<<"create">>, Office) >>

HealthHandlers == << Get(<<>>, Open) >>

UserHandlers ==
  << Post(<<"create">>, Office),
     Patch(<<"edit", ":id">>, Office),
     Get(<<"paginate">>, Office),
     Get(<<"count">>, Office),
     Get(<<":id">>, Office),
     Get(<<"phone", ":id">>, Office),
     Patch(<<"status", ":id">>, Office) >>

HandlersOf(controller) ==
  CASE controller = "health"              -> HealthHandlers
    [] controller = "auth"                -> AuthHandlers
    [] controller = "booking"             -> BookingHandlers
    [] controller = "bus"                 -> BusHandlers
    [] controller = "cancellation-policy" -> PolicyHandlers
    [] controller = "cities"              -> CityHandlers
    [] controller = "drivers"             -> DriverHandlers
    [] controller = "routes"              -> RouteHandlers
    [] controller = "terminals"           -> TerminalHandlers
    [] controller = "transport-company"   -> CompanyHandlers
    [] controller = "trip"                -> TripHandlers
    [] controller = "user"                -> UserHandlers
=============================================================================
