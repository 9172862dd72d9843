------------------------------- MODULE Registry -------------------------------
(***************************************************************************)
(* The tables trips and buses are described with: routes                   *)
(* (src/src/route/route.service.ts), bus models, and of buses the plate    *)
(* and the status (src/src/bus/bus.service.ts), terminals                  *)
(* (src/src/terminals/terminals.service.ts) and cities                     *)
(* (src/src/city/city.service.ts).  A call looks for a row that has the    *)
(* same title, or reads the flag it is to turn over, and writes in a       *)
(* statement of its own; calls overlap.  Rows are never deleted.           *)
(***************************************************************************)
EXTENDS FiniteSets

CONSTANTS
  Routes, BusModels, Terminals, Cities, BusIds,  (* the rows there may be  *)
  Titles,    (* what tells rows apart: origin and destination of a route,  *)
             (* name and city of a terminal, region and name of a city,    *)
             (* plate of a bus; of a model the first half only             *)
  Desks,     (* the calls at a time; an id is used again *)
  NoEntry, NoTitle

Entries == Routes \cup BusModels \cup Terminals \cup Cities \cup BusIds

ASSUME RegistryAssumption ==
  /\ NoEntry \notin Entries /\ NoTitle \notin Titles
  /\ Routes \cap BusModels = {}
  /\ (Routes \cup BusModels) \cap (Terminals \cup Cities \cup BusIds) = {}
  /\ Terminals \cap BusIds = {}

VARIABLES
  title,     (* NoTitle without a row *)
  on,        (* isActive, enabled of a model, status of a bus *)
  step,      (* what a call does next *)
  entry,     (* the row it is about *)
  wanted,    (* the title it will write *)
  was,       (* the flag it has read *)
  present,   (* history: the rows that were there when a call looked       *)
  older,     (* history: the same, of the call that inserted a row         *)
  edited,    (* history: rows that were given another title *)
  overtaken  (* history: calls whose row's flag was changed under them     *)

registryVars == <<title, on, step, entry, wanted, was, present, older, edited, overtaken>>

Row(e) == title[e] # NoTitle

Rows == {e \in Entries : Row(e)}

RegistryTypeOK ==
  /\ title \in [Entries -> Titles \cup {NoTitle}]
  /\ on \in [Entries -> BOOLEAN]
  /\ step \in [Desks -> {"idle", "route", "model", "terminal", "flag"}]
  /\ entry \in [Desks -> Entries \cup {NoEntry}]
  /\ wanted \in [Desks -> Titles \cup {NoTitle}]
  /\ was \in [Desks -> BOOLEAN]
  /\ present \in [Desks -> SUBSET Entries]
  /\ older \in [Entries -> SUBSET Entries]
  /\ edited \subseteq Entries /\ overtaken \subseteq Desks

RegistryInit ==
  /\ title = [e \in Entries |-> NoTitle] /\ on = [e \in Entries |-> FALSE]
  /\ step = [d \in Desks |-> "idle"] /\ entry = [d \in Desks |-> NoEntry]
  /\ wanted = [d \in Desks |-> NoTitle] /\ was = [d \in Desks |-> FALSE]
  /\ present = [d \in Desks |-> {}] /\ older = [e \in Entries |-> {}]
  /\ edited = {} /\ overtaken = {}

-----------------------------------------------------------------------------

(* The query of a call that writes later. *)
Look(d, next, e, t, flag) ==
  /\ step[d] = "idle"
  /\ step' = [step EXCEPT ![d] = next]
  /\ entry' = [entry EXCEPT ![d] = e]
  /\ wanted' = [wanted EXCEPT ![d] = t]
  /\ was' = [was EXCEPT ![d] = flag]
  /\ present' = [present EXCEPT ![d] = IF next \in {"route", "model"} THEN Rows ELSE {}]
  /\ UNCHANGED <<title, on, older, edited, overtaken>>

Idle(d) ==
  /\ step' = [step EXCEPT ![d] = "idle"]
  /\ entry' = [entry EXCEPT ![d] = NoEntry]
  /\ wanted' = [wanted EXCEPT ![d] = NoTitle]
  /\ was' = [was EXCEPT ![d] = FALSE]
  /\ present' = [present EXCEPT ![d] = {}]

(* The calls that have read a flag of e other than the one it gets now. *)
Outdated(e, flag) == {d \in Desks : step[d] = "flag" /\ entry[d] = e /\ on[e] # flag}

Add(e, t, flag, rows) ==
  /\ ~ Row(e)
  /\ title' = [title EXCEPT ![e] = t]
  /\ on' = [on EXCEPT ![e] = flag]
  /\ older' = [older EXCEPT ![e] = rows]
  /\ UNCHANGED <<edited, overtaken>>

Quietly == UNCHANGED <<step, entry, wanted, was, present>>

(* A row is given a title and a flag, which may be those that it has. *)
Rewrite(e, t, flag) ==
  /\ Row(e)
  /\ title' = [title EXCEPT ![e] = t]
  /\ on' = [on EXCEPT ![e] = flag]
  /\ edited' = edited \cup {x \in {e} : title[x] # t}
  /\ overtaken' = overtaken \cup Outdated(e, flag)
  /\ UNCHANGED older

Retitle(e, t) == Rewrite(e, t, on[e])

(* Mutant: create looks for nothing. *)
FindRouteAnyway(d, t) == Look(d, "route", NoEntry, t, FALSE)

(* create of a route: any company's route of the pair stands in its way.   *)
FindRoute(d, t) ==
  /\ \A r \in Routes : title[r] # t
  /\ Look(d, "route", NoEntry, t, FALSE)

InsertRoute(d) == step[d] = "route" /\ Idle(d) /\ \E r \in Routes : Add(r, wanted[d], TRUE, present[d])

(* update asks for the row, not for another one of the pair. *)
UpdateRoute(r, t) == Retitle(r, t) /\ Quietly

(* createBusModel and updateBusModel. *)
FindModel(d, t) ==
  /\ \A m \in BusModels : Row(m) => title[m][1] # t[1]
  /\ Look(d, "model", NoEntry, t, FALSE)

(* Nothing checks the body: it may name the flag, and save() writes over   *)
(* the model whose id it names.                                            *)
InsertModel(d) ==
  /\ step[d] = "model" /\ Idle(d)
  /\ \E m \in BusModels, flag \in BOOLEAN :
       Add(m, wanted[d], flag, present[d]) \/ Rewrite(m, wanted[d], flag)

UpdateModel(m, t, flag) == Rewrite(m, t, flag) /\ Quietly

(* create of a terminal does not await its query: the promise is never     *)
(* null, and no name is refused.                                           *)
CreateTerminal(e, t) == Add(e, t, TRUE, {}) /\ Quietly

(* update refuses a name that another city has. *)
FindNamesake(d, e, t) ==
  /\ Row(e)
  /\ \A x \in Terminals \ {e} : Row(x) => ~ (title[x][1] = t[1] /\ title[x][2] # t[2])
  /\ Look(d, "terminal", e, t, FALSE)

UpdateTerminal(d) == step[d] = "terminal" /\ Idle(d) /\ Retitle(entry[d], wanted[d])

(* A unique key stands behind create of a city (region and name) and of a  *)
(* bus (plate), whatever create of a bus has found before.                 *)
CityTaken(t) == \E x \in Cities : title[x] = t

PlateTaken(e, t) == \E x \in BusIds \ {e} : title[x] = t

CreateCity(e, t) == ~ CityTaken(t) /\ Add(e, t, TRUE, {}) /\ Quietly

CreateBus(e, t) == ~ PlateTaken(e, t) /\ Add(e, t, TRUE, {}) /\ Quietly

UpdatePlate(e, t) == ~ PlateTaken(e, t) /\ Retitle(e, t) /\ Quietly

(* toggleBusStatus writes the status it is given. *)
ToggleBus(e, flag) ==
  /\ Row(e)
  /\ on' = [on EXCEPT ![e] = flag]
  /\ UNCHANGED <<title, older, edited, overtaken>> /\ Quietly

(* toggleRouteStatus, toggleBusModelStatus and toggleTerminalStatus read   *)
(* the row and write the opposite of what they have read.                  *)
ReadFlag(d, e) == Row(e) /\ Look(d, "flag", e, NoTitle, on[e])

ToggleRoute(d, e)    == e \in Routes /\ ReadFlag(d, e)
ToggleModel(d, e)    == e \in BusModels /\ ReadFlag(d, e)
ToggleTerminal(d, e) == e \in Terminals /\ ReadFlag(d, e)

(* Mutant: the flag is turned off, whatever it was. *)
TurnOff(d) ==
  /\ step[d] = "flag"
  /\ on' = [on EXCEPT ![entry[d]] = FALSE]
  /\ Idle(d) /\ overtaken' = (overtaken \cup Outdated(entry[d], FALSE)) \ {d}
  /\ UNCHANGED <<title, older, edited>>

WriteFlag(d) ==
  /\ step[d] = "flag"
  /\ on' = [on EXCEPT ![entry[d]] = ~ was[d]]
  /\ Idle(d) /\ overtaken' = (overtaken \cup Outdated(entry[d], ~ was[d])) \ {d}
  /\ UNCHANGED <<title, older, edited>>

(* A statement that fails, or a crash. *)
Abandon(d) ==
  /\ step[d] # "idle"
  /\ Idle(d) /\ overtaken' = overtaken \ {d}
  /\ UNCHANGED <<title, on, older, edited>>

RegistryNext ==
  \/ \E d \in Desks :
       \/ \E t \in Titles : FindRoute(d, t) \/ FindModel(d, t)
       \/ \E e \in Terminals, t \in Titles : FindNamesake(d, e, t)
       \/ \E e \in Entries : ToggleRoute(d, e) \/ ToggleModel(d, e) \/ ToggleTerminal(d, e)
       \/ InsertRoute(d) \/ InsertModel(d) \/ UpdateTerminal(d) \/ WriteFlag(d) \/ Abandon(d)
  \/ \E e \in Routes, t \in Titles : UpdateRoute(e, t)
  \/ \E e \in BusModels, t \in Titles, flag \in BOOLEAN : UpdateModel(e, t, flag)
  \/ \E e \in Terminals, t \in Titles : CreateTerminal(e, t)
  \/ \E e \in Cities, t \in Titles : CreateCity(e, t)
  \/ \E e \in BusIds, t \in Titles : CreateBus(e, t) \/ UpdatePlate(e, t)
  \/ \E e \in BusIds, flag \in BOOLEAN : ToggleBus(e, flag)

RegistrySpec == RegistryInit /\ [][RegistryNext]_registryVars

-----------------------------------------------------------------------------
(*                         what must not happen                            *)

Twins(x, y) ==
  \/ x \in Routes /\ y \in Routes /\ title[x] = title[y]
  \/ x \in BusModels /\ y \in BusModels /\ title[x][1] = title[y][1]

(* "Route already exists", "Bus model ... already exists": no index stands *)
(* behind the query of create, so two routes of a pair or two models of a  *)
(* name come from calls each of which looked before the other had          *)
(* inserted, or from a write over a row, which does not look.              *)
OnlyOverlapsTwin ==
  \A x, y \in Rows \ edited : x # y /\ Twins(x, y) => x \notin older[y]

(* A toggle turns its flag over, unless another call has changed it since  *)
(* it was read: another toggle, or an edit of a model.                     *)
TogglesTurn ==
  [][\A d \in Desks \ overtaken : WriteFlag(d) => on'[entry[d]] # on[entry[d]]]_registryVars

-----------------------------------------------------------------------------
(* The inductive invariant: what a call that is about to insert has seen   *)
(* is still there, and unless it was edited it is no twin of the row.      *)
CallsHold ==
  \A d \in Desks :
    /\ present[d] \subseteq Rows
    /\ step[d] \in {"route", "model", "terminal"} => wanted[d] # NoTitle
    /\ step[d] = "terminal" => entry[d] # NoEntry
    /\ \A x \in present[d] \ edited :
         /\ step[d] = "route" /\ x \in Routes => title[x] # wanted[d]
         /\ step[d] = "model" /\ x \in BusModels => title[x][1] # wanted[d][1]

(* A call that no other has overtaken has read the flag the row has. *)
FlagsHold ==
  \A d \in Desks : step[d] = "flag" =>
    /\ entry[d] \in Entries \ BusIds /\ Row(entry[d])
    /\ d \notin overtaken => was[d] = on[entry[d]]

RegistryInv ==
  /\ RegistryTypeOK
  /\ CallsHold
  /\ FlagsHold
  /\ \A e \in Entries : older[e] \subseteq Rows /\ (e \in edited => Row(e))
  /\ OnlyOverlapsTwin
=============================================================================
