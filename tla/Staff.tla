-------------------------------- MODULE Staff --------------------------------
(***************************************************************************)
(* Companies, their people and their drivers: create and updateStatus of   *)
(* transport-company.service.ts, createUser, updateateUser and             *)
(* updateUserStatus of user.service.ts, createDriver of driver.service.ts. *)
(*                                                                         *)
(* Calls overlap.  A statement sees what is committed; a row that a        *)
(* transaction has inserted or updated is held until its end, and an       *)
(* INSERT under the same unique key, or an UPDATE, waits for it.           *)
(***************************************************************************)
EXTENDS FiniteSets

CONSTANTS
  Names,      (* companies, by name and licence number, both unique *)
  People,     (* ids of user rows *)
  Phones,     (* the phone of a user is unique *)
  Offices,    (* the calls at a time; an id is used again *)
  NoName, NoPerson, NoPhone, NoOffice

ASSUME StaffAssumption ==
  /\ NoName \notin Names /\ NoPerson \notin People /\ NoPhone \notin Phones
  /\ NoOffice \notin Offices
  /\ Names \cap (People \cup Phones) = {} /\ People \cap Phones = {}

VARIABLES
  companyStatus,  (* "absent", or the status of its row *)
  job,        (* user.role, "absent" without a row *)
  contact,    (* user.phone *)
  userOn,     (* user.enabled *)
  employer,   (* user.companyId *)
  driverOf,   (* the company of the driver's row, NoName without one    *)
  held,       (* the call whose transaction holds the row or the key       *)
  doing,      (* what a call does next *)
  name,       (* the company of a body, or of the caller, who may have none *)
  joins,      (* the company createDriver has found *)
  person,     (* the user a call is about *)
  phone,      (* the phone of a body *)
  seen,       (* the status updateUserStatus has read *)
  founded,    (* history: the company an account was created with *)
  stale       (* history: calls that had read a row before it changed      *)

rows  == <<companyStatus, job, contact, userOn, employer, driverOf>>
doings == <<doing, name, joins, person, phone, seen>>

staffVars == <<rows, held, doings, founded, stale>>

Jobs == {"admin", "staff", "driver"}

Tasks ==
  {"idle", "company", "admin", "commit company", "user", "find user",
   "find company", "role", "driver", "commit driver", "toggle"}

StaffTypeOK ==
  /\ companyStatus \in [Names -> {"absent", "PENDING", "ACTIVE"}]
  /\ job \in [People -> Jobs \cup {"absent"}]
  /\ contact \in [People -> Phones \cup {NoPhone}]
  /\ userOn \in [People -> BOOLEAN]
  /\ employer \in [People -> Names \cup {NoName}]
  /\ driverOf \in [People -> Names \cup {NoName}]
  /\ held \in [Names \cup People \cup Phones -> Offices \cup {NoOffice}]
  /\ doing \in [Offices -> Tasks]
  /\ name \in [Offices -> Names \cup {NoName}]
  /\ joins \in [Offices -> Names \cup {NoName}]
  /\ person \in [Offices -> People \cup {NoPerson}]
  /\ phone \in [Offices -> Phones \cup {NoPhone}]
  /\ seen \in [Offices -> BOOLEAN]
  /\ founded \in [People -> Names \cup {NoName}]
  /\ stale \subseteq Offices

StaffInit ==
  /\ companyStatus = [n \in Names |-> "absent"]
  /\ job = [p \in People |-> "absent"]
  /\ contact = [p \in People |-> NoPhone]
  /\ userOn = [p \in People |-> FALSE]
  /\ employer = [p \in People |-> NoName]
  /\ driverOf = [p \in People |-> NoName]
  /\ held = [k \in Names \cup People \cup Phones |-> NoOffice]
  /\ doing = [o \in Offices |-> "idle"]
  /\ name = [o \in Offices |-> NoName]
  /\ joins = [o \in Offices |-> NoName]
  /\ person = [o \in Offices |-> NoPerson]
  /\ phone = [o \in Offices |-> NoPhone]
  /\ seen = [o \in Offices |-> FALSE]
  /\ founded = [p \in People |-> NoName] /\ stale = {}

-----------------------------------------------------------------------------

Ask(o, task, n, p, f) ==
  /\ doing[o] = "idle"
  /\ doing' = [doing EXCEPT ![o] = task]
  /\ name' = [name EXCEPT ![o] = n]
  /\ person' = [person EXCEPT ![o] = p]
  /\ phone' = [phone EXCEPT ![o] = f]
  /\ UNCHANGED <<rows, held, joins, founded, stale>>

GoOn(o, from, to) ==
  /\ doing[o] = from
  /\ doing' = [doing EXCEPT ![o] = to]
  /\ UNCHANGED <<name, phone, seen>>

(* The end of a call and of its transaction. *)
End(o) ==
  /\ doing' = [doing EXCEPT ![o] = "idle"]
  /\ name' = [name EXCEPT ![o] = NoName]
  /\ joins' = [joins EXCEPT ![o] = NoName]
  /\ person' = [person EXCEPT ![o] = NoPerson]
  /\ phone' = [phone EXCEPT ![o] = NoPhone]
  /\ seen' = [seen EXCEPT ![o] = FALSE]
  /\ held' = [k \in DOMAIN held |-> IF held[k] = o THEN NoOffice ELSE held[k]]

Hold(o, ks) ==
  /\ \A k \in ks : held[k] = NoOffice
  /\ held' = [k \in DOMAIN held |-> IF k \in ks THEN o ELSE held[k]]

(* A user row other than p's has the phone. *)
Taken(f, p) == \E q \in People \ {p} : contact[q] = f

IsUser(p) == job[p] # "absent"

IsCompany(n) == companyStatus[n] # "absent"

(* create of a company: the name and the licence number are looked up,     *)
(* then one transaction inserts the company and its administrator.  The    *)
(* password is on its way before the commit.                               *)
AskCompany(o, n, f) ==
  ~ IsCompany(n) /\ Ask(o, "company", n, NoPerson, f) /\ UNCHANGED seen

(* Mutant: the company is saved outside the transaction. *)
InsertCompanyAlone(o) ==
  /\ GoOn(o, "company", "admin")
  /\ ~ IsCompany(name[o]) /\ Hold(o, {name[o]})
  /\ companyStatus' = [companyStatus EXCEPT ![name[o]] = "PENDING"]
  /\ UNCHANGED <<job, contact, userOn, employer, driverOf, joins, person, founded, stale>>

(* Mutant: neither the name nor the licence number is unique. *)
InsertCompanyTwice(o) ==
  /\ GoOn(o, "company", "admin")
  /\ UNCHANGED <<rows, held, joins, person, founded, stale>>

InsertCompany(o) ==
  /\ GoOn(o, "company", "admin")
  /\ ~ IsCompany(name[o]) /\ Hold(o, {name[o]})
  /\ UNCHANGED <<rows, joins, person, founded, stale>>

(* A new row: an id that no other call has, and a phone that nobody has.   *)
NewUser(o, p) == ~ IsUser(p) /\ held[p] = NoOffice /\ ~ Taken(phone[o], p)

InsertAdmin(o) ==
  /\ GoOn(o, "admin", "commit company")
  /\ \E p \in People :
       NewUser(o, p) /\ Hold(o, {p, phone[o]}) /\ person' = [person EXCEPT ![o] = p]
  /\ UNCHANGED <<rows, joins, founded, stale>>

(* The administrator's companyId is that of a company without an id yet    *)
(* (134), and the account waits to be enabled.                             *)
CommitCompany(o) ==
  /\ doing[o] = "commit company"
  /\ companyStatus' = [companyStatus EXCEPT ![name[o]] = "PENDING"]
  /\ job' = [job EXCEPT ![person[o]] = "admin"]
  /\ contact' = [contact EXCEPT ![person[o]] = phone[o]]
  /\ founded' = [founded EXCEPT ![person[o]] = name[o]]
  /\ End(o) /\ stale' = stale \ {o}
  /\ UNCHANGED <<userOn, employer, driverOf>>

SetCompanyStatus(n, status) ==
  /\ IsCompany(n) /\ held[n] = NoOffice
  /\ companyStatus' = [companyStatus EXCEPT ![n] = status]
  /\ stale' = stale \cup {o \in Offices : joins[o] = n}
  /\ UNCHANGED <<job, contact, userOn, employer, driverOf, held, doings, founded>>

(* createUser: the phone is looked up, the row inserted, and then the      *)
(* password sent, of which no row tells.                                   *)
AskUser(o, n, f) ==
  /\ ~ Taken(f, NoPerson) /\ n \in {NoName} \cup {m \in Names : IsCompany(m)}
  /\ Ask(o, "user", n, NoPerson, f) /\ UNCHANGED seen

InsertUser(o) ==
  /\ doing[o] = "user"
  /\ \E p \in People, role \in Jobs :
       /\ NewUser(o, p) /\ held[phone[o]] = NoOffice
       /\ job' = [job EXCEPT ![p] = role]
       /\ contact' = [contact EXCEPT ![p] = phone[o]]
       /\ userOn' = [userOn EXCEPT ![p] = TRUE]
       /\ employer' = [employer EXCEPT ![p] = name[o]]
  /\ End(o) /\ stale' = stale \ {o}
  /\ UNCHANGED <<companyStatus, driverOf, founded>>

(* updateateUser looks up the id of the path and updates that of the body, *)
(* to the role and the phone of the body.                                  *)
EditUser(p, q, role, f) ==
  /\ IsUser(p) /\ IsUser(q) /\ held[q] = NoOffice
  /\ ~ Taken(f, q) /\ held[f] = NoOffice
  /\ job' = [job EXCEPT ![q] = role]
  /\ contact' = [contact EXCEPT ![q] = f]
  /\ UNCHANGED <<companyStatus, userOn, employer, driverOf, held, doings, founded, stale>>

(* updateUserStatus. *)
ReadStatus(o, p) ==
  /\ IsUser(p)
  /\ Ask(o, "toggle", NoName, p, NoPhone)
  /\ seen' = [seen EXCEPT ![o] = userOn[p]]

(* The calls that have read the status of p and have yet to write.         *)
Readers(p) ==
  {o \in Offices :
     person[o] = p /\ doing[o] \in {"find company", "role", "driver", "commit driver", "toggle"}}

WriteStatus(o) ==
  /\ doing[o] = "toggle" /\ held[person[o]] = NoOffice
  /\ userOn' = [userOn EXCEPT ![person[o]] = ~ seen[o]]
  /\ End(o) /\ stale' = (stale \cup Readers(person[o])) \ {o}
  /\ UNCHANGED <<companyStatus, job, contact, employer, driverOf, founded>>

(* createDriver: no driver of the caller's company yet, an enabled user of *)
(* it and an active company, each looked up for itself.  A caller may have *)
(* no company (NoName): the conditions on it are left out then, and any    *)
(* active company is found.                                                *)
FindDriver(o, n, p) ==
  /\ IF n = NoName THEN driverOf[p] = NoName ELSE driverOf[p] # n
  /\ Ask(o, "find user", n, p, NoPhone) /\ UNCHANGED seen

Read(o, from, to) ==
  GoOn(o, from, to) /\ UNCHANGED <<rows, held, joins, person, founded, stale>>

(* Mutant: the user may be disabled. *)
FindAnyUser(o) ==
  /\ Read(o, "find user", "find company")
  /\ IsUser(person[o]) /\ name[o] \in {NoName, employer[person[o]]}

FindUser(o) ==
  /\ Read(o, "find user", "find company")
  /\ IsUser(person[o]) /\ userOn[person[o]] /\ name[o] \in {NoName, employer[person[o]]}

FindCompany(o) ==
  /\ GoOn(o, "find company", "role")
  /\ \E n \in Names :
       /\ companyStatus[n] = "ACTIVE" /\ name[o] \in {NoName, n}
       /\ joins' = [joins EXCEPT ![o] = n]
  /\ UNCHANGED <<rows, held, person, founded, stale>>

(* Mutant: the role is written outside the transaction. *)
SetRoleAlone(o) ==
  /\ GoOn(o, "role", "driver") /\ Hold(o, {person[o]})
  /\ job' = [job EXCEPT ![person[o]] = "driver"]
  /\ UNCHANGED <<companyStatus, contact, userOn, employer, driverOf, joins, person, founded, stale>>

(* One transaction changes the role and inserts the driver. *)
SetRole(o) ==
  /\ GoOn(o, "role", "driver") /\ Hold(o, {person[o]})
  /\ UNCHANGED <<rows, joins, person, founded, stale>>

(* One driver per user, whatever the company.                              *)
InsertDriver(o) ==
  Read(o, "driver", "commit driver") /\ driverOf[person[o]] = NoName

CommitDriver(o) ==
  /\ doing[o] = "commit driver"
  /\ job' = [job EXCEPT ![person[o]] = "driver"]
  /\ driverOf' = [driverOf EXCEPT ![person[o]] = joins[o]]
  /\ End(o) /\ stale' = stale \ {o}
  /\ UNCHANGED <<companyStatus, contact, userOn, employer, founded>>

(* A lookup that refuses, a unique key that is taken, an error or a crash. *)
GiveUp(o) ==
  /\ doing[o] # "idle"
  /\ End(o) /\ stale' = stale \ {o}
  /\ UNCHANGED <<rows, founded>>

StaffNext ==
  \/ \E o \in Offices :
       \/ \E n \in Names, f \in Phones : AskCompany(o, n, f)
       \/ \E n \in Names \cup {NoName}, f \in Phones : AskUser(o, n, f)
       \/ \E n \in Names \cup {NoName}, p \in People : FindDriver(o, n, p)
       \/ \E p \in People : ReadStatus(o, p)
       \/ InsertCompany(o) \/ InsertAdmin(o) \/ CommitCompany(o)
       \/ InsertUser(o) \/ WriteStatus(o)
       \/ FindUser(o) \/ FindCompany(o) \/ SetRole(o) \/ InsertDriver(o) \/ CommitDriver(o)
       \/ GiveUp(o)
  \/ \E n \in Names, status \in {"PENDING", "ACTIVE"} : SetCompanyStatus(n, status)
  \/ \E p, q \in People, role \in Jobs, f \in Phones : EditUser(p, q, role, f)

StaffSpec == StaffInit /\ [][StaffNext]_staffVars

-----------------------------------------------------------------------------
(*                         what must not happen                            *)

(* Wherever create stops and however calls of it overlap, a company has    *)
(* the account that was created with it, and no other such account, and    *)
(* the account has its company.                                            *)
FoundedTogether ==
  /\ \A n \in Names : IsCompany(n) => \E p \in People : founded[p] = n
  /\ \A p \in People : founded[p] # NoName => IsCompany(founded[p]) /\ IsUser(p)
  /\ \A p, q \in People : founded[p] # NoName /\ founded[p] = founded[q] => p = q

(* The inductive invariant: the rows a call is about to commit, or to      *)
(* change, are its own until then, and what it saw of them still holds.    *)
CallHolds(o) ==
  /\ doing[o] \in {"company", "admin", "commit company"} => name[o] \in Names
  /\ doing[o] \in {"company", "admin", "commit company", "user"} => phone[o] \in Phones
  /\ doing[o] \in {"admin", "commit company"} =>
       held[name[o]] = o /\ ~ IsCompany(name[o])
  /\ doing[o] = "commit company" =>
       /\ person[o] \in People
       /\ held[person[o]] = o /\ ~ IsUser(person[o])
       /\ held[phone[o]] = o /\ ~ Taken(phone[o], person[o])
  /\ doing[o] \in {"find user", "find company", "role", "driver", "commit driver", "toggle"} =>
       person[o] \in People
  /\ doing[o] \in {"find company", "role", "driver", "commit driver", "toggle"} =>
       IsUser(person[o])
  /\ doing[o] \in {"role", "driver", "commit driver"} => joins[o] \in Names
  /\ doing[o] \in {"driver", "commit driver"} => held[person[o]] = o
  /\ doing[o] = "commit driver" => driverOf[person[o]] = NoName

CommitsHold == \A o \in Offices : CallHolds(o)

(* What a call has looked up, and locks nothing of.                        *)
LookupHolds(o) ==
  /\ doing[o] \in {"find company", "role", "driver", "commit driver"} =>
       userOn[person[o]] /\ name[o] \in {NoName, employer[person[o]]}
  /\ doing[o] \in {"role", "driver", "commit driver"} =>
       companyStatus[joins[o]] = "ACTIVE" /\ name[o] \in {NoName, joins[o]}
  /\ doing[o] = "toggle" => seen[o] = userOn[person[o]]

LookupsHold == \A o \in Offices \ stale : LookupHolds(o)

(* Accounts have their phones to themselves: the key behind the lookups.   *)
PhonesDiffer ==
  \A p, q \in People : IsUser(p) => contact[p] # NoPhone /\ (contact[p] = contact[q] => p = q)

StaffInv == StaffTypeOK /\ CommitsHold /\ PhonesDiffer /\ FoundedTogether /\ LookupsHold

(* Nobody gets the row of a driver without the role, and nobody is made a  *)
(* driver by createDriver without the row, wherever it stops: both appear  *)
(* in one step.                                                            *)
DriverWithRole ==
  [][/\ \A p \in People : driverOf'[p] # driverOf[p] =>
          driverOf[p] = NoName /\ job'[p] = "driver"
     /\ \A o \in Offices :
          doing[o] \in {"role", "driver", "commit driver"} /\ doing'[o] # doing[o]
            /\ job'[person[o]] # job[person[o]] => driverOf'[person[o]] = joins[o]]_staffVars

(* What a call has looked up still holds when it writes, unless the status *)
(* it has read was written under it: the company of a driver is active,    *)
(* the user is enabled, and is of that company when the caller has one;    *)
(* and updateUserStatus turns a status over.                               *)
ActsOnWhatHolds ==
  [][\A o \in Offices \ stale :
       /\ CommitDriver(o) =>
            /\ companyStatus[joins[o]] = "ACTIVE" /\ userOn[person[o]]
            /\ name[o] # NoName => employer[person[o]] = joins[o]
       /\ WriteStatus(o) => userOn'[person[o]] # userOn[person[o]]]_staffVars
=============================================================================
