------------------------------ MODULE StaffProofs ------------------------------
(***************************************************************************)
(* For any number of companies, people and calls: a company is there with  *)
(* the account that was created with it, a driver with the role of one,    *)
(* and what createDriver has looked up is so when it commits, wherever     *)
(* calls overlap and stop.                                                 *)
(***************************************************************************)
EXTENDS Staff, TLAPS

(* The part of the invariant that lookups have no share in. *)
CommitsInv == StaffTypeOK /\ CommitsHold /\ PhonesDiffer /\ FoundedTogether

LEMMA NullsApart ==
  /\ \A n \in Names : n # NoName /\ n \notin People /\ n \notin Phones
  /\ \A p \in People : p # NoPerson /\ p \notin Names /\ p \notin Phones
  /\ \A f \in Phones : f # NoPhone /\ f \notin Names /\ f \notin People
  /\ \A o \in Offices : o # NoOffice
  BY StaffAssumption

LEMMA StaffBegins == StaffInit => CommitsInv
<1>. SUFFICES ASSUME StaffInit PROVE CommitsInv
  OBVIOUS
<1>1. StaffTypeOK
  BY DEF StaffInit, StaffTypeOK, Jobs, Tasks
<1>2. CommitsHold
  BY DEF StaffInit, CommitsHold, CallHolds
<1>3. PhonesDiffer /\ FoundedTogether
  BY NullsApart DEF StaffInit, PhonesDiffer, FoundedTogether, IsUser, IsCompany
<1>. QED
  BY <1>1, <1>2, <1>3 DEF CommitsInv

(* The committed rows stay as they are. *)
LEMMA CommittedStays ==
  ASSUME PhonesDiffer, FoundedTogether, UNCHANGED <<companyStatus, job, contact, founded>>
  PROVE  PhonesDiffer' /\ FoundedTogether'
  BY DEF PhonesDiffer, FoundedTogether, IsUser, IsCompany

(* What a call relies on is its own: others leave it as it is.             *)
LEMMA OthersHold ==
  ASSUME CommitsInv, NEW x \in Offices,
         doing'[x] = doing[x], name'[x] = name[x], joins'[x] = joins[x],
         person'[x] = person[x], phone'[x] = phone[x],
         \A k \in Names \cup People \cup Phones : held[k] = x => held'[k] = x,
         \A n \in Names : held[n] = x /\ ~ IsCompany(n) => ~ IsCompany(n)',
         \A p \in People : held[p] = x =>
           (~ IsUser(p) => ~ IsUser(p)') /\ driverOf'[p] = driverOf[p],
         \A p \in People : IsUser(p) => IsUser(p)',
         \A f \in Phones, q \in People : held[f] = x /\ contact'[q] = f => contact[q] = f
  PROVE  CallHolds(x)'
<1>1. CallHolds(x)
  BY DEF CommitsInv, CommitsHold
<1>2. doing[x] \in {"admin", "commit company"} =>
        held'[name[x]] = x /\ ~ IsCompany(name[x])'
  BY <1>1 DEF CallHolds, IsCompany
<1>3. doing[x] = "commit company" =>
        /\ held'[person[x]] = x /\ ~ IsUser(person[x])'
        /\ held'[phone[x]] = x /\ \A q \in People \ {person[x]} : contact'[q] # phone[x]
  BY <1>1 DEF CallHolds, Taken, IsUser
<1>4. /\ doing[x] \in {"find company", "role", "driver", "commit driver", "toggle"} =>
           IsUser(person[x])'
      /\ doing[x] \in {"driver", "commit driver"} => held'[person[x]] = x
      /\ doing[x] = "commit driver" => driverOf'[person[x]] = NoName
  BY <1>1 DEF CallHolds, IsUser
<1>. QED
  BY <1>1, <1>2, <1>3, <1>4 DEF CallHolds, IsUser, IsCompany, Taken

(* A call begins. *)
LEMMA AskKeeps ==
  ASSUME CommitsInv, NEW o \in Offices,
         NEW n \in Names \cup {NoName}, NEW p \in People \cup {NoPerson},
         NEW f \in Phones \cup {NoPhone},
         NEW task \in {"company", "user", "find user", "toggle"},
         task = "company" => n \in Names,
         task \in {"company", "user"} => f \in Phones,
         task \in {"find user", "toggle"} => p \in People,
         task = "toggle" => IsUser(p),
         Ask(o, task, n, p, f), seen' \in [Offices -> BOOLEAN]
  PROVE  CommitsInv'
<1>. USE DEF CommitsInv
<1>1. /\ doing' = [doing EXCEPT ![o] = task]
      /\ name' = [name EXCEPT ![o] = n] /\ person' = [person EXCEPT ![o] = p]
      /\ phone' = [phone EXCEPT ![o] = f]
      /\ UNCHANGED <<companyStatus, job, contact, userOn, employer, driverOf, held, joins, founded,
                     stale>>
  BY DEF Ask, rows
<1>2. StaffTypeOK'
  BY <1>1 DEF StaffTypeOK, Tasks
<1>3. ASSUME NEW x \in Offices PROVE CallHolds(x)'
  <2>1. CASE x = o
    BY <1>1, <2>1 DEF StaffTypeOK, CallHolds, IsUser
  <2>2. CASE x # o
    <3>1. /\ doing'[x] = doing[x] /\ name'[x] = name[x] /\ joins'[x] = joins[x]
          /\ person'[x] = person[x] /\ phone'[x] = phone[x]
      BY <1>1, <2>2 DEF StaffTypeOK
    <3>. QED
      BY <1>1, <3>1, OthersHold DEF IsUser, IsCompany
  <2>. QED
    BY <2>1, <2>2
<1>. QED
  BY <1>1, <1>2, <1>3, CommittedStays DEF CommitsHold

(* A call goes on, and may lock what nobody else holds. *)
LEMMA GoOnKeeps ==
  ASSUME CommitsInv, NEW o \in Offices,
         \/ InsertCompany(o) \/ InsertAdmin(o) \/ FindUser(o) \/ FindCompany(o) \/ SetRole(o)
         \/ InsertDriver(o)
  PROVE  CommitsInv'
<1>. USE DEF CommitsInv
<1>1. /\ UNCHANGED <<companyStatus, job, contact, userOn, employer, driverOf>>
      /\ UNCHANGED <<name, phone, seen, founded, stale>>
  BY DEF InsertCompany, InsertAdmin, FindUser, FindCompany, SetRole, InsertDriver, Read, GoOn, rows
<1>2. \E task \in Tasks : doing' = [doing EXCEPT ![o] = task]
  BY DEF InsertCompany, InsertAdmin, FindUser, FindCompany, SetRole, InsertDriver, Read, GoOn, Tasks
<1>3. CallHolds(o) /\ StaffTypeOK
  BY DEF CommitsHold
<1>4. \E ks \in SUBSET (Names \cup People \cup Phones) :
        /\ \A k \in ks : held[k] = NoOffice
        /\ held' = [k \in Names \cup People \cup Phones |-> IF k \in ks THEN o ELSE held[k]]
  <2>1. CASE FindUser(o) \/ FindCompany(o) \/ InsertDriver(o)
    <3>1. held' = [k \in Names \cup People \cup Phones |-> IF k \in {} THEN o ELSE held[k]]
      BY <1>3, <2>1 DEF FindUser, FindCompany, InsertDriver, Read, StaffTypeOK
    <3>. WITNESS {} \in SUBSET (Names \cup People \cup Phones)
    <3>. QED
      BY <3>1
  <2>2. CASE InsertCompany(o)
    <3>1. name[o] \in Names /\ Hold(o, {name[o]})
      BY <1>3, <2>2 DEF InsertCompany, GoOn, CallHolds
    <3>. QED
      BY <1>3, <3>1 DEF Hold, StaffTypeOK
  <2>3. CASE InsertAdmin(o)
    <3>1. PICK p \in People : Hold(o, {p, phone[o]})
      BY <2>3 DEF InsertAdmin
    <3>2. phone[o] \in Phones
      BY <1>3, <2>3 DEF InsertAdmin, GoOn, CallHolds
    <3>. QED
      BY <1>3, <3>1, <3>2 DEF Hold, StaffTypeOK
  <2>4. CASE SetRole(o)
    <3>1. person[o] \in People /\ Hold(o, {person[o]})
      BY <1>3, <2>4 DEF SetRole, GoOn, CallHolds
    <3>. QED
      BY <1>3, <3>1 DEF Hold, StaffTypeOK
  <2>. QED
    BY <2>1, <2>2, <2>3, <2>4
<1>5. /\ joins' \in [Offices -> Names \cup {NoName}]
      /\ person' \in [Offices -> People \cup {NoPerson}]
      /\ \A x \in Offices \ {o} : joins'[x] = joins[x] /\ person'[x] = person[x]
  <2>1. CASE InsertCompany(o) \/ FindUser(o) \/ SetRole(o) \/ InsertDriver(o)
    BY <1>3, <2>1 DEF InsertCompany, FindUser, SetRole, InsertDriver, Read, StaffTypeOK
  <2>2. CASE InsertAdmin(o)
    BY <1>3, <2>2 DEF InsertAdmin, StaffTypeOK
  <2>3. CASE FindCompany(o)
    BY <1>3, <2>3 DEF FindCompany, StaffTypeOK
  <2>. QED
    BY <2>1, <2>2, <2>3
<1>6. held' \in [Names \cup People \cup Phones -> Offices \cup {NoOffice}]
  <2>1. PICK ks \in SUBSET (Names \cup People \cup Phones) :
          held' = [k \in Names \cup People \cup Phones |-> IF k \in ks THEN o ELSE held[k]]
    BY <1>4
  <2>. QED
    BY <1>3, <2>1 DEF StaffTypeOK
<1>7. StaffTypeOK'
  <2>1. doing' \in [Offices -> Tasks]
    BY <1>2, <1>3 DEF StaffTypeOK
  <2>. QED
    BY <1>1, <1>3, <1>5, <1>6, <2>1 DEF StaffTypeOK
<1>8. ASSUME NEW x \in Offices \ {o} PROVE CallHolds(x)'
  <2>1. /\ doing'[x] = doing[x] /\ name'[x] = name[x] /\ joins'[x] = joins[x]
        /\ person'[x] = person[x] /\ phone'[x] = phone[x]
    BY <1>1, <1>2, <1>3, <1>5, <1>8 DEF StaffTypeOK
  <2>2. \A k \in Names \cup People \cup Phones : held[k] = x => held'[k] = x
    BY <1>4, <1>8, NullsApart
  <2>. QED
    BY <1>1, <2>1, <2>2, OthersHold DEF IsUser, IsCompany
<1>9. CallHolds(o)'
  <2>1. CASE InsertCompany(o)
    <3>1. /\ doing'[o] = "admin" /\ name[o] \in Names /\ phone[o] \in Phones
          /\ ~ IsCompany(name[o]) /\ held'[name[o]] = o
      BY <1>3, <2>1 DEF InsertCompany, GoOn, Hold, StaffTypeOK, CallHolds
    <3>. QED
      BY <1>1, <3>1 DEF CallHolds, IsCompany
  <2>2. CASE InsertAdmin(o)
    <3>1. PICK p \in People : NewUser(o, p) /\ Hold(o, {p, phone[o]})
                              /\ person' = [person EXCEPT ![o] = p]
      BY <2>2 DEF InsertAdmin
    <3>2. /\ doing[o] = "admin" /\ doing'[o] = "commit company"
          /\ name[o] \in Names /\ phone[o] \in Phones
          /\ ~ IsCompany(name[o]) /\ held[name[o]] = o
      BY <1>3, <2>2 DEF InsertAdmin, GoOn, StaffTypeOK, CallHolds
    <3>3. /\ person'[o] = p /\ held'[p] = o /\ held'[phone[o]] = o /\ held'[name[o]] = o
      BY <1>3, <3>1, <3>2, NullsApart DEF Hold, StaffTypeOK
    <3>4. ~ IsUser(p) /\ ~ Taken(phone[o], p)
      BY <3>1 DEF NewUser
    <3>5. ~ IsUser(p)' /\ \A q \in People \ {p} : contact'[q] # phone'[o]
      BY <1>1, <3>4 DEF IsUser, Taken
    <3>. QED
      BY <1>1, <3>2, <3>3, <3>5 DEF CallHolds, IsCompany, IsUser, Taken
  <2>3. CASE FindUser(o) \/ InsertDriver(o)
    BY <1>1, <1>3, <2>3
    DEF FindUser, InsertDriver, Read, GoOn, StaffTypeOK, CallHolds, IsUser
  <2>4. CASE FindCompany(o)
    BY <1>1, <1>3, <2>4 DEF FindCompany, GoOn, StaffTypeOK, CallHolds, IsUser
  <2>5. CASE SetRole(o)
    <3>1. /\ doing'[o] = "driver" /\ person'[o] = person[o] /\ person[o] \in People
          /\ IsUser(person[o]) /\ joins'[o] \in Names /\ held'[person[o]] = o
      BY <1>3, <2>5 DEF SetRole, GoOn, Hold, StaffTypeOK, CallHolds
    <3>. QED
      BY <1>1, <3>1 DEF CallHolds, IsUser
  <2>. QED
    BY <2>1, <2>2, <2>3, <2>4, <2>5
<1>. QED
  BY <1>1, <1>7, <1>8, <1>9, CommittedStays DEF CommitsHold

(* A call ends, and lets go of what it holds. *)
LEMMA EndsAlone ==
  ASSUME CommitsInv, NEW o \in Offices, End(o)
  PROVE  /\ doing' \in [Offices -> Tasks] /\ name' \in [Offices -> Names \cup {NoName}]
         /\ joins' \in [Offices -> Names \cup {NoName}]
         /\ person' \in [Offices -> People \cup {NoPerson}]
         /\ phone' \in [Offices -> Phones \cup {NoPhone}] /\ seen' \in [Offices -> BOOLEAN]
         /\ held' \in [Names \cup People \cup Phones -> Offices \cup {NoOffice}]
         /\ CallHolds(o)' /\ doing'[o] = "idle"
         /\ \A x \in Offices \ {o} :
              /\ doing'[x] = doing[x] /\ name'[x] = name[x] /\ joins'[x] = joins[x]
              /\ person'[x] = person[x] /\ phone'[x] = phone[x] /\ seen'[x] = seen[x]
              /\ \A k \in Names \cup People \cup Phones : held[k] = x => held'[k] = x
<1>1. StaffTypeOK
  BY DEF CommitsInv
<1>2. /\ doing' \in [Offices -> Tasks] /\ name' \in [Offices -> Names \cup {NoName}]
      /\ joins' \in [Offices -> Names \cup {NoName}]
      /\ person' \in [Offices -> People \cup {NoPerson}]
      /\ phone' \in [Offices -> Phones \cup {NoPhone}] /\ seen' \in [Offices -> BOOLEAN]
      /\ held' \in [Names \cup People \cup Phones -> Offices \cup {NoOffice}]
      /\ doing'[o] = "idle"
  BY <1>1 DEF End, StaffTypeOK, Tasks
<1>3. CallHolds(o)'
  BY <1>2 DEF CallHolds
<1>4. ASSUME NEW x \in Offices \ {o}
      PROVE  /\ doing'[x] = doing[x] /\ name'[x] = name[x] /\ joins'[x] = joins[x]
             /\ person'[x] = person[x] /\ phone'[x] = phone[x] /\ seen'[x] = seen[x]
             /\ \A k \in Names \cup People \cup Phones : held[k] = x => held'[k] = x
  BY <1>1 DEF End, StaffTypeOK
<1>. QED
  BY <1>2, <1>3, <1>4

LEMMA EndKeeps ==
  ASSUME CommitsInv, NEW o \in Offices, GiveUp(o) \/ WriteStatus(o)
  PROVE  CommitsInv'
<1>. USE DEF CommitsInv
<1>1. /\ End(o) /\ UNCHANGED <<companyStatus, job, contact, employer, driverOf, founded>>
  BY DEF GiveUp, WriteStatus, rows
<1>2. stale' \subseteq Offices /\ userOn' \in [People -> BOOLEAN]
  BY DEF GiveUp, WriteStatus, rows, Readers, StaffTypeOK
<1>3. StaffTypeOK'
  BY <1>1, <1>2, EndsAlone DEF StaffTypeOK
<1>4. ASSUME NEW x \in Offices PROVE CallHolds(x)'
  BY <1>1, EndsAlone, OthersHold DEF IsUser, IsCompany
<1>. QED
  BY <1>1, <1>3, <1>4, CommittedStays DEF CommitsHold

(* The company and its administrator appear in one step, and the phone and *)
(* the name were nobody's.                                                 *)
LEMMA CommitCompanyKeeps ==
  ASSUME CommitsInv, NEW o \in Offices, CommitCompany(o)
  PROVE  CommitsInv'
<1>. USE DEF CommitsInv
<1>. DEFINE n == name[o]
            p == person[o]
            f == phone[o]
<1>1. /\ End(o) /\ n \in Names /\ p \in People /\ f \in Phones
      /\ held[n] = o /\ ~ IsCompany(n)
      /\ held[p] = o /\ ~ IsUser(p)
      /\ held[f] = o /\ ~ Taken(f, p)
  BY DEF CommitCompany, CommitsHold, CallHolds
<1>2. /\ companyStatus' = [companyStatus EXCEPT ![n] = "PENDING"]
      /\ job' = [job EXCEPT ![p] = "admin"]
      /\ contact' = [contact EXCEPT ![p] = f]
      /\ founded' = [founded EXCEPT ![p] = n]
      /\ UNCHANGED <<userOn, employer, driverOf>>
      /\ stale' \subseteq Offices
  BY DEF CommitCompany, StaffTypeOK
<1>. HIDE DEF n, p, f
<1>3. StaffTypeOK'
  BY <1>1, <1>2, EndsAlone DEF StaffTypeOK, Jobs
<1>4. /\ companyStatus'[n] = "PENDING" /\ founded'[p] = n /\ job'[p] = "admin" /\ contact'[p] = f
      /\ \A m \in Names \ {n} : companyStatus'[m] = companyStatus[m]
      /\ \A q \in People \ {p} :
           founded'[q] = founded[q] /\ job'[q] = job[q] /\ contact'[q] = contact[q]
  BY <1>1, <1>2 DEF StaffTypeOK
<1>5. ASSUME NEW x \in Offices \ {o} PROVE CallHolds(x)'
  <2>1. \A m \in Names : held[m] = x /\ ~ IsCompany(m) => ~ IsCompany(m)'
    BY <1>1, <1>4 DEF IsCompany
  <2>2. \A q \in People :
          /\ held[q] = x => (~ IsUser(q) => ~ IsUser(q)') /\ driverOf'[q] = driverOf[q]
          /\ IsUser(q) => IsUser(q)'
    BY <1>1, <1>2, <1>4 DEF IsUser
  <2>3. \A g \in Phones, q \in People : held[g] = x /\ contact'[q] = g => contact[q] = g
    BY <1>1, <1>4
  <2>. QED
    BY <1>1, <2>1, <2>2, <2>3, EndsAlone, OthersHold
<1>6. PhonesDiffer'
  <2>1. /\ \A q \in People \ {p} : contact[q] # f
        /\ f # NoPhone
    BY <1>1, NullsApart DEF Taken
  <2>. QED
    BY <1>4, <2>1 DEF PhonesDiffer, IsUser
<1>7. FoundedTogether'
  <2>1. founded[p] = NoName
    BY <1>1 DEF FoundedTogether
  <2>2. ASSUME NEW m \in Names, IsCompany(m)'
        PROVE  \E q \in People : founded'[q] = m
    <3>1. CASE m = n
      BY <1>1, <1>4, <3>1
    <3>2. CASE m # n
      <4>1. PICK q \in People : founded[q] = m
        BY <1>4, <2>2, <3>2 DEF FoundedTogether, IsCompany
      <4>. QED
        BY <1>4, <2>1, <4>1, NullsApart
    <3>. QED
      BY <3>1, <3>2
  <2>3. ASSUME NEW q \in People, founded'[q] # NoName
        PROVE  companyStatus'[founded'[q]] # "absent" /\ job'[q] # "absent"
    <3>1. CASE q = p
      BY <1>4, <3>1
    <3>2. CASE q # p
      <4>1. /\ founded'[q] = founded[q] /\ founded[q] \in Names
            /\ IsCompany(founded[q]) /\ IsUser(q)
        BY <1>4, <2>3, <3>2 DEF FoundedTogether, StaffTypeOK
      <4>. QED
        BY <1>4, <3>2, <4>1 DEF IsCompany, IsUser
    <3>. QED
      BY <3>1, <3>2
  <2>4. \A q \in People \ {p} : founded'[q] # n
    BY <1>1, <1>4, NullsApart DEF FoundedTogether
  <2>5. ASSUME NEW q \in People, NEW r \in People, founded'[q] # NoName, founded'[q] = founded'[r]
        PROVE  q = r
    BY <1>4, <2>4, <2>5 DEF FoundedTogether
  <2>. QED
    BY <2>2, <2>3, <2>5 DEF FoundedTogether, IsCompany, IsUser
<1>. QED
  BY <1>1, <1>3, <1>5, <1>6, <1>7, EndsAlone DEF CommitsHold

(* Rows that stay rows keep the companies that were founded with them.     *)
LEMMA JobsOnlyChange ==
  ASSUME CommitsInv, UNCHANGED <<companyStatus, founded>>,
         \A p \in People : IsUser(p) => IsUser(p)'
  PROVE  FoundedTogether'
  BY DEF CommitsInv, FoundedTogether, IsCompany

LEMMA CommitDriverKeeps ==
  ASSUME CommitsInv, NEW o \in Offices, CommitDriver(o)
  PROVE  CommitsInv'
<1>. USE DEF CommitsInv
<1>1. /\ End(o) /\ joins[o] \in Names /\ person[o] \in People /\ held[person[o]] = o
      /\ IsUser(person[o])
      /\ job' = [job EXCEPT ![person[o]] = "driver"]
      /\ driverOf' = [driverOf EXCEPT ![person[o]] = joins[o]]
      /\ UNCHANGED <<companyStatus, contact, userOn, employer, founded>>
      /\ stale' \subseteq Offices
  BY DEF CommitDriver, CommitsHold, CallHolds, StaffTypeOK
<1>2. StaffTypeOK'
  BY <1>1, EndsAlone DEF StaffTypeOK, Jobs
<1>3. \A q \in People : IsUser(q)' <=> IsUser(q)
  BY <1>1 DEF StaffTypeOK, IsUser
<1>4. ASSUME NEW x \in Offices \ {o} PROVE CallHolds(x)'
  <2>1. \A q \in People : held[q] = x => driverOf'[q] = driverOf[q]
    BY <1>1 DEF StaffTypeOK
  <2>. QED
    BY <1>1, <1>3, <2>1, EndsAlone, OthersHold DEF IsCompany
<1>5. FoundedTogether' /\ PhonesDiffer'
  BY <1>1, <1>3, JobsOnlyChange DEF PhonesDiffer
<1>. QED
  BY <1>1, <1>2, <1>4, <1>5, EndsAlone DEF CommitsHold

LEMMA InsertUserKeeps ==
  ASSUME CommitsInv, NEW o \in Offices, InsertUser(o)
  PROVE  CommitsInv'
<1>. USE DEF CommitsInv
<1>1. PICK p \in People, role \in Jobs :
        /\ NewUser(o, p) /\ held[phone[o]] = NoOffice
        /\ job' = [job EXCEPT ![p] = role]
        /\ contact' = [contact EXCEPT ![p] = phone[o]]
        /\ userOn' = [userOn EXCEPT ![p] = TRUE]
        /\ employer' = [employer EXCEPT ![p] = name[o]]
  BY DEF InsertUser
<1>2. /\ End(o) /\ phone[o] \in Phones /\ UNCHANGED <<companyStatus, driverOf, founded>>
      /\ stale' \subseteq Offices
  BY DEF InsertUser, CommitsHold, CallHolds, StaffTypeOK
<1>3. StaffTypeOK'
  BY <1>1, <1>2, EndsAlone DEF StaffTypeOK
<1>4. /\ ~ IsUser(p) /\ held[p] = NoOffice /\ \A q \in People \ {p} : contact[q] # phone[o]
      /\ job'[p] = role /\ contact'[p] = phone[o]
      /\ \A q \in People \ {p} : job'[q] = job[q] /\ contact'[q] = contact[q]
  BY <1>1 DEF NewUser, Taken, StaffTypeOK
<1>5. ASSUME NEW x \in Offices \ {o} PROVE CallHolds(x)'
  <2>1. \A q \in People : /\ held[q] = x => (~ IsUser(q) => ~ IsUser(q)')
                          /\ IsUser(q) => IsUser(q)'
    BY <1>4, NullsApart DEF IsUser
  <2>2. \A g \in Phones, q \in People : held[g] = x /\ contact'[q] = g => contact[q] = g
    BY <1>1, <1>4, NullsApart
  <2>. QED
    BY <1>2, <2>1, <2>2, EndsAlone, OthersHold DEF IsCompany
<1>6. PhonesDiffer'
  BY <1>2, <1>4, NullsApart DEF PhonesDiffer, IsUser
<1>7. FoundedTogether'
  BY <1>2, <1>4, JobsOnlyChange DEF IsUser
<1>. QED
  BY <1>2, <1>3, <1>5, <1>6, <1>7, EndsAlone DEF CommitsHold

LEMMA EditsKeep ==
  ASSUME CommitsInv,
         \/ \E n \in Names, status \in {"PENDING", "ACTIVE"} : SetCompanyStatus(n, status)
         \/ \E p, q \in People, role \in Jobs, f \in Phones : EditUser(p, q, role, f)
  PROVE  CommitsInv'
<1>. USE DEF CommitsInv
<1>1. ASSUME NEW n \in Names, NEW status \in {"PENDING", "ACTIVE"}, SetCompanyStatus(n, status)
      PROVE  CommitsInv'
  <2>1. /\ IsCompany(n) /\ companyStatus' = [companyStatus EXCEPT ![n] = status]
        /\ UNCHANGED <<job, contact, userOn, employer, driverOf, held>>
        /\ UNCHANGED <<doing, name, joins, person, phone, seen, founded>>
        /\ stale' \subseteq Offices
    BY <1>1 DEF SetCompanyStatus, doings, StaffTypeOK
  <2>2. StaffTypeOK'
    BY <2>1 DEF StaffTypeOK
  <2>3. \A m \in Names : IsCompany(m)' <=> IsCompany(m)
    BY <2>1 DEF StaffTypeOK, IsCompany
  <2>4. FoundedTogether' /\ PhonesDiffer'
    BY <2>1, <2>3 DEF StaffTypeOK, FoundedTogether, PhonesDiffer, IsUser
  <2>5. ASSUME NEW x \in Offices PROVE CallHolds(x)'
    BY <2>1, <2>3, OthersHold DEF IsUser
  <2>. QED
    BY <2>2, <2>4, <2>5 DEF CommitsHold
<1>2. ASSUME NEW p \in People, NEW q \in People, NEW role \in Jobs, NEW f \in Phones,
             EditUser(p, q, role, f)
      PROVE  CommitsInv'
  <2>1. /\ IsUser(q) /\ held[q] = NoOffice /\ ~ Taken(f, q) /\ held[f] = NoOffice
        /\ job' = [job EXCEPT ![q] = role]
        /\ contact' = [contact EXCEPT ![q] = f]
        /\ UNCHANGED <<companyStatus, userOn, employer, driverOf, held>>
        /\ UNCHANGED <<doing, name, joins, person, phone, seen, founded, stale>>
    BY <1>2 DEF EditUser, doings
  <2>2. StaffTypeOK'
    BY <2>1 DEF StaffTypeOK
  <2>3. /\ contact'[q] = f /\ \A r \in People \ {q} : contact'[r] = contact[r] /\ contact[r] # f
        /\ \A r \in People : IsUser(r)' <=> IsUser(r)
    BY <2>1 DEF StaffTypeOK, Jobs, IsUser, Taken
  <2>4. FoundedTogether' /\ PhonesDiffer'
    BY <2>1, <2>3, JobsOnlyChange, NullsApart DEF PhonesDiffer
  <2>5. \A g \in Phones, r \in People, x \in Offices :
          held[g] = x /\ contact'[r] = g => contact[r] = g
    BY <2>1, <2>3, NullsApart
  <2>6. ASSUME NEW x \in Offices PROVE CallHolds(x)'
    BY <2>1, <2>3, <2>5, OthersHold DEF IsCompany
  <2>. QED
    BY <2>2, <2>4, <2>6 DEF CommitsHold
<1>. QED
  BY <1>1, <1>2

LEMMA StaffStep == CommitsInv /\ [StaffNext]_staffVars => CommitsInv'
<1>. SUFFICES ASSUME CommitsInv, [StaffNext]_staffVars PROVE CommitsInv'
  OBVIOUS
<1>. DEFINE N == Names \cup {NoName}
<1>0. StaffTypeOK
  BY DEF CommitsInv
<1>1. ASSUME NEW o \in Offices, NEW n \in Names, NEW f \in Phones, AskCompany(o, n, f)
      PROVE  CommitsInv'
  <2>1. seen' \in [Offices -> BOOLEAN] /\ Ask(o, "company", n, NoPerson, f)
    BY <1>0, <1>1 DEF AskCompany, StaffTypeOK
  <2>. QED
    BY <2>1, AskKeeps
<1>2. ASSUME NEW o \in Offices, NEW n \in N, NEW f \in Phones, AskUser(o, n, f)
      PROVE  CommitsInv'
  <2>1. seen' \in [Offices -> BOOLEAN] /\ Ask(o, "user", n, NoPerson, f)
    BY <1>0, <1>2 DEF AskUser, StaffTypeOK
  <2>. QED
    BY <2>1, AskKeeps
<1>3. ASSUME NEW o \in Offices, NEW n \in N, NEW p \in People, FindDriver(o, n, p)
      PROVE  CommitsInv'
  <2>1. seen' \in [Offices -> BOOLEAN] /\ Ask(o, "find user", n, p, NoPhone)
    BY <1>0, <1>3 DEF FindDriver, StaffTypeOK
  <2>. QED
    BY <2>1, AskKeeps
<1>4. ASSUME NEW o \in Offices, NEW p \in People, ReadStatus(o, p) PROVE CommitsInv'
  <2>1. /\ seen' = [seen EXCEPT ![o] = userOn[p]] /\ IsUser(p)
        /\ Ask(o, "toggle", NoName, p, NoPhone)
    BY <1>4 DEF ReadStatus
  <2>2. seen' \in [Offices -> BOOLEAN]
    BY <1>0, <2>1 DEF StaffTypeOK
  <2>. QED
    BY <2>1, <2>2, AskKeeps
<1>5. ASSUME NEW o \in Offices,
             \/ InsertCompany(o) \/ InsertAdmin(o) \/ CommitCompany(o)
             \/ InsertUser(o) \/ WriteStatus(o)
             \/ FindUser(o) \/ FindCompany(o) \/ SetRole(o) \/ InsertDriver(o) \/ CommitDriver(o)
             \/ GiveUp(o)
      PROVE  CommitsInv'
  BY <1>5, GoOnKeeps, EndKeeps, CommitCompanyKeeps, CommitDriverKeeps, InsertUserKeeps
<1>6. CASE UNCHANGED staffVars
  <2>1. /\ UNCHANGED <<companyStatus, job, contact, userOn, employer, driverOf, held>>
        /\ UNCHANGED <<doing, name, joins, person, phone, seen, founded, stale>>
    BY <1>6 DEF staffVars, rows, doings
  <2>2. StaffTypeOK' /\ FoundedTogether' /\ PhonesDiffer'
    BY <2>1, CommittedStays DEF CommitsInv, StaffTypeOK
  <2>3. ASSUME NEW x \in Offices PROVE CallHolds(x)'
    BY <2>1, OthersHold DEF IsUser, IsCompany
  <2>. QED
    BY <2>2, <2>3 DEF CommitsInv, CommitsHold
<1>. QED
  BY <1>1, <1>2, <1>3, <1>4, <1>5, <1>6, EditsKeep DEF StaffNext

-----------------------------------------------------------------------------
(*                       what a call has looked up                         *)

(* Nobody has changed what x has looked up.                                *)
LEMMA LookupStays ==
  ASSUME CommitsInv, LookupsHold, NEW x \in Offices \ stale,
         doing'[x] = doing[x], name'[x] = name[x], joins'[x] = joins[x],
         person'[x] = person[x], seen'[x] = seen[x],
         \A n \in Names : joins[x] = n /\ companyStatus[n] = "ACTIVE" => companyStatus'[n] = "ACTIVE",
         \A p \in People : x \in Readers(p) /\ IsUser(p) =>
           userOn'[p] = userOn[p] /\ employer'[p] = employer[p]
  PROVE  LookupHolds(x)'
<1>1. CallHolds(x) /\ LookupHolds(x)
  BY DEF CommitsInv, CommitsHold, LookupsHold
<1>2. /\ doing[x] \in {"find company", "role", "driver", "commit driver", "toggle"} =>
           userOn'[person[x]] = userOn[person[x]] /\ employer'[person[x]] = employer[person[x]]
      /\ doing[x] \in {"role", "driver", "commit driver"} => companyStatus'[joins[x]] = "ACTIVE"
  BY <1>1 DEF CallHolds, LookupHolds, Readers
<1>. QED
  BY <1>1, <1>2 DEF LookupHolds

(* A call that ends relies on nothing any more, and those that had read    *)
(* the status it has written are outdated.                                 *)
LEMMA EndingLooksUp ==
  ASSUME CommitsInv, LookupsHold, NEW o \in Offices,
         GiveUp(o) \/ CommitDriver(o) \/ CommitCompany(o) \/ WriteStatus(o) \/ InsertUser(o)
  PROVE  LookupsHold'
<1>1. End(o)
  BY DEF GiveUp, CommitDriver, CommitCompany, WriteStatus, InsertUser
<1>2. StaffTypeOK /\ CallHolds(o)
  BY DEF CommitsInv, CommitsHold
<1>3. ASSUME NEW x \in Offices \ stale', x # o PROVE LookupHolds(x)'
  <2>1. /\ doing'[x] = doing[x] /\ name'[x] = name[x] /\ joins'[x] = joins[x]
        /\ person'[x] = person[x] /\ seen'[x] = seen[x]
    BY <1>1, <1>3, EndsAlone
  <2>2. CASE GiveUp(o) \/ CommitDriver(o)
    <3>1. x \notin stale /\ UNCHANGED <<companyStatus, userOn, employer>>
      BY <1>3, <2>2 DEF GiveUp, CommitDriver, rows
    <3>. QED
      BY <2>1, <3>1, LookupStays
  <2>3. CASE CommitCompany(o)
    <3>1. /\ x \notin stale /\ name[o] \in Names /\ companyStatus[name[o]] = "absent"
          /\ companyStatus' = [companyStatus EXCEPT ![name[o]] = "PENDING"]
          /\ UNCHANGED <<userOn, employer>>
      BY <1>2, <1>3, <2>3 DEF CommitCompany, CallHolds, IsCompany
    <3>2. \A n \in Names : companyStatus[n] = "ACTIVE" => companyStatus'[n] = "ACTIVE"
      BY <1>2, <3>1 DEF StaffTypeOK
    <3>. QED
      BY <2>1, <3>1, <3>2, LookupStays
  <2>4. CASE WriteStatus(o)
    <3>1. /\ x \notin stale /\ x \notin Readers(person[o])
          /\ userOn' = [userOn EXCEPT ![person[o]] = ~ seen[o]]
          /\ UNCHANGED <<companyStatus, employer>>
      BY <1>3, <2>4 DEF WriteStatus
    <3>2. \A p \in People : x \in Readers(p) => userOn'[p] = userOn[p]
      BY <1>2, <3>1 DEF StaffTypeOK
    <3>. QED
      BY <2>1, <3>1, <3>2, LookupStays
  <2>5. CASE InsertUser(o)
    <3>1. PICK p \in People : /\ ~ IsUser(p)
                              /\ userOn' = [userOn EXCEPT ![p] = TRUE]
                              /\ employer' = [employer EXCEPT ![p] = name[o]]
      BY <2>5 DEF InsertUser, NewUser
    <3>2. \A q \in People : IsUser(q) => userOn'[q] = userOn[q] /\ employer'[q] = employer[q]
      BY <1>2, <3>1 DEF StaffTypeOK
    <3>3. x \notin stale /\ UNCHANGED companyStatus
      BY <1>3, <2>5 DEF InsertUser
    <3>. QED
      BY <2>1, <3>2, <3>3, LookupStays
  <2>. QED
    BY <2>2, <2>3, <2>4, <2>5
<1>4. LookupHolds(o)'
  BY <1>1, EndsAlone DEF LookupHolds
<1>. QED
  BY <1>3, <1>4 DEF LookupsHold

(* The steps of o that change no row.                                      *)
LEMMA ReadingLooksUp ==
  ASSUME CommitsInv, LookupsHold, NEW o \in Offices,
         UNCHANGED <<companyStatus, userOn, employer, stale>>,
         \A x \in Offices \ {o} :
           /\ doing'[x] = doing[x] /\ name'[x] = name[x] /\ joins'[x] = joins[x]
           /\ person'[x] = person[x] /\ seen'[x] = seen[x],
         o \notin stale => LookupHolds(o)'
  PROVE  LookupsHold'
<1>1. ASSUME NEW x \in Offices \ stale', x # o PROVE LookupHolds(x)'
  BY <1>1, LookupStays
<1>. QED
  BY <1>1 DEF LookupsHold

LEMMA AsksLookUp ==
  ASSUME CommitsInv, LookupsHold, NEW o \in Offices, NEW n, NEW p, NEW f,
         AskCompany(o, n, f) \/ FindDriver(o, n, p) \/ AskUser(o, n, f) \/ ReadStatus(o, p)
  PROVE  LookupsHold'
<1>1. StaffTypeOK
  BY DEF CommitsInv
<1>2. CASE AskCompany(o, n, f) \/ FindDriver(o, n, p) \/ AskUser(o, n, f)
  <2>1. /\ UNCHANGED seen
        /\ \/ Ask(o, "company", n, NoPerson, f)
           \/ Ask(o, "find user", n, p, NoPhone)
           \/ Ask(o, "user", n, NoPerson, f)
    BY <1>2 DEF AskCompany, FindDriver, AskUser
  <2>2. /\ UNCHANGED <<companyStatus, userOn, employer, stale>>
        /\ \A x \in Offices \ {o} :
             /\ doing'[x] = doing[x] /\ name'[x] = name[x] /\ joins'[x] = joins[x]
             /\ person'[x] = person[x] /\ seen'[x] = seen[x]
        /\ doing'[o] \in {"company", "find user", "user"}
    BY <1>1, <2>1 DEF Ask, rows, StaffTypeOK
  <2>3. LookupHolds(o)'
    BY <2>2 DEF LookupHolds
  <2>. QED
    BY <2>2, <2>3, ReadingLooksUp
<1>3. CASE ReadStatus(o, p)
  <2>1. /\ UNCHANGED <<companyStatus, userOn, employer, stale>>
        /\ \A x \in Offices \ {o} :
             /\ doing'[x] = doing[x] /\ name'[x] = name[x] /\ joins'[x] = joins[x]
             /\ person'[x] = person[x] /\ seen'[x] = seen[x]
        /\ doing'[o] = "toggle" /\ person'[o] = p /\ seen'[o] = userOn[p]
    BY <1>1, <1>3 DEF ReadStatus, Ask, rows, StaffTypeOK
  <2>2. LookupHolds(o)'
    BY <2>1 DEF LookupHolds
  <2>. QED
    BY <2>1, <2>2, ReadingLooksUp
<1>. QED
  BY <1>2, <1>3

LEMMA GoingOnLooksUp ==
  ASSUME CommitsInv, LookupsHold, NEW o \in Offices,
         \/ InsertCompany(o) \/ InsertAdmin(o) \/ FindUser(o) \/ FindCompany(o) \/ SetRole(o)
         \/ InsertDriver(o)
  PROVE  LookupsHold'
<1>1. StaffTypeOK /\ (o \notin stale => LookupHolds(o))
  BY DEF CommitsInv, LookupsHold
<1>2. /\ UNCHANGED <<companyStatus, userOn, employer, stale, name, seen>>
      /\ \A x \in Offices \ {o} : doing'[x] = doing[x] /\ joins'[x] = joins[x] /\ person'[x] = person[x]
  <2>1. CASE InsertCompany(o) \/ FindUser(o) \/ SetRole(o) \/ InsertDriver(o)
    BY <1>1, <2>1 DEF InsertCompany, FindUser, SetRole, InsertDriver, Read, GoOn, rows, StaffTypeOK
  <2>2. CASE InsertAdmin(o)
    BY <1>1, <2>2 DEF InsertAdmin, GoOn, rows, StaffTypeOK
  <2>3. CASE FindCompany(o)
    BY <1>1, <2>3 DEF FindCompany, GoOn, rows, StaffTypeOK
  <2>. QED
    BY <2>1, <2>2, <2>3
<1>3. ASSUME o \notin stale PROVE LookupHolds(o)'
  <2>1. CASE InsertCompany(o) \/ InsertAdmin(o)
    <3>1. doing'[o] \in {"admin", "commit company"}
      BY <1>1, <2>1 DEF InsertCompany, InsertAdmin, GoOn, StaffTypeOK
    <3>. QED
      BY <3>1 DEF LookupHolds
  <2>2. CASE FindUser(o)
    <3>1. /\ doing'[o] = "find company" /\ person'[o] = person[o] /\ userOn[person[o]]
          /\ name[o] \in {NoName, employer[person[o]]}
      BY <1>1, <2>2 DEF FindUser, Read, GoOn, StaffTypeOK
    <3>. QED
      BY <1>2, <3>1 DEF LookupHolds
  <2>3. CASE FindCompany(o)
    <3>1. /\ doing[o] = "find company" /\ doing'[o] = "role" /\ person'[o] = person[o]
          /\ companyStatus[joins'[o]] = "ACTIVE" /\ name[o] \in {NoName, joins'[o]}
      BY <1>1, <2>3 DEF FindCompany, GoOn, StaffTypeOK
    <3>. QED
      BY <1>1, <1>2, <1>3, <3>1 DEF LookupHolds
  <2>4. CASE SetRole(o) \/ InsertDriver(o)
    <3>1. /\ doing[o] \in {"role", "driver"} /\ doing'[o] \in {"driver", "commit driver"}
          /\ person'[o] = person[o] /\ joins'[o] = joins[o]
      BY <1>1, <2>4 DEF SetRole, InsertDriver, Read, GoOn, StaffTypeOK
    <3>. QED
      BY <1>1, <1>2, <1>3, <3>1 DEF LookupHolds
  <2>. QED
    BY <2>1, <2>2, <2>3, <2>4
<1>. QED
  BY <1>2, <1>3, ReadingLooksUp

LEMMA EditsLookUp ==
  ASSUME CommitsInv, LookupsHold,
         \/ \E n \in Names, status \in {"PENDING", "ACTIVE"} : SetCompanyStatus(n, status)
         \/ \E p, q \in People, role \in Jobs, f \in Phones : EditUser(p, q, role, f)
  PROVE  LookupsHold'
<1>1. ASSUME NEW n \in Names, NEW status \in {"PENDING", "ACTIVE"}, SetCompanyStatus(n, status),
             NEW x \in Offices \ stale'
      PROVE  LookupHolds(x)'
  <2>1. /\ companyStatus' = [companyStatus EXCEPT ![n] = status] /\ joins[x] # n /\ x \notin stale
        /\ UNCHANGED <<userOn, employer, doing, name, joins, person, seen>>
    BY <1>1 DEF SetCompanyStatus, doings
  <2>2. \A m \in Names \ {n} : companyStatus'[m] = companyStatus[m]
    BY <2>1 DEF CommitsInv, StaffTypeOK
  <2>. QED
    BY <2>1, <2>2, LookupStays
<1>2. ASSUME NEW p \in People, NEW q \in People, NEW role \in Jobs, NEW f \in Phones,
             EditUser(p, q, role, f), NEW x \in Offices \ stale'
      PROVE  LookupHolds(x)'
  <2>1. UNCHANGED <<companyStatus, userOn, employer, doing, name, joins, person, seen, stale>>
    BY <1>2 DEF EditUser, doings
  <2>. QED
    BY <1>2, <2>1, LookupStays
<1>. QED
  BY <1>1, <1>2 DEF LookupsHold

LEMMA StaffKeeps == StaffInv /\ [StaffNext]_staffVars => StaffInv'
<1>. SUFFICES ASSUME StaffInv, [StaffNext]_staffVars PROVE StaffInv'
  OBVIOUS
<1>1. CommitsInv /\ LookupsHold
  BY DEF StaffInv, CommitsInv
<1>2. CommitsInv'
  BY <1>1, StaffStep
<1>. SUFFICES LookupsHold'
  BY <1>2 DEF StaffInv, CommitsInv
<1>3. CASE StaffNext
  <2>1. ASSUME NEW o \in Offices, NEW n \in Names \cup {NoName}, NEW f \in Phones,
               AskCompany(o, n, f) \/ AskUser(o, n, f)
        PROVE  LookupsHold'
    BY <1>1, <2>1, AsksLookUp
  <2>2. ASSUME NEW o \in Offices, NEW n \in Names \cup {NoName}, NEW p \in People,
               FindDriver(o, n, p) \/ ReadStatus(o, p)
        PROVE  LookupsHold'
    BY <1>1, <2>2, AsksLookUp
  <2>3. ASSUME NEW o \in Offices,
               \/ InsertCompany(o) \/ InsertAdmin(o) \/ CommitCompany(o)
               \/ InsertUser(o) \/ WriteStatus(o)
               \/ FindUser(o) \/ FindCompany(o) \/ SetRole(o) \/ InsertDriver(o) \/ CommitDriver(o)
               \/ GiveUp(o)
        PROVE  LookupsHold'
    BY <1>1, <2>3, EndingLooksUp, GoingOnLooksUp
  <2>. QED
    BY <1>1, <1>3, <2>1, <2>2, <2>3, EditsLookUp DEF StaffNext
<1>4. CASE UNCHANGED staffVars
  <2>1. UNCHANGED <<companyStatus, userOn, employer, doing, name, joins, person, seen, stale>>
    BY <1>4 DEF staffVars, rows, doings
  <2>2. ASSUME NEW x \in Offices \ stale' PROVE LookupHolds(x)'
    BY <1>1, <2>1, LookupStays
  <2>. QED
    BY <2>2 DEF LookupsHold
<1>. QED
  BY <1>3, <1>4

(* The inductive invariant: what create of a company and createDriver are  *)
(* about to commit (101-158 of transport-company.service.ts, 69-97 of      *)
(* driver.service.ts) is theirs until they do, phones are unique, and what *)
(* a call has looked up is so until it is outdated.                        *)
THEOREM StaffHolds == StaffSpec => []StaffInv
<1>1. StaffInit => StaffInv
  BY StaffBegins DEF StaffInit, StaffInv, CommitsInv, LookupsHold, LookupHolds
<1>. QED
  BY <1>1, StaffKeeps, PTL DEF StaffSpec

(* The checks of createDriver (40-66 of driver.service.ts) and the read of *)
(* updateUserStatus are made before the write and outside its transaction: *)
(* they are wrong at the write only when the status that was read has been *)
(* written meanwhile, whether or not the caller has a company.             *)
THEOREM ChecksStillHold == StaffSpec => ActsOnWhatHolds
<1>. DEFINE Right == \A o \in Offices \ stale :
              /\ CommitDriver(o) =>
                   /\ companyStatus[joins[o]] = "ACTIVE" /\ userOn[person[o]]
                   /\ name[o] # NoName => employer[person[o]] = joins[o]
              /\ WriteStatus(o) => userOn'[person[o]] # userOn[person[o]]
<1>1. StaffInv => Right
  <2>. SUFFICES ASSUME StaffInv, NEW o \in Offices \ stale
                PROVE  /\ CommitDriver(o) =>
                            /\ companyStatus[joins[o]] = "ACTIVE" /\ userOn[person[o]]
                            /\ name[o] # NoName => employer[person[o]] = joins[o]
                       /\ WriteStatus(o) => userOn'[person[o]] # userOn[person[o]]
    OBVIOUS
  <2>1. LookupHolds(o) /\ CallHolds(o) /\ StaffTypeOK
    BY DEF StaffInv, LookupsHold, CommitsHold
  <2>2. ASSUME CommitDriver(o)
        PROVE  /\ companyStatus[joins[o]] = "ACTIVE" /\ userOn[person[o]]
               /\ name[o] # NoName => employer[person[o]] = joins[o]
    BY <2>1, <2>2 DEF CommitDriver, LookupHolds
  <2>3. ASSUME WriteStatus(o) PROVE userOn'[person[o]] # userOn[person[o]]
    <3>1. /\ person[o] \in People /\ seen[o] = userOn[person[o]]
          /\ userOn' = [userOn EXCEPT ![person[o]] = ~ seen[o]]
      BY <2>1, <2>3 DEF WriteStatus, LookupHolds, CallHolds
    <3>2. userOn'[person[o]] = ~ userOn[person[o]] /\ userOn[person[o]] \in BOOLEAN
      BY <2>1, <3>1 DEF StaffTypeOK
    <3>. QED
      BY <3>2
  <2>. QED
    BY <2>2, <2>3
<1>. QED
  BY <1>1, StaffHolds, PTL DEF StaffSpec, ActsOnWhatHolds

(* No company without the account that was created with it, no second such *)
(* account, and none without its company, wherever create stops.           *)
THEOREM CompaniesAreFoundedTogether == StaffSpec => []FoundedTogether
  BY StaffHolds, PTL DEF StaffInv

(* The row of a driver appears with the role, once for each person, and    *)
(* createDriver gives the role only with the row.                          *)
THEOREM DriversGetTheirRole == StaffSpec => DriverWithRole
<1>. DEFINE Right ==
       /\ \A p \in People : driverOf'[p] # driverOf[p] => driverOf[p] = NoName /\ job'[p] = "driver"
       /\ \A o \in Offices :
            doing[o] \in {"role", "driver", "commit driver"} /\ doing'[o] # doing[o]
              /\ job'[person[o]] # job[person[o]] => driverOf'[person[o]] = joins[o]
<1>1. StaffInv /\ [StaffNext]_staffVars => [Right]_staffVars
  <2>. SUFFICES ASSUME StaffInv, StaffNext PROVE Right
    OBVIOUS
  <2>1. StaffTypeOK /\ CommitsInv /\ CommitsHold
    BY DEF StaffInv, CommitsInv
  <2>2. \/ \E o \in Offices : CommitDriver(o)
        \/ UNCHANGED driverOf /\ UNCHANGED job
        \/ UNCHANGED driverOf /\ \E o \in Offices : CommitCompany(o) \/ InsertUser(o)
        \/ UNCHANGED driverOf /\ UNCHANGED doing
    <3>1. ASSUME NEW o \in Offices, NEW n, NEW p, NEW f,
                 AskCompany(o, n, f) \/ FindDriver(o, n, p) \/ AskUser(o, n, f) \/ ReadStatus(o, p)
          PROVE  UNCHANGED driverOf /\ UNCHANGED job
      BY <3>1 DEF AskCompany, FindDriver, AskUser, ReadStatus, Ask, rows
    <3>2. ASSUME NEW o \in Offices,
                 \/ InsertCompany(o) \/ InsertAdmin(o) \/ WriteStatus(o) \/ FindUser(o)
                 \/ FindCompany(o) \/ SetRole(o) \/ InsertDriver(o) \/ GiveUp(o)
          PROVE  UNCHANGED driverOf /\ UNCHANGED job
      BY <3>2 DEF InsertCompany, InsertAdmin, WriteStatus, FindUser, FindCompany, SetRole,
                  InsertDriver, GiveUp, Read, rows
    <3>3. ASSUME NEW o \in Offices, CommitCompany(o) \/ InsertUser(o)
          PROVE  UNCHANGED driverOf
      BY <3>3 DEF CommitCompany, InsertUser
    <3>4. ASSUME NEW n \in Names, NEW status \in {"PENDING", "ACTIVE"}, SetCompanyStatus(n, status)
          PROVE  UNCHANGED driverOf /\ UNCHANGED doing
      BY <3>4 DEF SetCompanyStatus, doings
    <3>5. ASSUME NEW p \in People, NEW q \in People, NEW role \in Jobs, NEW f \in Phones,
                 EditUser(p, q, role, f)
          PROVE  UNCHANGED driverOf /\ UNCHANGED doing
      BY <3>5 DEF EditUser, doings
    <3>. QED
      BY <3>1, <3>2, <3>3, <3>4, <3>5 DEF StaffNext
  <2>3. ASSUME NEW o \in Offices, CommitDriver(o) PROVE Right
    <3>1. /\ person[o] \in People /\ driverOf[person[o]] = NoName
          /\ job' = [job EXCEPT ![person[o]] = "driver"]
          /\ driverOf' = [driverOf EXCEPT ![person[o]] = joins[o]]
          /\ \A x \in Offices \ {o} : doing'[x] = doing[x]
      BY <2>1, <2>3, EndsAlone DEF CommitDriver, CommitsHold, CallHolds
    <3>. QED
      BY <2>1, <3>1 DEF StaffTypeOK
  <2>4. ASSUME UNCHANGED driverOf, NEW o \in Offices, CommitCompany(o) \/ InsertUser(o)
        PROVE  Right
    <3>1. /\ doing[o] \in {"commit company", "user"} /\ End(o)
          /\ \A x \in Offices \ {o} : doing'[x] = doing[x]
      BY <2>1, <2>4, EndsAlone DEF CommitCompany, InsertUser
    <3>. QED
      BY <2>4, <3>1
  <2>5. CASE UNCHANGED driverOf /\ UNCHANGED job
    <3>. QED
      BY <2>5
  <2>6. CASE UNCHANGED driverOf /\ UNCHANGED doing
    BY <2>6
  <2>. QED
    BY <2>2, <2>3, <2>4, <2>5, <2>6
<1>. QED
  BY <1>1, StaffHolds, PTL DEF StaffSpec, DriverWithRole
=============================================================================
