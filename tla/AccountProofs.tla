----------------------------- MODULE AccountProofs -----------------------------
(***************************************************************************)
(* For any number of attempts, refreshes and changes of a password: what   *)
(* disables an account, which refreshes outlive a session, and which       *)
(* password heads the history; and for every rule of a handler and every   *)
(* user, what AccessGuard answers.                                         *)
(***************************************************************************)
EXTENDS Login, Passwords, AccessControl, Endpoints, TLAPS

(*                              logging in                                 *)

(* A step that sets no block and moves no attempt nearer to a lock, a      *)
(* block or a disabled account.                                            *)
LEMMA StrikesKept ==
  ASSUME StrikesCount,
         strikes' >= strikes, strikes \in 0..2, strikes' \in 0..2,
         Exists("block")' => Exists("block"),
         \A a \in Attempts :
           /\ stage'[a] \in {"setlock", "expire", "setblock"} =>
                stage[a] \in {"setlock", "expire", "setblock"}
           /\ stage'[a] = "disable" => stage[a] = "disable"
  PROVE  StrikesCount'
  BY DEF StrikesCount

(* A step that neither admits a refresh nor ends the session. *)
LEMMA RefreshesKept ==
  ASSUME OnlyLateRefreshes, UNCHANGED late,
         Exists("session") => Exists("session")',
         \A f \in Refreshes : refresh'[f] # "idle" => refresh[f] # "idle"
  PROVE  OnlyLateRefreshes'
  BY DEF OnlyLateRefreshes

(* A step that leaves the row to all that go on and still need it. *)
LEMMA RowsKept ==
  ASSUME RowsAreRead,
         \A a \in Attempts : stage'[a] \in OnTheWay =>
           stage[a] \in OnTheWay /\ claim'[a] = claim[a],
         \A f \in Refreshes : refresh'[f] = "save" =>
           refresh[f] = "save" /\ claim'[f] = claim[f]
  PROVE  RowsAreRead'
  BY DEF RowsAreRead

LEMMA KeysStay ==
  ASSUME LoginTypeOK, NEW k \in Keys
  PROVE  /\ Set(k) \in [Keys -> {"absent", "forever", "timed"}]
         /\ SetEx(k) \in [Keys -> {"absent", "forever", "timed"}]
         /\ Del(k) \in [Keys -> {"absent", "forever", "timed"}]
         /\ Expire(k) \in [Keys -> {"absent", "forever", "timed"}]
         /\ \A j \in Keys \ {k} : /\ Set(k)[j] = redis[j] /\ SetEx(k)[j] = redis[j]
                                  /\ Del(k)[j] = redis[j] /\ Expire(k)[j] = redis[j]
         /\ Set(k)[k] = "forever" /\ SetEx(k)[k] = "timed" /\ Del(k)[k] = "absent"
  BY DEF LoginTypeOK, Set, SetEx, Del, Expire

LEMMA CommandKeeps ==
  ASSUME LoginInv, NEW a \in Attempts, NEW step \in AttemptSteps, NEW next \in AttemptSteps,
         NEW keys \in [Keys -> {"absent", "forever", "timed"}],
         Command(a, step, keys, next),
         step # "setblock" /\ keys["block"] # "absent" => Exists("block"),
         Exists("session") => keys["session"] # "absent",
         next \in {"setlock", "expire", "setblock"} => step \in {"setlock", "expire"},
         next # "disable",
         next \in OnTheWay => step \in OnTheWay
  PROVE  LoginInv'
<1>. USE DEF LoginInv
<1>1. /\ redis' = keys /\ stage' = [stage EXCEPT ![a] = next] /\ stage[a] = step
      /\ UNCHANGED <<accountOn, counter, tokens, count, claim, strikes, twoFactor, role, refresh,
                     late>>
  BY DEF Command, Goto, Elsewhere
<1>2. LoginTypeOK'
  BY <1>1 DEF LoginTypeOK
<1>3. /\ stage'[a] = next
      /\ \A b \in Attempts : b # a => stage'[b] = stage[b]
  BY <1>1 DEF LoginTypeOK
<1>4. OnlyLateRefreshes'
  BY <1>1, RefreshesKept DEF Exists
<1>5. StrikesCount'
  <2>1. Exists("block")' => strikes' >= 1
    BY <1>1 DEF StrikesCount, Exists
  <2>2. ASSUME NEW b \in Attempts
        PROVE  /\ stage'[b] \in {"setlock", "expire", "setblock"} => strikes' >= 1
               /\ stage'[b] = "disable" => strikes' = 2
    BY <1>1, <1>3 DEF StrikesCount
  <2>. QED
    BY <2>1, <2>2 DEF StrikesCount
<1>6. RowsAreRead'
  BY <1>1, <1>3, RowsKept
<1>. QED
  BY <1>2, <1>4, <1>5, <1>6

LEMMA CommandsKeep ==
  ASSUME LoginInv, NEW a \in Attempts,
         \/ ReadLock(a) \/ RightPassword(a) \/ OpenSession(a) \/ ClearLock(a)
         \/ SetLock(a) \/ ExpireLock(a) \/ SetBlock(a)
  PROVE  LoginInv'
<1>1. LoginTypeOK /\ redis \in [Keys -> {"absent", "forever", "timed"}]
  BY DEF LoginInv, LoginTypeOK
<1>9. /\ \A keys \in {Del("lock"), Set("lock"), Expire("lock"), Set("block")} :
           /\ keys \in [Keys -> {"absent", "forever", "timed"}]
           /\ keys["session"] = redis["session"]
      /\ \A keys \in {Del("lock"), Set("lock"), Expire("lock")} : keys["block"] = redis["block"]
  <2>1. "lock" \in Keys /\ "block" \in Keys /\ "session" \in Keys
    BY DEF Keys
  <2>. QED
    BY <1>1, <2>1, KeysStay
<1>2. CASE ReadLock(a)
  BY <1>1, <1>2, CommandKeeps DEF ReadLock, AttemptSteps, OnTheWay, Exists
<1>3. CASE RightPassword(a)
  BY <1>1, <1>3, CommandKeeps DEF RightPassword, AttemptSteps, OnTheWay, Exists
<1>4. CASE OpenSession(a)
  BY <1>1, <1>4, KeysStay, CommandKeeps DEF OpenSession, AttemptSteps, OnTheWay, Exists, Keys
<1>5. CASE ClearLock(a)
  <2>1. Command(a, "unlock", Del("lock"), "unblock")
    BY <1>5 DEF ClearLock
  <2>. QED
    BY <1>1, <1>9, <2>1, CommandKeeps DEF AttemptSteps, OnTheWay, Exists
<1>6. CASE SetLock(a)
  <2>1. Command(a, "setlock", Set("lock"), "expire")
    BY <1>6 DEF SetLock
  <2>. QED
    BY <1>1, <1>9, <2>1, CommandKeeps DEF AttemptSteps, OnTheWay, Exists
<1>7. CASE ExpireLock(a)
  <2>1. Command(a, "expire", Expire("lock"), "setblock")
    BY <1>7 DEF ExpireLock
  <2>. QED
    BY <1>1, <1>9, <2>1, CommandKeeps DEF AttemptSteps, OnTheWay, Exists
<1>8. CASE SetBlock(a)
  <2>1. Command(a, "setblock", Set("block"), "reset")
    BY <1>8 DEF SetBlock
  <2>. QED
    BY <1>1, <1>9, <2>1, CommandKeeps DEF AttemptSteps, OnTheWay, Exists
<1>. QED
  BY <1>2, <1>3, <1>4, <1>5, <1>6, <1>7, <1>8

(* The steps of an attempt that end it, or reset the count, and set no     *)
(* block: wherever it was, it is nearer to nothing.                        *)
LEMMA LeavingKeeps ==
  ASSUME LoginInv, NEW a \in Attempts,
         \/ SendCode(a) \/ ClearCount(a) \/ ClearBlock(a) \/ StartAgain(a) \/ DisableAccount(a)
         \/ CutShort(a)
  PROVE  LoginInv'
<1>. USE DEF LoginInv, Goto, Forget, Leave, Elsewhere, ResetCount
<1>1. /\ stage[a] \in AttemptSteps
      /\ \/ stage' = [stage EXCEPT ![a] = "idle"]
         \/ stage[a] = "uncount" /\ stage' = [stage EXCEPT ![a] = "unlock"] /\ UNCHANGED claim
      /\ UNCHANGED <<strikes, refresh, late, twoFactor, role>>
  BY DEF SendCode, ClearCount, ClearBlock, StartAgain, DisableAccount, CutShort, LoginTypeOK
<1>2. \/ UNCHANGED claim
      \/ claim' = [claim EXCEPT ![a] = NoRole]
  BY DEF SendCode, ClearCount, ClearBlock, StartAgain, DisableAccount, CutShort
<1>3. /\ redis' \in [Keys -> {"absent", "forever", "timed"}]
      /\ Exists("block")' => Exists("block")
      /\ Exists("session") => Exists("session")'
  BY KeysStay
  DEF SendCode, ClearCount, ClearBlock, StartAgain, DisableAccount, CutShort, LoginTypeOK, Exists, Keys
<1>4. /\ counter' \in 0..MaxCount
      /\ count' \in [Attempts -> 0..MaxCount]
      /\ accountOn' \in BOOLEAN
  <2>1. counter' \in {0, counter} /\ (UNCHANGED count \/ count' = [count EXCEPT ![a] = 0])
    BY DEF SendCode, ClearCount, ClearBlock, StartAgain, DisableAccount, CutShort
  <2>2. accountOn' = accountOn \/ accountOn' = FALSE
    BY DEF SendCode, ClearCount, ClearBlock, StartAgain, DisableAccount, CutShort
  <2>3. accountOn' \in BOOLEAN
    BY <2>2 DEF LoginTypeOK
  <2>. QED
    BY <2>1, <2>3 DEF LoginTypeOK, MaxCount
<1>5. tokens' \subseteq Roles
  <2>1. CASE ClearBlock(a)
    BY <2>1 DEF ClearBlock, LoginTypeOK, RowsAreRead, OnTheWay
  <2>. QED
    BY <2>1 DEF SendCode, ClearCount, StartAgain, DisableAccount, CutShort, LoginTypeOK
<1>6. LoginTypeOK'
  BY <1>1, <1>2, <1>3, <1>4, <1>5 DEF LoginTypeOK, AttemptSteps, OnTheWay
<1>7. StrikesCount'
  BY <1>1, <1>3, StrikesKept DEF LoginTypeOK
<1>8. OnlyLateRefreshes'
  BY <1>1, <1>3, RefreshesKept
<1>9. RowsAreRead'
  BY <1>1, <1>2, RowsKept, LoginAssumption DEF LoginTypeOK, OnTheWay
<1>. QED
  BY <1>6, <1>7, <1>8, <1>9

LEMMA ArriveKeeps ==
  ASSUME LoginInv, NEW a \in Attempts, Arrive(a)
  PROVE  LoginInv'
<1>. USE DEF LoginInv, Arrive, Goto, Elsewhere
<1>1. LoginTypeOK'
  BY DEF LoginTypeOK, AttemptSteps, OnTheWay
<1>2. StrikesCount'
  BY StrikesKept DEF LoginTypeOK, Exists
<1>3. OnlyLateRefreshes'
  BY RefreshesKept DEF Exists
<1>4. RowsAreRead'
  BY LoginAssumption DEF RowsAreRead, LoginTypeOK, Roles, NoRole
<1>. QED
  BY <1>1, <1>2, <1>3, <1>4

LEMMA CountKeeps ==
  ASSUME LoginInv, NEW a \in Attempts, Count(a)
  PROVE  LoginInv'
<1>. USE DEF LoginInv, Goto, Elsewhere, Leave, Forget
<1>1. counter' \in 0..MaxCount
  BY DEF Count, LoginTypeOK, MaxCount
<1>2. /\ UNCHANGED <<accountOn, redis, tokens, strikes, twoFactor, role, refresh, late>>
      /\ \/ /\ stage' = [stage EXCEPT ![a] = "idle"]
            /\ count' = [count EXCEPT ![a] = 0]
            /\ claim' = [claim EXCEPT ![a] = NoRole]
         \/ /\ stage[a] = "count"
            /\ stage' = [stage EXCEPT ![a] = "compare"]
            /\ count' = [count EXCEPT ![a] = counter']
            /\ UNCHANGED claim
  BY DEF Count
<1>3. LoginTypeOK'
  BY <1>1, <1>2 DEF LoginTypeOK, AttemptSteps, OnTheWay, MaxCount
<1>4. StrikesCount'
  BY <1>2, StrikesKept DEF LoginTypeOK, Exists
<1>5. OnlyLateRefreshes'
  BY <1>2, RefreshesKept DEF Exists
<1>6. RowsAreRead'
  BY <1>2, RowsKept, LoginAssumption DEF LoginTypeOK, OnTheWay
<1>. QED
  BY <1>3, <1>4, <1>5, <1>6

(* An account is blocked only after a wrong password, so that the one that *)
(* finds the block is not the first.                                       *)
LEMMA WrongPasswordKeeps ==
  ASSUME LoginInv, NEW a \in Attempts, WrongPassword(a)
  PROVE  LoginInv'
<1>. USE DEF LoginInv
<1>1. /\ strikes' = IF strikes = 0 THEN 1 ELSE 2
      /\ \E next \in {"setlock", "disable", "idle"} :
           /\ stage' = [stage EXCEPT ![a] = next]
           /\ next = "disable" => Exists("block")
      /\ count' = [count EXCEPT ![a] = 0]
      /\ claim' = [claim EXCEPT ![a] = NoRole]
      /\ UNCHANGED <<accountOn, counter, redis, tokens, twoFactor, role, refresh, late>>
  BY DEF WrongPassword, Goto, Elsewhere, Forget, Disables
<1>2. LoginTypeOK'
  BY <1>1 DEF LoginTypeOK, AttemptSteps, MaxCount
<1>3. /\ strikes' >= 1 /\ (strikes >= 1 => strikes' = 2)
      /\ Exists("block")' <=> Exists("block")
  BY <1>1 DEF LoginTypeOK, Exists
<1>4. StrikesCount'
  <2>1. ASSUME NEW b \in Attempts, stage'[b] = "disable"
        PROVE  strikes' = 2
    <3>1. CASE b = a
      BY <1>1, <1>3, <2>1, <3>1 DEF StrikesCount, LoginTypeOK
    <3>2. CASE b # a
      BY <1>1, <1>3, <2>1, <3>2 DEF StrikesCount, LoginTypeOK
    <3>. QED
      BY <3>1, <3>2
  <2>. QED
    BY <1>3, <2>1 DEF StrikesCount
<1>5. OnlyLateRefreshes'
  BY <1>1, RefreshesKept DEF Exists
<1>6. RowsAreRead'
  BY <1>1, RowsKept, LoginAssumption DEF LoginTypeOK, OnTheWay
<1>. QED
  BY <1>2, <1>4, <1>5, <1>6

LEMMA AttemptsKeep ==
  ASSUME LoginInv, NEW a \in Attempts, Arrive(a) \/ Proceed(a) \/ CutShort(a)
  PROVE  LoginInv'
  BY CommandsKeep, LeavingKeeps, ArriveKeeps, CountKeeps, WrongPasswordKeeps DEF Proceed

LEMMA AdmitKeeps ==
  ASSUME LoginInv, NEW f \in Refreshes, Admit(f)
  PROVE  LoginInv'
<1>. USE DEF LoginInv, KeepAttempts, Admit
<1>1. LoginTypeOK' /\ OnlyLateRefreshes'
  BY DEF LoginTypeOK, OnlyLateRefreshes, Exists
<1>2. StrikesCount'
  BY StrikesKept DEF LoginTypeOK, Exists
<1>3. RowsAreRead'
  BY RowsKept DEF LoginTypeOK
<1>. QED
  BY <1>1, <1>2, <1>3

LEMMA ReadUserKeeps ==
  ASSUME LoginInv, NEW f \in Refreshes, ReadUser(f)
  PROVE  LoginInv'
<1>. USE DEF LoginInv, KeepAttempts, ReadUser
<1>1. LoginTypeOK'
  BY DEF LoginTypeOK
<1>2. StrikesCount'
  BY StrikesKept DEF LoginTypeOK, Exists
<1>3. OnlyLateRefreshes'
  BY RefreshesKept DEF LoginTypeOK, Exists
<1>4. RowsAreRead'
  BY LoginAssumption DEF RowsAreRead, LoginTypeOK, Roles, NoRole
<1>. QED
  BY <1>1, <1>2, <1>3, <1>4

(* A refresh that ends brings the session back or leaves it as it is. *)
LEMMA EndRefreshKeeps ==
  ASSUME LoginInv, NEW f \in Refreshes, Renew(f) \/ RefreshFails(f)
  PROVE  LoginInv'
<1>. USE DEF LoginInv
<1>1. /\ refresh' = [refresh EXCEPT ![f] = "idle"]
      /\ claim' = [claim EXCEPT ![f] = NoRole]
      /\ late' = late \ {f}
      /\ UNCHANGED <<accountOn, role, counter, stage, count, twoFactor, strikes>>
  BY DEF Renew, RefreshFails, EndRefresh, KeepAttempts
<1>2. /\ redis' \in [Keys -> {"absent", "forever", "timed"}]
      /\ Exists("block")' => Exists("block")
      /\ Exists("session") => Exists("session")'
  BY KeysStay DEF Renew, RefreshFails, LoginTypeOK, Exists, Keys
<1>3. tokens' \subseteq Roles
  BY DEF Renew, RefreshFails, LoginTypeOK, RowsAreRead
<1>4. LoginTypeOK'
  BY <1>1, <1>2, <1>3 DEF LoginTypeOK
<1>5. StrikesCount'
  BY <1>1, <1>2, StrikesKept DEF LoginTypeOK
<1>6. OnlyLateRefreshes'
  BY <1>1, <1>2 DEF LoginTypeOK, OnlyLateRefreshes
<1>7. RowsAreRead'
  BY <1>1, RowsKept, LoginAssumption DEF LoginTypeOK
<1>. QED
  BY <1>4, <1>5, <1>6, <1>7

LEMMA EndSessionKeeps ==
  ASSUME LoginInv, EndSession
  PROVE  LoginInv'
<1>. USE DEF LoginInv, EndSession, KeepAttempts
<1>1. /\ redis' \in [Keys -> {"absent", "forever", "timed"}]
      /\ Exists("block")' => Exists("block")
  BY KeysStay DEF LoginTypeOK, Exists, Keys
<1>2. LoginTypeOK' /\ OnlyLateRefreshes'
  BY <1>1 DEF LoginTypeOK, OnlyLateRefreshes, Refreshing
<1>3. StrikesCount'
  BY <1>1, StrikesKept DEF LoginTypeOK
<1>. QED
  BY <1>2, <1>3, RowsKept

(* Keys, tokens and the account change, and no attempt or refresh moves.   *)
LEMMA OthersKeep ==
  ASSUME LoginInv,
         \/ VerifyCode \/ CounterExpires \/ ToggleStatus \/ MakeDriver
         \/ \E r \in Roles : TokenExpires(r)
         \/ \E k \in Keys \ {"session"} : KeyExpires(k)
  PROVE  LoginInv'
<1>. USE DEF LoginInv, KeepAttempts
<1>1. /\ UNCHANGED <<strikes, stage, refresh, late, count, twoFactor, claim>>
      /\ counter' \in {0, counter} /\ tokens' \subseteq tokens
      /\ role' \in {role, "driver"}
  BY DEF VerifyCode, CounterExpires, ToggleStatus, MakeDriver, TokenExpires, KeyExpires
<1>5. accountOn' \in BOOLEAN
  BY DEF VerifyCode, CounterExpires, ToggleStatus, MakeDriver, TokenExpires, KeyExpires, LoginTypeOK
<1>2. /\ redis' \in [Keys -> {"absent", "forever", "timed"}]
      /\ Exists("block")' => Exists("block")
      /\ Exists("session") => Exists("session")'
  BY KeysStay
  DEF VerifyCode, CounterExpires, ToggleStatus, MakeDriver, TokenExpires, KeyExpires, LoginTypeOK,
      Exists, Keys
<1>3. LoginTypeOK'
  BY <1>1, <1>2, <1>5 DEF LoginTypeOK, Roles, MaxCount
<1>4. StrikesCount'
  BY <1>1, <1>2, StrikesKept DEF LoginTypeOK
<1>. QED
  BY <1>1, <1>2, <1>3, <1>4, RefreshesKept, RowsKept

LEMMA LoginStep == LoginInv /\ [LoginNext]_loginVars => LoginInv'
<1>. SUFFICES ASSUME LoginInv, [LoginNext]_loginVars PROVE LoginInv'
  OBVIOUS
<1>1. CASE \E a \in Attempts : Arrive(a) \/ Proceed(a) \/ CutShort(a)
  BY <1>1, AttemptsKeep
<1>2. CASE \E f \in Refreshes : Admit(f) \/ ReadUser(f) \/ Renew(f) \/ RefreshFails(f)
  BY <1>2, AdmitKeeps, ReadUserKeeps, EndRefreshKeeps
<1>3. CASE Logout
  BY <1>3, EndSessionKeeps DEF Logout
<1>4. CASE \E k \in Keys : KeyExpires(k)
  BY <1>4, EndSessionKeeps, OthersKeep DEF KeyExpires
<1>5. CASE \/ VerifyCode \/ CounterExpires \/ ToggleStatus \/ MakeDriver
           \/ \E r \in Roles : TokenExpires(r)
  BY <1>5, OthersKeep
<1>6. CASE UNCHANGED loginVars
  BY <1>6 DEF loginVars, LoginInv, LoginTypeOK, StrikesCount, RowsAreRead, OnlyLateRefreshes, Exists
<1>. QED
  BY <1>1, <1>2, <1>3, <1>4, <1>5, <1>6 DEF LoginNext

LEMMA LoginBegins == LoginInit => LoginInv
  BY DEF LoginInit, LoginInv, LoginTypeOK, StrikesCount, RowsAreRead, OnlyLateRefreshes, Exists,
         Roles, MaxCount, AttemptSteps, OnTheWay, Keys

(* The count, the lock and the block under any number of attempts, with    *)
(* everything that can be cut short (79-233 of auth.service.ts): the       *)
(* inductive invariant.                                                    *)
THEOREM LoginHolds == LoginSpec => []LoginInv
  BY LoginBegins, LoginStep, PTL DEF LoginSpec

(* However many refreshes overlap a logout, none that comes after it is    *)
(* admitted (RefreshJwtStrategy.validate).                                 *)
THEOREM NoSessionComesBack == LoginSpec => []OnlyLateRefreshes
  BY LoginHolds, PTL DEF LoginInv

(* No account is disabled by one wrong password, whichever attempts        *)
(* interleave (208-228).                                                   *)
THEOREM SecondStrikeDisables == LoginSpec => OneStrikeIsForgiven
<1>1. LoginInv => ((\E a \in Attempts : DisableAccount(a)) => strikes = 2)
  BY DEF LoginInv, StrikesCount, DisableAccount
<1>2. LoginInv /\ [LoginNext]_loginVars => [(\E a \in Attempts : DisableAccount(a)) => strikes = 2]_loginVars
  BY <1>1
<1>. QED
  BY <1>2, LoginHolds, PTL DEF LoginSpec, OneStrikeIsForgiven

(* A step of a at "expire" is the EXPIRE or the end of the attempt.        *)
LEMMA OnlyExpireFollows ==
  ASSUME LoginInv, NEW a \in Attempts, stage[a] = "expire", stage'[a] # "expire", LoginNext,
         ~ CutShort(a)
  PROVE  ExpireLock(a)
<1>1. stage \in [Attempts -> AttemptSteps]
  BY DEF LoginInv, LoginTypeOK
<1>2. ASSUME NEW b \in Attempts, Arrive(b) \/ Proceed(b) \/ CutShort(b)
      PROVE  b = a
  <2>1. \E next \in AttemptSteps : stage' = [stage EXCEPT ![b] = next]
    BY <1>2
    DEF Arrive, Proceed, CutShort, ReadLock, Count, RightPassword, OpenSession, SendCode, ClearCount,
        ClearLock, ClearBlock, WrongPassword, SetLock, ExpireLock, SetBlock, StartAgain,
        DisableAccount, ResetCount, Command, Leave, Goto, AttemptSteps, OnTheWay
  <2>. QED
    BY <1>1, <2>1
<1>3. ~ (Arrive(a) \/ ReadLock(a) \/ Count(a) \/ RightPassword(a) \/ OpenSession(a) \/ SendCode(a)
         \/ ClearCount(a) \/ ClearLock(a) \/ ClearBlock(a) \/ WrongPassword(a) \/ SetLock(a)
         \/ SetBlock(a) \/ StartAgain(a) \/ DisableAccount(a))
  BY DEF Arrive, ReadLock, Count, RightPassword, OpenSession, SendCode, ClearCount,
         ClearLock, ClearBlock, WrongPassword, SetLock, SetBlock, StartAgain,
         DisableAccount, ResetCount, Command
<1>4. \/ \E b \in Attempts : Arrive(b) \/ Proceed(b) \/ CutShort(b)
      \/ UNCHANGED stage
  BY DEF LoginNext, Admit, ReadUser, Renew, RefreshFails, EndRefresh, Logout, EndSession, VerifyCode,
         KeyExpires, CounterExpires, TokenExpires, ToggleStatus, MakeDriver, KeepAttempts
<1>. QED
  BY <1>2, <1>3, <1>4 DEF Proceed

(* Only the SET of an attempt leaves a lock without a time to live.        *)
LEMMA OnlySetLockLasts ==
  ASSUME LoginInv, LoginNext, redis["lock"] # "forever", redis'["lock"] = "forever"
  PROVE  \E a \in Attempts : stage'[a] = "expire"
<1>1. /\ LoginTypeOK /\ redis \in [Keys -> {"absent", "forever", "timed"}]
      /\ "lock" \in Keys /\ "block" \in Keys /\ "session" \in Keys /\ "code" \in Keys
  BY DEF LoginInv, LoginTypeOK, Keys
<1>2. \A k \in Keys : /\ SetEx(k)["lock"] # "forever" /\ Del(k)["lock"] # "forever"
                      /\ Expire(k)["lock"] # "forever"
  BY <1>1 DEF SetEx, Del, Expire
<1>3. Set("block")["lock"] # "forever"
  BY <1>1 DEF Set
<1>4. ASSUME NEW a \in Attempts, Arrive(a) \/ Proceed(a) \/ CutShort(a) PROVE SetLock(a)
  <2>1. ~ (\/ Arrive(a) \/ Count(a) \/ SendCode(a) \/ ClearCount(a) \/ ClearBlock(a)
           \/ WrongPassword(a) \/ StartAgain(a) \/ DisableAccount(a) \/ CutShort(a))
    BY <1>1, <1>2
    DEF Arrive, Count, SendCode, ClearCount, ClearBlock, WrongPassword, StartAgain, DisableAccount,
        CutShort, ResetCount
  <2>2. ~ (ReadLock(a) \/ RightPassword(a) \/ OpenSession(a) \/ ClearLock(a) \/ ExpireLock(a)
           \/ SetBlock(a))
    BY <1>1, <1>2, <1>3
    DEF ReadLock, RightPassword, OpenSession, ClearLock, ExpireLock, SetBlock, Command
  <2>. QED
    BY <1>4, <2>1, <2>2 DEF Proceed
<1>5. \E a \in Attempts : Arrive(a) \/ Proceed(a) \/ CutShort(a)
  <2>1. ~ \E f \in Refreshes : Admit(f) \/ ReadUser(f) \/ Renew(f) \/ RefreshFails(f)
    BY <1>1, <1>2 DEF Admit, ReadUser, Renew, RefreshFails
  <2>2. ~ (Logout \/ VerifyCode \/ \E k \in Keys : KeyExpires(k))
    BY <1>1, <1>2 DEF Logout, VerifyCode, KeyExpires, EndSession
  <2>3. ~ (CounterExpires \/ ToggleStatus \/ MakeDriver \/ \E r \in Roles : TokenExpires(r))
    BY DEF CounterExpires, ToggleStatus, MakeDriver, TokenExpires
  <2>. QED
    BY <2>1, <2>2, <2>3 DEF LoginNext
<1>6. PICK a \in Attempts : SetLock(a)
  BY <1>4, <1>5
<1>. QED
  BY <1>1, <1>6 DEF SetLock, Command, Goto, LoginTypeOK

(* However attempts overlap, a lock stays without a time to live only      *)
(* because an attempt was cut short between its SET and its EXPIRE         *)
(* (209-210 of auth.service.ts).                                           *)
THEOREM OnlyCutsStrandTheLock == LoginSpec => LockIsTemporary
<1>1. LoginInv /\ [LoginNext]_loginVars =>
        [~ Stranded /\ Stranded' => \E a \in Attempts : stage[a] = "expire" /\ CutShort(a)]_loginVars
  <2>. SUFFICES ASSUME LoginInv, LoginNext, ~ Stranded, Stranded'
                PROVE  \E a \in Attempts : stage[a] = "expire" /\ CutShort(a)
    OBVIOUS
  <2>1. redis'["lock"] = "forever" /\ \A a \in Attempts : stage'[a] # "expire"
    BY DEF Stranded
  <2>2. redis["lock"] = "forever"
    BY <2>1, OnlySetLockLasts
  <2>3. PICK a \in Attempts : stage[a] = "expire"
    BY <2>2 DEF Stranded
  <2>4. ~ ExpireLock(a)
    <3>1. redis \in [Keys -> {"absent", "forever", "timed"}] /\ "lock" \in Keys
      BY DEF LoginInv, LoginTypeOK, Keys
    <3>2. Expire("lock")["lock"] # "forever"
      BY <3>1 DEF Expire, SetEx
    <3>. QED
      BY <2>1, <3>2 DEF ExpireLock, Command
  <2>. QED
    BY <2>1, <2>3, <2>4, OnlyExpireFollows
<1>. QED
  BY <1>1, LoginHolds, PTL DEF LoginSpec, LockIsTemporary

-----------------------------------------------------------------------------
(*                         passwords and their history                     *)

(* What is pushed comes first, the rest moves by one, and the bound is     *)
(* kept.                                                                   *)
LEMMA PushHeads ==
  ASSUME NEW c \in Hashes, NEW hashes \in Seq(Hashes)
  PROVE  /\ Push(c, hashes) \in Seq(Hashes)
         /\ Len(Push(c, hashes)) \in 1..MaxHistory
         /\ Push(c, hashes)[1] = c
         /\ \A p \in DOMAIN hashes : p + 1 <= MaxHistory =>
              /\ p + 1 \in DOMAIN Push(c, hashes)
              /\ Push(c, hashes)[p + 1] = hashes[p]
<1>. DEFINE all == <<c>> \o hashes
            n == IF Len(hashes) < MaxHistory THEN Len(hashes) + 1 ELSE MaxHistory
<1>1. /\ all \in Seq(Hashes) /\ Len(all) = Len(hashes) + 1 /\ all[1] = c
      /\ \A p \in DOMAIN hashes : all[p + 1] = hashes[p]
  OBVIOUS
<1>2. /\ n \in 1..Len(all) /\ n <= MaxHistory
      /\ \A p \in DOMAIN hashes : p + 1 <= MaxHistory => p + 1 \in 1..n
  BY <1>1, PasswordsAssumption
<1>3. /\ SubSeq(all, 1, n) \in Seq(Hashes)
      /\ Len(SubSeq(all, 1, n)) = n
      /\ \A p \in 1..n : SubSeq(all, 1, n)[p] = all[p]
  <2>. HIDE DEF all, n
  <2>. QED
    BY <1>1, <1>2
<1>4. Push(c, hashes) = SubSeq(all, 1, n)
  BY DEF Push
<1>. HIDE DEF all, n
<1>. QED
  BY <1>1, <1>2, <1>3, <1>4, PasswordsAssumption

(* Whom the saves up to saved[m] overtook stays so when those saves stay.  *)
LEMMA OvertakenStays ==
  ASSUME NEW i \in Nat \ {0}, NEW m \in Nat,
         \A k \in i..m : saved'[k] = saved[k],
         \A k \in i + 1..m : earlier'[saved[k]] = earlier[saved[k]]
  PROVE  Overtaken(i, m)' <=> Overtaken(i, m)
<1>1. CASE i <= m
  BY <1>1 DEF Overtaken
<1>2. CASE i > m
  BY <1>2 DEF Overtaken
<1>. QED
  BY <1>1, <1>2

LEMMA PasswordsBegin == PasswordsInit => PasswordsInv
<1>. SUFFICES ASSUME PasswordsInit PROVE PasswordsInv
  OBVIOUS
<1>1. /\ Created \in Hashes /\ <<Created>> \in Seq(Hashes) /\ <<>> \in Seq(Hashes)
      /\ Len(<<Created>>) = 1 /\ 1 \in 1..MaxHistory /\ DOMAIN saved = {1}
  BY PasswordsAssumption DEF Hashes, PasswordsInit
<1>2. PasswordsTypeOK
  BY <1>1 DEF PasswordsInit, PasswordsTypeOK
<1>3. SavedOnce /\ OnlyOverlapsReuse
  BY <1>1 DEF PasswordsInit, SavedOnce, OnlyOverlapsReuse
<1>4. \A i \in DOMAIN saved : Kept(column, i, Len(saved))
  BY <1>1 DEF PasswordsInit, Kept
<1>. QED
  BY <1>1, <1>2, <1>3, <1>4 DEF PasswordsInit, PasswordsInv, PasswordIsNewest

(* A call that reads the row has read as much as there is in the column.   *)
LEMMA ReadRowKeeps ==
  ASSUME PasswordsInv, NEW c \in Changes, NEW step \in {"code", "check"}, ReadRow(c, step)
  PROVE  PasswordsInv'
<1>. USE DEF PasswordsInv
<1>1. /\ UNCHANGED <<column, current, resetCode, word, saved>>
      /\ at[c] = "idle"
      /\ at' = [at EXCEPT ![c] = step]
      /\ read' = [read EXCEPT ![c] = column]
      /\ earlier' = [earlier EXCEPT ![c] = Range(saved)]
  BY DEF ReadRow
<1>2. PasswordsTypeOK'
  <2>1. Range(saved) \subseteq Hashes
    BY DEF PasswordsTypeOK, Range
  <2>. QED
    BY <1>1, <2>1 DEF PasswordsTypeOK
<1>3. Len(saved) \in Nat \ {0} /\ DOMAIN saved = 1..Len(saved)
  BY DEF PasswordsTypeOK, SavedOnce
<1>4. SavedOnce' /\ \A k \in 2..Len(saved) : earlier'[saved[k]] = earlier[saved[k]]
  BY <1>1 DEF SavedOnce, PasswordsTypeOK
<1>5. ASSUME NEW i \in DOMAIN saved, NEW m \in DOMAIN saved
      PROVE  Overtaken(i, m)' <=> Overtaken(i, m)
  BY <1>1, <1>3, <1>4, OvertakenStays
<1>6. (\A i \in DOMAIN saved : Kept(column, i, Len(saved)))'
  BY <1>1, <1>3, <1>5 DEF Kept
<1>7. ASSUME NEW d \in Changes, at'[d] \in {"code", "check", "save"}
      PROVE  /\ \E m \in DOMAIN saved' : HasRead(d, m)'
             /\ at'[d] = "save" => ~ Reused(d)'
  <2>1. CASE d = c
    <3>0. Range(saved) = {saved[i] : i \in 1..Len(saved)}
      BY <1>3 DEF Range
    <3>1. /\ earlier'[c] = {saved[i] : i \in 1..Len(saved)} /\ read'[c] = column
          /\ at'[c] # "save" /\ saved' = saved /\ Len(saved) \in DOMAIN saved'
      BY <1>1, <1>3, <3>0 DEF PasswordsTypeOK
    <3>2. \A i \in 1..Len(saved) : Kept(read[c], i, Len(saved))'
      BY <3>1, <1>3, <1>5 DEF Kept
    <3>. QED
      BY <2>1, <3>1, <3>2 DEF HasRead
  <2>2. CASE d # c
    <3>1. /\ at'[d] = at[d] /\ earlier'[d] = earlier[d] /\ read'[d] = read[d]
          /\ saved' = saved /\ word' = word
      BY <1>1, <2>2 DEF PasswordsTypeOK
    <3>2. PICK m \in DOMAIN saved : HasRead(d, m)
      BY <1>7, <3>1
    <3>3. \A i \in 1..m : Kept(read[d], i, m)'
      BY <3>1, <3>2, <1>3, <1>5 DEF HasRead, Kept
    <3>4. HasRead(d, m)'
      BY <3>1, <3>2, <3>3 DEF HasRead
    <3>. QED
      BY <1>7, <3>1, <3>4 DEF Reused
  <2>. QED
    BY <2>1, <2>2
<1>8. OnlyOverlapsReuse'
  BY <1>1, <1>5 DEF OnlyOverlapsReuse
<1>. QED
  BY <1>1, <1>2, <1>4, <1>6, <1>7, <1>8 DEF PasswordIsNewest

(* A step that only moves a call, or no call, on. *)
LEMMA MovingKeeps ==
  ASSUME PasswordsInv, UNCHANGED <<column, word, read, saved, earlier>>,
         current' \in {current, "raw"}, resetCode' \in BOOLEAN,
         at' \in [Changes -> {"idle", "code", "check", "save", "done", "refused"}],
         \A c \in Changes :
           /\ at[c] = "done" => at'[c] = "done"
           /\ at'[c] \in {"code", "check", "save"} => at[c] \in {"code", "check", "save"}
           /\ at'[c] = "save" => ~ Reused(c)
  PROVE  PasswordsInv'
<1>. USE DEF PasswordsInv
<1>1. PasswordsTypeOK' /\ PasswordIsNewest'
  BY DEF PasswordsTypeOK, PasswordIsNewest
<1>2. SavedOnce' /\ OnlyOverlapsReuse'
  BY DEF SavedOnce, OnlyOverlapsReuse, Overtaken
<1>3. (\A i \in DOMAIN saved : Kept(column, i, Len(saved)))'
  BY DEF Kept, Overtaken
<1>4. ASSUME NEW c \in Changes, at'[c] \in {"code", "check", "save"}
      PROVE  /\ \E m \in DOMAIN saved' : HasRead(c, m)'
             /\ at'[c] = "save" => ~ Reused(c)'
  <2>1. PICK m \in DOMAIN saved : HasRead(c, m)
    BY <1>4
  <2>2. HasRead(c, m)'
    BY <2>1 DEF HasRead, Kept, Overtaken
  <2>. QED
    BY <2>1, <2>2 DEF Reused
<1>. QED
  BY <1>1, <1>2, <1>3, <1>4

(* A call that saves pushes onto what it has read: what was saved before   *)
(* that moves by one, and what was saved after it has been overtaken.      *)
LEMMA SaveKeeps ==
  ASSUME PasswordsInv, NEW c \in Changes, Save(c)
  PROVE  PasswordsInv'
<1>. USE DEF PasswordsInv
<1>0. PICK n \in Nat : n = Len(saved)
  BY DEF PasswordsTypeOK
<1>1. /\ column' = Push(c, read[c]) /\ current' = c /\ saved' = Append(saved, c)
      /\ at' = [at EXCEPT ![c] = "done"] /\ at[c] = "save"
      /\ UNCHANGED <<resetCode, word, read, earlier>>
  BY DEF Save
<1>2. c \in Hashes /\ read[c] \in Seq(Hashes)
  BY DEF PasswordsTypeOK, Hashes
<1>3. /\ column' \in Seq(Hashes) /\ Len(column') \in 1..MaxHistory /\ column'[1] = c
      /\ \A p \in DOMAIN read[c] : p + 1 <= MaxHistory =>
           p + 1 \in DOMAIN column' /\ column'[p + 1] = read[c][p]
  BY <1>1, <1>2, PushHeads
<1>4. /\ n \in Nat \ {0} /\ DOMAIN saved = 1..n /\ saved \in Seq(Hashes)
      /\ Len(saved') = n + 1 /\ DOMAIN saved' = 1..n + 1
      /\ saved'[n + 1] = c /\ \A k \in 1..n : saved'[k] = saved[k]
  BY <1>0, <1>1, <1>2 DEF PasswordsTypeOK, SavedOnce
<1>5. \A k \in 1..n : saved[k] # c
  BY <1>1, <1>4, PasswordsAssumption DEF SavedOnce
<1>6. PasswordsTypeOK' /\ PasswordIsNewest'
  BY <1>1, <1>2, <1>3 DEF PasswordsTypeOK, PasswordIsNewest
<1>7. SavedOnce'
  <2>1. /\ Len(saved') >= 1 /\ saved'[1] = Created
    BY <1>4 DEF SavedOnce
  <2>2. ASSUME NEW k \in 2..n + 1 PROVE saved'[k] \in Changes /\ at'[saved'[k]] = "done"
    <3>1. CASE k = n + 1
      BY <1>1, <1>4, <3>1 DEF PasswordsTypeOK
    <3>2. CASE k \in 2..n
      BY <1>1, <1>4, <3>2 DEF PasswordsTypeOK, SavedOnce
    <3>. QED
      BY <3>1, <3>2, <1>4
  <2>3. ASSUME NEW i \in 1..n + 1, NEW j \in 1..n + 1, saved'[i] = saved'[j] PROVE i = j
    <3>1. CASE i \in 1..n /\ j \in 1..n
      BY <1>4, <2>3, <3>1 DEF SavedOnce
    <3>2. CASE i = n + 1 \/ j = n + 1
      BY <1>4, <1>5, <2>3, <3>2
    <3>. QED
      BY <3>1, <3>2, <1>4
  <2>. QED
    BY <1>4, <2>1, <2>2, <2>3 DEF SavedOnce
<1>8. PICK m \in 1..n : HasRead(c, m)
  BY <1>1, <1>4
<1>9. ASSUME NEW i \in 1..n, NEW k \in 1..n
      PROVE  Overtaken(i, k)' <=> Overtaken(i, k)
  <2>1. i \in Nat \ {0} /\ k \in Nat
    BY <1>4
  <2>. QED
    BY <1>1, <1>4, <2>1, OvertakenStays
<1>10. ASSUME NEW i \in 1..n, ~ Overtaken(i, n + 1)'
       PROVE  /\ i <= m /\ ~ Overtaken(i, m)
              /\ \/ m - i >= MaxHistory
                 \/ \E p \in DOMAIN read[c] : p <= m - i + 1 /\ read[c][p] = saved[i]
  <2>1. saved[i] \in earlier[c]
    BY <1>1, <1>4, <1>10 DEF Overtaken
  <2>2. PICK j \in 1..m : saved[j] = saved[i]
    BY <1>8, <2>1 DEF HasRead
  <2>3. i <= m
    BY <1>4, <1>8, <2>2 DEF SavedOnce
  <2>4. ~ Overtaken(i, m)'
    BY <1>4, <1>10 DEF Overtaken
  <2>5. ~ Overtaken(i, m) /\ Kept(read[c], i, m)
    BY <1>4, <1>8, <1>9, <2>3, <2>4 DEF HasRead
  <2>. QED
    BY <2>3, <2>5 DEF Kept
<1>11. (\A i \in DOMAIN saved : Kept(column, i, Len(saved)))'
  <2>. SUFFICES ASSUME NEW i \in 1..n + 1, ~ Overtaken(i, n + 1)', n + 1 - i < MaxHistory
                PROVE  \E p \in DOMAIN column' : p <= n + 1 - i + 1 /\ column'[p] = saved'[i]
    BY <1>4, PasswordsAssumption DEF Kept
  <2>1. CASE i = n + 1
    <3>1. DOMAIN column' = 1..Len(column')
      BY <1>3
    <3>2. 1 \in DOMAIN column' /\ column'[1] = saved'[i] /\ 1 <= n + 1 - i + 1
      BY <1>3, <1>4, <2>1, <3>1, PasswordsAssumption
    <3>. QED
      BY <3>2, Zenon
  <2>2. CASE i \in 1..n
    <3>0. ~ (m - i >= MaxHistory)
      BY <1>4, <2>2, PasswordsAssumption
    <3>1. PICK p \in DOMAIN read[c] : p <= m - i + 1 /\ read[c][p] = saved[i]
      BY <1>10, <2>2, <3>0
    <3>2. p \in Nat /\ p + 1 <= MaxHistory /\ p + 1 <= n + 1 - i + 1
      BY <1>2, <1>4, <2>2, <3>1, PasswordsAssumption
    <3>. QED
      BY <1>3, <1>4, <2>2, <3>1, <3>2
  <2>. QED
    BY <1>4, <2>1, <2>2
<1>12. ASSUME NEW d \in Changes, at'[d] \in {"code", "check", "save"}
       PROVE  /\ \E k \in DOMAIN saved' : HasRead(d, k)'
              /\ at'[d] = "save" => ~ Reused(d)'
  <2>1. d # c /\ at'[d] = at[d]
    BY <1>1, <1>12 DEF PasswordsTypeOK
  <2>2. PICK k \in 1..n : HasRead(d, k)
    BY <1>4, <1>12, <2>1
  <2>3. earlier'[d] = {saved'[i] : i \in 1..k}
    BY <1>1, <1>4, <2>2 DEF HasRead
  <2>4. \A i \in 1..k : Kept(read[d], i, k)'
    BY <1>1, <1>4, <1>9, <2>2 DEF HasRead, Kept
  <2>5. HasRead(d, k)' /\ k \in DOMAIN saved'
    BY <1>4, <2>3, <2>4 DEF HasRead
  <2>. QED
    BY <1>1, <1>12, <2>1, <2>5 DEF Reused
<1>13. OnlyOverlapsReuse'
  <2>. SUFFICES ASSUME NEW i \in 1..n + 1, NEW j \in 1..n + 1, i < j, j - i <= MaxHistory,
                       word'[saved'[i]] = word'[saved'[j]]
                PROVE  Overtaken(i, j)'
    BY <1>4 DEF OnlyOverlapsReuse
  <2>1. CASE j \in 1..n
    <3>1. i \in 1..n /\ word[saved[i]] = word[saved[j]]
      BY <1>1, <1>4, <2>1
    <3>2. Overtaken(i, j)
      BY <1>4, <2>1, <3>1 DEF OnlyOverlapsReuse
    <3>. QED
      BY <1>9, <2>1, <3>1, <3>2
  <2>2. CASE j = n + 1
    <3>. SUFFICES ASSUME ~ Overtaken(i, n + 1)' PROVE FALSE
      BY <2>2
    <3>1. i \in 1..n /\ n - i < MaxHistory /\ word[saved[i]] = word[c]
      BY <1>1, <1>4, <2>2, PasswordsAssumption
    <3>2. PICK p \in DOMAIN read[c] : read[c][p] = saved[i]
      BY <1>4, <1>8, <1>10, <3>1, PasswordsAssumption
    <3>3. saved[i] \in Range(read[c])
      BY <3>2 DEF Range
    <3>. QED
      BY <1>1, <3>1, <3>3 DEF Reused
  <2>. QED
    BY <1>4, <2>1, <2>2
<1>. QED
  BY <1>3, <1>6, <1>7, <1>11, <1>12, <1>13

LEMMA PasswordsStep == PasswordsInv /\ [PasswordsNext]_passwordVars => PasswordsInv'
<1>. SUFFICES ASSUME PasswordsInv, [PasswordsNext]_passwordVars PROVE PasswordsInv'
  OBVIOUS
<1>0. PasswordsTypeOK
  BY DEF PasswordsInv
<1>1. ASSUME NEW c \in Changes, BeginChange(c) \/ BeginReset(c) PROVE PasswordsInv'
  BY <1>1, ReadRowKeeps DEF BeginChange, BeginReset
<1>2. ASSUME NEW c \in Changes, CheckCode(c) \/ CheckHistory(c) \/ Refuse(c)
      PROVE  PasswordsInv'
  <2>1. PICK step \in {"code", "check", "save"}, next \in {"check", "save", "refused"} :
          Pass(c, step, next) /\ (next = "save" => ~ Reused(c))
    BY <1>2 DEF CheckCode, CheckHistory, Refuse
  <2>2. /\ at[c] = step /\ at' = [at EXCEPT ![c] = next]
        /\ UNCHANGED <<column, current, resetCode, word, read, saved, earlier>>
    BY <2>1 DEF Pass
  <2>3. \A d \in Changes : d # c /\ at[d] = "save" => ~ Reused(d)
    BY DEF PasswordsInv
  <2>. QED
    BY <1>0, <2>1, <2>2, <2>3, MovingKeeps DEF PasswordsTypeOK
<1>3. ASSUME NEW c \in Changes, Save(c) PROVE PasswordsInv'
  BY <1>3, SaveKeeps
<1>4. CASE RequestReset \/ ResetCodeExpires \/ EditPassword \/ UNCHANGED passwordVars
  <2>1. /\ UNCHANGED <<column, word, at, read, saved, earlier>>
        /\ current' \in {current, "raw"} /\ resetCode' \in BOOLEAN
    BY <1>0, <1>4
    DEF RequestReset, ResetCodeExpires, EditPassword, passwordVars, PasswordsTypeOK
  <2>2. \A d \in Changes : at[d] = "save" => ~ Reused(d)
    BY DEF PasswordsInv
  <2>. QED
    BY <1>0, <2>1, <2>2, MovingKeeps DEF PasswordsTypeOK
<1>. QED
  BY <1>1, <1>2, <1>3, <1>4 DEF PasswordsNext

(* Whatever changes of a password overlap, the history begins with the one *)
(* that is in force, stays within MAX_PASSWORD_HISTORY and holds what no   *)
(* save has pushed out or overtaken (329-391, 423-476 of auth.service.ts): *)
(* the inductive invariant.                                                *)
THEOREM PasswordsHold == PasswordsSpec => []PasswordsInv
  BY PasswordsBegin, PasswordsStep, PTL DEF PasswordsSpec

(* For any number of overlapping changes and any MAX_PASSWORD_HISTORY: a   *)
(* password that was set is neither set again nor missing from the history *)
(* unless it is old enough or a change had read its row before (340-350,   *)
(* 440-455).                                                               *)
THEOREM NoPasswordIsReused == PasswordsSpec => []HistoryCounts
<1>1. PasswordsInv => HistoryCounts
  <2>. SUFFICES ASSUME PasswordsInv PROVE OnlyOverlapsForget
    BY DEF HistoryCounts, PasswordsInv
  <2>. SUFFICES ASSUME NEW i \in DOMAIN saved, Len(saved) - i < MaxHistory,
                       ~ Overtaken(i, Len(saved))
                PROVE  saved[i] \in Range(column)
    BY PasswordsAssumption DEF OnlyOverlapsForget, PasswordsInv, PasswordsTypeOK
  <2>1. PICK p \in DOMAIN column : column[p] = saved[i]
    BY PasswordsAssumption DEF PasswordsInv, PasswordsTypeOK, Kept
  <2>. QED
    BY <2>1 DEF Range
<1>. QED
  BY <1>1, PasswordsHold, PTL

(* The password in force is the one the history begins with.               *)
THEOREM NewestComesFirst == PasswordsSpec => []PasswordIsNewest
  BY PasswordsHold, PTL DEF PasswordsInv

-----------------------------------------------------------------------------
(*                            access control                               *)

Guarded == Reached.needs.guards = <<"token", "access">>

(* How far a request behind AccessGuard has come, and on what ground. *)
AccessInv ==
  /\ ask.controller \in Controllers /\ ask.user \in Users
  /\ reached \in {0} \cup DOMAIN Handlers[ask.controller]
  /\ reached = 0 => passed = 0 /\ answer = "pending"
  /\ passed \in Nat /\ answer \in {"pending", "served", "forbidden", "unauthorized"}
  /\ reached # 0 /\ Guarded =>
       /\ passed <= 2
       /\ passed >= 1 => ask.user.token \in {"access", "otp"}
       /\ passed = 2 => Granted(Reached.needs, ask.user)
       /\ answer = "served" => passed = 2
       /\ answer \in {"forbidden", "unauthorized"} =>
            ~ (ask.user.token \in {"access", "otp"} /\ Granted(Reached.needs, ask.user))

LEMMA AccessBegins == AccessInit => AccessInv
  BY DEF AccessInit, AccessInv

LEMMA AccessStep == AccessInv /\ [AccessNext]_accessVars => AccessInv'
<1>. SUFFICES ASSUME AccessInv, [AccessNext]_accessVars PROVE AccessInv'
  OBVIOUS
<1>1. CASE Route
  BY <1>1 DEF Route, AccessInv, Guarded, Reached
<1>2. CASE RunGuard
  <2>1. /\ reached # 0 /\ answer = "pending" /\ passed < Len(Reached.needs.guards)
        /\ UNCHANGED <<ask, reached>>
    BY <1>2 DEF RunGuard, Waits
  <2>2. CASE Admits(NextGuard, Reached.needs, ask.user) /\ passed' = passed + 1 /\ UNCHANGED answer
    BY <2>1, <2>2 DEF AccessInv, Admits, NextGuard, Guarded, Reached
  <2>3. CASE /\ ~ Admits(NextGuard, Reached.needs, ask.user) /\ UNCHANGED passed
             /\ answer' = IF NextGuard = "access" THEN "forbidden" ELSE "unauthorized"
    BY <2>1, <2>3 DEF AccessInv, Admits, NextGuard, Guarded, Reached
  <2>. QED
    BY <1>2, <2>2, <2>3 DEF RunGuard
<1>3. CASE Serve
  <2>1. /\ reached # 0 /\ passed = Len(Reached.needs.guards) /\ answer' = "served"
        /\ UNCHANGED <<ask, reached, passed>>
    BY <1>3 DEF Serve, Waits
  <2>2. Reached' = Reached /\ (Guarded' <=> Guarded) /\ (Guarded => passed = 2)
    BY <2>1 DEF Reached, Guarded
  <2>3. Granted(Reached.needs, ask.user)' <=> Granted(Reached.needs, ask.user)
    BY <2>1 DEF Reached, Granted, Wildcard
  <2>. QED
    BY <2>1, <2>2, <2>3 DEF AccessInv
<1>4. CASE UNCHANGED accessVars
  BY <1>4 DEF accessVars, AccessInv, Guarded, Reached
<1>. QED
  BY <1>1, <1>2, <1>3, <1>4 DEF AccessNext

(* canActivate and the comment of RequireAccess agree on every rule that   *)
(* names some realm and some role.                                         *)
LEMMA GrantedIsDocumented ==
  ASSUME NEW needs, NEW user, needs.mode \in {"AND", "OR"}, user.token \in {"access", "otp"}
  PROVE  Granted(needs, user) <=>
           Documented(OrAny(needs.realms), OrAny(needs.roles), needs.mode, user)
<1>1. ASSUME NEW list, NEW mine
      PROVE  Allowed(OrAny(list), mine) <=> Wildcard(list) \/ mine \in list
  BY DEF Allowed, OrAny, Wildcard
<1>2. /\ Allowed(OrAny(needs.realms), user.realm) <=>
           Wildcard(needs.realms) \/ user.realm \in needs.realms
      /\ Allowed(OrAny(needs.roles), user.role) <=>
           Wildcard(needs.roles) \/ user.role \in needs.roles
  BY <1>1
<1>. QED
  BY <1>2 DEF Granted, Documented

(* For any handlers, with any rules, empty lists among them, and anyone    *)
(* who asks.                                                               *)
THEOREM AccessAsDocumented == AccessSpec => []AnswersAsDocumented
<1>1. AccessInv => AnswersAsDocumented
  <2>. SUFFICES ASSUME AccessInv, answer # "pending", Guarded
                PROVE  answer = "served" <=>
                         Documented(OrAny(Reached.needs.realms), OrAny(Reached.needs.roles),
                                    Reached.needs.mode, ask.user)
    BY DEF AnswersAsDocumented, Guarded
  <2>1. reached \in DOMAIN Handlers[ask.controller] /\ ask.controller \in Controllers
        /\ ask.user \in Users
    BY DEF AccessInv
  <2>2. Reached.needs.mode \in {"AND", "OR"}
    BY <2>1, HandlersAssumption DEF Guarded, Reached
  <2>3. CASE answer = "served"
    BY <2>1, <2>2, <2>3, GrantedIsDocumented DEF AccessInv
  <2>4. CASE answer \in {"forbidden", "unauthorized"}
    BY <2>1, <2>2, <2>4, GrantedIsDocumented DEF AccessInv, Documented
  <2>. QED
    BY <2>3, <2>4 DEF AccessInv
<1>. QED
  BY <1>1, AccessBegins, AccessStep, PTL DEF AccessSpec

(*                       which handler is reached                          *)

Path(p) == p \in Seq(Range(p))

(* A request for handler g could be taken by handler h.  "x" is the        *)
(* identifier that PathTo puts in place of ":id".                          *)
Covers(h, g) ==
  /\ h.verb = g.verb
  /\ Len(h.path) = Len(g.path)
  /\ \A n \in 1..Len(g.path) : h.path[n] \in {":id", "x", g.path[n]}

(* A list of handlers of which none hides behind one before it, but for    *)
(* one for "stats".                                                        *)
NoneHidden(list) ==
  /\ DOMAIN list \subseteq Nat \ {0}
  /\ \A k \in DOMAIN list :
       /\ Path(list[k].path)
       /\ list[k].path = <<"stats">> \/ \A j \in DOMAIN list : j < k => ~ Covers(list[j], list[k])

(* A handler takes a request for itself, and no other that it does not     *)
(* cover.                                                                  *)
LEMMA PathReached ==
  ASSUME NEW h, NEW g, Path(h.path), Path(g.path)
  PROVE  /\ Matches(g, g.verb, PathTo(g))
         /\ Matches(h, g.verb, PathTo(g)) => Covers(h, g)
<1>1. /\ DOMAIN g.path = 1..Len(g.path) /\ Len(g.path) \in Nat
      /\ DOMAIN PathTo(g) = 1..Len(g.path)
  BY DEF PathTo, Path
<1>2. \A n \in 1..Len(g.path) :
        PathTo(g)[n] = IF g.path[n] = ":id" THEN "x" ELSE g.path[n]
  BY <1>1 DEF PathTo
<1>3. Len(PathTo(g)) = Len(g.path)
  <2>1. PathTo(g) = [n \in 1..Len(g.path) |-> PathTo(g)[n]]
    BY <1>1 DEF PathTo
  <2>2. PathTo(g) \in [1..Len(g.path) -> Range(PathTo(g))]
    BY <1>1, <2>1 DEF Range
  <2>. QED
    BY <1>1, <2>2
<1>. QED
  BY <1>1, <1>2, <1>3 DEF Matches, Covers

(* What the router has found is the handler that was meant. *)
Meant ==
  /\ ask.controller \in Controllers /\ ask.index \in DOMAIN Handlers[ask.controller]
  /\ EachReached

(* Whatever the handlers, the router finds the one that is meant, if in no *)
(* controller a handler hides behind one before it.                        *)
THEOREM HandlersAreReached ==
  ASSUME \A c \in Controllers : NoneHidden(Handlers[c])
  PROVE  AccessSpec => []EachReached
<1>1. AccessInit => Meant
  BY DEF AccessInit, Meant, EachReached
<1>2. Meant /\ [AccessNext]_accessVars => Meant'
  <2>. SUFFICES ASSUME Meant, [AccessNext]_accessVars PROVE Meant'
    OBVIOUS
  <2>1. CASE Route
    <3>. DEFINE list == Handlers[ask.controller]
    <3>1. PICK i \in DOMAIN list :
            FirstMatch(list, Asked.verb, PathTo(Asked), i) /\ reached' = i
      BY <2>1 DEF Route
    <3>2. /\ UNCHANGED ask /\ NoneHidden(list) /\ Asked = list[ask.index]
          /\ ask.index \in DOMAIN list /\ ask.controller \in Controllers
      BY <2>1 DEF Route, Meant, Asked
    <3>. HIDE DEF list
    <3>3. /\ i \in Nat \ {0} /\ ask.index \in Nat \ {0}
          /\ Path(list[i].path) /\ Path(list[ask.index].path)
      BY <3>2 DEF NoneHidden
    <3>4. Matches(list[ask.index], Asked.verb, PathTo(Asked)) /\ Covers(list[i], list[ask.index])
      BY <3>1, <3>2, <3>3, PathReached DEF FirstMatch
    <3>5. ~ (ask.index < i)
      BY <3>1, <3>3, <3>4 DEF FirstMatch
    <3>6. i < ask.index => Asked.path = <<"stats">>
      BY <3>2, <3>4 DEF NoneHidden
    <3>. QED
      BY <3>1, <3>2, <3>3, <3>5, <3>6 DEF Meant, EachReached, Asked
  <2>2. CASE UNCHANGED <<ask, reached>>
    BY <2>2 DEF Meant, EachReached, Asked
  <2>. QED
    BY <2>1, <2>2 DEF AccessNext, RunGuard, Serve, accessVars
<1>3. Meant => EachReached
  BY DEF Meant
<1>. QED
  BY <1>1, <1>2, <1>3, PTL DEF AccessSpec

(* What a handler is about: its verb and its path, of at most three        *)
(* segments.                                                               *)
Bare(g, verb)           == g.verb = verb /\ g.path = <<>>
One(g, verb, a)         == g.verb = verb /\ g.path = <<a>>
Two(g, verb, a, b)      == g.verb = verb /\ g.path = <<a, b>>
Three(g, verb, a, b, c) == g.verb = verb /\ g.path = <<a, b, c>>

(* Two handlers can only be told apart by their verb, the length of their  *)
(* path and, in this application, its first two segments.                  *)
HandlerRow(g, verb, length) == g.verb = verb /\ Path(g.path) /\ Len(g.path) = length

LEMMA BareRow ==
  ASSUME NEW g, NEW verb, Bare(g, verb)
  PROVE  HandlerRow(g, verb, 0)
  BY DEF Bare, HandlerRow, Path, Range

LEMMA OneRow ==
  ASSUME NEW g, NEW verb, NEW a, One(g, verb, a)
  PROVE  HandlerRow(g, verb, 1) /\ g.path[1] = a
  BY DEF One, HandlerRow, Path, Range

LEMMA TwoRow ==
  ASSUME NEW g, NEW verb, NEW a, NEW b, Two(g, verb, a, b)
  PROVE  HandlerRow(g, verb, 2) /\ g.path[1] = a /\ g.path[2] = b
  BY DEF Two, HandlerRow, Path, Range

LEMMA ThreeRow ==
  ASSUME NEW g, NEW verb, NEW a, NEW b, NEW c, Three(g, verb, a, b, c)
  PROVE  HandlerRow(g, verb, 3) /\ g.path[1] = a /\ g.path[2] = b
  BY DEF Three, HandlerRow, Path, Range

(* What is left of Covers for paths of which the first two segments count. *)
LEMMA CoversShort ==
  ASSUME NEW h, NEW g, Covers(h, g), Len(g.path) \in Nat
  PROVE  /\ h.verb = g.verb
         /\ Len(h.path) = Len(g.path)
         /\ Len(g.path) >= 1 => h.path[1] \in {":id", "x", g.path[1]}
         /\ Len(g.path) >= 2 => h.path[2] \in {":id", "x", g.path[2]}
  BY DEF Covers

(* Table by table: rows of the same verb and length differ in a segment    *)
(* that the earlier of them spells out.                                    *)
LEMMA AuthReached == NoneHidden(AuthHandlers)
<1>. DEFINE h == AuthHandlers
<1>1. /\ DOMAIN h = 1..8
      /\ One(h[1], "POST", "login")
      /\ One(h[2], "GET", "me")
      /\ One(h[3], "POST", "verify-otp")
      /\ One(h[4], "POST", "refresh-token")
      /\ One(h[5], "POST", "change-password")
      /\ One(h[6], "POST", "logout")
      /\ One(h[7], "POST", "reset-password-request")
      /\ One(h[8], "POST", "confirm-reset-password-request")
  BY DEF AuthHandlers, Handler, Get, Post, Patch, One
<1>. HIDE DEF h
<1>2. ASSUME NEW j \in 1..8, NEW k \in 1..8, j < k
      PROVE  ~ Covers(h[j], h[k])
  BY <1>1, <1>2, OneRow, CoversShort, SMTT(60) DEF HandlerRow
<1>3. NoneHidden(h)
  BY <1>1, <1>2, OneRow DEF NoneHidden, HandlerRow
<1>. QED
  BY <1>3 DEF h

LEMMA BookingReached == NoneHidden(BookingHandlers)
<1>. DEFINE h == BookingHandlers
<1>1. /\ DOMAIN h = 1..6
      /\ One(h[1], "GET", "search")
      /\ Two(h[2], "GET", "cancellation-policy", ":id")
      /\ Three(h[3], "GET", "trip", "detail", ":id")
      /\ Two(h[4], "GET", "detail", ":id")
      /\ One(h[5], "POST", "create")
      /\ One(h[6], "POST", "payment-callback")
  BY DEF BookingHandlers, Handler, Get, Post, Patch, One, Two, Three
<1>. HIDE DEF h
<1>2. ASSUME NEW j \in 1..6, NEW k \in 1..6, j < k
      PROVE  ~ Covers(h[j], h[k])
  BY <1>1, <1>2, OneRow, TwoRow, ThreeRow, CoversShort DEF HandlerRow
<1>3. NoneHidden(h)
  BY <1>1, <1>2, OneRow, TwoRow, ThreeRow DEF NoneHidden, HandlerRow
<1>. QED
  BY <1>3 DEF h

LEMMA BusReached == NoneHidden(BusHandlers)
<1>. DEFINE h == BusHandlers
<1>1. /\ DOMAIN h = 1..11
      /\ Two(h[1], "GET", "detail", ":id")
      /\ Two(h[2], "POST", "model", "create")
      /\ Three(h[3], "PATCH", "model", "toggle-status", ":id")
      /\ Two(h[4], "PATCH", "model", ":id")
      /\ One(h[5], "GET", "paginate")
      /\ Two(h[6], "GET", "model", "paginate")
      /\ Two(h[7], "GET", "model", ":id")
      /\ One(h[8], "POST", "create")
      /\ One(h[9], "PATCH", ":id")
      /\ One(h[10], "POST", "duplicate")
      /\ Two(h[11], "PATCH", "status", ":id")
  BY DEF BusHandlers, Handler, Get, Post, Patch, One, Two, Three
<1>. HIDE DEF h
<1>2. ASSUME NEW j \in 1..11, NEW k \in 1..11, j < k, Covers(h[j], h[k]) PROVE FALSE
  <2>1. \A i \in 1..11 : \/ h[i].verb = "GET" /\ i \in {1, 5, 6, 7}
                         \/ h[i].verb = "POST" /\ i \in {2, 8, 10}
                         \/ h[i].verb = "PATCH" /\ i \in {3, 4, 9, 11}
    BY <1>1, OneRow, TwoRow, ThreeRow DEF HandlerRow
  <2>2. h[j].verb = h[k].verb
    BY <1>2 DEF Covers
  <2>3. CASE h[k].verb = "GET"
    <3>1. j \in {1, 5, 6, 7} /\ k \in {1, 5, 6, 7}
      BY <2>1, <2>2, <2>3
    <3>. QED
      BY <1>1, <1>2, <3>1, OneRow, TwoRow, ThreeRow, CoversShort,
         SMTT(60) DEF HandlerRow
  <2>4. CASE h[k].verb = "POST"
    <3>1. j \in {2, 8, 10} /\ k \in {2, 8, 10}
      BY <2>1, <2>2, <2>4
    <3>. QED
      BY <1>1, <1>2, <3>1, OneRow, TwoRow, ThreeRow, CoversShort,
         SMTT(60) DEF HandlerRow
  <2>5. CASE h[k].verb = "PATCH"
    <3>1. j \in {3, 4, 9, 11} /\ k \in {3, 4, 9, 11}
      BY <2>1, <2>2, <2>5
    <3>. QED
      BY <1>1, <1>2, <3>1, OneRow, TwoRow, ThreeRow, CoversShort,
         SMTT(60) DEF HandlerRow
  <2>. QED
    BY <2>1, <2>3, <2>4, <2>5
<1>3. NoneHidden(h)
  BY <1>1, <1>2, OneRow, TwoRow, ThreeRow DEF NoneHidden, HandlerRow
<1>. QED
  BY <1>3 DEF h

LEMMA PolicyReached == NoneHidden(PolicyHandlers)
<1>. DEFINE h == PolicyHandlers
<1>1. /\ DOMAIN h = 1..4
      /\ One(h[1], "GET", "paginate")
      /\ Two(h[2], "GET", "detail", ":id")
      /\ One(h[3], "POST", "create")
      /\ Two(h[4], "PATCH", "edit", ":id")
  BY DEF PolicyHandlers, Handler, Get, Post, Patch, One, Two
<1>. HIDE DEF h
<1>2. ASSUME NEW j \in 1..4, NEW k \in 1..4, j < k
      PROVE  ~ Covers(h[j], h[k])
  BY <1>1, <1>2, OneRow, TwoRow, CoversShort DEF HandlerRow
<1>3. NoneHidden(h)
  BY <1>1, <1>2, OneRow, TwoRow DEF NoneHidden, HandlerRow
<1>. QED
  BY <1>3 DEF h

LEMMA CityReached == NoneHidden(CityHandlers)
<1>. DEFINE h == CityHandlers
<1>1. /\ DOMAIN h = 1..2
      /\ Bare(h[1], "GET")
      /\ One(h[2], "POST", "create")
  BY DEF CityHandlers, Handler, Get, Post, Patch, Bare, One
<1>. HIDE DEF h
<1>2. ASSUME NEW j \in 1..2, NEW k \in 1..2, j < k
      PROVE  ~ Covers(h[j], h[k])
  BY <1>1, <1>2, BareRow, OneRow, CoversShort DEF HandlerRow
<1>3. NoneHidden(h)
  BY <1>1, <1>2, BareRow, OneRow DEF NoneHidden, HandlerRow
<1>. QED
  BY <1>3 DEF h

LEMMA DriverReached == NoneHidden(DriverHandlers)
<1>. DEFINE h == DriverHandlers
<1>1. /\ DOMAIN h = 1..7
      /\ One(h[1], "GET", "paginate")
      /\ One(h[2], "GET", "count")
      /\ One(h[3], "GET", ":id")
      /\ One(h[4], "POST", "create")
      /\ Two(h[5], "GET", "detail", ":id")
      /\ Two(h[6], "POST", "assign-bus", ":id")
      /\ Two(h[7], "PATCH", "status", ":id")
  BY DEF DriverHandlers, Handler, Get, Post, Patch, One, Two
<1>. HIDE DEF h
<1>2. ASSUME NEW j \in 1..7, NEW k \in 1..7, j < k
      PROVE  ~ Covers(h[j], h[k])
  BY <1>1, <1>2, OneRow, TwoRow, CoversShort, SMTT(60) DEF HandlerRow
<1>3. NoneHidden(h)
  BY <1>1, <1>2, OneRow, TwoRow DEF NoneHidden, HandlerRow
<1>. QED
  BY <1>3 DEF h

LEMMA RouteReached == NoneHidden(RouteHandlers)
<1>. DEFINE h == RouteHandlers
<1>1. /\ DOMAIN h = 1..6
      /\ One(h[1], "GET", "paginate")
      /\ One(h[2], "GET", "count")
      /\ One(h[3], "GET", ":id")
      /\ One(h[4], "POST", "create")
      /\ Two(h[5], "PATCH", "status", ":id")
      /\ One(h[6], "PATCH", ":id")
  BY DEF RouteHandlers, Handler, Get, Post, Patch, One, Two
<1>. HIDE DEF h
<1>2. ASSUME NEW j \in 1..6, NEW k \in 1..6, j < k
      PROVE  ~ Covers(h[j], h[k])
  BY <1>1, <1>2, OneRow, TwoRow, CoversShort, SMTT(60) DEF HandlerRow
<1>3. NoneHidden(h)
  BY <1>1, <1>2, OneRow, TwoRow DEF NoneHidden, HandlerRow
<1>. QED
  BY <1>3 DEF h

LEMMA TerminalReached == NoneHidden(TerminalHandlers)
<1>. DEFINE h == TerminalHandlers
<1>1. /\ DOMAIN h = 1..6
      /\ One(h[1], "GET", "paginate")
      /\ Two(h[2], "GET", "detail", ":id")
      /\ Two(h[3], "GET", "city", ":id")
      /\ One(h[4], "POST", "create")
      /\ One(h[5], "PATCH", ":id")
      /\ Two(h[6], "PATCH", "status", ":id")
  BY DEF TerminalHandlers, Handler, Get, Post, Patch, One, Two
<1>. HIDE DEF h
<1>2. ASSUME NEW j \in 1..6, NEW k \in 1..6, j < k
      PROVE  ~ Covers(h[j], h[k])
  BY <1>1, <1>2, OneRow, TwoRow, CoversShort DEF HandlerRow
<1>3. NoneHidden(h)
  BY <1>1, <1>2, OneRow, TwoRow DEF NoneHidden, HandlerRow
<1>. QED
  BY <1>3 DEF h

LEMMA CompanyReached == NoneHidden(CompanyHandlers)
<1>. DEFINE h == CompanyHandlers
<1>1. /\ DOMAIN h = 1..5
      /\ Bare(h[1], "GET")
      /\ One(h[2], "GET", ":id")
      /\ Two(h[3], "PATCH", "update", ":id")
      /\ Two(h[4], "PATCH", "status", ":id")
      /\ Bare(h[5], "POST")
  BY DEF CompanyHandlers, Handler, Get, Post, Patch, Bare, One, Two
<1>. HIDE DEF h
<1>2. ASSUME NEW j \in 1..5, NEW k \in 1..5, j < k
      PROVE  ~ Covers(h[j], h[k])
  BY <1>1, <1>2, BareRow, OneRow, TwoRow, CoversShort DEF HandlerRow
<1>3. NoneHidden(h)
  BY <1>1, <1>2, BareRow, OneRow, TwoRow DEF NoneHidden, HandlerRow
<1>. QED
  BY <1>3 DEF h

LEMMA TripReached == NoneHidden(TripHandlers)
<1>. DEFINE h == TripHandlers
<1>1. /\ DOMAIN h = 1..5
      /\ One(h[1], "GET", "paginate")
      /\ One(h[2], "GET", "busses")
      /\ One(h[3], "GET", ":id")
      /\ One(h[4], "GET", "stats")
      /\ One(h[5], "POST", "create")
  BY DEF TripHandlers, Handler, Get, Post, Patch, One
<1>0. h[4].path = <<"stats">>
  BY DEF TripHandlers, Handler, Get, Post, Patch
<1>. HIDE DEF h
<1>2. ASSUME NEW j \in 1..5, NEW k \in 1..5, j < k, h[k].path # <<"stats">>
      PROVE  ~ Covers(h[j], h[k])
  BY <1>1, <1>2, <1>0, OneRow, CoversShort DEF HandlerRow
<1>3. NoneHidden(h)
  BY <1>1, <1>2, OneRow DEF NoneHidden, HandlerRow
<1>. QED
  BY <1>3 DEF h

LEMMA HealthReached == NoneHidden(HealthHandlers)
<1>. DEFINE h == HealthHandlers
<1>1. DOMAIN h = 1..1 /\ Bare(h[1], "GET")
  BY DEF HealthHandlers, Handler, Get, Bare
<1>. HIDE DEF h
<1>2. NoneHidden(h)
  BY <1>1, BareRow DEF NoneHidden, HandlerRow
<1>. QED
  BY <1>2 DEF h

LEMMA UserReached == NoneHidden(UserHandlers)
<1>. DEFINE h == UserHandlers
<1>1. /\ DOMAIN h = 1..7
      /\ One(h[1], "POST", "create")
      /\ Two(h[2], "PATCH", "edit", ":id")
      /\ One(h[3], "GET", "paginate")
      /\ One(h[4], "GET", "count")
      /\ One(h[5], "GET", ":id")
      /\ Two(h[6], "GET", "phone", ":id")
      /\ Two(h[7], "PATCH", "status", ":id")
  BY DEF UserHandlers, Handler, Get, Post, Patch, One, Two
<1>. HIDE DEF h
<1>2. ASSUME NEW j \in 1..7, NEW k \in 1..7, j < k
      PROVE  ~ Covers(h[j], h[k])
  BY <1>1, <1>2, OneRow, TwoRow, CoversShort, SMTT(60) DEF HandlerRow
<1>3. NoneHidden(h)
  BY <1>1, <1>2, OneRow, TwoRow DEF NoneHidden, HandlerRow
<1>. QED
  BY <1>3 DEF h

(* Every handler of every controller is reached by the requests for it,    *)
(* but for GET stats of the trips, which GET ":id" takes.                  *)
THEOREM EveryHandlerIsReached ==
  ASSUME Controllers \subseteq {"auth", "booking", "bus", "cancellation-policy", "cities",
                                "drivers", "routes", "terminals", "transport-company",
                                "trip", "user", "health"},
         \A c \in Controllers : Handlers[c] = HandlersOf(c)
  PROVE  AccessSpec => []EachReached
<1>1. ASSUME NEW c \in Controllers PROVE NoneHidden(Handlers[c])
  BY AuthReached, BookingReached, BusReached, PolicyReached, CityReached, DriverReached,
     RouteReached, TerminalReached, CompanyReached, TripReached, UserReached, HealthReached
  DEF HandlersOf
<1>. QED
  BY <1>1, HandlersAreReached

(* GET stats of the trips, the fourth handler of its controller, is never  *)
(* reached: the third, GET ":id", takes the requests for it.               *)
THEOREM StatsIsHidden ==
  ASSUME Handlers["trip"] = TripHandlers
  PROVE  AccessSpec => [](ask.controller = "trip" /\ Asked.path = <<"stats">> => reached \in {0, 3})
<1>. DEFINE Hidden == /\ ask.controller = "trip" => ask.index \in DOMAIN TripHandlers
                      /\ ask.controller = "trip" /\ Asked.path = <<"stats">> => reached \in {0, 3}
<1>. DEFINE h == TripHandlers
<1>1. /\ DOMAIN h = 1..5
      /\ One(h[1], "GET", "paginate")
      /\ One(h[2], "GET", "busses")
      /\ One(h[3], "GET", ":id")
      /\ One(h[4], "GET", "stats")
      /\ One(h[5], "POST", "create")
  BY DEF TripHandlers, Handler, Get, Post, Patch, One
<1>2. AccessInit => Hidden
  BY DEF AccessInit
<1>3. Hidden /\ [AccessNext]_accessVars => Hidden'
  <2>. SUFFICES ASSUME Hidden, [AccessNext]_accessVars PROVE Hidden'
    OBVIOUS
  <2>1. CASE Route /\ ask.controller = "trip" /\ Asked.path = <<"stats">>
    <3>1. PICK i \in DOMAIN h : FirstMatch(h, Asked.verb, PathTo(Asked), i) /\ reached' = i
      BY <2>1 DEF Route
    <3>2. Asked = h[ask.index] /\ ask.index \in 1..5
      BY <1>1, <2>1 DEF Asked
    <3>. HIDE DEF h
    <3>3. Asked = h[4]
      <4>1. h[ask.index].path = <<"stats">>
        BY <2>1, <3>2
      <4>2. ask.index = 4
        BY <1>1, <3>2, <4>1, OneRow DEF One
      <4>. QED
        BY <3>2, <4>2
    <3>4. Path(h[4].path) /\ h[4].verb = "GET" /\ Len(h[4].path) = 1 /\ h[4].path[1] = "stats"
      BY <1>1, OneRow DEF HandlerRow
    <3>5. \A n \in {1, 2} : ~ Covers(h[n], h[4])
      BY <1>1, <3>4, OneRow, CoversShort DEF HandlerRow
    <3>6. Matches(h[3], h[4].verb, PathTo(h[4]))
      <4>1. /\ DOMAIN h[4].path = {1} /\ DOMAIN PathTo(h[4]) = {1}
            /\ PathTo(h[4])[1] = "stats"
        BY <3>4 DEF Path, PathTo
      <4>2. PathTo(h[4]) = <<"stats">>
        BY <1>1 DEF One, PathTo
      <4>. QED
        BY <1>1, <4>2 DEF One, Matches
    <3>7. i = 3
      <4>1. ~ Matches(h[1], h[4].verb, PathTo(h[4])) /\ ~ Matches(h[2], h[4].verb, PathTo(h[4]))
        BY <1>1, <3>4, <3>5, OneRow, PathReached DEF HandlerRow
      <4>2. i \in 1..5 /\ ~ (3 < i)
        BY <1>1, <3>1, <3>3, <3>6 DEF FirstMatch
      <4>. QED
        BY <3>1, <3>3, <4>1, <4>2 DEF FirstMatch
    <3>. QED
      BY <2>1, <3>1, <3>7 DEF Route, Asked
  <2>2. CASE Route /\ ~ (ask.controller = "trip" /\ Asked.path = <<"stats">>)
    BY <2>2 DEF Route, Asked
  <2>3. CASE UNCHANGED <<ask, reached>>
    BY <2>3 DEF Asked
  <2>. QED
    BY <2>1, <2>2, <2>3 DEF AccessNext, RunGuard, Serve, accessVars
<1>4. Hidden => (ask.controller = "trip" /\ Asked.path = <<"stats">> => reached \in {0, 3})
  OBVIOUS
<1>. HIDE DEF Hidden
<1>. QED
  BY <1>2, <1>3, <1>4, PTL DEF AccessSpec
=============================================================================
