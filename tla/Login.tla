-------------------------------- MODULE Login --------------------------------
(***************************************************************************)
(* Logging in to one account (src/src/auth/auth.service.ts): the count of  *)
(* attempts, the temporary lock, the block, the session and the tokens     *)
(* issued for it, with attempts and refreshes that overlap, keys that      *)
(* expire and calls that are cut short.                                    *)
(*                                                                         *)
(* The account is a row of PostgreSQL; everything else is a key of Redis,  *)
(* read and written by one command at a time.  An attempt or a refresh     *)
(* keeps what it has read while the others go on.                          *)
(***************************************************************************)
EXTENDS Naturals, FiniteSets

CONSTANTS
  Attempts,   (* the calls of login at a time; an id is used again         *)
  Refreshes   (* the calls of refresh-token at a time                      *)

ASSUME LoginAssumption == Attempts \cap Refreshes = {}

VARIABLES
  twoFactor,  (* user.enable2FA *)
  accountOn,  (* user.enabled *)
  role,       (* user.role: "owner" until the account is made a driver     *)
  counter,    (* auth:login-attempt-count, 0 when absent                   *)
  redis,      (* the other keys of the account *)
  tokens,     (* the roles named by unexpired access tokens *)
  stage,      (* where an attempt is *)
  count,      (* loginAttemptCount, as the attempt read it *)
  refresh,    (* where a refresh is *)
  claim,      (* the role in the row an attempt or a refresh has read      *)
  strikes,    (* history: wrong passwords so far, 2 for more *)
  late        (* history: the refreshes in flight when the session ended   *)

loginVars ==
  <<twoFactor, accountOn, role, counter, redis, tokens, stage, count, refresh, claim,
    strikes, late>>

Roles == {"owner", "driver"}

NoRole == "none"

MaxCount == 6  (* the code tells 3, 5 and the rest apart *)

(* auth:temporary-lock, auth:block-user, auth:refreshToken and auth:otp;   *)
(* a key that is set may have a time to live or not.                       *)
Keys == {"lock", "block", "session", "code"}

Set(k)   == [redis EXCEPT ![k] = "forever"]
SetEx(k) == [redis EXCEPT ![k] = "timed"]
Del(k)   == [redis EXCEPT ![k] = "absent"]

Expire(k) == IF redis[k] = "absent" THEN redis ELSE SetEx(k)

Exists(k) == redis[k] # "absent"

(* On the way to a token an attempt keeps the row it has read. *)
OnTheWay == {"lock", "count", "compare", "session", "code", "uncount", "unlock", "unblock"}

AttemptSteps ==
  OnTheWay \cup {"idle", "refuse", "setlock", "expire", "setblock", "reset", "disable"}

LoginTypeOK ==
  /\ twoFactor \in BOOLEAN /\ accountOn \in BOOLEAN /\ role \in Roles
  /\ counter \in 0..MaxCount
  /\ redis \in [Keys -> {"absent", "forever", "timed"}]
  /\ tokens \subseteq Roles
  /\ stage \in [Attempts -> AttemptSteps]
  /\ count \in [Attempts -> 0..MaxCount]
  /\ refresh \in [Refreshes -> {"idle", "read", "save"}]
  /\ claim \in [Attempts \cup Refreshes -> Roles \cup {NoRole}]
  /\ strikes \in 0..2 /\ late \subseteq Refreshes

LoginInit ==
  /\ twoFactor \in BOOLEAN /\ accountOn = TRUE /\ role = "owner"
  /\ counter = 0 /\ redis = [k \in Keys |-> "absent"]
  /\ tokens = {}
  /\ stage = [a \in Attempts |-> "idle"]
  /\ count = [a \in Attempts |-> 0]
  /\ refresh = [f \in Refreshes |-> "idle"]
  /\ claim = [c \in Attempts \cup Refreshes |-> NoRole]
  /\ strikes = 0 /\ late = {}

-----------------------------------------------------------------------------
(*                              an attempt                                 *)

Goto(a, step) == stage' = [stage EXCEPT ![a] = step]

(* What an attempt has read and does not need any more. *)
Forget(a) ==
  /\ count' = [count EXCEPT ![a] = 0]
  /\ claim' = [claim EXCEPT ![a] = NoRole]

Leave(a) == Goto(a, "idle") /\ Forget(a)

Elsewhere == UNCHANGED <<twoFactor, role, refresh, late>>

(* A step of an attempt that is one command of Redis and goes on. *)
Command(a, step, keys, next) ==
  /\ stage[a] = step
  /\ redis' = keys
  /\ Goto(a, next)
  /\ UNCHANGED <<accountOn, counter, tokens, count, claim, strikes>> /\ Elsewhere

(* The row is read; a disabled account is refused on the spot. *)
Arrive(a) ==
  /\ stage[a] = "idle" /\ accountOn
  /\ claim' = [claim EXCEPT ![a] = role]
  /\ Goto(a, "lock")
  /\ UNCHANGED <<accountOn, counter, redis, tokens, count, strikes>> /\ Elsewhere

ReadLock(a) == Command(a, "lock", redis, IF Exists("lock") THEN "refuse" ELSE "count")

(* INCR and its EXPIRE come before the answer to a locked account: the     *)
(* attempts it makes meanwhile are counted too.                            *)
Count(a) ==
  /\ stage[a] \in {"refuse", "count"}
  /\ counter' = IF counter = MaxCount THEN MaxCount ELSE counter + 1
  /\ \/ stage[a] = "refuse" /\ Leave(a)
     \/ /\ stage[a] = "count"
        /\ count' = [count EXCEPT ![a] = counter']
        /\ Goto(a, "compare")
        /\ UNCHANGED claim
  /\ UNCHANGED <<accountOn, redis, tokens, strikes>> /\ Elsewhere

RightPassword(a) == Command(a, "compare", redis, "session")

OpenSession(a) ==
  Command(a, "session", SetEx("session"), IF twoFactor THEN "code" ELSE "uncount")

(* The login token and the code are saved and the code is sent; the count, *)
(* the lock and the block stay.                                            *)
SendCode(a) ==
  /\ stage[a] = "code"
  /\ redis' = SetEx("code")
  /\ Leave(a)
  /\ UNCHANGED <<accountOn, counter, tokens, strikes>> /\ Elsewhere

ResetCount(a, step) ==
  /\ stage[a] = step
  /\ counter' = 0
  /\ UNCHANGED <<accountOn, redis, tokens, strikes>> /\ Elsewhere

ClearCount(a) == ResetCount(a, "uncount") /\ Goto(a, "unlock") /\ UNCHANGED <<count, claim>>

ClearLock(a) == Command(a, "unlock", Del("lock"), "unblock")

(* The last key goes and the login token is answered. *)
ClearBlock(a) ==
  /\ stage[a] = "unblock"
  /\ redis' = Del("block")
  /\ tokens' = tokens \cup {claim[a]}
  /\ Leave(a)
  /\ UNCHANGED <<accountOn, counter, strikes>> /\ Elsewhere

(* A wrong password: the third attempt locks the account unless it is      *)
(* blocked, the fifth disables it if it is.                                *)
Locks(a) == count[a] = 3 /\ ~ Exists("block")

(* Mutant: the block is not asked for. *)
DisablesAnyway(a) == count[a] = 5

Disables(a) == count[a] = 5 /\ Exists("block")

WrongPassword(a) ==
  /\ stage[a] = "compare"
  /\ strikes' = IF strikes = 0 THEN 1 ELSE 2
  /\ Forget(a)
  /\ \/ Locks(a) /\ Goto(a, "setlock")
     \/ Disables(a) /\ Goto(a, "disable")
     \/ ~ Locks(a) /\ ~ Disables(a) /\ Goto(a, "idle")
  /\ UNCHANGED <<accountOn, counter, redis, tokens>> /\ Elsewhere

(* Mutant: the lock is never given a time to live. *)
SetLockForGood(a) == Command(a, "setlock", Set("lock"), "setblock")

SetLock(a) == Command(a, "setlock", Set("lock"), "expire")

ExpireLock(a) == Command(a, "expire", Expire("lock"), "setblock")

SetBlock(a) == Command(a, "setblock", Set("block"), "reset")

(* SET login-attempt-count 0, and the attempt is refused. *)
StartAgain(a) == ResetCount(a, "reset") /\ Leave(a)

DisableAccount(a) ==
  /\ stage[a] = "disable"
  /\ accountOn' = FALSE
  /\ Leave(a)
  /\ UNCHANGED <<counter, redis, tokens, strikes>> /\ Elsewhere

(* PostgreSQL, Redis or the SMS service fails, or the server stops: the    *)
(* attempt ends where it is.                                               *)
CutShort(a) ==
  /\ stage[a] # "idle"
  /\ Leave(a)
  /\ UNCHANGED <<accountOn, counter, redis, tokens, strikes>> /\ Elsewhere

Proceed(a) ==
  \/ ReadLock(a) \/ Count(a)
  \/ RightPassword(a) \/ OpenSession(a) \/ SendCode(a)
  \/ ClearCount(a) \/ ClearLock(a) \/ ClearBlock(a)
  \/ WrongPassword(a) \/ SetLock(a) \/ ExpireLock(a) \/ SetBlock(a) \/ StartAgain(a)
  \/ DisableAccount(a)

-----------------------------------------------------------------------------
(*                       the session and its tokens                        *)

KeepAttempts == UNCHANGED <<counter, stage, count, twoFactor, strikes>>

(* Mutant: a token that has not expired will do. *)
AdmitAnyToken(f) ==
  /\ refresh[f] = "idle"
  /\ refresh' = [refresh EXCEPT ![f] = "read"]
  /\ UNCHANGED <<accountOn, role, redis, tokens, claim, late>> /\ KeepAttempts

(* RefreshJwtStrategy.validate: the session is there, whichever token      *)
(* opened it.                                                              *)
Admit(f) ==
  /\ refresh[f] = "idle" /\ Exists("session")
  /\ refresh' = [refresh EXCEPT ![f] = "read"]
  /\ UNCHANGED <<accountOn, role, redis, tokens, claim, late>> /\ KeepAttempts

(* Mutant: the role is taken from the token that is to be renewed. *)
ReadToken(f) ==
  /\ refresh[f] = "read"
  /\ \E r \in tokens : claim' = [claim EXCEPT ![f] = r]
  /\ refresh' = [refresh EXCEPT ![f] = "save"]
  /\ UNCHANGED <<accountOn, role, redis, tokens, late>> /\ KeepAttempts

ReadUser(f) ==
  /\ refresh[f] = "read"
  /\ claim' = [claim EXCEPT ![f] = role]
  /\ refresh' = [refresh EXCEPT ![f] = "save"]
  /\ UNCHANGED <<accountOn, role, redis, tokens, late>> /\ KeepAttempts

EndRefresh(f) ==
  /\ refresh' = [refresh EXCEPT ![f] = "idle"]
  /\ claim' = [claim EXCEPT ![f] = NoRole]
  /\ late' = late \ {f}
  /\ UNCHANGED <<accountOn, role>> /\ KeepAttempts

Renew(f) ==
  /\ refresh[f] = "save"
  /\ redis' = SetEx("session")
  /\ tokens' = tokens \cup {claim[f]}
  /\ EndRefresh(f)

RefreshFails(f) == refresh[f] # "idle" /\ EndRefresh(f) /\ UNCHANGED <<redis, tokens>>

Refreshing == {f \in Refreshes : refresh[f] # "idle"}

EndSession ==
  /\ redis' = Del("session")
  /\ late' = Refreshing
  /\ UNCHANGED <<accountOn, role, tokens, refresh, claim>> /\ KeepAttempts

(* logout deletes the key; the access token stays good until it expires.   *)
Logout == EndSession

-----------------------------------------------------------------------------
(*                            the one-time code                            *)

(* JwtStrategy.validate: what of a token becomes req.user. *)
Validate(payload) == [userId |-> payload.sub, role |-> payload.role]

Field(user, name) == IF name \in DOMAIN user THEN user[name] ELSE "undefined"

(* OTPVerifyJWTGuard.handleRequest. *)
OtpGuardAdmits(user) == Field(user, "purpose") = "otp" /\ Field(user, "sub") # "undefined"

(* The token that login answers while it waits for the code (187).         *)
OtpPayload == [sub |-> "id", role |-> NoRole, purpose |-> "otp"]

(* verifyOTP with the code that was sent: behind the guard, which no call  *)
(* passes, it deletes the code and answers the login token.                *)
VerifyCode ==
  /\ Exists("code")
  /\ redis' = IF OtpGuardAdmits(Validate(OtpPayload)) THEN Del("code") ELSE redis
  /\ UNCHANGED <<accountOn, role, tokens, refresh, claim, late>> /\ KeepAttempts

-----------------------------------------------------------------------------
(*                        time and administration                          *)

(* A key with a time to live goes.  With the session it is as if the user  *)
(* had logged out.                                                         *)
KeyExpires(k) ==
  /\ redis[k] = "timed"
  /\ \/ k = "session" /\ EndSession
     \/ /\ k # "session"
        /\ redis' = Del(k)
        /\ UNCHANGED <<accountOn, role, tokens, refresh, claim, late>> /\ KeepAttempts

CounterExpires ==
  /\ counter > 0
  /\ counter' = 0
  /\ UNCHANGED <<twoFactor, accountOn, role, redis, tokens, stage, count, refresh, claim, strikes, late>>

TokenExpires(r) ==
  /\ r \in tokens
  /\ tokens' = tokens \ {r}
  /\ UNCHANGED <<accountOn, role, redis, refresh, claim, late>> /\ KeepAttempts

(* updateUserStatus.  It reads the row before it saves it; nothing else    *)
(* turns a status that it read false, and login only makes it false, so    *)
(* for one administrator the two are one step.                             *)
ToggleStatus ==
  /\ accountOn' = ~ accountOn
  /\ UNCHANGED <<role, redis, tokens, refresh, claim, late>> /\ KeepAttempts

(* createDriver commits; the checks it made before may be stale by now.    *)
MakeDriver ==
  /\ role = "owner"
  /\ role' = "driver"
  /\ UNCHANGED <<accountOn, redis, tokens, refresh, claim, late>> /\ KeepAttempts

-----------------------------------------------------------------------------

LoginNext ==
  \/ \E a \in Attempts : Arrive(a) \/ Proceed(a) \/ CutShort(a)
  \/ \E f \in Refreshes : Admit(f) \/ ReadUser(f) \/ Renew(f) \/ RefreshFails(f)
  \/ Logout \/ VerifyCode
  \/ \E k \in Keys : KeyExpires(k)
  \/ CounterExpires
  \/ \E r \in Roles : TokenExpires(r)
  \/ ToggleStatus \/ MakeDriver

LoginSpec == LoginInit /\ [][LoginNext]_loginVars

(* The server runs the calls it has taken to their end or to a failure,    *)
(* and Redis and the tokens keep time; nobody has to call.                 *)
LoginFairness ==
  /\ \A a \in Attempts : WF_loginVars(Proceed(a) \/ CutShort(a))
  /\ \A f \in Refreshes : WF_loginVars(ReadUser(f) \/ Renew(f) \/ RefreshFails(f))
  /\ \A k \in Keys : WF_loginVars(KeyExpires(k))
  /\ \A r \in Roles : WF_loginVars(TokenExpires(r))

-----------------------------------------------------------------------------
(*                         what must not happen                            *)

(* "You are temporarly locked" (113, 217).  Between the SET and the EXPIRE *)
(* of an attempt the lock has no time to live, and others may lift it or   *)
(* set it anew.                                                            *)
Stranded == redis["lock"] = "forever" /\ \A a \in Attempts : stage[a] # "expire"

(* A lock that nobody is about to give a time to live is there only when   *)
(* an attempt was cut short right between the two.                         *)
LockIsTemporary ==
  [][~ Stranded /\ Stranded' => \E a \in Attempts : stage[a] = "expire" /\ CutShort(a)]_loginVars

(* The two stages of 208-228 under any interleaving: the wrong password    *)
(* that locks the account is not the one that disables it.                 *)
OneStrikeIsForgiven ==
  [][(\E a \in Attempts : DisableAccount(a)) => strikes = 2]_loginVars

(* While there is no session the only refreshes under way are those that   *)
(* were under way when it ended (logout, 478): a refresh that comes later  *)
(* cannot bring the session back.                                          *)
OnlyLateRefreshes ==
  ~ Exists("session") => \A f \in Refreshes : refresh[f] # "idle" => f \in late

(* Once the account has been made a driver's, tokens that name its old     *)
(* role die out, whatever attempts and refreshes have read the old row.    *)
ClaimsCatchUp == [](role = "driver" => <>[]("owner" \notin tokens))

(* The inductive invariant: a block, or an attempt that is about to set    *)
(* one, comes from a wrong password, and one that is about to disable the  *)
(* account from another; whoever is about to get a token has read the row. *)
StrikesCount ==
  /\ Exists("block") => strikes >= 1
  /\ \A a \in Attempts :
       /\ stage[a] \in {"setlock", "expire", "setblock"} => strikes >= 1
       /\ stage[a] = "disable" => strikes = 2

RowsAreRead ==
  /\ \A a \in Attempts : stage[a] \in OnTheWay => claim[a] # NoRole
  /\ \A f \in Refreshes : refresh[f] = "save" => claim[f] # NoRole

LoginInv == LoginTypeOK /\ StrikesCount /\ RowsAreRead /\ OnlyLateRefreshes

(* "Use this to login" (170): while the code is good the guard of          *)
(* verify-otp admits the token that login answered with it.                *)
SentCodeAdmits == Exists("code") => OtpGuardAdmits(Validate(OtpPayload))
=============================================================================
