------------------------------ MODULE Passwords ------------------------------
(***************************************************************************)
(* The password of one account and its history (changePassword,            *)
(* resetPasswordRequest and VerifyResetPasswordRequest of                  *)
(* src/src/auth/auth.service.ts, updateateUser of                          *)
(* src/src/user/user.service.ts).  A call reads the row, compares the new  *)
(* password with the history it has read, and writes password and history  *)
(* back in one UPDATE; calls overlap.                                      *)
(*                                                                         *)
(* bcrypt salts every hash, so a hash is named by the call that made it.   *)
(***************************************************************************)
EXTENDS Naturals, Sequences, Functions

CONSTANTS
  Words,       (* what a password may be *)
  Changes,     (* the calls that set a password *)
  Created,     (* the call that created the account *)
  MaxHistory   (* MAX_PASSWORD_HISTORY, 7 if unset *)

ASSUME PasswordsAssumption ==
  /\ Created \notin Changes
  /\ MaxHistory \in Nat \ {0}

Hashes == Changes \cup {Created}

VARIABLES
  column,      (* user.passwordHistory, newest first *)
  current,     (* user.password: a hash, or "raw" *)
  resetCode,   (* auth:reset-password-otp is set *)
  word,        (* what was hashed *)
  at,          (* where a call is *)
  read,        (* the history in the row a call has read *)
  saved,       (* history: the hashes in the order they were saved *)
  earlier      (* history: what had been saved when a call read its row    *)

passwordVars == <<column, current, resetCode, word, at, read, saved, earlier>>

PasswordsTypeOK ==
  /\ column \in Seq(Hashes)
  /\ current \in Hashes \cup {"raw"}
  /\ resetCode \in BOOLEAN
  /\ word \in [Hashes -> Words]
  /\ at \in [Changes -> {"idle", "code", "check", "save", "done", "refused"}]
  /\ read \in [Changes -> Seq(Hashes)]
  /\ saved \in Seq(Hashes)
  /\ earlier \in [Changes -> SUBSET Hashes]

(* createUser and create of a company: the row comes with one hash. *)
PasswordsInit ==
  /\ column = <<Created>> /\ current = Created /\ resetCode = FALSE
  /\ word \in [Hashes -> Words]
  /\ at = [c \in Changes |-> "idle"]
  /\ read = [c \in Changes |-> <<>>]
  /\ saved = <<Created>>
  /\ earlier = [c \in Changes |-> {}]

-----------------------------------------------------------------------------

ReadRow(c, step) ==
  /\ at[c] = "idle"
  /\ read' = [read EXCEPT ![c] = column]
  /\ earlier' = [earlier EXCEPT ![c] = Range(saved)]
  /\ at' = [at EXCEPT ![c] = step]
  /\ UNCHANGED <<column, current, resetCode, word, saved>>

(* No current password matches one that is not a hash. *)
BeginChange(c) == current # "raw" /\ ReadRow(c, "check")

BeginReset(c) == ReadRow(c, "code")

Pass(c, step, next) ==
  /\ at[c] = step
  /\ at' = [at EXCEPT ![c] = next]
  /\ UNCHANGED <<column, current, resetCode, word, read, saved, earlier>>

(* GET reset-password-otp; the code stays. *)
CheckCode(c) == resetCode /\ Pass(c, "code", "check")

Reused(c) == \E h \in Range(read[c]) : word[h] = word[c]

(* The loop over the history; changePassword then compares the current     *)
(* password it was given with the row it has read.                         *)
CheckHistory(c) == ~ Reused(c) /\ Pass(c, "check", "save")

(* A wrong code, an old password, a wrong current password or an error.    *)
Refuse(c) == \E step \in {"code", "check", "save"} : Pass(c, step, "refused")

(* Mutant: the history grows at its end. *)
PushLast(h, hashes) ==
  IF Len(hashes) < MaxHistory THEN Append(hashes, h) ELSE Append(Tail(hashes), h)

(* Mutant: one hash too few is kept. *)
PushFew(h, hashes) == SubSeq(<<h>> \o hashes, 1, Len(hashes))

(* Newest first, and no more than MaxHistory of them. *)
Push(h, hashes) == SubSeq(<<h>> \o hashes, 1,
                          IF Len(hashes) < MaxHistory THEN Len(hashes) + 1 ELSE MaxHistory)

Save(c) ==
  /\ at[c] = "save"
  /\ column' = Push(c, read[c])
  /\ current' = c
  /\ saved' = Append(saved, c)
  /\ at' = [at EXCEPT ![c] = "done"]
  /\ UNCHANGED <<resetCode, word, read, earlier>>

(* resetPasswordRequest: the SMS may or may not arrive. *)
RequestReset ==
  /\ resetCode' = TRUE
  /\ UNCHANGED <<column, current, word, at, read, saved, earlier>>

ResetCodeExpires ==
  /\ resetCode
  /\ resetCode' = FALSE
  /\ UNCHANGED <<column, current, word, at, read, saved, earlier>>

(* updateateUser with a password in its body writes it as it comes, and    *)
(* leaves the history alone.                                               *)
EditPassword ==
  /\ current' = "raw"
  /\ UNCHANGED <<column, resetCode, word, at, read, saved, earlier>>

PasswordsNext ==
  \/ \E c \in Changes : \/ BeginChange(c) \/ BeginReset(c) \/ CheckCode(c)
                        \/ CheckHistory(c) \/ Refuse(c) \/ Save(c)
  \/ RequestReset \/ ResetCodeExpires \/ EditPassword

PasswordsSpec == PasswordsInit /\ [][PasswordsNext]_passwordVars

-----------------------------------------------------------------------------
(*                         what must not happen                            *)

(* Between the save of saved[i] and that of saved[j] a call saved that had *)
(* read its row before the former.                                         *)
Overtaken(i, j) == \E k \in i + 1..j : saved[i] \notin earlier[saved[k]]

(* "You cannot reuse an old password" (346, 450): whatever calls           *)
(* interleave, a password that was one of the last MaxHistory is set again *)
(* only by or after a call that had read its row before that password was  *)
(* saved.                                                                  *)
OnlyOverlapsReuse ==
  \A i, j \in DOMAIN saved :
    i < j /\ j - i <= MaxHistory /\ word[saved[i]] = word[saved[j]] => Overtaken(i, j)

(* Why: an old hash is missing from the column only if it has been pushed  *)
(* out or overtaken.                                                       *)
OnlyOverlapsForget ==
  \A i \in DOMAIN saved :
    \/ saved[i] \in Range(column)
    \/ Len(saved) - i >= MaxHistory
    \/ Overtaken(i, Len(saved))

(* A password that was set counts for the changes that follow, unless one  *)
(* of them has overlapped: it is neither set again nor forgotten.          *)
HistoryCounts == OnlyOverlapsReuse /\ OnlyOverlapsForget

(* What the next change compares its password with begins with the         *)
(* password that is in force, unless an administrator has written one.     *)
PasswordIsNewest == current = "raw" \/ current = column[1]

(* Each hash is saved once, by a call that is over. *)
SavedOnce ==
  /\ Len(saved) >= 1 /\ saved[1] = Created
  /\ \A k \in 2..Len(saved) : saved[k] \in Changes /\ at[saved[k]] = "done"
  /\ \A i, j \in DOMAIN saved : saved[i] = saved[j] => i = j

(* saved[i] is no deeper in a history than the saves up to that of         *)
(* saved[m] can have pushed it, or has left it as OnlyOverlapsForget says. *)
Kept(hashes, i, m) ==
  \/ \E p \in DOMAIN hashes : p <= m - i + 1 /\ hashes[p] = saved[i]
  \/ m - i >= MaxHistory
  \/ Overtaken(i, m)

(* c has read its row when saved[m] was the last save. *)
HasRead(c, m) ==
  /\ earlier[c] = {saved[i] : i \in 1..m}
  /\ \A i \in 1..m : Kept(read[c], i, m)

(* The inductive invariant; the history never grows beyond its bound.      *)
PasswordsInv ==
  /\ PasswordsTypeOK
  /\ Len(column) \in 1..MaxHistory
  /\ PasswordIsNewest
  /\ SavedOnce
  /\ \A i \in DOMAIN saved : Kept(column, i, Len(saved))
  /\ \A c \in Changes :
       /\ at[c] \in {"code", "check", "save"} => \E m \in DOMAIN saved : HasRead(c, m)
       /\ at[c] = "save" => ~ Reused(c)
  /\ OnlyOverlapsReuse
=============================================================================
