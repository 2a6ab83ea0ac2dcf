--------------------------- MODULE OtpVerification ---------------------------
(***************************************************************************)
(* One-time codes of one account: registration, resend and MFA sign-in     *)
(* issue them, verify-otp redeems them and counts wrong ones, as           *)
(* interleaved requests over one PostgreSQL row and one Redis key.         *)
(*                                                                         *)
(*   users row        row, with the columns the component reads or writes  *)
(*   otp:<email>      otp, otpTtl                                          *)
(*                                                                         *)
(* Between two steps of a request the code is suspended at an await.       *)
(* pc[r] names the command it waits for:                                   *)
(*   registration:  rcheck -> rfind -> rwrite -> store -> email            *)
(*   resend:        lookup -> store -> email                               *)
(*   MFA sign-in:   store -> email                                         *)
(*   verify-otp:    vcheck -> fetch -> count                               *)
(*                             fetch -> reset -> mark -> delete -> tokens  *)
(*                                                                         *)
(* With Faults a Redis command may fail as redis.service.ts reports it     *)
(* (get: null, del: silently, set: throws) and reach the server later, any *)
(* request may fail at any await, and the unit of work repeats a           *)
(* transaction whose outcome it did not learn.                             *)
(*                                                                         *)
(* failedOtpAttempts is only ever compared with MaxFailed, so MaxFailed    *)
(* stands for every larger count.  accountLockedUntil is kept as the       *)
(* number of minutes left; a copy of the row runs down with it.            *)
(***************************************************************************)
EXTENDS Naturals

CONSTANTS Codes,      \* the codes that are ever generated, each once
          Reqs,
          MaxFailed,  \* OTP_MAX_FAILED_ATTEMPTS
          LockTime,   \* OTP_LOCKOUT_TIME
          OtpTtl,     \* OTP_EXPIRE_TIME
          Faults,
          WrongCode,  \* any answer that is not a generated code
          NoCode

ASSUME MaxFailedAssumption == MaxFailed \in Nat \ {0}
ASSUME LockTimeAssumption == LockTime \in Nat \ {0}
ASSUME OtpTtlAssumption == OtpTtl \in Nat \ {0}
ASSUME FaultsAssumption == Faults \in BOOLEAN
ASSUME CodesAssumption == NoCode \notin Codes /\ WrongCode \notin Codes /\ NoCode # WrongCode

VARIABLES
  row,          \* the row of the account
  otp, otpTtl,  \* the Redis key of the current code
  late,         \* Redis writes whose request gave up on them
  pc, req,      \* the requests
  generated,    \* history: codes taken from the generator
  stored,       \* history: codes ever written to Redis
  abandoned,    \* history: codes whose SET was given up, and may come late
  announced,    \* history: codes that resend or sign-in sent by email
  used, reused, \* history: codes that obtained tokens, and did so twice
  closed,       \* history: codes whose verification deleted the Redis key
  wiped,        \* history: codes deleted by the verification of another one
  wrong         \* history: wrong codes answered since a success or a lock

keyVars == <<otp, otpTtl, late>>
codeHistory == <<generated, stored, abandoned, announced, used, reused, closed, wiped>>
vars == <<row, otp, otpTtl, late, pc, req, generated, stored, abandoned,
          announced, used, reused, closed, wiped, wrong>>

Row == [exists : BOOLEAN, verified : BOOLEAN, failed : 0 .. MaxFailed, lock : 0 .. LockTime]
NoRow == [exists |-> FALSE, verified |-> FALSE, failed |-> 0, lock |-> 0]

\* Locals of a request: the code it issues or presents, the row it read, and
\* whether it is a registration, which goes on when its SET fails.
Request == [code : Codes \cup {NoCode, WrongCode}, row : Row, register : BOOLEAN]
Blank == [code |-> NoCode, row |-> NoRow, register |-> FALSE]

Steps == {"idle", "rcheck", "rfind", "rwrite", "lookup", "store", "email",
          "vcheck", "fetch", "count", "reset", "mark", "delete", "tokens"}

Write == [op : {"set", "del"}, code : Codes]

TypeOK ==
  /\ row \in Row
  /\ otp \in Codes \cup {NoCode}
  /\ otpTtl \in 0 .. OtpTtl
  /\ late \subseteq Write
  /\ pc \in [Reqs -> Steps]
  /\ req \in [Reqs -> Request]
  /\ generated \subseteq Codes /\ stored \subseteq Codes
  /\ abandoned \subseteq Codes /\ announced \subseteq Codes
  /\ used \subseteq Codes /\ reused \subseteq Codes
  /\ closed \subseteq Codes /\ wiped \subseteq Codes
  /\ wrong \in 0 .. MaxFailed

Init ==
  /\ row = NoRow
  /\ otp = NoCode
  /\ otpTtl = 0
  /\ late = {}
  /\ pc = [r \in Reqs |-> "idle"]
  /\ req = [r \in Reqs |-> Blank]
  /\ generated = {} /\ stored = {} /\ abandoned = {} /\ announced = {}
  /\ used = {} /\ reused = {}
  /\ closed = {} /\ wiped = {}
  /\ wrong = 0
-----------------------------------------------------------------------------
(* Helpers *)

Bump(n) == IF n < MaxFailed THEN n + 1 ELSE MaxFailed

Goto(r, step) == pc' = [pc EXCEPT ![r] = step]

Finish(r) ==
  /\ Goto(r, "idle")
  /\ req' = [req EXCEPT ![r] = Blank]

\* generateOtp, and on to the SET of the code.
IssueCode(r, isRegistration) ==
  /\ \E c \in Codes \ generated :
       /\ generated' = generated \cup {c}
       /\ req' = [req EXCEPT ![r] = [code |-> c, row |-> NoRow, register |-> isRegistration]]
  /\ Goto(r, "store")

\* SET otp:<email> c EX ttl.
SetOtp(c) ==
  /\ otp' = c
  /\ otpTtl' = OtpTtl
  /\ stored' = stored \cup {c}

\* Mutant: the key that is deleted is not the key that is read.
DelWrongKey(c) ==
  /\ closed' = closed \cup {c}
  /\ UNCHANGED <<otp, otpTtl, wiped>>

\* DEL otp:<email>, sent for the verification of code c.
DelOtp(c) ==
  /\ otp' = NoCode
  /\ otpTtl' = 0
  /\ closed' = closed \cup {c}
  /\ wiped' = wiped \cup ({otp} \ {NoCode, c})

\* Mutant: null leaves accountLockedUntil as it is.
UpdateKeepingLock(failed, lock) ==
  row' = [row EXCEPT !.failed = failed, !.lock = IF lock = 0 THEN @ ELSE lock]

\* Mutant: the count is not written.
UpdateLockOnly(failed, lock) ==
  row' = [row EXCEPT !.lock = lock]

\* updateOtpAttempts: one UPDATE of both columns.
UpdateOtpAttempts(failed, lock) ==
  row' = [row EXCEPT !.failed = failed, !.lock = lock]
-----------------------------------------------------------------------------
(* Registration *)

Register(r) ==
  /\ pc[r] = "idle"
  /\ Goto(r, "rcheck")
  /\ UNCHANGED <<row, keyVars, req, codeHistory, wrong>>

\* Mutant: no check for a verified account.
RegisterAnybody(r) ==
  /\ pc[r] = "rcheck"
  /\ Goto(r, "rfind")
  /\ UNCHANGED <<row, keyVars, req, codeHistory, wrong>>

\* findUserByEmail: a verified account is not registered again.
RegisterCheck(r) ==
  /\ pc[r] = "rcheck"
  /\ ~row.verified
  /\ Goto(r, "rfind")
  /\ UNCHANGED <<row, keyVars, req, codeHistory, wrong>>

\* The first statement of the transaction.
RegisterFind(r) ==
  /\ pc[r] = "rfind"
  /\ req' = [req EXCEPT ![r].row = row]
  /\ Goto(r, "rwrite")
  /\ UNCHANGED <<row, keyVars, codeHistory, wrong>>

\* Mutant: registration starts the lockout columns afresh.
RegisteredAfresh(found) == [NoRow EXCEPT !.exists = TRUE]

\* The second: an UPDATE of every column from the row that was read, or an
\* INSERT, which the unique index on email refuses when a row appeared.
RegisteredRow(found) ==
  [exists |-> TRUE, verified |-> FALSE,
   failed |-> IF found.exists THEN found.failed ELSE 0,
   lock |-> IF found.exists THEN found.lock ELSE 0]

InsertRefused(r) == ~req[r].row.exists /\ row.exists

RegisterWrite(r) ==
  /\ pc[r] = "rwrite"
  /\ ~InsertRefused(r)
  /\ row' = RegisteredRow(req[r].row)
  /\ IssueCode(r, TRUE)
  /\ UNCHANGED <<keyVars, stored, abandoned, announced, used, reused, closed, wiped, wrong>>
-----------------------------------------------------------------------------
(* Resend, MFA sign-in, and the rest of the way of a new code *)

Resend(r) ==
  /\ pc[r] = "idle"
  /\ Goto(r, "lookup")
  /\ UNCHANGED <<row, keyVars, req, codeHistory, wrong>>

\* A locked account gets no code; an account that does not exist does.
ResendCheck(r) ==
  /\ pc[r] = "lookup"
  /\ row.lock = 0
  /\ IssueCode(r, FALSE)
  /\ UNCHANGED <<row, keyVars, stored, abandoned, announced, used, reused, closed, wiped, wrong>>

\* The password of a verified account with MFA was accepted.
SignInMfa(r) ==
  /\ pc[r] = "idle"
  /\ row.verified
  /\ IssueCode(r, FALSE)
  /\ UNCHANGED <<row, keyVars, stored, abandoned, announced, used, reused, closed, wiped, wrong>>

StoreCode(r) ==
  /\ pc[r] = "store"
  /\ SetOtp(req[r].code)
  /\ Goto(r, "email")
  /\ UNCHANGED <<row, late, req, generated, abandoned, announced, used, reused, closed, wiped, wrong>>

\* The email job is queued.
SendEmail(r) ==
  /\ pc[r] = "email"
  /\ announced' = announced \cup (IF req[r].register THEN {} ELSE {req[r].code})
  /\ Finish(r)
  /\ UNCHANGED <<row, keyVars, generated, stored, abandoned, used, reused, closed, wiped, wrong>>
-----------------------------------------------------------------------------
(* verify-otp *)

PresentCode(r, c) ==
  /\ pc[r] = "idle"
  /\ req' = [req EXCEPT ![r] = [code |-> c, row |-> NoRow, register |-> FALSE]]
  /\ Goto(r, "vcheck")
  /\ UNCHANGED <<row, keyVars, codeHistory, wrong>>

\* Mutant: the lock is not looked at.
CheckNothing(r) ==
  /\ pc[r] = "vcheck"
  /\ row.exists
  /\ req' = [req EXCEPT ![r].row = row]
  /\ Goto(r, "fetch")
  /\ UNCHANGED <<row, keyVars, codeHistory, wrong>>

\* findByEmailString finds the account, and it is not locked.
CheckLock(r) ==
  /\ pc[r] = "vcheck"
  /\ row.exists
  /\ row.lock = 0
  /\ req' = [req EXCEPT ![r].row = row]
  /\ Goto(r, "fetch")
  /\ UNCHANGED <<row, keyVars, codeHistory, wrong>>

\* Mutant: the presence of a code is enough.
FetchAnyCode(r) ==
  /\ pc[r] = "fetch"
  /\ otp # NoCode
  /\ Goto(r, "reset")
  /\ UNCHANGED <<row, keyVars, req, codeHistory, wrong>>

FetchMatches(r) ==
  /\ pc[r] = "fetch"
  /\ otp = req[r].code
  /\ Goto(r, "reset")
  /\ UNCHANGED <<row, keyVars, req, codeHistory, wrong>>

\* Another code, none, or none that Redis would tell.
FetchFails(r) ==
  /\ pc[r] = "fetch"
  /\ otp # req[r].code \/ Faults
  /\ Goto(r, "count")
  /\ UNCHANGED <<row, keyVars, req, codeHistory, wrong>>

\* The count is that of the row read before the GET, plus one.
CountFailure(r) ==
  LET n == Bump(req[r].row.failed)
      exhausted == n = MaxFailed
  IN  /\ pc[r] = "count"
      /\ UpdateOtpAttempts(n, IF exhausted THEN LockTime ELSE 0)
      /\ wrong' = IF exhausted THEN 0 ELSE Bump(wrong)
      /\ Finish(r)
      /\ UNCHANGED <<keyVars, codeHistory>>

ResetAttempts(r) ==
  /\ pc[r] = "reset"
  /\ UpdateOtpAttempts(0, 0)
  /\ wrong' = 0
  /\ Goto(r, "mark")
  /\ UNCHANGED <<keyVars, req, codeHistory>>

MarkVerified(r) ==
  /\ pc[r] = "mark"
  /\ row' = [row EXCEPT !.verified = TRUE]
  /\ Goto(r, "delete")
  /\ UNCHANGED <<keyVars, req, codeHistory, wrong>>

\* Mutant: the code is left to expire.
KeepCode(r) ==
  /\ pc[r] = "delete"
  /\ Goto(r, "tokens")
  /\ UNCHANGED <<row, keyVars, req, codeHistory, wrong>>

DeleteCode(r) ==
  /\ pc[r] = "delete"
  /\ DelOtp(req[r].code)
  /\ Goto(r, "tokens")
  /\ UNCHANGED <<row, late, req, generated, stored, abandoned, announced, used, reused, wrong>>

IssueTokens(r) ==
  /\ pc[r] = "tokens"
  /\ used' = used \cup {req[r].code}
  /\ reused' = reused \cup ({req[r].code} \cap used)
  /\ Finish(r)
  /\ UNCHANGED <<row, keyVars, generated, stored, abandoned, announced, closed, wiped, wrong>>

\* 409, 423, 404, and the unique index.  A request that finds Codes used up,
\* which is the bound of an instance, ends here too.
Rejected(r) ==
  /\ \/ pc[r] = "rcheck" /\ row.verified
     \/ pc[r] = "rwrite" /\ InsertRefused(r)
     \/ pc[r] = "lookup" /\ row.lock > 0
     \/ pc[r] = "vcheck" /\ (~row.exists \/ row.lock > 0)
     \/ pc[r] \in {"rwrite", "lookup"} /\ generated = Codes
  /\ Finish(r)
  /\ UNCHANGED <<row, keyVars, codeHistory, wrong>>
-----------------------------------------------------------------------------
(* Faults and time *)

Outstanding(r) == IF pc[r] = "store" THEN {[op |-> "set", code |-> req[r].code]} ELSE {}

\* Whatever r waits for is left to the client library.
GiveUp(r) ==
  /\ late' = late \cup Outstanding(r)
  /\ abandoned' = abandoned \cup {w.code : w \in Outstanding(r)}
  /\ UNCHANGED <<row, otp, otpTtl, generated, stored, announced, used, reused, closed, wiped, wrong>>

\* The request ends with an error at whatever it waits for.
RequestFails(r) ==
  /\ Faults
  /\ pc[r] # "idle"
  /\ GiveUp(r)
  /\ Finish(r)

\* Mutant: every caller of storeOtp ignores its failure.
StoreFailureSwallowed(r) ==
  /\ Faults
  /\ pc[r] = "store"
  /\ GiveUp(r)
  /\ Goto(r, "email")
  /\ UNCHANGED req

\* Registration logs a failed SET and sends the email all the same.
StoreFailureIgnored(r) ==
  /\ Faults
  /\ pc[r] = "store" /\ req[r].register
  /\ GiveUp(r)
  /\ Goto(r, "email")
  /\ UNCHANGED req

\* del gives up without telling its caller.
DelGivenUp(r) ==
  /\ Faults
  /\ pc[r] = "delete"
  /\ late' = late \cup {[op |-> "del", code |-> req[r].code]}
  /\ Goto(r, "tokens")
  /\ UNCHANGED <<row, otp, otpTtl, req, codeHistory, wrong>>

LateArrives(w) ==
  /\ late' \in {late, late \ {w}}
  /\ \/ w.op = "set" /\ SetOtp(w.code) /\ UNCHANGED <<closed, wiped>>
     \/ w.op = "del" /\ DelOtp(w.code) /\ UNCHANGED stored
  /\ UNCHANGED <<row, pc, req, generated, abandoned, announced, used, reused, wrong>>

LateIsLost(w) ==
  /\ late' = late \ {w}
  /\ UNCHANGED <<row, otp, otpTtl, pc, req, codeHistory, wrong>>

\* A transaction failed, or committed after the unit of work stopped waiting:
\* it is executed again from its first statement.
TransactionRepeated(r) ==
  /\ Faults
  /\ \/ /\ pc[r] = "rwrite"
        /\ ~InsertRefused(r)
        /\ row' \in {row, RegisteredRow(req[r].row)}
        /\ Goto(r, "rfind")
     \/ /\ pc[r] = "mark"
        /\ row' = [row EXCEPT !.verified = TRUE]
        /\ UNCHANGED pc
  /\ UNCHANGED <<keyVars, req, codeHistory, wrong>>

Decrement(n) == IF n = 0 THEN 0 ELSE n - 1

\* A minute passes.
Tick ==
  /\ otpTtl > 0 \/ row.lock > 0 \/ \E r \in Reqs : req[r].row.lock > 0
  /\ otp' = IF otpTtl = 1 THEN NoCode ELSE otp
  /\ otpTtl' = Decrement(otpTtl)
  /\ row' = [row EXCEPT !.lock = Decrement(@)]
  /\ req' = [r \in Reqs |-> [req[r] EXCEPT !.row.lock = Decrement(@)]]
  /\ UNCHANGED <<late, pc, codeHistory, wrong>>
-----------------------------------------------------------------------------
\* The steps by which a request that has begun comes to its end.
Progress(r) ==
  \/ RegisterCheck(r) \/ RegisterFind(r) \/ RegisterWrite(r)
  \/ ResendCheck(r) \/ StoreCode(r) \/ SendEmail(r)
  \/ CheckLock(r) \/ FetchMatches(r) \/ FetchFails(r) \/ CountFailure(r)
  \/ ResetAttempts(r) \/ MarkVerified(r) \/ DeleteCode(r) \/ IssueTokens(r)
  \/ Rejected(r)

Next ==
  \/ \E r \in Reqs :
       \/ Progress(r)
       \/ Register(r) \/ Resend(r) \/ SignInMfa(r)
       \/ \E c \in Codes \cup {WrongCode} : PresentCode(r, c)
       \/ RequestFails(r) \/ StoreFailureIgnored(r) \/ DelGivenUp(r)
       \/ TransactionRepeated(r)
  \/ \E w \in late : LateArrives(w) \/ LateIsLost(w)
  \/ Tick

Spec == Init /\ [][Next]_vars

\* Every await settles, and time passes.  Clients owe nothing.
Fairness ==
  /\ \A r \in Reqs : WF_vars(Progress(r))
  /\ WF_vars(Tick)

FairSpec == Spec /\ Fairness
-----------------------------------------------------------------------------
(* Properties *)

\* However requests race and commands fail, a code whose verification has run
\* to its DEL is not in Redis again, because nobody stores a code twice.  The
\* one exception is a code whose SET was given up: the client library may
\* still send that (storeOtp, deleteOtp).
RedeemedCodeIsGone == otp \in closed => otp \in abandoned

\* The two columns of the lockout belong together, in the row and in every copy
\* that a registration may yet write back: a lock means an exhausted count.
LockedMeansExhausted ==
  /\ row.lock > 0 => row.failed = MaxFailed
  /\ \A r \in Reqs : req[r].row.lock > 0 => req[r].row.failed = MaxFailed

\* Resend and MFA sign-in send a code by email only after Redis has it, and a
\* code that obtained tokens had been in Redis.
EmailedCodesWereStored == announced \cup used \subseteq stored

\* Served one at a time, the requests keep the promise of the limiter.
Limiter == INSTANCE AttemptLimiter WITH failed <- row.failed, lock <- row.lock
LimiterPromise == Limiter!Spec

\* Registration does not take the verification of an account back (served one
\* request at a time).
VerifiedStaysVerified == [][row.verified => row'.verified]_vars

\* Every request comes to an end.
RequestsFinish == \A r \in Reqs : pc[r] # "idle" ~> pc[r] = "idle"

\* A lock ends, although requests that began before it may still renew it.
LockoutEnds == row.lock > 0 ~> row.lock = 0
-----------------------------------------------------------------------------
(* The inductive invariant behind the safety properties.                     *)

\* Where a code is on its way: generated before it is stored, stored before
\* anything comes of it.
CodesInOrder ==
  /\ stored \cup abandoned \subseteq generated
  /\ otp \in stored \cup {NoCode}
  /\ closed \subseteq stored
  /\ \A w \in late : w.code \in generated /\ (w.op = "del" => w.code \in stored)
  /\ \A r \in Reqs :
       /\ pc[r] = "store" => req[r].code \in generated
       /\ pc[r] \in {"vcheck", "fetch"} => req[r].code # NoCode
       /\ pc[r] = "email" /\ ~req[r].register => req[r].code \in stored
       /\ pc[r] \in {"reset", "mark", "delete", "tokens"} => req[r].code \in stored

\* A code whose SET is still to come was never stored and is in one request
\* only; a SET left behind is of an abandoned code.
StoredOnce ==
  /\ \A w \in late : w.op = "set" => w.code \in abandoned
  /\ \A r \in Reqs : pc[r] = "store" =>
       /\ req[r].code \notin stored \cup abandoned
       /\ \A q \in Reqs \ {r} : pc[q] = "store" => req[q].code # req[r].code

IInv ==
  /\ TypeOK
  /\ CodesInOrder
  /\ StoredOnce
  /\ RedeemedCodeIsGone
  /\ LockedMeansExhausted
  /\ EmailedCodesWereStored
-----------------------------------------------------------------------------
(* Statements of the documentation, which hold when requests are served one  *)
(* at a time and Redis answers.  Races break each of them.                   *)

\* auth.controller.ts, "OTP Details": "One-time use only".
CodesAreOneTime == reused = {}

\* email-queue.processor.ts: "It is valid for ${expireTime} minutes."
AnnouncedCodesSurvive == wiped \cap announced = {}

\* README.md: OTP_MAX_FAILED_ATTEMPTS, "Max failed attempts before lockout".
WrongCodesAreLimited == wrong < MaxFailed

\* README.md: OTP_LOCKOUT_TIME, "Lockout duration in minutes".  Only the right
\* code may end a lock before its time.
LockRunsItsTime ==
  [][row.lock > 0 /\ row'.lock + 1 < row.lock => \E r \in Reqs : pc[r] = "reset"]_vars
=============================================================================
