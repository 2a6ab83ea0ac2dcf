-------------------------- MODULE AccountLifecycle --------------------------
(***************************************************************************)
(* Registration, sign-in with a password, sign-in with an OAuth provider,   *)
(* password change and password reset over the users row of one address.    *)
(* Every database command is a step, so that requests interleave between    *)
(* them; any of them may fail.  A registration and a password change run in *)
(* PrismaUnitOfWork.withTransaction: three tries, and a try that is given   *)
(* up by its timer may commit later.  The verification of an address by a   *)
(* code (OtpVerification) is one step here, and so is the removal of an     *)
(* account.                                                                 *)
(*                                                                         *)
(* The update by id that follows a read of the same id is one step: the     *)
(* read only supplies the id.                                               *)
(***************************************************************************)
EXTENDS Integers

CONSTANTS AccReqs,
          Passwords,      \* what users type
          Generated,      \* the password made up for an OAuth account
          MaxRetries      \* maxRetries of the unit of work

ASSUME AccountAssumption == MaxRetries \in Nat \ {0} /\ Generated \notin Passwords

VARIABLES
  row,              \* the users row, by what the use cases read and write of it
  accPc, accReq,    \* requests and their locals
  late,             \* transactions given up by their timer and still running
  since             \* history: passwords of the row since a request began, whether
                    \* an OAuth sign-in had an account all along, and whether a
                    \* registration had none, or none verified, at some time

accountVars == <<row, accPc, accReq, late, since>>

NoRow == [there |-> FALSE, deleted |-> FALSE, password |-> Generated, verified |-> FALSE,
          source |-> "default"]
AccIdle == [op |-> "none", given |-> Generated, new |-> Generated, read |-> NoRow, tries |-> 0]
NeverSince == [passwords |-> {}, visible |-> FALSE, free |-> FALSE]
NoLate == [op |-> "none", new |-> Generated, found |-> FALSE, checked |-> FALSE]

Visible(x) == x.there /\ ~x.deleted
Taken(x) == Visible(x) /\ x.verified

AccountsInit ==
  /\ row = NoRow
  /\ accPc = [r \in AccReqs |-> "idle"]
  /\ accReq = [r \in AccReqs |-> AccIdle]
  /\ late = [r \in AccReqs |-> NoLate]
  /\ since = [r \in AccReqs |-> NeverSince]
-----------------------------------------------------------------------------
AccGoto(r, step) == accPc' = [accPc EXCEPT ![r] = step]
AccKeep(r, field, value) == accReq' = [accReq EXCEPT ![r][field] = value]
AccEnds(r) ==
  /\ AccGoto(r, "idle")
  /\ accReq' = [accReq EXCEPT ![r] = AccIdle]
  /\ since' = [since EXCEPT ![r] = NeverSince]

\* The row changes; of its passwords a request's history has those the request is about.
WriteRow(x) ==
  /\ row' = x
  /\ since' = [r \in AccReqs |->
       IF accPc[r] = "idle" THEN since[r]
       ELSE [passwords |-> since[r].passwords
                             \cup ({x.password} \cap {accReq[r].given, accReq[r].new}),
             visible |-> since[r].visible /\ Visible(x),
             free |-> since[r].free \/ (accReq[r].op = "register" /\ ~Taken(x))]]

AccBegins(r, op, given, new) ==
  /\ accPc[r] = "idle"
  /\ AccGoto(r, "find")
  /\ accReq' = [accReq EXCEPT ![r] = [AccIdle EXCEPT !.op = op, !.given = given, !.new = new]]
  /\ since' = [since EXCEPT ![r] =
       [passwords |-> IF Visible(row) THEN {row.password} \cap {given, new} ELSE {},
        visible |-> op = "oauth" /\ Visible(row),
        free |-> op = "register" /\ ~Taken(row)]]
  /\ UNCHANGED <<row, late>>

SignInStarts(r) == \E p \in Passwords : AccBegins(r, "signin", p, Generated)
OAuthStarts(r) == AccBegins(r, "oauth", Generated, Generated)
ForgetStarts(r) == AccBegins(r, "forget", Generated, Generated)
ChangeStarts(r) == \E p, q \in Passwords : p # q /\ AccBegins(r, "change", p, q)
RegisterStarts(r) == \E p \in Passwords : AccBegins(r, "register", p, p)
-----------------------------------------------------------------------------
(* findByEmailString, and what is decided from the answer before the next await *)

\* Mutant: the old password is only required to be there.
OldPasswordGiven(x, given, new) == x.verified
\* verifyUserAndChangePassword, and the new password must differ from the current.
ChangeIsAllowed(x, given, new) ==
  x.verified /\ given = x.password /\ new # x.password

FindForSignIn(r) ==
  /\ accPc[r] = "find" /\ accReq[r].op = "signin" /\ Visible(row)
  /\ AccGoto(r, "activity") /\ AccKeep(r, "read", row)
  /\ UNCHANGED <<row, late, since>>

FindForForget(r) ==
  /\ accPc[r] = "find" /\ accReq[r].op = "forget" /\ Visible(row)
  /\ AccGoto(r, "flag") /\ UNCHANGED <<row, accReq, late, since>>

FindForChange(r) ==
  /\ accPc[r] = "find" /\ accReq[r].op = "change"
  /\ Visible(row) /\ ChangeIsAllowed(row, accReq[r].given, accReq[r].new)
  /\ AccGoto(r, "tx") /\ UNCHANGED <<row, accReq, late, since>>

\* Mutant: whoever has the address.
RegisterUnchecked(r) ==
  /\ accPc[r] = "find" /\ accReq[r].op = "register"
  /\ AccGoto(r, "tx") /\ UNCHANGED <<row, accReq, late, since>>
\* A verified account is not registered again; one that is not verified is.  The
\* password is hashed before the transaction begins.
FindForRegister(r) ==
  /\ accPc[r] = "find" /\ accReq[r].op = "register" /\ ~Taken(row)
  /\ AccGoto(r, "tx") /\ UNCHANGED <<row, accReq, late, since>>

\* No such user, one for whom the change is not allowed, or one who has the address.
FindRefuses(r) ==
  /\ accPc[r] = "find"
  /\ \/ accReq[r].op \notin {"oauth", "register"} /\ ~Visible(row)
     \/ accReq[r].op = "change" /\ ~ChangeIsAllowed(row, accReq[r].given, accReq[r].new)
     \/ accReq[r].op = "register" /\ Taken(row)
  /\ AccEnds(r) /\ UNCHANGED <<row, late>>

\* Mutant: every OAuth sign-in writes the account.
AlwaysCreate(x) == "create"
CreateIfMissing(x) == IF Visible(x) THEN "pin" ELSE "create"
FindForOAuth(r) ==
  /\ accPc[r] = "find" /\ accReq[r].op = "oauth"
  /\ AccGoto(r, CreateIfMissing(row))
  /\ UNCHANGED <<row, accReq, late, since>>
-----------------------------------------------------------------------------
(* Sign-in: activity is written before the password is looked at *)

AuthenticateUser(x, given) == given = x.password /\ x.verified

\* updateLastActivityInDB (the time itself is LastActivity's), then authenticateUser
\* with the row that was read before it.
SignInAuthenticates(r) ==
  /\ accPc[r] = "activity" /\ accReq[r].op = "signin"
  /\ IF AuthenticateUser(accReq[r].read, accReq[r].given)
     THEN AccGoto(r, "flag") /\ AccKeep(r, "read", NoRow) /\ UNCHANGED since
     ELSE AccEnds(r)
  /\ UNCHANGED <<row, late>>

\* updateForgotPasswordStatus: isForgetPassword is written, and read by nobody, so
\* that it is not kept here.
UpdateForgotPasswordStatus(r) ==
  /\ accPc[r] = "flag"
  /\ IF Visible(row)
     THEN AccGoto(r, "answer") /\ UNCHANGED <<accReq, since>>
     ELSE AccEnds(r)
  /\ UNCHANGED <<row, late>>

\* Tokens (RefreshSessions.OpenSession), or the code of an MFA sign-in
\* (OtpVerification).
SignInAnswers(r) ==
  /\ accPc[r] = "answer" /\ accReq[r].op = "signin"
  /\ AccEnds(r) /\ UNCHANGED <<row, late>>

\* What updateForgotPasswordStatus returns of the flag it has just written.
ReturnedFlag(x) == FALSE
\* The use case takes the returned FALSE for a failure: no code is ever sent.
ForgetAnswers(r) ==
  /\ accPc[r] = "answer" /\ accReq[r].op = "forget"
  /\ AccGoto(r, IF ReturnedFlag(row) THEN "sent" ELSE "failed")
  /\ UNCHANGED <<row, accReq, late, since>>
ForgetEnds(r) ==
  /\ accPc[r] \in {"sent", "failed"}
  /\ AccEnds(r) /\ UNCHANGED <<row, late>>
-----------------------------------------------------------------------------
(* OAuth: createUser looks again, then creates, or writes the whole row back *)

CreateLooks(r) ==
  /\ accPc[r] = "create"
  /\ AccGoto(r, IF Visible(row) THEN "update" ELSE "save")
  /\ AccKeep(r, "read", IF Visible(row) THEN row ELSE NoRow)
  /\ UNCHANGED <<row, late, since>>

OAuthRow == [there |-> TRUE, deleted |-> FALSE, password |-> Generated, verified |-> TRUE,
             source |-> "oauth"]
\* The address is unique: a row that is there, deleted or not, refuses the save.
SaveNewUser(r) ==
  /\ accPc[r] = "save"
  /\ IF row.there THEN AccEnds(r) /\ UNCHANGED row
     ELSE WriteRow(OAuthRow) /\ AccGoto(r, "pin") /\ UNCHANGED accReq
  /\ UNCHANGED late

\* Mutant: the flag that was read is written back with the rest.
WholeRowAsRead(x) == [x EXCEPT !.deleted = FALSE, !.source = "oauth"]
\* toPersistence of the entity read before, now verified.
WholeRow(x) == [x EXCEPT !.deleted = FALSE, !.source = "oauth", !.verified = TRUE]
UpdateWholeRow(r) ==
  /\ accPc[r] = "update"
  /\ WriteRow(WholeRow(accReq[r].read))
  /\ AccGoto(r, "pin") /\ AccKeep(r, "read", NoRow) /\ UNCHANGED late

\* updateLogoutPin and updateLastActivityInDB touch no other field; tokens.
UpdateLogoutPin(r) ==
  /\ accPc[r] = "pin"
  /\ IF Visible(row) THEN AccGoto(r, "activity") /\ UNCHANGED <<accReq, since>> ELSE AccEnds(r)
  /\ UNCHANGED <<row, late>>
OAuthAnswers(r) ==
  /\ accPc[r] = "activity" /\ accReq[r].op = "oauth"
  /\ AccEnds(r) /\ UNCHANGED <<row, late>>
-----------------------------------------------------------------------------
(* Password change and registration: one try of withTransaction after the other *)

Changed(new) == [row EXCEPT !.password = new]

\* Every column that is kept here is written, whatever was read.
RegisteredRow(new) == [NoRow EXCEPT !.there = TRUE, !.password = new]

\* The find of a registration, which sees deleted rows too.  Of the rest of what it
\* reads and writes back OtpVerification has the count and the lock.
RegisterFinds(r) ==
  /\ accPc[r] = "tx" /\ accReq[r].op = "register"
  /\ AccGoto(r, "write") /\ AccKeep(r, "read", [NoRow EXCEPT !.there = row.there])
  /\ UNCHANGED <<row, late, since>>

\* A registration writes after its find, a password change has nothing to find.
AtWrite(r) == accPc[r] = IF accReq[r].op = "register" THEN "write" ELSE "tx"

\* An update by id of an active row; of the row that was found, or an insert, which
\* the unique address refuses.
TxAccepted(op, found) == IF op = "register" THEN found \/ ~row.there ELSE Visible(row)
TxRow(op, new) == IF op = "register" THEN RegisteredRow(new) ELSE Changed(new)

TxWrites(r) ==
  /\ AtWrite(r) /\ TxAccepted(accReq[r].op, accReq[r].read.there)
  /\ WriteRow(TxRow(accReq[r].op, accReq[r].new))

TxCommits(r) ==
  /\ TxWrites(r)
  /\ AccGoto(r, "changed") /\ AccKeep(r, "read", NoRow) /\ UNCHANGED late

\* Mutants: one try too many; the loop leaves with the last result, not with its error.
ExhaustedLater(tries) == IF tries = MaxRetries THEN "failed" ELSE "tx"
ExhaustedReturns(tries) == IF tries + 1 = MaxRetries THEN "changed" ELSE "tx"
Exhausted(tries) == IF tries + 1 = MaxRetries THEN "failed" ELSE "tx"

\* Mutant: the tries are not counted.
RetriedUncounted(r) == AccGoto(r, Exhausted(accReq[r].tries)) /\ UNCHANGED accReq
Retried(r) ==
  /\ AccGoto(r, Exhausted(accReq[r].tries))
  /\ accReq' = [accReq EXCEPT ![r].tries = @ + 1, ![r].read = NoRow]

\* The database fails: rolled back, or committed and the answer lost.
TxErrs(r) ==
  /\ accPc[r] \in {"tx", "write"}
  /\ Retried(r)
  /\ UNCHANGED <<row, since>> \/ TxWrites(r)
  /\ UNCHANGED late

\* History: what the request was checked for was so at some time since it began.
Entitled(r) ==
  IF accReq[r].op = "register" THEN since[r].free ELSE accReq[r].given \in since[r].passwords

\* Promise.race gives up on a transaction that has waited for its connection: it
\* may yet commit (maxWait + timeout is more than the timer's timeout + 1000).
TxGivenUp(r) ==
  /\ accPc[r] \in {"tx", "write"}
  /\ \A q \in AccReqs : late[q] = NoLate   \* bound: one at a time
  /\ Retried(r)
  /\ late' = [late EXCEPT ![r] =
       [op |-> accReq[r].op, new |-> accReq[r].new,
        found |-> accPc[r] = "tx" \/ accReq[r].read.there,   \* or will find what is there
        checked |-> Entitled(r)]]
  /\ UNCHANGED <<row, since>>

\* P2025, the update finds no active row; P2002, the address is there.  Not retried.
TxRefused(r) ==
  /\ accPc[r] \in {"tx", "write"} /\ AtWrite(r)
  /\ ~TxAccepted(accReq[r].op, accReq[r].read.there)
  /\ AccGoto(r, "failed") /\ AccKeep(r, "read", NoRow) /\ UNCHANGED <<row, late, since>>

\* A registration sends its code (OtpVerification) and writes the activity; neither
\* can fail it.
TxAnswers(r) ==
  /\ accPc[r] = "changed"
  /\ AccEnds(r) /\ UNCHANGED <<row, late>>

LateCommit(r) ==
  /\ late[r] # NoLate
  /\ late' = [late EXCEPT ![r] = NoLate]
  /\ IF TxAccepted(late[r].op, late[r].found) THEN WriteRow(TxRow(late[r].op, late[r].new))
     ELSE UNCHANGED <<row, since>>
  /\ UNCHANGED <<accPc, accReq>>
LateAborts(r) ==
  /\ late[r] # NoLate
  /\ late' = [late EXCEPT ![r] = NoLate]
  /\ UNCHANGED <<row, accPc, accReq, since>>
-----------------------------------------------------------------------------
(* The rest of the system *)

\* VerifyOtpUseCase.
CodeVerifies ==
  /\ Visible(row) /\ ~row.verified
  /\ WriteRow([row EXCEPT !.verified = TRUE])
  /\ UNCHANGED <<accPc, accReq, late>>
\* Nothing in the program calls UserRepository.delete; an administrator may.  Nothing
\* of a deleted row is read again, but that it is there.
Removed ==
  /\ Visible(row)
  /\ WriteRow([NoRow EXCEPT !.there = TRUE, !.deleted = TRUE])
  /\ UNCHANGED <<accPc, accReq, late>>
\* A database command of a request throws.
AccountFails(r) ==
  /\ accPc[r] \in {"find", "activity", "flag", "create", "save", "update", "pin"}
  /\ AccEnds(r) /\ UNCHANGED <<row, late>>
-----------------------------------------------------------------------------
AccountStep(r) ==
  \/ FindForSignIn(r) \/ FindForForget(r) \/ FindForChange(r) \/ FindRefuses(r)
  \/ FindForOAuth(r) \/ FindForRegister(r) \/ RegisterFinds(r) \/ SignInAuthenticates(r) \/ UpdateForgotPasswordStatus(r)
  \/ SignInAnswers(r) \/ ForgetAnswers(r) \/ ForgetEnds(r)
  \/ CreateLooks(r) \/ SaveNewUser(r) \/ UpdateWholeRow(r) \/ UpdateLogoutPin(r)
  \/ OAuthAnswers(r) \/ TxCommits(r) \/ TxErrs(r) \/ TxGivenUp(r) \/ TxRefused(r)
  \/ TxAnswers(r)

AccountsNext ==
  \/ \E r \in AccReqs :
       \/ SignInStarts(r) \/ OAuthStarts(r) \/ ForgetStarts(r) \/ ChangeStarts(r)
       \/ RegisterStarts(r)
       \/ AccountStep(r) \/ AccountFails(r) \/ LateCommit(r) \/ LateAborts(r)
  \/ CodeVerifies \/ Removed

AccountsSpec == AccountsInit /\ [][AccountsNext]_accountVars
-----------------------------------------------------------------------------
(* Properties *)

AccSteps == {"idle", "find", "activity", "flag", "answer", "sent", "failed", "create",
             "save", "update", "pin", "tx", "write", "changed"}
AccountsTypeOK ==
  /\ row.password \in Passwords \cup {Generated} /\ row.verified \in BOOLEAN
  /\ accPc \in [AccReqs -> AccSteps]
  /\ \A r \in AccReqs : accReq[r].tries \in 0 .. MaxRetries
  /\ \A r \in AccReqs : late[r].new \in Passwords \cup {Generated}

\* Whoever is signed in with a password, or may change one, has given a password
\* the account had at some time since the request began: reading the row before the
\* last awaits lets in nothing older.
\* (It does let in a password that was changed during the request.)
PasswordsAreChecked ==
  \A r \in AccReqs :
    \/ accReq[r].op = "change" /\ accPc[r] = "tx"
    \/ accReq[r].op = "signin" /\ accPc[r] \in {"flag", "answer"}
    => accReq[r].given \in since[r].passwords

\* Who may write: a registration of an address that had no verified account at some
\* time since it began; a change whose old password was the account's since then.
RegistersFree(r) ==
  \/ accReq[r].op = "register" /\ accPc[r] = "write" /\ Entitled(r)
  \/ late[r].op = "register" /\ late[r].checked
ChangesOwn(r) ==
  \/ accReq[r].op = "change" /\ accPc[r] = "tx" /\ Entitled(r)
  \/ late[r].op = "change" /\ late[r].checked

\* A verification is undone by nothing but a registration that found the address
\* without a verified account since it began; an OAuth sign-in, which may write back
\* a whole row read before the verification, never does.
\* (That the registration found it so before the verification is why it is undone.)
VerificationsAreKept ==
  [][Taken(row) /\ Visible(row') /\ ~row'.verified => \E r \in AccReqs : RegistersFree(r)]_accountVars

\* The password of a verified account is replaced by those only who knew it, by such
\* a registration, or by the whole row that an OAuth sign-in writes back.
PasswordsAreKept ==
  [][Taken(row) /\ Visible(row') /\ row'.password # row.password =>
       \E r \in AccReqs : RegistersFree(r) \/ ChangesOwn(r)
                          \/ (accPc[r] = "update" /\ ~since[r].visible)]_accountVars

\* OAuth sign-ins leave alone the account they find: its password and source of
\* login are only written for an address that had none at some time since they began.
OAuthKeepsAccounts ==
  [][row.there /\ row'.source # row.source /\ row'.source = "oauth" =>
       \E r \in AccReqs : accPc[r] = "update" /\ ~since[r].visible]_accountVars

\* What the whole-row writes of registrations and OAuth sign-ins leave alone.
AccountsAreKept == VerificationsAreKept /\ PasswordsAreKept /\ OAuthKeepsAccounts

\* The password of a change or registration that is acknowledged is in the row, unless
\* another change, an earlier try of one that was given up, a whole-row write or a
\* removal came after it.
AcknowledgedChangeHolds ==
  \A r \in AccReqs : accPc[r] = "changed" => accReq[r].new \in since[r].passwords

\* auth.controller.ts:207, "Call the Forget Password API to sent OTP via email": a
\* reset of an account that is there, with nothing failing, sends its code.
ForgetSendsCode == \A r \in AccReqs : accPc[r] # "failed" \/ accReq[r].op # "forget"
=============================================================================
