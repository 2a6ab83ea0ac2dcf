------------------------ MODULE AccountLifecycleProofs ------------------------
(***************************************************************************)
(* Passwords count only if they are the account's, acknowledged changes     *)
(* are made, and accounts are kept, for any number of requests, passwords   *)
(* and tries.  The invariant follows what a request knows: the history of   *)
(* its passwords has the one of the row it has read (a stale one may be in  *)
(* the request), and the one of the row as it is now; a transaction, also   *)
(* one that was given up and may commit late, is of a request that had what *)
(* entitles it to write.                                                    *)
(***************************************************************************)
EXTENDS AccountLifecycle, TLAPS

Texts == Passwords \cup {Generated}
Row == [there : BOOLEAN, deleted : BOOLEAN, password : Texts, verified : BOOLEAN,
        source : {"default", "oauth"}]
Ops == {"signin", "oauth", "forget", "change", "register"}
Request == [op : Ops \cup {"none"}, given : Texts, new : Texts,
            read : Row, tries : Int]
History == [passwords : SUBSET Texts, visible : BOOLEAN, free : BOOLEAN]
LateTx == [op : Ops \cup {"none"}, new : Texts, found : BOOLEAN, checked : BOOLEAN]

LateOK ==
  /\ late \in [AccReqs -> LateTx]
  /\ \A r \in AccReqs :
       late[r] = NoLate \/ (late[r].op \in {"change", "register"} /\ late[r].checked)

AccTypes ==
  /\ row \in Row
  /\ accPc \in [AccReqs -> AccSteps]
  /\ accReq \in [AccReqs -> Request]
  /\ LateOK
  /\ since \in [AccReqs -> History]

\* The password of the row, if the request is about it, is in the request's history.
KnowsTheRow(r) ==
  accPc[r] # "idle" /\ Visible(row) /\ row.password \in {accReq[r].given, accReq[r].new}
    => row.password \in since[r].passwords

KnowsWhatItRead(r) ==
  accPc[r] = "activity" /\ accReq[r].op = "signin" /\ accReq[r].read.password = accReq[r].given
    => accReq[r].given \in since[r].passwords

HasChecked(r) ==
  \/ accReq[r].op = "change" /\ accPc[r] = "tx"
  \/ accReq[r].op = "signin" /\ accPc[r] \in {"flag", "answer"}
  => accReq[r].given \in since[r].passwords

HasChanged(r) == accPc[r] = "changed" => accReq[r].new \in since[r].passwords

\* Only OAuth sign-ins create accounts.
CreatesForOAuth(r) ==
  accPc[r] \in {"create", "save", "update", "pin"} => accReq[r].op = "oauth"

\* Transactions are those of changes, and of registrations that had found nobody
\* verified.
RunsAsEntitled(r) ==
  /\ accPc[r] = "find" /\ accReq[r].op = "register" /\ ~Taken(row) => since[r].free
  /\ accPc[r] \in {"tx", "write"} => accReq[r].op \in {"change", "register"}
  /\ accPc[r] = "write" => accReq[r].op = "register"
  /\ accPc[r] \in {"tx", "write"} /\ accReq[r].op = "register" => since[r].free

Sound(r) ==
  /\ KnowsTheRow(r) /\ KnowsWhatItRead(r) /\ HasChecked(r) /\ HasChanged(r)
  /\ CreatesForOAuth(r) /\ RunsAsEntitled(r)

AccInv == AccTypes /\ \A r \in AccReqs : Sound(r)
-----------------------------------------------------------------------------
(* Rows and records *)

LEMMA Records ==
  /\ NoRow \in Row /\ AccIdle \in Request /\ NeverSince \in History
  /\ NoLate \in LateTx /\ NoLate.op = "none" /\ OAuthRow \in Row
<1>1. NoRow \in Row /\ NoLate \in LateTx /\ NoLate.op = "none" /\ OAuthRow \in Row
  BY DEF NoRow, Row, Texts, NoLate, LateTx, OAuthRow
<1>2. AccIdle \in Request
  BY <1>1 DEF AccIdle, Request, Texts
<1>3. NeverSince \in History
  BY DEF NeverSince, History
<1> QED
  BY <1>1, <1>2, <1>3

LEMMA RowUpdates ==
  ASSUME NEW x \in Row
  PROVE  /\ \A p \in Texts : [x EXCEPT !.password = p] \in Row
         /\ \A p \in Texts : [x EXCEPT !.password = p].password = p
         /\ [x EXCEPT !.verified = TRUE] \in Row
         /\ WholeRow(x) \in Row
<1>1. ASSUME NEW p \in Texts
      PROVE  /\ [x EXCEPT !.password = p] \in Row
             /\ [x EXCEPT !.password = p].password = p
  BY DEF Row
<1>2. [x EXCEPT !.verified = TRUE] \in Row
  BY DEF Row
<1>3. WholeRow(x) \in Row
  BY DEF Row, WholeRow
<1> QED
  BY <1>1, <1>2, <1>3

LEMMA NewRows ==
  /\ \A p \in Texts : RegisteredRow(p) \in Row /\ RegisteredRow(p).password = p
  /\ [NoRow EXCEPT !.there = TRUE, !.deleted = TRUE] \in Row
  /\ \A there \in BOOLEAN : [NoRow EXCEPT !.there = there] \in Row
<1>1. ASSUME NEW p \in Texts
      PROVE  RegisteredRow(p) \in Row /\ RegisteredRow(p).password = p
  BY Records DEF Row, RegisteredRow
<1>2. [NoRow EXCEPT !.there = TRUE, !.deleted = TRUE] \in Row
  BY Records DEF Row
<1>3. ASSUME NEW there \in BOOLEAN
      PROVE  [NoRow EXCEPT !.there = there] \in Row
  BY Records DEF Row
<1> QED
  BY <1>1, <1>2, <1>3

LEMMA AccInitInv == AccountsInit => AccInv
<1> SUFFICES ASSUME AccountsInit
             PROVE  AccInv
  OBVIOUS
<1>1. AccTypes
  BY Records DEF AccountsInit, AccTypes, AccSteps, LateOK
<1>2. ASSUME NEW r \in AccReqs
      PROVE  Sound(r)
  BY <1>2, Records DEF AccountsInit, Sound, KnowsTheRow, KnowsWhatItRead, HasChecked, HasChanged,
         CreatesForOAuth, RunsAsEntitled
<1> QED
  BY <1>1, <1>2 DEF AccInv
-----------------------------------------------------------------------------
(* Who is not moved by a step stays sound, whatever becomes of the row *)

LEMMA WriteRowKeeps ==
  ASSUME AccTypes, NEW x \in Row, WriteRow(x)
  PROVE  /\ row' = x /\ since' \in [AccReqs -> History]
         /\ \A r \in AccReqs :
              /\ since[r].passwords \subseteq since'[r].passwords
              /\ since[r].free => since'[r].free
              /\ accPc[r] # "idle" /\ accReq[r].op = "register" /\ ~Taken(x) => since'[r].free
              /\ accPc[r] # "idle" /\ x.password \in {accReq[r].given, accReq[r].new}
                   => x.password \in since'[r].passwords
<1>1. row' = x
  BY DEF WriteRow
<1> DEFINE h(r) == [passwords |-> since[r].passwords
                                    \cup ({x.password} \cap {accReq[r].given, accReq[r].new}),
                    visible |-> since[r].visible /\ Visible(x),
                    free |-> since[r].free \/ (accReq[r].op = "register" /\ ~Taken(x))]
<1>2. \A r \in AccReqs : since[r] \in History /\ h(r) \in History
  <2>1. SUFFICES ASSUME NEW r \in AccReqs
                 PROVE  since[r] \in History /\ h(r) \in History
    OBVIOUS
  <2>2. since[r] \in History /\ x.password \in Texts
    BY DEF AccTypes, Row
  <2>3. since[r].passwords \cup ({x.password} \cap {accReq[r].given, accReq[r].new}) \subseteq Texts
    BY <2>2 DEF History
  <2>4. /\ (since[r].visible /\ Visible(x)) \in BOOLEAN
        /\ (since[r].free \/ (accReq[r].op = "register" /\ ~Taken(x))) \in BOOLEAN
    OBVIOUS
  <2> QED
    BY <2>2, <2>3, <2>4 DEF History
<1>3. since' = [r \in AccReqs |-> IF accPc[r] = "idle" THEN since[r] ELSE h(r)]
  BY DEF WriteRow
<1>4. since' \in [AccReqs -> History]
  <2> HIDE DEF h
  <2> QED
    BY <1>2, <1>3
<1>5. ASSUME NEW r \in AccReqs
      PROVE  /\ since[r].passwords \subseteq since'[r].passwords
             /\ since[r].free => since'[r].free
             /\ accPc[r] # "idle" /\ accReq[r].op = "register" /\ ~Taken(x) => since'[r].free
             /\ accPc[r] # "idle" /\ x.password \in {accReq[r].given, accReq[r].new}
                  => x.password \in since'[r].passwords
  BY <1>3
<1> QED
  BY <1>1, <1>4, <1>5

LEMMA UnmovedStaysSound ==
  ASSUME AccTypes, NEW r \in AccReqs, Sound(r),
         accPc'[r] = accPc[r], accReq'[r] = accReq[r],
         \/ row' = row /\ since'[r] = since[r]
         \/ \E x \in Row : WriteRow(x)
  PROVE  Sound(r)'
<1>1. CASE row' = row /\ since'[r] = since[r]
  BY <1>1 DEF Sound, KnowsTheRow, KnowsWhatItRead, HasChecked, HasChanged, CreatesForOAuth,
         RunsAsEntitled
<1>2. ASSUME NEW x \in Row, WriteRow(x)
      PROVE  Sound(r)'
  <2>1. /\ row' = x /\ since[r].passwords \subseteq since'[r].passwords
        /\ since[r].free => since'[r].free
        /\ accPc[r] # "idle" /\ accReq[r].op = "register" /\ ~Taken(x) => since'[r].free
        /\ accPc[r] # "idle" /\ x.password \in {accReq[r].given, accReq[r].new}
             => x.password \in since'[r].passwords
    BY <1>2, WriteRowKeeps
  <2> QED
    BY <2>1 DEF Sound, KnowsTheRow, KnowsWhatItRead, HasChecked, HasChanged, CreatesForOAuth,
         RunsAsEntitled, Taken
<1> QED
  BY <1>1, <1>2

\* A request that has ended is sound.
LEMMA IdleIsSound ==
  ASSUME NEW r, accPc'[r] = "idle"
  PROVE  Sound(r)'
  BY DEF Sound, KnowsTheRow, KnowsWhatItRead, HasChecked, HasChanged,
         CreatesForOAuth, RunsAsEntitled

\* The row is left alone or written, by a request or by the rest of the system.
RowStep ==
  \/ row' = row /\ since' = since
  \/ \E x \in Row : WriteRow(x)

LEMMA RowStepTypes ==
  ASSUME AccTypes, RowStep
  PROVE  row' \in Row /\ since' \in [AccReqs -> History]
  BY WriteRowKeeps DEF RowStep, AccTypes

\* One request moves.
LEMMA MoveInv ==
  ASSUME AccInv, NEW r \in AccReqs, NEW s \in AccSteps, NEW y \in Request,
         accPc' = [accPc EXCEPT ![r] = s], accReq' = [accReq EXCEPT ![r] = y],
         LateOK',
         RowStep, Sound(r)'
  PROVE  AccInv'
<1>1. AccTypes'
  BY RowStepTypes DEF AccInv, AccTypes
<1>2. ASSUME NEW q \in AccReqs, q # r
      PROVE  Sound(q)'
  <2>1. accPc'[q] = accPc[q] /\ accReq'[q] = accReq[q] /\ Sound(q) /\ AccTypes
    BY <1>2 DEF AccInv, AccTypes
  <2> QED
    BY <2>1, UnmovedStaysSound DEF RowStep
<1> QED
  BY <1>1, <1>2 DEF AccInv

\* One request ends.
LEMMA EndInv ==
  ASSUME AccInv, NEW r \in AccReqs, AccEnds(r), row' = row, late' = late
  PROVE  AccInv'
<1>1. AccTypes'
  BY Records DEF AccInv, AccTypes, LateOK, AccEnds, AccGoto, AccSteps
<1>2. ASSUME NEW q \in AccReqs
      PROVE  Sound(q)'
  <2>1. CASE q = r
    BY <2>1, IdleIsSound DEF AccInv, AccTypes, AccEnds, AccGoto
  <2>2. CASE q # r
    <3>1. /\ accPc'[q] = accPc[q] /\ accReq'[q] = accReq[q] /\ since'[q] = since[q]
          /\ Sound(q) /\ AccTypes
      BY <2>2 DEF AccInv, AccEnds, AccGoto
    <3> QED
      BY <3>1, UnmovedStaysSound
  <2> QED
    BY <2>1, <2>2
<1> QED
  BY <1>1, <1>2 DEF AccInv

\* No request moves.
LEMMA RestInv ==
  ASSUME AccInv, UNCHANGED <<accPc, accReq>>, LateOK', RowStep
  PROVE  AccInv'
<1>1. AccTypes'
  BY RowStepTypes DEF AccInv, AccTypes
<1>2. ASSUME NEW q \in AccReqs
      PROVE  Sound(q)'
  BY UnmovedStaysSound DEF AccInv, RowStep
<1> QED
  BY <1>1, <1>2 DEF AccInv
-----------------------------------------------------------------------------
(* A request begins *)

LEMMA BeginInv ==
  ASSUME AccInv, NEW r \in AccReqs, NEW op \in Ops,
         NEW given \in Texts, NEW new \in Texts, AccBegins(r, op, given, new)
  PROVE  AccInv'
<1> DEFINE y == [AccIdle EXCEPT !.op = op, !.given = given, !.new = new]
           h == [passwords |-> IF Visible(row) THEN {row.password} \cap {given, new} ELSE {},
                 visible |-> op = "oauth" /\ Visible(row),
                 free |-> op = "register" /\ ~Taken(row)]
<1>1. y \in Request /\ y.given = given /\ y.new = new /\ y.op = op
  BY Records DEF Request
<1>2. h \in History
  <2>1. row.password \in Texts
    BY DEF AccInv, AccTypes, Row
  <2>2. h.passwords \subseteq Texts /\ h.visible \in BOOLEAN /\ h.free \in BOOLEAN
    BY <2>1
  <2> QED
    BY <2>1, <2>2 DEF History
<1>3. /\ accPc' = [accPc EXCEPT ![r] = "find"] /\ accReq' = [accReq EXCEPT ![r] = y]
      /\ since' = [since EXCEPT ![r] = h] /\ row' = row /\ late' = late
  BY DEF AccBegins, AccGoto
<1>4. /\ Visible(row) /\ row.password \in {given, new} => row.password \in h.passwords
      /\ op = "register" /\ ~Taken(row) => h.free
  OBVIOUS
<1> HIDE DEF y, h
<1>5. AccTypes'
  BY <1>1, <1>2, <1>3 DEF AccInv, AccTypes, LateOK, AccSteps
<1>6. Sound(r)'
  <2>1. accPc'[r] = "find" /\ accReq'[r] = y /\ since'[r] = h
    BY <1>3 DEF AccInv, AccTypes
  <2> QED
    BY <1>1, <1>3, <1>4, <2>1
       DEF Taken, Visible, Sound, KnowsTheRow, KnowsWhatItRead, HasChecked, HasChanged, CreatesForOAuth,
         RunsAsEntitled
<1>7. ASSUME NEW q \in AccReqs, q # r
      PROVE  Sound(q)'
  <2>1. /\ accPc'[q] = accPc[q] /\ accReq'[q] = accReq[q] /\ since'[q] = since[q]
        /\ Sound(q) /\ AccTypes
    BY <1>3, <1>7 DEF AccInv
  <2> QED
    BY <1>3, <2>1, UnmovedStaysSound
<1> QED
  BY <1>5, <1>6, <1>7 DEF AccInv

LEMMA StartInv ==
  ASSUME AccInv, NEW r \in AccReqs,
         \/ SignInStarts(r) \/ OAuthStarts(r) \/ ForgetStarts(r) \/ ChangeStarts(r)
         \/ RegisterStarts(r)
  PROVE  AccInv'
<1>1. CASE SignInStarts(r)
  <2>1. PICK p \in Passwords : AccBegins(r, "signin", p, Generated)
    BY <1>1 DEF SignInStarts
  <2> QED
    BY <2>1, BeginInv DEF Texts, Ops
<1>2. CASE OAuthStarts(r) \/ ForgetStarts(r)
  BY <1>2, BeginInv DEF OAuthStarts, ForgetStarts, Texts, Ops
<1>3. CASE ChangeStarts(r)
  <2>1. PICK p \in Passwords, q \in Passwords : AccBegins(r, "change", p, q)
    BY <1>3 DEF ChangeStarts
  <2> QED
    BY <2>1, BeginInv DEF Texts, Ops
<1>4. CASE RegisterStarts(r)
  <2>1. PICK p \in Passwords : AccBegins(r, "register", p, p)
    BY <1>4 DEF RegisterStarts
  <2> QED
    BY <2>1, BeginInv DEF Texts, Ops
<1> QED
  BY <1>1, <1>2, <1>3, <1>4
-----------------------------------------------------------------------------
(* Steps that leave the row alone *)

\* A request goes on to a step at which nothing new has to be known.
LEMMA GoInv ==
  ASSUME AccInv, NEW r \in AccReqs,
         NEW s \in {"flag", "answer", "sent", "failed", "create", "save", "update", "pin", "activity"},
         AccGoto(r, s), UNCHANGED <<row, accReq, late, since>>,
         accPc[r] # "idle",
         accReq[r].op = "signin" => s = "failed" \/ (s = "answer" /\ accPc[r] = "flag"),
         s \in {"create", "save", "update", "pin"} => accReq[r].op = "oauth"
  PROVE  AccInv'
<1>1. s \in AccSteps /\ accReq[r] \in Request
  BY DEF AccSteps, AccInv, AccTypes
<1>2. accReq' = [accReq EXCEPT ![r] = accReq[r]] /\ accPc' = [accPc EXCEPT ![r] = s]
  BY DEF AccInv, AccTypes, AccGoto
<1>3. Sound(r) /\ accPc'[r] = s
  BY DEF AccInv, AccTypes, AccGoto
<1>4. Sound(r)'
  BY <1>3 DEF Sound, KnowsTheRow, KnowsWhatItRead, HasChecked, HasChanged, CreatesForOAuth,
         RunsAsEntitled
<1> QED
  BY <1>1, <1>2, <1>4, MoveInv DEF RowStep, AccInv, AccTypes, LateOK

LEMMA GoesOnInv ==
  ASSUME AccInv, NEW r \in AccReqs,
         \/ FindForForget(r) \/ FindForOAuth(r) \/ UpdateForgotPasswordStatus(r)
         \/ ForgetAnswers(r) \/ UpdateLogoutPin(r)
  PROVE  AccInv'
<1>1. CASE FindForForget(r)
  BY <1>1, GoInv DEF FindForForget
<1>2. CASE FindForOAuth(r)
  <2>1. CreateIfMissing(row) \in {"pin", "create"}
    BY DEF CreateIfMissing
  <2> QED
    BY <1>2, <2>1, GoInv DEF FindForOAuth
<1>3. CASE UpdateForgotPasswordStatus(r)
  BY <1>3, GoInv, EndInv DEF UpdateForgotPasswordStatus
<1>4. CASE ForgetAnswers(r)
  BY <1>4, GoInv DEF ForgetAnswers
<1>5. CASE UpdateLogoutPin(r)
  <2>1. accReq[r].op = "oauth"
    BY <1>5 DEF UpdateLogoutPin, AccInv, Sound, CreatesForOAuth
  <2> QED
    BY <1>5, <2>1, GoInv, EndInv DEF UpdateLogoutPin
<1> QED
  BY <1>1, <1>2, <1>3, <1>4, <1>5

LEMMA EndsInv ==
  ASSUME AccInv, NEW r \in AccReqs,
         \/ FindRefuses(r) \/ SignInAnswers(r) \/ ForgetEnds(r) \/ OAuthAnswers(r)
         \/ TxAnswers(r) \/ AccountFails(r)
  PROVE  AccInv'
  BY EndInv DEF FindRefuses, SignInAnswers, ForgetEnds, OAuthAnswers, TxAnswers, AccountFails

\* A password change has checked the old password of the row it found, a registration
\* that it found nobody verified.
LEMMA EntersTx ==
  ASSUME AccInv, NEW r \in AccReqs, FindForChange(r) \/ FindForRegister(r)
  PROVE  AccInv'
<1>1. /\ accPc[r] = "find"
      /\ \/ accReq[r].op = "change" /\ Visible(row) /\ accReq[r].given = row.password
         \/ accReq[r].op = "register" /\ since[r].free
      /\ AccGoto(r, "tx") /\ UNCHANGED <<row, accReq, late, since>>
  BY DEF FindForChange, FindForRegister, ChangeIsAllowed, AccInv, Sound, RunsAsEntitled
<1>2. "tx" \in AccSteps /\ accReq[r] \in Request
  BY DEF AccSteps, AccInv, AccTypes
<1>3. accReq' = [accReq EXCEPT ![r] = accReq[r]] /\ accPc' = [accPc EXCEPT ![r] = "tx"]
  BY <1>1 DEF AccInv, AccTypes, AccGoto
<1>4. Sound(r) /\ accPc'[r] = "tx"
  BY <1>1 DEF AccInv, AccTypes, AccGoto
<1>5. Sound(r)'
  BY <1>1, <1>4
     DEF Sound, KnowsTheRow, KnowsWhatItRead, HasChecked, HasChanged, CreatesForOAuth,
         RunsAsEntitled
<1> QED
  BY <1>1, <1>2, <1>3, <1>5, MoveInv DEF RowStep, AccInv, AccTypes, LateOK

\* A step that keeps a row it has read, or forgets it.
LEMMA ReadInv ==
  ASSUME AccInv, NEW r \in AccReqs, NEW s \in AccSteps, NEW x \in Row,
         AccGoto(r, s), AccKeep(r, "read", x), UNCHANGED <<row, late, since>>,
         accPc[r] # "idle", s \notin {"find", "tx", "changed"},
         s = "write" => accPc[r] = "tx" /\ accReq[r].op = "register",
         s \in {"create", "save", "update", "pin"} => accReq[r].op = "oauth",
         accReq[r].op = "signin" =>
           /\ s = "activity" => x = row /\ Visible(row)
           /\ s \in {"flag", "answer"} => accReq[r].given \in since[r].passwords
  PROVE  AccInv'
<1> DEFINE y == [accReq[r] EXCEPT !.read = x]
<1>1. accReq[r] \in Request
  BY DEF AccInv, AccTypes
<1>2. /\ y \in Request /\ y.op = accReq[r].op /\ y.given = accReq[r].given
      /\ y.new = accReq[r].new /\ y.read = x
  BY <1>1 DEF Request
<1>3. accReq' = [accReq EXCEPT ![r] = y] /\ accPc' = [accPc EXCEPT ![r] = s]
  BY DEF AccGoto, AccKeep
<1> HIDE DEF y
<1>4. Sound(r) /\ accPc'[r] = s /\ accReq'[r] = y
  BY <1>3 DEF AccInv, AccTypes
<1>5. Sound(r)'
  BY <1>2, <1>4
     DEF Sound, KnowsTheRow, KnowsWhatItRead, HasChecked, HasChanged, CreatesForOAuth,
         RunsAsEntitled
<1> QED
  BY <1>2, <1>3, <1>5, MoveInv DEF RowStep, AccInv, AccTypes, LateOK

LEMMA ReadsInv ==
  ASSUME AccInv, NEW r \in AccReqs,
         \/ FindForSignIn(r) \/ SignInAuthenticates(r) \/ CreateLooks(r)
         \/ RegisterFinds(r) \/ TxRefused(r)
  PROVE  AccInv'
<1>1. row \in Row /\ NoRow \in Row /\ Sound(r)
  BY Records DEF AccInv, AccTypes
<1>2. CASE FindForSignIn(r)
  BY <1>1, <1>2, ReadInv DEF FindForSignIn, AccSteps
<1>3. CASE SignInAuthenticates(r)
  <2>1. CASE AuthenticateUser(accReq[r].read, accReq[r].given)
    <3>1. accReq[r].given \in since[r].passwords
      BY <1>1, <1>3, <2>1 DEF SignInAuthenticates, AuthenticateUser, Sound, KnowsWhatItRead
    <3>2. /\ AccGoto(r, "flag") /\ AccKeep(r, "read", NoRow) /\ UNCHANGED <<row, late, since>>
          /\ accPc[r] = "activity"
      BY <1>3, <2>1 DEF SignInAuthenticates
    <3> QED
      BY <1>1, <3>1, <3>2, ReadInv DEF AccSteps
  <2>2. CASE ~AuthenticateUser(accReq[r].read, accReq[r].given)
    BY <1>3, <2>2, EndInv DEF SignInAuthenticates
  <2> QED
    BY <2>1, <2>2
<1>4. CASE CreateLooks(r)
  <2>1. accReq[r].op = "oauth"
    BY <1>1, <1>4 DEF CreateLooks, Sound, CreatesForOAuth
  <2>2. CASE Visible(row)
    BY <1>1, <1>4, <2>1, <2>2, ReadInv DEF CreateLooks, AccSteps
  <2>3. CASE ~Visible(row)
    BY <1>1, <1>4, <2>1, <2>3, ReadInv DEF CreateLooks, AccSteps
  <2> QED
    BY <2>2, <2>3
<1>5. CASE RegisterFinds(r)
  <2>1. row.there \in BOOLEAN
    BY <1>1 DEF Row
  <2>2. [NoRow EXCEPT !.there = row.there] \in Row
    BY <2>1, NewRows
  <2> QED
    BY <1>5, <2>2, ReadInv DEF RegisterFinds, AccSteps
<1>6. CASE TxRefused(r)
  BY <1>1, <1>6, ReadInv DEF TxRefused, AccSteps
<1> QED
  BY <1>2, <1>3, <1>4, <1>5, <1>6
-----------------------------------------------------------------------------
(* Steps that may write the row *)

\* A request goes on, with one try more or forgetting what it has read: what it is
\* about stays the same.
LEMMA WriteInv ==
  ASSUME AccInv, NEW r \in AccReqs, NEW s \in {"pin", "tx", "failed", "changed"}, NEW y \in Request,
         AccGoto(r, s), accReq' = [accReq EXCEPT ![r] = y],
         y.op = accReq[r].op, y.given = accReq[r].given, y.new = accReq[r].new,
         LateOK', RowStep,
         accPc[r] # "idle",
         s = "pin" => accReq[r].op = "oauth",
         s = "tx" => accPc[r] \in {"tx", "write"},
         s = "changed" => \E x \in Row : WriteRow(x) /\ x.password = accReq[r].new
  PROVE  AccInv'
<1>1. s \in AccSteps
  BY DEF AccSteps
<1>2. Sound(r) /\ accPc'[r] = s /\ accReq'[r] = y /\ AccTypes
  BY DEF AccInv, AccTypes, AccGoto
<1>3. /\ since[r].passwords \subseteq since'[r].passwords
      /\ since[r].free => since'[r].free
      /\ Visible(row)' /\ row'.password \in {y.given, y.new} => row'.password \in since'[r].passwords
  <2>1. CASE row' = row /\ since' = since
    BY <1>2, <2>1 DEF Sound, KnowsTheRow
  <2>2. ASSUME NEW x \in Row, WriteRow(x)
        PROVE  /\ since[r].passwords \subseteq since'[r].passwords
               /\ since[r].free => since'[r].free
               /\ row'.password \in {y.given, y.new} => row'.password \in since'[r].passwords
    BY <1>2, <2>2, WriteRowKeeps
  <2> QED
    BY <2>1, <2>2 DEF RowStep
<1>4. s = "changed" => y.new \in since'[r].passwords
  BY <1>2, WriteRowKeeps
<1>5. Sound(r)'
  BY <1>2, <1>3, <1>4
     DEF Sound, KnowsTheRow, KnowsWhatItRead, HasChecked, HasChanged, CreatesForOAuth,
         RunsAsEntitled
<1> QED
  BY <1>1, <1>5, MoveInv DEF AccGoto

LEMMA CreationInv ==
  ASSUME AccInv, NEW r \in AccReqs, SaveNewUser(r) \/ UpdateWholeRow(r)
  PROVE  AccInv'
<1>1. accReq[r] \in Request /\ accReq[r].read \in Row /\ Sound(r) /\ LateOK
  BY DEF AccInv, AccTypes, Request
<1>2. accReq[r].op = "oauth"
  BY <1>1 DEF SaveNewUser, UpdateWholeRow, Sound, CreatesForOAuth
<1>3. CASE SaveNewUser(r)
  <2>1. CASE row.there
    BY <1>3, <2>1, EndInv DEF SaveNewUser
  <2>2. CASE ~row.there
    <3>1. /\ WriteRow(OAuthRow) /\ AccGoto(r, "pin") /\ accReq' = accReq /\ late' = late
          /\ accPc[r] # "idle"
      BY <1>3, <2>2 DEF SaveNewUser
    <3>2. accReq' = [accReq EXCEPT ![r] = accReq[r]]
      BY <3>1 DEF AccInv, AccTypes
    <3> QED
      BY <1>1, <1>2, <3>1, <3>2, Records, WriteInv DEF RowStep, LateOK
  <2> QED
    BY <2>1, <2>2
<1>4. CASE UpdateWholeRow(r)
  <2> DEFINE y == [accReq[r] EXCEPT !.read = NoRow]
  <2>1. /\ y \in Request /\ y.op = accReq[r].op /\ y.given = accReq[r].given
        /\ y.new = accReq[r].new
    BY <1>1, Records DEF Request
  <2>2. /\ WriteRow(WholeRow(accReq[r].read)) /\ AccGoto(r, "pin") /\ late' = late
        /\ accReq' = [accReq EXCEPT ![r] = y] /\ accPc[r] # "idle"
    BY <1>4 DEF UpdateWholeRow, AccKeep
  <2>3. WholeRow(accReq[r].read) \in Row
    BY <1>1, RowUpdates
  <2> HIDE DEF y
  <2> QED
    BY <1>1, <1>2, <2>1, <2>2, <2>3, WriteInv DEF RowStep, LateOK
<1> QED
  BY <1>3, <1>4

LEMMA ChangedRow ==
  ASSUME AccTypes, NEW p \in Texts
  PROVE  Changed(p) \in Row /\ Changed(p).password = p
  BY RowUpdates DEF AccTypes, Changed

LEMMA TxRowIsKnown ==
  ASSUME AccTypes, NEW p \in Texts, NEW op
  PROVE  TxRow(op, p) \in Row /\ TxRow(op, p).password = p
<1>1. CASE op = "register"
  BY <1>1, NewRows DEF TxRow
<1>2. CASE op # "register"
  BY <1>2, ChangedRow DEF TxRow
<1> QED
  BY <1>1, <1>2

LEMMA CommitInv ==
  ASSUME AccInv, NEW r \in AccReqs, TxCommits(r)
  PROVE  AccInv'
<1> DEFINE y == [accReq[r] EXCEPT !.read = NoRow]
           x == TxRow(accReq[r].op, accReq[r].new)
<1>1. AccTypes /\ accReq[r] \in Request /\ accReq[r].new \in Texts /\ LateOK
  BY DEF AccInv, AccTypes, Request
<1>2. /\ WriteRow(x) /\ AccGoto(r, "changed") /\ accReq' = [accReq EXCEPT ![r] = y]
      /\ late' = late /\ accPc[r] # "idle"
  BY DEF TxCommits, TxWrites, AtWrite, AccKeep
<1>3. x \in Row /\ x.password = accReq[r].new
  BY <1>1, TxRowIsKnown
<1>4. /\ y \in Request /\ y.op = accReq[r].op /\ y.given = accReq[r].given
      /\ y.new = accReq[r].new
  BY <1>1, Records DEF Request
<1>5. LateOK' /\ RowStep
  BY <1>1, <1>2, <1>3 DEF LateOK, RowStep
<1> HIDE DEF x, y
<1> QED
  BY <1>2, <1>3, <1>4, <1>5, WriteInv

\* A transaction that is given up is one of an entitled request.
LEMMA GivenUpIsChecked ==
  ASSUME AccInv, NEW r \in AccReqs, TxGivenUp(r)
  PROVE  LateOK'
<1> DEFINE x == [op |-> accReq[r].op, new |-> accReq[r].new,
                 found |-> accPc[r] = "tx" \/ accReq[r].read.there, checked |-> Entitled(r)]
<1>1. AccTypes /\ Sound(r) /\ LateOK /\ accReq[r] \in Request
  BY DEF AccInv, AccTypes
<1>2. accReq[r].op \in {"change", "register"}
  BY <1>1 DEF TxGivenUp, Sound, RunsAsEntitled
<1>3. Entitled(r)
  BY <1>1, <1>2 DEF TxGivenUp, Sound, RunsAsEntitled, HasChecked, Entitled
<1>4. x \in LateTx /\ x.op = accReq[r].op /\ x.checked
  <2>1. accReq[r].read.there \in BOOLEAN /\ accReq[r].new \in Texts /\ accReq[r].op \in Ops
    BY <1>1, <1>2 DEF Request, Row, Ops
  <2>2. x.checked = Entitled(r)
    OBVIOUS
  <2> HIDE DEF Entitled
  <2>3. (accPc[r] = "tx" \/ accReq[r].read.there) \in BOOLEAN /\ Entitled(r) \in BOOLEAN
    BY <1>3, <2>1
  <2> QED
    BY <1>3, <2>1, <2>2, <2>3 DEF LateTx
<1>5. late' = [late EXCEPT ![r] = x]
  BY DEF TxGivenUp
<1> HIDE DEF x
<1> QED
  BY <1>1, <1>2, <1>4, <1>5 DEF LateOK

LEMMA RetryInv ==
  ASSUME AccInv, NEW r \in AccReqs, TxErrs(r) \/ TxGivenUp(r)
  PROVE  AccInv'
<1> DEFINE n == accReq[r].tries + 1
           y == [accReq[r] EXCEPT !.tries = n, !.read = NoRow]
           s == Exhausted(accReq[r].tries)
<1>1. AccTypes /\ accReq[r] \in Request /\ accReq[r].new \in Texts /\ n \in Int
  BY DEF AccInv, AccTypes, Request
<1>2. s \in {"failed", "tx"} /\ accPc[r] \in {"tx", "write"}
  BY DEF Exhausted, TxErrs, TxGivenUp
<1>3. AccGoto(r, s) /\ accReq' = [accReq EXCEPT ![r] = y]
  BY DEF TxErrs, TxGivenUp, Retried
<1>4. /\ y \in Request /\ y.op = accReq[r].op /\ y.given = accReq[r].given
      /\ y.new = accReq[r].new
  <2> HIDE DEF n
  <2> QED
    BY <1>1, Records DEF Request
<1>5. LateOK'
  BY <1>1, GivenUpIsChecked DEF TxErrs, AccTypes, LateOK
<1>6. RowStep
  BY <1>1, TxRowIsKnown DEF TxErrs, TxGivenUp, TxWrites, RowStep
<1> HIDE DEF y, s, n
<1> QED
  BY <1>2, <1>3, <1>4, <1>5, <1>6, WriteInv
-----------------------------------------------------------------------------
(* The rest of the system *)

LEMMA OthersInv ==
  ASSUME AccInv,
         \/ \E r \in AccReqs : LateCommit(r) \/ LateAborts(r)
         \/ CodeVerifies \/ Removed
  PROVE  AccInv'
<1>1. AccTypes /\ row \in Row /\ LateOK
  BY DEF AccInv, AccTypes
<1>2. ASSUME NEW r \in AccReqs, LateCommit(r) \/ LateAborts(r)
      PROVE  AccInv'
  <2>1. LateOK' /\ UNCHANGED <<accPc, accReq>>
    BY <1>1, <1>2, Records DEF LateCommit, LateAborts, LateOK
  <2>2. RowStep
    <3>1. late[r].new \in Texts
      BY <1>1 DEF LateOK, LateTx
    <3> QED
      BY <1>1, <1>2, <3>1, TxRowIsKnown DEF LateCommit, LateAborts, RowStep
  <2> QED
    BY <2>1, <2>2, RestInv
<1>3. CASE CodeVerifies \/ Removed
  <2>1. RowStep
    BY <1>1, <1>3, RowUpdates, NewRows DEF CodeVerifies, Removed, RowStep
  <2> QED
    BY <1>1, <1>3, <2>1, RestInv DEF CodeVerifies, Removed, LateOK
<1> QED
  BY <1>2, <1>3
-----------------------------------------------------------------------------
LEMMA AccStep == AccInv /\ [AccountsNext]_accountVars => AccInv'
<1> SUFFICES ASSUME AccInv, [AccountsNext]_accountVars
             PROVE  AccInv'
  OBVIOUS
<1>1. CASE UNCHANGED accountVars
  BY <1>1, RestInv DEF accountVars, RowStep, AccInv, AccTypes, LateOK
<1>2. CASE AccountsNext
  <2>1. ASSUME NEW r \in AccReqs, AccountStep(r)
        PROVE  AccInv'
    BY <2>1, EntersTx, GoesOnInv, EndsInv, ReadsInv, CreationInv, CommitInv, RetryInv
       DEF AccountStep
  <2>2. ASSUME NEW r \in AccReqs, AccountFails(r)
        PROVE  AccInv'
    BY <2>2, EndsInv
  <2> QED
    BY <1>2, <2>1, <2>2, StartInv, OthersInv DEF AccountsNext
<1> QED
  BY <1>1, <1>2

LEMMA AccountsInvariant == AccountsSpec => []AccInv
  BY AccInitInv, AccStep, PTL DEF AccountsSpec

\* What run operations checks of sign-in and password change, for any number of
\* requests: whoever is let in has given a password of the account, of a time since
\* the request began.
THEOREM PasswordsAreAlwaysChecked == AccountsSpec => []PasswordsAreChecked
<1>1. AccInv => PasswordsAreChecked
  BY DEF AccInv, Sound, HasChecked, PasswordsAreChecked
<1> QED
  BY <1>1, AccountsInvariant, PTL

\* What run operations checks of the unit of work, for any number of tries: a password
\* change that is acknowledged has been in the row.
THEOREM AcknowledgedChangesHold == AccountsSpec => []AcknowledgedChangeHolds
<1>1. AccInv => AcknowledgedChangeHolds
  BY DEF AccInv, Sound, HasChanged, AcknowledgedChangeHolds
<1> QED
  BY <1>1, AccountsInvariant, PTL
-----------------------------------------------------------------------------
(* What a request knows of the account's existence, and how often it has tried *)

BeforeCreation == {"idle", "create", "save", "update"}

\* An OAuth sign-in that has had an account all along does not get to create one.
KeepsCount(r) ==
  /\ since[r].visible => Visible(row)
  /\ accPc[r] \in BeforeCreation => ~since[r].visible
  /\ accReq[r].tries \in 0 .. MaxRetries
  /\ accPc[r] \in {"find", "tx", "write"} => accReq[r].tries < MaxRetries

CountInv == AccInv /\ \A r \in AccReqs : KeepsCount(r)

LEMMA CountStarts == AccountsInit => CountInv
<1> SUFFICES ASSUME AccountsInit
             PROVE  CountInv
  OBVIOUS
<1>1. ASSUME NEW r \in AccReqs
      PROVE  KeepsCount(r)
  BY AccountAssumption DEF AccountsInit, AccIdle, NeverSince, KeepsCount
<1> QED
  BY <1>1, AccInitInv DEF CountInv

LEMMA WriteRowSees ==
  ASSUME AccTypes, NEW x \in Row, WriteRow(x), NEW r \in AccReqs
  PROVE  /\ accPc[r] = "idle" => since'[r] = since[r]
         /\ accPc[r] # "idle" => since'[r].visible = (since[r].visible /\ Visible(x))
         /\ row' = x
  BY DEF WriteRow

\* The other requests only see what becomes of the row.
OthersRest(r) == \A q \in AccReqs : q # r => accPc'[q] = accPc[q] /\ accReq'[q] = accReq[q]

LEMMA RestKeepsCount ==
  ASSUME CountInv, NEW q \in AccReqs, accPc'[q] = accPc[q], accReq'[q] = accReq[q],
         RowStep \/ (row' = row /\ since'[q] = since[q])
  PROVE  KeepsCount(q)'
<1>1. AccTypes /\ KeepsCount(q)
  BY DEF CountInv, AccInv
<1>2. CASE row' = row /\ since'[q] = since[q]
  BY <1>1, <1>2 DEF KeepsCount
<1>3. ASSUME NEW x \in Row, WriteRow(x)
      PROVE  KeepsCount(q)'
  <2>1. /\ accPc[q] = "idle" => since'[q] = since[q]
        /\ accPc[q] # "idle" => since'[q].visible = (since[q].visible /\ Visible(x))
        /\ row' = x
    BY <1>1, <1>3, WriteRowSees
  <2>2. since'[q].visible => Visible(x) /\ since[q].visible
    BY <1>1, <2>1 DEF KeepsCount, BeforeCreation
  <2> QED
    BY <1>1, <2>1, <2>2 DEF KeepsCount
<1> QED
  BY <1>2, <1>3 DEF RowStep

\* A request moves on.
LEMMA MoveKeepsCount ==
  ASSUME CountInv, NEW r \in AccReqs, OthersRest(r), RowStep,
         accPc[r] # "idle", accPc'[r] \notin {"idle", "find"},
         accReq'[r].tries \in 0 .. MaxRetries,
         accPc'[r] \in {"tx", "write"} => accReq'[r].tries < MaxRetries,
         accPc'[r] \in BeforeCreation =>
           row' = row /\ since' = since /\ (accPc[r] \in BeforeCreation \/ ~Visible(row))
  PROVE  \A q \in AccReqs : KeepsCount(q)'
<1>1. AccTypes /\ KeepsCount(r)
  BY DEF CountInv, AccInv
<1>2. since'[r].visible => Visible(row)'
  <2>1. CASE row' = row /\ since' = since
    BY <1>1, <2>1 DEF KeepsCount
  <2>2. ASSUME NEW x \in Row, WriteRow(x)
        PROVE  since'[r].visible => Visible(row)'
    <3>1. since'[r].visible = (since[r].visible /\ Visible(x)) /\ row' = x
      BY <1>1, <2>2, WriteRowSees
    <3> QED
      BY <3>1 DEF Visible
  <2> QED
    BY <2>1, <2>2 DEF RowStep
<1>3. accPc'[r] \in BeforeCreation => ~since'[r].visible
  BY <1>1 DEF KeepsCount
<1>4. KeepsCount(r)'
  BY <1>2, <1>3 DEF KeepsCount
<1>5. ASSUME NEW q \in AccReqs, q # r
      PROVE  KeepsCount(q)'
  BY <1>5, RestKeepsCount DEF OthersRest
<1> QED
  BY <1>4, <1>5

LEMMA EndKeepsCount ==
  ASSUME CountInv, NEW r \in AccReqs, AccEnds(r), row' = row
  PROVE  \A q \in AccReqs : KeepsCount(q)'
<1>1. AccTypes
  BY DEF CountInv, AccInv
<1>2. accPc'[r] = "idle" /\ accReq'[r] = AccIdle /\ since'[r] = NeverSince
  BY <1>1 DEF AccEnds, AccGoto, AccTypes
<1>3. KeepsCount(r)'
  BY <1>2, AccountAssumption DEF KeepsCount, AccIdle, NeverSince
<1>4. ASSUME NEW q \in AccReqs, q # r
      PROVE  KeepsCount(q)'
  <2>1. accPc'[q] = accPc[q] /\ accReq'[q] = accReq[q] /\ since'[q] = since[q]
    BY <1>1, <1>4 DEF AccEnds, AccGoto
  <2> QED
    BY <2>1, RestKeepsCount
<1> QED
  BY <1>3, <1>4

LEMMA BeginKeepsCount ==
  ASSUME CountInv, NEW r \in AccReqs, NEW op, NEW given, NEW new, AccBegins(r, op, given, new)
  PROVE  \A q \in AccReqs : KeepsCount(q)'
<1>1. AccTypes
  BY DEF CountInv, AccInv
<1>2. accPc'[r] = "find" /\ accReq'[r] = [AccIdle EXCEPT !.op = op, !.given = given, !.new = new]
  BY <1>1 DEF AccBegins, AccGoto, AccTypes
<1>3. accReq'[r].tries = 0
  BY <1>2 DEF AccIdle
<1>4. since'[r].visible = (op = "oauth" /\ Visible(row)) /\ row' = row
  BY <1>1 DEF AccBegins, AccTypes
<1>5. KeepsCount(r)'
  <2>1. since'[r].visible => Visible(row)'
    BY <1>4 DEF Visible
  <2>2. accPc'[r] \notin BeforeCreation
    BY <1>2 DEF BeforeCreation
  <2>3. accReq'[r].tries \in 0 .. MaxRetries /\ accReq'[r].tries < MaxRetries
    BY <1>3, AccountAssumption
  <2> QED
    BY <2>1, <2>2, <2>3 DEF KeepsCount
<1>6. ASSUME NEW q \in AccReqs, q # r
      PROVE  KeepsCount(q)'
  <2>1. accPc'[q] = accPc[q] /\ accReq'[q] = accReq[q] /\ since'[q] = since[q]
    BY <1>1, <1>6 DEF AccBegins, AccGoto
  <2> QED
    BY <1>4, <2>1, RestKeepsCount
<1> QED
  BY <1>5, <1>6

\* The steps of a request that leave the row alone.
LEMMA QuietKeepsCount ==
  ASSUME CountInv, NEW r \in AccReqs,
         \/ FindForSignIn(r) \/ FindForForget(r) \/ FindForChange(r)
         \/ FindForOAuth(r) \/ SignInAuthenticates(r) \/ UpdateForgotPasswordStatus(r)
         \/ ForgetAnswers(r) \/ CreateLooks(r) \/ UpdateLogoutPin(r) \/ TxRefused(r)
         \/ FindForRegister(r) \/ RegisterFinds(r)
  PROVE  \A q \in AccReqs : KeepsCount(q)'
<1>1. AccTypes /\ KeepsCount(r)
  BY DEF CountInv, AccInv
<1>2. CASE FindForSignIn(r) \/ FindForForget(r) \/ FindForChange(r) \/ FindForRegister(r)
           \/ RegisterFinds(r) \/ TxRefused(r)
  <2>1. OthersRest(r) /\ accPc[r] \in {"find", "tx", "write"}
        /\ accPc'[r] \in {"activity", "flag", "tx", "write", "failed"}
        /\ accReq'[r].tries = accReq[r].tries /\ row' = row /\ since' = since
    <3>1. CASE FindForSignIn(r) \/ FindForForget(r) \/ FindForChange(r) \/ FindForRegister(r)
      BY <1>1, <3>1 DEF FindForSignIn, FindForForget, FindForChange, FindForRegister, AccGoto,
           AccKeep, AccTypes, OthersRest, Request
    <3>2. CASE RegisterFinds(r) \/ TxRefused(r)
      BY <1>1, <3>2 DEF RegisterFinds, TxRefused, AccGoto, AccKeep, AccTypes, OthersRest, Request
    <3> QED
      BY <1>2, <3>1, <3>2
  <2> QED
    BY <1>1, <2>1, MoveKeepsCount DEF RowStep, KeepsCount, BeforeCreation
<1>3. CASE FindForOAuth(r)
  <2>1. OthersRest(r) /\ accPc[r] = "find" /\ accReq'[r].tries = accReq[r].tries
        /\ accPc'[r] = CreateIfMissing(row) /\ row' = row /\ since' = since
    BY <1>1, <1>3 DEF FindForOAuth, AccGoto, AccTypes, OthersRest
  <2> QED
    BY <1>1, <2>1, MoveKeepsCount DEF RowStep, KeepsCount, BeforeCreation, CreateIfMissing
<1>4. CASE CreateLooks(r)
  <2>1. OthersRest(r) /\ accPc[r] = "create" /\ accReq'[r].tries = accReq[r].tries
        /\ accPc'[r] \in {"update", "save"} /\ row' = row /\ since' = since
    BY <1>1, <1>4 DEF CreateLooks, AccGoto, AccKeep, AccTypes, OthersRest
  <2> QED
    BY <1>1, <2>1, MoveKeepsCount DEF RowStep, KeepsCount, BeforeCreation
<1>5. CASE SignInAuthenticates(r) \/ UpdateForgotPasswordStatus(r) \/ ForgetAnswers(r) \/ UpdateLogoutPin(r)
  <2>1. CASE AccEnds(r)
    BY <1>5, <2>1, EndKeepsCount DEF SignInAuthenticates, UpdateForgotPasswordStatus,
         ForgetAnswers, UpdateLogoutPin
  <2>2. CASE ~AccEnds(r)
    <3>1. OthersRest(r) /\ accPc[r] \in {"activity", "flag", "answer", "pin"}
          /\ accPc'[r] \in {"flag", "answer", "failed", "sent", "activity"}
          /\ accReq'[r].tries = accReq[r].tries /\ row' = row /\ since' = since
      BY <1>1, <1>5, <2>2 DEF SignInAuthenticates, UpdateForgotPasswordStatus,
         ForgetAnswers, UpdateLogoutPin, AccGoto, AccKeep, AccTypes, OthersRest, Request
    <3> QED
      BY <1>1, <3>1, MoveKeepsCount DEF RowStep, KeepsCount, BeforeCreation
  <2> QED
    BY <2>1, <2>2
<1> QED
  BY <1>2, <1>3, <1>4, <1>5

\* The steps of a request that write it.
LEMMA WriteKeepsCount ==
  ASSUME CountInv, NEW r \in AccReqs,
         SaveNewUser(r) \/ UpdateWholeRow(r) \/ TxCommits(r) \/ TxErrs(r) \/ TxGivenUp(r)
  PROVE  \A q \in AccReqs : KeepsCount(q)'
<1>1. AccTypes /\ KeepsCount(r)
  BY DEF CountInv, AccInv
<1>2. accReq[r].new \in Texts /\ accReq[r].read \in Row
  BY <1>1 DEF AccTypes, Request
<1>3. CASE SaveNewUser(r)
  <2>1. CASE row.there
    BY <1>3, <2>1, EndKeepsCount DEF SaveNewUser
  <2>2. CASE ~row.there
    <3>1. OthersRest(r) /\ accPc[r] = "save" /\ accPc'[r] = "pin" /\ accReq'[r] = accReq[r]
          /\ WriteRow(OAuthRow)
      BY <1>1, <1>3, <2>2 DEF SaveNewUser, AccGoto, AccTypes, OthersRest
    <3> QED
      BY <1>1, <3>1, Records, MoveKeepsCount DEF KeepsCount, BeforeCreation, RowStep
  <2> QED
    BY <2>1, <2>2
<1>4. CASE UpdateWholeRow(r)
  <2>1. OthersRest(r) /\ accPc[r] = "update" /\ accPc'[r] = "pin"
        /\ accReq'[r].tries = accReq[r].tries /\ WriteRow(WholeRow(accReq[r].read))
    BY <1>1, <1>4 DEF UpdateWholeRow, AccGoto, AccKeep, AccTypes, OthersRest
  <2>2. RowStep
    BY <1>2, <2>1, RowUpdates DEF RowStep
  <2> QED
    BY <1>1, <2>1, <2>2, MoveKeepsCount DEF KeepsCount, BeforeCreation
<1>5. CASE TxCommits(r)
  <2>1. OthersRest(r) /\ accPc[r] # "idle" /\ accPc'[r] = "changed"
        /\ accReq'[r].tries = accReq[r].tries
    BY <1>1, <1>5 DEF TxCommits, TxWrites, AtWrite, AccGoto, AccKeep, AccTypes, OthersRest, Request
  <2>2. RowStep
    BY <1>1, <1>2, <1>5, TxRowIsKnown DEF TxCommits, TxWrites, RowStep
  <2> QED
    BY <1>1, <2>1, <2>2, MoveKeepsCount DEF KeepsCount, BeforeCreation
<1>6. CASE TxErrs(r) \/ TxGivenUp(r)
  <2> DEFINE n == accReq[r].tries + 1
  <2>1. OthersRest(r) /\ accPc[r] \in {"tx", "write"} /\ accPc'[r] = Exhausted(accReq[r].tries)
    BY <1>1, <1>6 DEF TxErrs, TxGivenUp, Retried, AccGoto, AccTypes, OthersRest
  <2>2. accReq'[r].tries = n
    <3> HIDE DEF n
    <3>1. accReq' = [accReq EXCEPT ![r] = [accReq[r] EXCEPT !.tries = n, !.read = NoRow]]
      BY <1>1, <1>6 DEF TxErrs, TxGivenUp, Retried, n
    <3>2. accReq[r] \in Request
      BY <1>1 DEF AccTypes
    <3> QED
      BY <1>1, <3>1, <3>2 DEF AccTypes, Request
  <2>3. RowStep
    BY <1>1, <1>2, <1>6, TxRowIsKnown DEF TxErrs, TxGivenUp, TxWrites, RowStep
  <2>4. accReq[r].tries \in 0 .. MaxRetries /\ accReq[r].tries < MaxRetries /\ MaxRetries \in Nat
    BY <1>1, <2>1, AccountAssumption DEF KeepsCount
  <2>5. n \in 0 .. MaxRetries /\ (n # MaxRetries => n < MaxRetries)
    BY <2>4
  <2>6. accPc'[r] \in {"failed", "tx"} /\ (accPc'[r] = "tx" => n # MaxRetries)
    BY <2>1 DEF Exhausted
  <2> HIDE DEF n
  <2>7. accPc'[r] \notin {"idle", "find"} /\ accPc'[r] \notin BeforeCreation
    BY <2>6 DEF BeforeCreation
  <2>8. accReq'[r].tries \in 0 .. MaxRetries /\ (accPc'[r] \in {"tx", "write"} => accReq'[r].tries < MaxRetries)
    BY <2>2, <2>5, <2>6
  <2>9. accPc[r] # "idle"
    BY <2>1
  <2> QED
    BY <2>1, <2>3, <2>7, <2>8, <2>9, MoveKeepsCount
<1> QED
  BY <1>3, <1>4, <1>5, <1>6

LEMMA CountStep == CountInv /\ [AccountsNext]_accountVars => CountInv'
<1> SUFFICES ASSUME CountInv, [AccountsNext]_accountVars
             PROVE  \A q \in AccReqs : KeepsCount(q)'
  BY AccStep DEF CountInv
<1>1. AccTypes
  BY DEF CountInv, AccInv
<1>2. CASE UNCHANGED accountVars
  BY <1>2, RestKeepsCount DEF accountVars
<1>3. ASSUME NEW r \in AccReqs, AccountStep(r) \/ AccountFails(r)
      PROVE  \A q \in AccReqs : KeepsCount(q)'
  <2>1. CASE FindRefuses(r) \/ SignInAnswers(r) \/ ForgetEnds(r) \/ OAuthAnswers(r)
             \/ TxAnswers(r) \/ AccountFails(r)
    BY <2>1, EndKeepsCount
       DEF FindRefuses, SignInAnswers, ForgetEnds, OAuthAnswers, TxAnswers, AccountFails
  <2> QED
    BY <1>3, <2>1, QuietKeepsCount, WriteKeepsCount DEF AccountStep
<1>4. ASSUME NEW r \in AccReqs,
             \/ SignInStarts(r) \/ OAuthStarts(r) \/ ForgetStarts(r) \/ ChangeStarts(r)
             \/ RegisterStarts(r)
      PROVE  \A q \in AccReqs : KeepsCount(q)'
  <2>1. \E op, given, new : AccBegins(r, op, given, new)
    BY <1>4 DEF SignInStarts, OAuthStarts, ForgetStarts, ChangeStarts, RegisterStarts
  <2> QED
    BY <2>1, BeginKeepsCount
<1>5. CASE UNCHANGED <<accPc, accReq>> /\ RowStep
  BY <1>5, RestKeepsCount
<1>6. ASSUME NEW r \in AccReqs, LateCommit(r) \/ LateAborts(r)
      PROVE  UNCHANGED <<accPc, accReq>> /\ RowStep
  <2>1. late[r].new \in Texts
    BY <1>1 DEF AccTypes, LateOK, LateTx
  <2> QED
    BY <1>1, <1>6, <2>1, TxRowIsKnown DEF LateCommit, LateAborts, RowStep
<1>7. ASSUME CodeVerifies \/ Removed
      PROVE  UNCHANGED <<accPc, accReq>> /\ RowStep
  BY <1>1, <1>7, RowUpdates, NewRows DEF CodeVerifies, Removed, RowStep, AccTypes
<1> QED
  BY <1>2, <1>3, <1>4, <1>5, <1>6, <1>7 DEF AccountsNext

LEMMA CountAlways == AccountsSpec => []CountInv
  BY CountStarts, CountStep, PTL DEF AccountsSpec

\* Type correctness of the account and its requests: no change tries more often
\* than the unit of work allows.
THEOREM AccountTypesHold == AccountsSpec => []AccountsTypeOK
<1>1. CountInv => AccountsTypeOK
  BY DEF CountInv, AccInv, AccTypes, LateOK, LateTx, Row, Texts, KeepsCount, AccountsTypeOK
<1> QED
  BY <1>1, CountAlways, PTL

\* A step that writes the row writes one of these.
LEMMA Writers ==
  ASSUME CountInv, [AccountsNext]_accountVars, row' # row
  PROVE  \/ \E r \in AccReqs : SaveNewUser(r) /\ ~row.there
         \/ \E r \in AccReqs : UpdateWholeRow(r)
         \/ \E r \in AccReqs : accPc[r] \in {"tx", "write"} /\ TxWrites(r)
         \/ \E r \in AccReqs : late[r] # NoLate /\ WriteRow(TxRow(late[r].op, late[r].new))
         \/ CodeVerifies \/ Removed
<1>1. ASSUME NEW r \in AccReqs, AccountStep(r)
      PROVE  \/ SaveNewUser(r) /\ ~row.there
             \/ UpdateWholeRow(r)
             \/ accPc[r] \in {"tx", "write"} /\ TxWrites(r)
  BY <1>1 DEF AccountStep, FindForSignIn, FindForForget, FindForChange, FindRefuses,
       FindForOAuth, FindForRegister, RegisterFinds, SignInAuthenticates,
       UpdateForgotPasswordStatus, SignInAnswers, ForgetAnswers, ForgetEnds, CreateLooks,
       SaveNewUser, UpdateLogoutPin, OAuthAnswers, TxCommits, TxErrs, TxGivenUp, TxRefused,
       TxAnswers, TxWrites, AtWrite
<1>2. ASSUME NEW r \in AccReqs,
             \/ SignInStarts(r) \/ OAuthStarts(r) \/ ForgetStarts(r) \/ ChangeStarts(r)
             \/ RegisterStarts(r) \/ AccountFails(r) \/ LateCommit(r) \/ LateAborts(r)
      PROVE  late[r] # NoLate /\ WriteRow(TxRow(late[r].op, late[r].new))
  BY <1>2 DEF SignInStarts, OAuthStarts, ForgetStarts, ChangeStarts, RegisterStarts, AccBegins,
       AccountFails, LateCommit, LateAborts
<1> QED
  BY <1>1, <1>2 DEF AccountsNext, accountVars

\* What a transaction's row has of the row it replaces.
LEMMA TxRowKeeps ==
  ASSUME AccTypes, NEW p \in Texts, NEW op
  PROVE  /\ op # "register" => TxRow(op, p).verified = row.verified /\ TxRow(op, p).source = row.source
         /\ op = "register" => TxRow(op, p).source = "default"
<1>1. row \in Row
  BY DEF AccTypes
<1>2. op # "register" => TxRow(op, p).verified = row.verified /\ TxRow(op, p).source = row.source
  BY <1>1 DEF TxRow, Changed, Row
<1>3. RegisteredRow(p).source = "default"
  BY DEF RegisteredRow, NoRow
<1> QED
  BY <1>2, <1>3 DEF TxRow

\* What a step may do to an account, by who does it.
VerificationKept == Taken(row) /\ Visible(row') /\ ~row'.verified => \E r \in AccReqs : RegistersFree(r)
PasswordKept ==
  Taken(row) /\ Visible(row') /\ row'.password # row.password =>
    \E r \in AccReqs : RegistersFree(r) \/ ChangesOwn(r)
                       \/ (accPc[r] = "update" /\ ~since[r].visible)
SourceKept ==
  row.there /\ row'.source # row.source /\ row'.source = "oauth" =>
    \E r \in AccReqs : accPc[r] = "update" /\ ~since[r].visible
AccountKept == VerificationKept /\ PasswordKept /\ SourceKept

LEMMA TransactionsKeep ==
  ASSUME CountInv, NEW r \in AccReqs,
         \/ accPc[r] \in {"tx", "write"} /\ TxWrites(r)
         \/ late[r] # NoLate /\ WriteRow(TxRow(late[r].op, late[r].new))
  PROVE  AccountKept
<1>1. AccTypes /\ Sound(r) /\ LateOK /\ accReq[r].new \in Texts /\ late[r].new \in Texts
  BY DEF CountInv, AccInv, AccTypes, LateOK, LateTx, Request
<1>2. ASSUME NEW p \in Texts, NEW op, row' = TxRow(op, p),
             op = "register" => RegistersFree(r), op # "register" => ChangesOwn(r)
      PROVE  AccountKept
  BY <1>1, <1>2, TxRowKeeps DEF AccountKept, VerificationKept, PasswordKept, SourceKept, Taken
<1>3. CASE accPc[r] \in {"tx", "write"} /\ TxWrites(r)
  <2>1. row' = TxRow(accReq[r].op, accReq[r].new)
    BY <1>3 DEF TxWrites, WriteRow
  <2>2. accReq[r].op = "register" => RegistersFree(r)
    BY <1>1, <1>3 DEF TxWrites, AtWrite, Sound, RunsAsEntitled, RegistersFree, Entitled
  <2>3. accReq[r].op # "register" => ChangesOwn(r)
    BY <1>1, <1>3 DEF TxWrites, AtWrite, Sound, RunsAsEntitled, HasChecked, ChangesOwn, Entitled
  <2> QED
    BY <1>1, <1>2, <2>1, <2>2, <2>3
<1>4. CASE late[r] # NoLate /\ WriteRow(TxRow(late[r].op, late[r].new))
  <2>1. row' = TxRow(late[r].op, late[r].new)
    BY <1>4 DEF WriteRow
  <2>2. late[r].op \in {"change", "register"} /\ late[r].checked
    BY <1>1, <1>4 DEF LateOK
  <2> QED
    BY <1>1, <1>2, <2>1, <2>2 DEF RegistersFree, ChangesOwn
<1> QED
  BY <1>3, <1>4

LEMMA StepsKeepAccounts ==
  ASSUME CountInv, [AccountsNext]_accountVars
  PROVE  AccountKept
<1>1. AccTypes /\ row \in Row
  BY DEF CountInv, AccInv, AccTypes
<1>2. CASE row' = row
  BY <1>2 DEF AccountKept, VerificationKept, PasswordKept, SourceKept, Taken
<1>3. ASSUME NEW r \in AccReqs, SaveNewUser(r), ~row.there
      PROVE  AccountKept
  BY <1>3 DEF AccountKept, VerificationKept, PasswordKept, SourceKept, Taken, Visible
<1>4. ASSUME NEW r \in AccReqs, UpdateWholeRow(r)
      PROVE  AccountKept
  <2>1. accReq[r].read \in Row /\ KeepsCount(r)
    BY <1>1 DEF AccTypes, Request, CountInv
  <2>2. row' = WholeRow(accReq[r].read) /\ accPc[r] = "update"
    BY <1>4 DEF UpdateWholeRow, WriteRow
  <2>3. row'.verified /\ ~since[r].visible
    BY <2>1, <2>2 DEF WholeRow, KeepsCount, BeforeCreation, Row
  <2> QED
    BY <2>2, <2>3 DEF AccountKept, VerificationKept, PasswordKept, SourceKept
<1>5. CASE CodeVerifies
  <2>1. row' = [row EXCEPT !.verified = TRUE]
    BY <1>5 DEF CodeVerifies, WriteRow
  <2>2. row'.verified /\ row'.password = row.password /\ row'.source = row.source
    BY <1>1, <2>1 DEF Row
  <2> QED
    BY <2>2 DEF AccountKept, VerificationKept, PasswordKept, SourceKept
<1>6. CASE Removed
  <2>1. row' = [NoRow EXCEPT !.there = TRUE, !.deleted = TRUE]
    BY <1>6 DEF Removed, WriteRow
  <2>2. row'.deleted /\ row'.source = "default"
    BY <2>1 DEF NoRow
  <2> QED
    BY <2>2 DEF AccountKept, VerificationKept, PasswordKept, SourceKept, Visible
<1> QED
  BY <1>2, <1>3, <1>4, <1>5, <1>6, Writers, TransactionsKeep

\* What the whole-row writes of registrations and OAuth sign-ins leave alone, for any
\* number of requests at once and any number of tries: a verification is undone only by
\* a registration of an address that had no verified account at some time since it
\* began, a verified account's password is replaced only by those entitled to, and an
\* account that was there all along keeps its source of login.
THEOREM AccountsAreAlwaysKept == AccountsSpec => AccountsAreKept
<1>1. CountInv /\ [AccountsNext]_accountVars => [VerificationKept]_accountVars
  BY StepsKeepAccounts DEF AccountKept
<1>2. CountInv /\ [AccountsNext]_accountVars => [PasswordKept]_accountVars
  BY StepsKeepAccounts DEF AccountKept
<1>3. CountInv /\ [AccountsNext]_accountVars => [SourceKept]_accountVars
  BY StepsKeepAccounts DEF AccountKept
<1> QED
  BY <1>1, <1>2, <1>3, CountAlways, PTL
     DEF AccountsSpec, AccountsAreKept, VerificationsAreKept, PasswordsAreKept,
         OAuthKeepsAccounts, VerificationKept, PasswordKept, SourceKept
=============================================================================
