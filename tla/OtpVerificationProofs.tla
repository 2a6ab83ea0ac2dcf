------------------------ MODULE OtpVerificationProofs ------------------------
(***************************************************************************)
(* Proofs about OtpVerification, for every value of its constants.  The    *)
(* argument: a code goes generated -> stored -> deleted, and only one      *)
(* request ever has the SET of it, so a code that a verification deleted   *)
(* cannot come back unless that SET was given up; and the two lockout      *)
(* columns are written together, from one consistent pair or from a copy.  *)
(***************************************************************************)
EXTENDS OtpVerification, TLAPS

USE DEF Steps, keyVars, codeHistory

\* The constants fit together.
LEMMA Constants ==
  /\ MaxFailed \in Nat \ {0} /\ LockTime \in Nat \ {0} /\ OtpTtl \in Nat \ {0}
  /\ NoCode \notin Codes /\ WrongCode \notin Codes /\ NoCode # WrongCode
  BY MaxFailedAssumption, LockTimeAssumption, OtpTtlAssumption, CodesAssumption

\* The locals of a new request, and rows, are well typed.
LEMMA NewRequestIsTyped ==
  /\ NoRow \in Row
  /\ Blank \in Request
  /\ \A c \in Codes \cup {WrongCode}, b \in BOOLEAN :
       [code |-> c, row |-> NoRow, register |-> b] \in Request
  BY Constants DEF Row, NoRow, Request, Blank

LEMMA VerifiedIsTyped == \A w \in Row, b \in BOOLEAN : [w EXCEPT !.verified = b] \in Row
  BY DEF Row

LEMMA RowCopyIsTyped == \A q \in Request, w \in Row : [q EXCEPT !.row = w] \in Request
  BY DEF Request

LEMMA ReadRowIsTyped ==
  ASSUME TypeOK, NEW r \in Reqs
  PROVE  /\ req[r] \in Request /\ req[r].row \in Row
         /\ req[r].row.failed \in 0 .. MaxFailed /\ req[r].row.lock \in 0 .. LockTime
  BY DEF TypeOK, Request, Row

\* The row that a registration writes, and the one after updateOtpAttempts.
LEMMA RegisteredRowIsTyped ==
  ASSUME TypeOK, NEW r \in Reqs
  PROVE  RegisteredRow(req[r].row) \in Row
  BY Constants, ReadRowIsTyped DEF Row, RegisteredRow

LEMMA UpdateIsTyped ==
  ASSUME row \in Row, NEW n \in 0 .. MaxFailed, NEW l \in 0 .. LockTime, UpdateOtpAttempts(n, l)
  PROVE  row' \in Row
<1>1. row' = [row EXCEPT !.failed = n, !.lock = l]
  BY DEF UpdateOtpAttempts
<1>2. QED
  BY <1>1 DEF Row

\* A request that was given a fresh code.
LEMMA IssueIsTyped ==
  ASSUME TypeOK, NEW r \in Reqs, NEW b \in BOOLEAN, IssueCode(r, b)
  PROVE  generated' \subseteq Codes /\ pc' \in [Reqs -> Steps] /\ req' \in [Reqs -> Request]
<1>1. PICK c \in Codes \ generated :
        /\ generated' = generated \cup {c}
        /\ req' = [req EXCEPT ![r] = [code |-> c, row |-> NoRow, register |-> b]]
  BY DEF IssueCode
<1>2. pc' = [pc EXCEPT ![r] = "store"]
  BY DEF IssueCode, Goto
<1>3. [code |-> c, row |-> NoRow, register |-> b] \in Request
  BY NewRequestIsTyped
<1>4. QED
  BY <1>1, <1>2, <1>3 DEF TypeOK

\* Counting stays within the bound, and a count that was not exhausted before
\* may be.
LEMMA BumpStaysBounded == \A n \in 0 .. MaxFailed : Bump(n) \in 0 .. MaxFailed
  BY Constants DEF Bump

\* Time left runs down within its bound.
LEMMA DecrementStaysBounded ==
  ASSUME NEW N \in Nat
  PROVE  \A n \in 0 .. N : Decrement(n) \in 0 .. N /\ (Decrement(n) > 0 => n > 0)
  BY DEF Decrement

LEMMA AgedRowIsTyped == \A w \in Row : [w EXCEPT !.lock = Decrement(@)] \in Row
  BY Constants, DecrementStaysBounded DEF Row

LEMMA AgedRequest ==
  ASSUME NEW q \in Request
  PROVE  /\ [q EXCEPT !.row.lock = Decrement(@)] \in Request
         /\ [q EXCEPT !.row.lock = Decrement(@)].code = q.code
         /\ [q EXCEPT !.row.lock = Decrement(@)].register = q.register
         /\ [q EXCEPT !.row.lock = Decrement(@)].row.failed = q.row.failed
         /\ [q EXCEPT !.row.lock = Decrement(@)].row.lock = Decrement(q.row.lock)
<1>1. [q EXCEPT !.row.lock = Decrement(@)] = [q EXCEPT !.row = [q.row EXCEPT !.lock = Decrement(@)]]
  BY DEF Request
<1>2. [q.row EXCEPT !.lock = Decrement(@)] \in Row
  BY AgedRowIsTyped DEF Request
<1>3. QED
  BY <1>1, <1>2 DEF Request, Row

-----------------------------------------------------------------------------
\* A registration begins.
LEMMA RegisterInv ==
  ASSUME IInv, NEW r \in Reqs, Register(r)
  PROVE  IInv'
<1> USE DEF IInv, Register, Goto
<1>1. TypeOK'
  BY DEF TypeOK
<1>2. CodesInOrder' /\ EmailedCodesWereStored'
  BY DEF CodesInOrder, EmailedCodesWereStored
<1>3. StoredOnce' /\ RedeemedCodeIsGone'
  BY DEF StoredOnce, RedeemedCodeIsGone
<1>4. LockedMeansExhausted'
  BY DEF LockedMeansExhausted
<1>5. QED
  BY <1>1, <1>2, <1>3, <1>4

\* The first read of a registration.
LEMMA RegisterCheckInv ==
  ASSUME IInv, NEW r \in Reqs, RegisterCheck(r)
  PROVE  IInv'
<1> USE DEF IInv, RegisterCheck, Goto
<1>1. TypeOK'
  BY DEF TypeOK
<1>2. CodesInOrder' /\ EmailedCodesWereStored'
  BY DEF CodesInOrder, EmailedCodesWereStored
<1>3. StoredOnce' /\ RedeemedCodeIsGone'
  BY DEF StoredOnce, RedeemedCodeIsGone
<1>4. LockedMeansExhausted'
  BY DEF LockedMeansExhausted
<1>5. QED
  BY <1>1, <1>2, <1>3, <1>4

\* A copy of the row is as consistent as the row.
LEMMA RegisterFindInv ==
  ASSUME IInv, NEW r \in Reqs, RegisterFind(r)
  PROVE  IInv'
<1> USE DEF IInv, RegisterFind, Goto
<1>1. TypeOK'
  BY RowCopyIsTyped DEF TypeOK
<1>2. CodesInOrder' /\ EmailedCodesWereStored'
  BY DEF CodesInOrder, EmailedCodesWereStored
<1>3. StoredOnce' /\ RedeemedCodeIsGone'
  BY DEF StoredOnce, RedeemedCodeIsGone
<1>4. LockedMeansExhausted'
  BY DEF LockedMeansExhausted
<1>5. QED
  BY <1>1, <1>2, <1>3, <1>4

\* Writing the copy back keeps the two lockout columns together.
LEMMA RegisterWriteInv ==
  ASSUME IInv, NEW r \in Reqs, RegisterWrite(r)
  PROVE  IInv'
<1> USE DEF IInv, RegisterWrite, IssueCode, Goto, RegisteredRow
<1>1. TypeOK'
  <2>1. row' \in Row
    <3> HIDE DEF RegisteredRow
    <3> QED
      BY RegisteredRowIsTyped
  <2>2. QED
    <3> HIDE DEF IssueCode, RegisteredRow
    <3> QED
      BY <2>1, IssueIsTyped DEF TypeOK
<1>2. CodesInOrder' /\ EmailedCodesWereStored'
  BY DEF TypeOK, CodesInOrder, EmailedCodesWereStored
<1>3. StoredOnce' /\ RedeemedCodeIsGone'
  BY DEF TypeOK, CodesInOrder, StoredOnce, RedeemedCodeIsGone
<1>4. LockedMeansExhausted'
  BY DEF LockedMeansExhausted, NoRow
<1>5. QED
  BY <1>1, <1>2, <1>3, <1>4

\* A resend begins.
LEMMA ResendInv ==
  ASSUME IInv, NEW r \in Reqs, Resend(r)
  PROVE  IInv'
<1> USE DEF IInv, Resend, Goto
<1>1. TypeOK'
  BY DEF TypeOK
<1>2. CodesInOrder' /\ EmailedCodesWereStored'
  BY DEF CodesInOrder, EmailedCodesWereStored
<1>3. StoredOnce' /\ RedeemedCodeIsGone'
  BY DEF StoredOnce, RedeemedCodeIsGone
<1>4. LockedMeansExhausted'
  BY DEF LockedMeansExhausted
<1>5. QED
  BY <1>1, <1>2, <1>3, <1>4

\* A fresh code is not stored yet.
LEMMA ResendCheckInv ==
  ASSUME IInv, NEW r \in Reqs, ResendCheck(r)
  PROVE  IInv'
<1> USE DEF IInv, ResendCheck, IssueCode, Goto
<1>1. TypeOK'
  <2> HIDE DEF IssueCode
  <2> QED
    BY IssueIsTyped DEF TypeOK, Write
<1>2. CodesInOrder' /\ EmailedCodesWereStored'
  BY DEF TypeOK, CodesInOrder, EmailedCodesWereStored
<1>3. StoredOnce' /\ RedeemedCodeIsGone'
  BY DEF TypeOK, CodesInOrder, StoredOnce, RedeemedCodeIsGone
<1>4. LockedMeansExhausted'
  BY DEF LockedMeansExhausted, NoRow
<1>5. QED
  BY <1>1, <1>2, <1>3, <1>4

\* The same for a sign-in.
LEMMA SignInMfaInv ==
  ASSUME IInv, NEW r \in Reqs, SignInMfa(r)
  PROVE  IInv'
<1> USE DEF IInv, SignInMfa, IssueCode, Goto
<1>1. TypeOK'
  <2> HIDE DEF IssueCode
  <2> QED
    BY IssueIsTyped DEF TypeOK, Write
<1>2. CodesInOrder' /\ EmailedCodesWereStored'
  BY DEF TypeOK, CodesInOrder, EmailedCodesWereStored
<1>3. StoredOnce' /\ RedeemedCodeIsGone'
  BY DEF TypeOK, CodesInOrder, StoredOnce, RedeemedCodeIsGone
<1>4. LockedMeansExhausted'
  BY DEF LockedMeansExhausted, NoRow
<1>5. QED
  BY <1>1, <1>2, <1>3, <1>4

\* The SET of a code that was never stored, so never deleted.
LEMMA StoreCodeInv ==
  ASSUME IInv, NEW r \in Reqs, StoreCode(r)
  PROVE  IInv'
<1> USE DEF IInv, StoreCode, SetOtp, Goto
<1>1. TypeOK'
  BY Constants DEF TypeOK, CodesInOrder
<1>2. CodesInOrder' /\ EmailedCodesWereStored'
  BY DEF CodesInOrder, EmailedCodesWereStored
<1>3. StoredOnce' /\ RedeemedCodeIsGone'
  BY DEF TypeOK, CodesInOrder, StoredOnce, RedeemedCodeIsGone
<1>4. LockedMeansExhausted'
  BY DEF LockedMeansExhausted
<1>5. QED
  BY <1>1, <1>2, <1>3, <1>4

\* Only a registration sends a code that may not be stored.
LEMMA SendEmailInv ==
  ASSUME IInv, NEW r \in Reqs, SendEmail(r)
  PROVE  IInv'
<1> USE DEF IInv, SendEmail, Finish, Goto
<1>1. TypeOK'
  BY NewRequestIsTyped DEF TypeOK, CodesInOrder
<1>2. CodesInOrder' /\ EmailedCodesWereStored'
  BY DEF TypeOK, CodesInOrder, EmailedCodesWereStored
<1>3. StoredOnce' /\ RedeemedCodeIsGone'
  BY DEF StoredOnce, RedeemedCodeIsGone
<1>4. LockedMeansExhausted'
  BY DEF LockedMeansExhausted, NoRow, Blank
<1>5. QED
  BY <1>1, <1>2, <1>3, <1>4

\* A verification begins.
LEMMA PresentCodeInv ==
  ASSUME IInv, NEW r \in Reqs, NEW c \in Codes \cup {WrongCode}, PresentCode(r, c)
  PROVE  IInv'
<1> USE DEF IInv, PresentCode, Goto
<1>1. TypeOK'
  BY NewRequestIsTyped DEF TypeOK
<1>2. CodesInOrder' /\ EmailedCodesWereStored'
  BY Constants DEF TypeOK, CodesInOrder, EmailedCodesWereStored
<1>3. StoredOnce' /\ RedeemedCodeIsGone'
  BY DEF StoredOnce, RedeemedCodeIsGone
<1>4. LockedMeansExhausted'
  BY DEF LockedMeansExhausted, NoRow
<1>5. QED
  BY <1>1, <1>2, <1>3, <1>4

\* A copy of the row is as consistent as the row.
LEMMA CheckLockInv ==
  ASSUME IInv, NEW r \in Reqs, CheckLock(r)
  PROVE  IInv'
<1> USE DEF IInv, CheckLock, Goto
<1>1. TypeOK'
  BY RowCopyIsTyped DEF TypeOK
<1>2. CodesInOrder' /\ EmailedCodesWereStored'
  BY DEF CodesInOrder, EmailedCodesWereStored
<1>3. StoredOnce' /\ RedeemedCodeIsGone'
  BY DEF StoredOnce, RedeemedCodeIsGone
<1>4. LockedMeansExhausted'
  BY DEF LockedMeansExhausted
<1>5. QED
  BY <1>1, <1>2, <1>3, <1>4

\* The code that GET returns has been stored.
LEMMA FetchMatchesInv ==
  ASSUME IInv, NEW r \in Reqs, FetchMatches(r)
  PROVE  IInv'
<1> USE DEF IInv, FetchMatches, Goto
<1>1. TypeOK'
  BY DEF TypeOK
<1>2. CodesInOrder' /\ EmailedCodesWereStored'
  BY DEF CodesInOrder, EmailedCodesWereStored
<1>3. StoredOnce' /\ RedeemedCodeIsGone'
  BY DEF StoredOnce, RedeemedCodeIsGone
<1>4. LockedMeansExhausted'
  BY DEF LockedMeansExhausted
<1>5. QED
  BY <1>1, <1>2, <1>3, <1>4

\* A mismatch changes nothing yet.
LEMMA FetchFailsInv ==
  ASSUME IInv, NEW r \in Reqs, FetchFails(r)
  PROVE  IInv'
<1> USE DEF IInv, FetchFails, Goto
<1>1. TypeOK'
  BY DEF TypeOK
<1>2. CodesInOrder' /\ EmailedCodesWereStored'
  BY DEF CodesInOrder, EmailedCodesWereStored
<1>3. StoredOnce' /\ RedeemedCodeIsGone'
  BY DEF StoredOnce, RedeemedCodeIsGone
<1>4. LockedMeansExhausted'
  BY DEF LockedMeansExhausted
<1>5. QED
  BY <1>1, <1>2, <1>3, <1>4

\* A lock is written with an exhausted count, null with any other.
LEMMA CountFailureInv ==
  ASSUME IInv, NEW r \in Reqs, CountFailure(r)
  PROVE  IInv'
<1> USE DEF IInv, CountFailure, Finish, Goto, UpdateOtpAttempts
<1>1. TypeOK'
  <2> HIDE DEF UpdateOtpAttempts
  <2> DEFINE n == Bump(req[r].row.failed)
             l == IF n = MaxFailed THEN LockTime ELSE 0
  <2>1. row \in Row /\ UpdateOtpAttempts(n, l) /\ n \in 0 .. MaxFailed /\ l \in 0 .. LockTime
    BY Constants, BumpStaysBounded, ReadRowIsTyped DEF TypeOK
  <2>2. row' \in Row
    <3> HIDE DEF n, l
    <3> QED
      BY <2>1, UpdateIsTyped
  <2>3. wrong' \in 0 .. MaxFailed
    BY Constants, BumpStaysBounded DEF TypeOK
  <2>4. QED
    BY <2>2, <2>3, NewRequestIsTyped DEF TypeOK
<1>2. CodesInOrder' /\ EmailedCodesWereStored'
  BY DEF CodesInOrder, EmailedCodesWereStored
<1>3. StoredOnce' /\ RedeemedCodeIsGone'
  BY DEF StoredOnce, RedeemedCodeIsGone
<1>4. LockedMeansExhausted'
  BY DEF LockedMeansExhausted, NoRow, Blank
<1>5. QED
  BY <1>1, <1>2, <1>3, <1>4

\* Both columns are cleared.
LEMMA ResetAttemptsInv ==
  ASSUME IInv, NEW r \in Reqs, ResetAttempts(r)
  PROVE  IInv'
<1> USE DEF IInv, ResetAttempts, Goto, UpdateOtpAttempts
<1>1. TypeOK'
  <2>1. row' \in Row
    <3> HIDE DEF UpdateOtpAttempts
    <3>1. row \in Row /\ UpdateOtpAttempts(0, 0) /\ 0 \in 0 .. MaxFailed /\ 0 \in 0 .. LockTime
      BY Constants DEF TypeOK
    <3>2. QED
      BY <3>1, UpdateIsTyped
  <2>2. QED
    BY <2>1, Constants DEF TypeOK
<1>2. CodesInOrder' /\ EmailedCodesWereStored'
  BY DEF CodesInOrder, EmailedCodesWereStored
<1>3. StoredOnce' /\ RedeemedCodeIsGone'
  BY DEF StoredOnce, RedeemedCodeIsGone
<1>4. LockedMeansExhausted'
  BY DEF LockedMeansExhausted
<1>5. QED
  BY <1>1, <1>2, <1>3, <1>4

\* Another column is written.
LEMMA MarkVerifiedInv ==
  ASSUME IInv, NEW r \in Reqs, MarkVerified(r)
  PROVE  IInv'
<1> USE DEF IInv, MarkVerified, Goto
<1>1. TypeOK'
  BY VerifiedIsTyped DEF TypeOK
<1>2. CodesInOrder' /\ EmailedCodesWereStored'
  BY DEF CodesInOrder, EmailedCodesWereStored
<1>3. StoredOnce' /\ RedeemedCodeIsGone'
  BY DEF StoredOnce, RedeemedCodeIsGone
<1>4. LockedMeansExhausted'
  BY DEF LockedMeansExhausted
<1>5. QED
  BY <1>1, <1>2, <1>3, <1>4

\* Whatever code was there is gone, the redeemed one included.
LEMMA DeleteCodeInv ==
  ASSUME IInv, NEW r \in Reqs, DeleteCode(r)
  PROVE  IInv'
<1> USE DEF IInv, DeleteCode, DelOtp, Goto
<1>1. TypeOK'
  BY Constants DEF TypeOK, CodesInOrder
<1>2. CodesInOrder' /\ EmailedCodesWereStored'
  BY DEF CodesInOrder, EmailedCodesWereStored
<1>3. StoredOnce' /\ RedeemedCodeIsGone'
  BY Constants DEF TypeOK, CodesInOrder, StoredOnce, RedeemedCodeIsGone
<1>4. LockedMeansExhausted'
  BY DEF LockedMeansExhausted
<1>5. QED
  BY <1>1, <1>2, <1>3, <1>4

\* The response.
LEMMA IssueTokensInv ==
  ASSUME IInv, NEW r \in Reqs, IssueTokens(r)
  PROVE  IInv'
<1> USE DEF IInv, IssueTokens, Finish, Goto
<1>1. TypeOK'
  BY NewRequestIsTyped DEF TypeOK, CodesInOrder
<1>2. CodesInOrder' /\ EmailedCodesWereStored'
  BY DEF TypeOK, CodesInOrder, EmailedCodesWereStored
<1>3. StoredOnce' /\ RedeemedCodeIsGone'
  BY DEF StoredOnce, RedeemedCodeIsGone
<1>4. LockedMeansExhausted'
  BY DEF LockedMeansExhausted, NoRow, Blank
<1>5. QED
  BY <1>1, <1>2, <1>3, <1>4

\* An error response.
LEMMA RejectedInv ==
  ASSUME IInv, NEW r \in Reqs, Rejected(r)
  PROVE  IInv'
<1> USE DEF IInv, Rejected, Finish, Goto
<1>1. TypeOK'
  BY NewRequestIsTyped DEF TypeOK
<1>2. CodesInOrder' /\ EmailedCodesWereStored'
  BY DEF TypeOK, CodesInOrder, EmailedCodesWereStored
<1>3. StoredOnce' /\ RedeemedCodeIsGone'
  BY DEF StoredOnce, RedeemedCodeIsGone
<1>4. LockedMeansExhausted'
  BY DEF LockedMeansExhausted, NoRow, Blank
<1>5. QED
  BY <1>1, <1>2, <1>3, <1>4

\* The outstanding SET stays behind, its code abandoned.
LEMMA RequestFailsInv ==
  ASSUME IInv, NEW r \in Reqs, RequestFails(r)
  PROVE  IInv'
<1> USE DEF IInv, RequestFails, Finish, Goto, GiveUp, Outstanding
<1>1. TypeOK'
  BY NewRequestIsTyped DEF TypeOK, Write, CodesInOrder
<1>2. CodesInOrder' /\ EmailedCodesWereStored'
  BY DEF TypeOK, CodesInOrder, EmailedCodesWereStored
<1>3. StoredOnce' /\ RedeemedCodeIsGone'
  BY DEF TypeOK, StoredOnce, RedeemedCodeIsGone
<1>4. LockedMeansExhausted'
  BY DEF LockedMeansExhausted, NoRow, Blank
<1>5. QED
  BY <1>1, <1>2, <1>3, <1>4

\* The same for a registration, which goes on.
LEMMA StoreFailureIgnoredInv ==
  ASSUME IInv, NEW r \in Reqs, StoreFailureIgnored(r)
  PROVE  IInv'
<1> USE DEF IInv, StoreFailureIgnored, Goto, GiveUp, Outstanding
<1>1. TypeOK'
  BY DEF TypeOK, Write, CodesInOrder
<1>2. CodesInOrder' /\ EmailedCodesWereStored'
  BY DEF CodesInOrder, EmailedCodesWereStored
<1>3. StoredOnce' /\ RedeemedCodeIsGone'
  BY DEF TypeOK, StoredOnce, RedeemedCodeIsGone
<1>4. LockedMeansExhausted'
  BY DEF LockedMeansExhausted
<1>5. QED
  BY <1>1, <1>2, <1>3, <1>4

\* The DEL stays behind.
LEMMA DelGivenUpInv ==
  ASSUME IInv, NEW r \in Reqs, DelGivenUp(r)
  PROVE  IInv'
<1> USE DEF IInv, DelGivenUp, Goto
<1>1. TypeOK'
  BY DEF TypeOK, Write, CodesInOrder
<1>2. CodesInOrder' /\ EmailedCodesWereStored'
  BY DEF CodesInOrder, EmailedCodesWereStored
<1>3. StoredOnce' /\ RedeemedCodeIsGone'
  BY DEF StoredOnce, RedeemedCodeIsGone
<1>4. LockedMeansExhausted'
  BY DEF LockedMeansExhausted
<1>5. QED
  BY <1>1, <1>2, <1>3, <1>4

\* A write left behind is of a generated code.
LEMMA LateArrivesInv ==
  ASSUME IInv, NEW w \in late, LateArrives(w)
  PROVE  IInv'
<1> USE DEF IInv, LateArrives, SetOtp, DelOtp
<1>1. TypeOK'
  BY Constants DEF TypeOK, CodesInOrder
<1>2. CodesInOrder' /\ EmailedCodesWereStored'
  BY DEF CodesInOrder, EmailedCodesWereStored
<1>3. StoredOnce' /\ RedeemedCodeIsGone'
  BY Constants DEF TypeOK, StoredOnce, RedeemedCodeIsGone, Write
<1>4. LockedMeansExhausted'
  BY DEF LockedMeansExhausted
<1>5. QED
  BY <1>1, <1>2, <1>3, <1>4

\* A write left behind may be dropped.
LEMMA LateIsLostInv ==
  ASSUME IInv, NEW w \in late, LateIsLost(w)
  PROVE  IInv'
<1> USE DEF IInv, LateIsLost
<1>1. TypeOK'
  BY DEF TypeOK
<1>2. CodesInOrder' /\ EmailedCodesWereStored'
  BY DEF CodesInOrder, EmailedCodesWereStored
<1>3. StoredOnce' /\ RedeemedCodeIsGone'
  BY DEF StoredOnce, RedeemedCodeIsGone
<1>4. LockedMeansExhausted'
  BY DEF LockedMeansExhausted
<1>5. QED
  BY <1>1, <1>2, <1>3, <1>4

\* A repeated transaction writes what the first attempt wrote.
LEMMA TransactionRepeatedInv ==
  ASSUME IInv, NEW r \in Reqs, TransactionRepeated(r)
  PROVE  IInv'
<1> USE DEF IInv, TransactionRepeated, Goto, RegisteredRow
<1>1. TypeOK'
  <2>1. row' \in Row
    <3> HIDE DEF RegisteredRow
    <3> QED
      BY RegisteredRowIsTyped, VerifiedIsTyped DEF TypeOK
  <2>2. QED
    BY <2>1 DEF TypeOK
<1>2. CodesInOrder' /\ EmailedCodesWereStored'
  BY DEF TypeOK, CodesInOrder, EmailedCodesWereStored
<1>3. StoredOnce' /\ RedeemedCodeIsGone'
  BY DEF TypeOK, StoredOnce, RedeemedCodeIsGone
<1>4. LockedMeansExhausted'
  BY DEF TypeOK, LockedMeansExhausted, Row
<1>5. QED
  BY <1>1, <1>2, <1>3, <1>4

\* Time runs down the lock of the row and of its copies alike.
LEMMA TickInv ==
  ASSUME IInv, Tick
  PROVE  IInv'
<1> USE DEF IInv
<1>0. UNCHANGED <<late, pc, codeHistory, wrong>>
  BY DEF Tick
<1>1. \A r \in Reqs :
        /\ req'[r] \in Request
        /\ req'[r].code = req[r].code /\ req'[r].register = req[r].register
        /\ req'[r].row.failed = req[r].row.failed
        /\ req'[r].row.lock = Decrement(req[r].row.lock)
  BY AgedRequest DEF TypeOK, Tick
<1>2. req' \in [Reqs -> Request]
  BY <1>1 DEF Tick
<1>3. otpTtl' \in 0 .. OtpTtl /\ otp' \in {otp, NoCode} /\ row' \in Row
  BY Constants, DecrementStaysBounded, AgedRowIsTyped DEF TypeOK, Tick
<1>4. row'.failed = row.failed /\ row'.lock = Decrement(row.lock)
  BY DEF TypeOK, Row, Tick
<1>5. TypeOK'
  BY <1>0, <1>2, <1>3 DEF TypeOK
<1>6. CodesInOrder' /\ EmailedCodesWereStored'
  BY <1>0, <1>1, <1>3 DEF CodesInOrder, EmailedCodesWereStored
<1>7. StoredOnce' /\ RedeemedCodeIsGone'
  BY <1>0, <1>1, <1>3, Constants DEF TypeOK, StoredOnce, RedeemedCodeIsGone
<1>8. LockedMeansExhausted'
  <2>1. row.lock \in 0 .. LockTime /\ \A r \in Reqs : req[r].row.lock \in 0 .. LockTime
    BY ReadRowIsTyped DEF TypeOK, Row
  <2>2. \A n \in 0 .. LockTime : Decrement(n) > 0 => n > 0
    BY Constants, DecrementStaysBounded
  <2>3. QED
    BY <1>1, <1>4, <2>1, <2>2 DEF LockedMeansExhausted
<1>9. QED
  BY <1>5, <1>6, <1>7, <1>8

-----------------------------------------------------------------------------
\* The initial states satisfy the invariant.
LEMMA InitInv == Init => IInv
  BY Constants, NewRequestIsTyped
     DEF Init, IInv, NoRow, Blank, TypeOK, CodesInOrder, StoredOnce, RedeemedCodeIsGone,
         LockedMeansExhausted, EmailedCodesWereStored

\* Every step keeps it.
LEMMA NextInv == IInv /\ [Next]_vars => IInv'
<1> SUFFICES ASSUME IInv, [Next]_vars PROVE IInv'
  OBVIOUS
<1>1. ASSUME NEW r \in Reqs, Progress(r) PROVE IInv'
  BY <1>1, RegisterCheckInv, RegisterFindInv, RegisterWriteInv, ResendCheckInv, StoreCodeInv,
     SendEmailInv, CheckLockInv, FetchMatchesInv, FetchFailsInv, CountFailureInv,
     ResetAttemptsInv, MarkVerifiedInv, DeleteCodeInv, IssueTokensInv, RejectedInv DEF Progress
<1>2. ASSUME NEW r \in Reqs, Register(r) \/ Resend(r) \/ SignInMfa(r) PROVE IInv'
  BY <1>2, RegisterInv, ResendInv, SignInMfaInv
<1>3. ASSUME NEW r \in Reqs, NEW c \in Codes \cup {WrongCode}, PresentCode(r, c) PROVE IInv'
  BY <1>3, PresentCodeInv
<1>4. ASSUME NEW r \in Reqs, \/ RequestFails(r) \/ StoreFailureIgnored(r)
                             \/ DelGivenUp(r) \/ TransactionRepeated(r)
      PROVE IInv'
  BY <1>4, RequestFailsInv, StoreFailureIgnoredInv, DelGivenUpInv, TransactionRepeatedInv
<1>5. ASSUME NEW w \in late, LateArrives(w) \/ LateIsLost(w) PROVE IInv'
  BY <1>5, LateArrivesInv, LateIsLostInv
<1>6. CASE Tick
  BY <1>6, TickInv
<1>7. CASE UNCHANGED vars
  BY <1>7 DEF vars, IInv, TypeOK, CodesInOrder, StoredOnce, RedeemedCodeIsGone,
     LockedMeansExhausted, EmailedCodesWereStored
<1>8. QED
  BY <1>1, <1>2, <1>3, <1>4, <1>5, <1>6, <1>7 DEF Next

\* The inductive invariant, for any number of requests and codes, any limits,
\* with or without faults.
THEOREM OtpInvariant == Spec => []IInv
  BY InitInv, NextInv, PTL DEF Spec

\* Type correctness.
THEOREM OtpTypes == Spec => []TypeOK
<1>1. IInv => TypeOK
  BY DEF IInv
<1>2. QED
  BY <1>1, OtpInvariant, PTL

\* A code that a verification deleted is not stored again, however requests
\* race and commands fail, unless its SET was given up by its request.
THEOREM RedeemedCodesStayGone == Spec => []RedeemedCodeIsGone
<1>1. IInv => RedeemedCodeIsGone
  BY DEF IInv
<1>2. QED
  BY <1>1, OtpInvariant, PTL

\* A lock always comes with an exhausted count of wrong codes, even after a
\* registration has written an old copy of the row back.
THEOREM LocksAreExhausted == Spec => []LockedMeansExhausted
<1>1. IInv => LockedMeansExhausted
  BY DEF IInv
<1>2. QED
  BY <1>1, OtpInvariant, PTL

\* A code that resend or sign-in sent by email, or that obtained tokens, had
\* been stored in Redis, whichever commands failed.
THEOREM EmailedCodesAreStored == Spec => []EmailedCodesWereStored
<1>1. IInv => EmailedCodesWereStored
  BY DEF IInv
<1>2. QED
  BY <1>1, OtpInvariant, PTL
-----------------------------------------------------------------------------
(* One request at a time, and a Redis that answers.  The row and the code    *)
(* that a request has read can change under it with the clock only: what it  *)
(* writes it would also have written had it read and written in one step.    *)

\* Nothing is given up; a code that obtained tokens was deleted, and nothing else was.
CodesAreDeleted ==
  /\ late = {} /\ abandoned = {} /\ wiped = {} /\ reused = {}
  /\ used \subseteq closed

\* Wrong answers are counted in the row.
CountsAgree ==
  /\ ~row.exists => row.failed = 0 /\ row.lock = 0
  /\ wrong <= row.failed /\ wrong < MaxFailed

\* What a request knows of the row it is about to write.
KnowsTheRow(r) ==
  /\ pc[r] \in {"rfind", "rwrite"} => ~row.verified
  /\ pc[r] = "rwrite" => /\ req[r].row.exists = row.exists
                         /\ req[r].row.failed = row.failed /\ req[r].row.lock = row.lock
  /\ pc[r] \in {"fetch", "count", "reset", "mark"} => row.exists
  /\ pc[r] \in {"fetch", "count", "reset"} => row.lock = 0
  /\ pc[r] \in {"fetch", "count"} => req[r].row.failed = row.failed

\* What it knows of the code it is about to delete, or to issue tokens for.
KnowsTheCode(r) ==
  /\ pc[r] \in {"reset", "mark", "delete"} => otp \in {req[r].code, NoCode}
  /\ pc[r] \in {"reset", "mark", "delete", "tokens"} => req[r].code \notin used
  /\ pc[r] = "tokens" => req[r].code \in closed

SerialInv ==
  /\ CodesAreDeleted
  /\ CountsAgree
  /\ \A r \in Reqs : KnowsTheRow(r) /\ KnowsTheCode(r)

\* What a step may do when requests are served one at a time.
SerialStep ==
  /\ [Limiter!Next]_<<row.failed, row.lock>>
  /\ row.verified => row'.verified
  /\ row.lock > 0 /\ row'.lock + 1 < row.lock => \E r \in Reqs : pc[r] = "reset"

\* The columns of the row.
LEMMA RowColumns ==
  ASSUME TypeOK
  PROVE  /\ row.exists \in BOOLEAN /\ row.verified \in BOOLEAN
         /\ row.failed \in 0 .. MaxFailed /\ row.lock \in 0 .. LockTime
         /\ row = [exists |-> row.exists, verified |-> row.verified,
                   failed |-> row.failed, lock |-> row.lock]
         /\ wrong \in 0 .. MaxFailed
  BY DEF TypeOK, Row

\* A step that leaves the row alone does nothing that a step may not do.
LEMMA RowIsLeftAlone ==
  ASSUME TypeOK, UNCHANGED row
  PROVE  SerialStep
  BY RowColumns, Constants DEF SerialStep

\* Steps that touch neither row nor codes, nor bring the request where it must know.
LEMMA PlainStep ==
  ASSUME \A q, r \in Reqs : q = r, IInv, SerialInv, NEW r \in Reqs,
         UNCHANGED <<row, late, abandoned, wiped, reused, used, closed, wrong>>,
         pc'[r] \in {"idle", "rcheck", "lookup", "store", "email", "vcheck"}
  PROVE  SerialInv' /\ SerialStep
<1>1. SerialStep
  BY RowIsLeftAlone DEF IInv
<1>2. CodesAreDeleted' /\ CountsAgree'
  BY DEF SerialInv, CodesAreDeleted, CountsAgree
<1>3. KnowsTheRow(r)' /\ KnowsTheCode(r)'
  BY DEF KnowsTheRow, KnowsTheCode
<1>4. QED
  BY <1>1, <1>2, <1>3 DEF SerialInv

\* Most steps of a request are plain.
LEMMA PlainSteps ==
  ASSUME \A q, r \in Reqs : q = r, IInv, SerialInv, NEW r \in Reqs,
         \/ Register(r) \/ Resend(r) \/ SignInMfa(r) \/ ResendCheck(r) \/ StoreCode(r)
         \/ SendEmail(r) \/ Rejected(r)
         \/ \E c \in Codes \cup {WrongCode} : PresentCode(r, c)
  PROVE  SerialInv' /\ SerialStep
<1> USE DEF Goto, Finish, IssueCode
<1>1. pc \in [Reqs -> Steps]
  BY DEF IInv, TypeOK
<1>2. CASE Register(r) \/ Resend(r)
  BY <1>1, <1>2, PlainStep DEF Register, Resend
<1>3. CASE SignInMfa(r) \/ ResendCheck(r)
  BY <1>1, <1>3, PlainStep DEF SignInMfa, ResendCheck
<1>4. CASE StoreCode(r)
  BY <1>1, <1>4, PlainStep DEF StoreCode
<1>5. CASE SendEmail(r) \/ Rejected(r)
  BY <1>1, <1>5, PlainStep DEF SendEmail, Rejected
<1>6. CASE \E c \in Codes \cup {WrongCode} : PresentCode(r, c)
  BY <1>1, <1>6, PlainStep DEF PresentCode
<1>7. QED
  BY <1>2, <1>3, <1>4, <1>5, <1>6

\* A registration has seen an unverified account, and writes back what it has read.
LEMMA RegistrationSteps ==
  ASSUME \A q, r \in Reqs : q = r, IInv, SerialInv, NEW r \in Reqs,
         RegisterCheck(r) \/ RegisterFind(r) \/ RegisterWrite(r)
  PROVE  SerialInv' /\ SerialStep
<1> USE DEF Goto
<1>0. TypeOK /\ pc \in [Reqs -> Steps] /\ req \in [Reqs -> Request]
  BY DEF IInv, TypeOK
<1>1. CASE RegisterCheck(r) \/ RegisterFind(r)
  <2>1. UNCHANGED <<row, late, abandoned, wiped, reused, used, closed, wrong>>
    BY <1>1 DEF RegisterCheck, RegisterFind
  <2>2. SerialStep /\ CodesAreDeleted' /\ CountsAgree'
    BY <1>0, <2>1, RowIsLeftAlone DEF SerialInv, CodesAreDeleted, CountsAgree
  <2>3. CASE RegisterCheck(r)
    <3>1. KnowsTheRow(r)' /\ KnowsTheCode(r)'
      BY <1>0, <2>1, <2>3 DEF RegisterCheck, KnowsTheRow, KnowsTheCode
    <3>2. QED
      BY <2>2, <3>1 DEF SerialInv
  <2>4. CASE RegisterFind(r)
    <3>1. req'[r].row = row /\ pc'[r] = "rwrite"
      BY <1>0, <2>4 DEF RegisterFind
    <3>2. ~row.verified
      BY <2>4 DEF RegisterFind, SerialInv, KnowsTheRow
    <3>3. KnowsTheRow(r)' /\ KnowsTheCode(r)'
      BY <2>1, <3>1, <3>2 DEF KnowsTheRow, KnowsTheCode
    <3>4. QED
      BY <2>2, <3>3 DEF SerialInv
  <2>5. QED
    BY <1>1, <2>3, <2>4
<1>2. CASE RegisterWrite(r)
  <2>1. /\ UNCHANGED <<late, abandoned, wiped, reused, used, closed, wrong>>
        /\ pc[r] = "rwrite" /\ pc'[r] = "store"
    BY <1>0, <1>2 DEF RegisterWrite, IssueCode
  <2>2. row'.exists /\ row'.failed = row.failed /\ row'.lock = row.lock /\ ~row.verified
    <3>1. /\ req[r].row.exists = row.exists /\ req[r].row.failed = row.failed
          /\ req[r].row.lock = row.lock /\ ~row.verified
          /\ ~row.exists => row.failed = 0 /\ row.lock = 0
      BY <2>1 DEF SerialInv, KnowsTheRow, CountsAgree
    <3>2. row' = RegisteredRow(req[r].row)
      BY <1>2 DEF RegisterWrite
    <3>3. QED
      BY <3>1, <3>2 DEF RegisteredRow
  <2>3. SerialStep
    BY <1>0, <2>2, RowColumns DEF SerialStep
  <2>4. CodesAreDeleted' /\ CountsAgree'
    BY <2>1, <2>2 DEF SerialInv, CodesAreDeleted, CountsAgree
  <2>5. KnowsTheRow(r)' /\ KnowsTheCode(r)'
    BY <2>1 DEF KnowsTheRow, KnowsTheCode
  <2>6. QED
    BY <2>3, <2>4, <2>5 DEF SerialInv
<1>3. QED
  BY <1>1, <1>2

\* A verification has seen an unlocked account, and the code that is stored.
LEMMA ReadingSteps ==
  ASSUME Faults = FALSE, \A q, r \in Reqs : q = r, IInv, SerialInv, NEW r \in Reqs,
         CheckLock(r) \/ FetchMatches(r) \/ FetchFails(r)
  PROVE  SerialInv' /\ SerialStep
<1> USE DEF Goto
<1>0. TypeOK /\ pc \in [Reqs -> Steps] /\ req \in [Reqs -> Request]
  BY DEF IInv, TypeOK
<1>1. UNCHANGED <<row, keyVars, codeHistory, wrong>>
  BY DEF CheckLock, FetchMatches, FetchFails
<1>2. SerialStep /\ CodesAreDeleted' /\ CountsAgree'
  BY <1>0, <1>1, RowIsLeftAlone DEF SerialInv, CodesAreDeleted, CountsAgree
<1>3. KnowsTheRow(r)' /\ KnowsTheCode(r)'
  <2>1. CASE CheckLock(r)
    <3>1. req'[r].row = row /\ pc'[r] = "fetch" /\ row.exists /\ row.lock = 0
      BY <1>0, <2>1 DEF CheckLock
    <3>2. QED
      BY <1>1, <3>1 DEF KnowsTheRow, KnowsTheCode
  <2>2. CASE FetchMatches(r)
    <3>1. pc[r] = "fetch" /\ pc'[r] = "reset" /\ UNCHANGED req /\ otp = req[r].code
      BY <1>0, <2>2 DEF FetchMatches
    <3>2. otp \notin closed
      BY DEF IInv, RedeemedCodeIsGone, SerialInv, CodesAreDeleted
    <3>3. QED
      BY <1>1, <3>1, <3>2 DEF SerialInv, CodesAreDeleted, KnowsTheRow, KnowsTheCode
  <2>3. CASE FetchFails(r)
    <3>1. pc[r] = "fetch" /\ pc'[r] = "count" /\ UNCHANGED req
      BY <1>0, <2>3 DEF FetchFails
    <3>2. QED
      BY <1>1, <3>1 DEF SerialInv, KnowsTheRow, KnowsTheCode
  <2>4. QED
    BY <2>1, <2>2, <2>3
<1>4. QED
  BY <1>2, <1>3 DEF SerialInv

\* Writing the two lockout columns changes no other.
LEMMA UpdateColumns ==
  ASSUME TypeOK, NEW n, NEW l, UpdateOtpAttempts(n, l)
  PROVE  row'.failed = n /\ row'.lock = l /\ row'.exists = row.exists
         /\ row'.verified = row.verified
<1>1. row' = [row EXCEPT !.failed = n, !.lock = l]
  BY DEF UpdateOtpAttempts
<1>2. QED
  BY <1>1 DEF TypeOK, Row

\* A wrong code is counted on from what the row still says.
LEMMA CountingStep ==
  ASSUME \A q, r \in Reqs : q = r, IInv, SerialInv, NEW r \in Reqs, CountFailure(r)
  PROVE  SerialInv' /\ SerialStep
<1>0. TypeOK /\ pc \in [Reqs -> Steps]
  BY DEF IInv, TypeOK
<1> DEFINE n == Bump(row.failed)
           l == IF n = MaxFailed THEN LockTime ELSE 0
<1>1. /\ row.exists /\ row.lock = 0 /\ req[r].row.failed = row.failed
      /\ pc[r] = "count" /\ pc'[r] = "idle"
      /\ UNCHANGED <<keyVars, codeHistory>>
  BY <1>0 DEF CountFailure, Finish, Goto, SerialInv, KnowsTheRow
<1>2. UpdateOtpAttempts(n, l) /\ wrong' = IF n = MaxFailed THEN 0 ELSE Bump(wrong)
  BY <1>1 DEF CountFailure
<1>3. row'.failed = n /\ row'.lock = l /\ row'.exists = row.exists
      /\ row'.verified = row.verified
  <2> HIDE DEF n, l
  <2> QED
    BY <1>0, <1>2, UpdateColumns
<1>4. Limiter!CountWrong
  BY <1>1, <1>3 DEF Limiter!CountWrong, Limiter!Bump, Bump
<1>5. SerialStep
  BY <1>1, <1>3, <1>4 DEF SerialStep, Limiter!Next
<1>6. CountsAgree'
  <2>1. wrong <= row.failed /\ wrong < MaxFailed /\ wrong \in Nat
        /\ row.failed \in 0 .. MaxFailed
    BY <1>0, RowColumns DEF SerialInv, CountsAgree
  <2>2. CASE n = MaxFailed
    BY <1>1, <1>2, <1>3, <2>1, <2>2, Constants DEF CountsAgree
  <2>3. CASE n # MaxFailed
    <3>1. n = row.failed + 1 /\ n < MaxFailed
      BY <2>1, <2>3, Constants DEF Bump
    <3>2. wrong' = wrong + 1
      BY <1>2, <2>1, <2>3 DEF Bump
    <3>3. QED
      BY <1>1, <1>3, <2>1, <3>1, <3>2, Constants DEF CountsAgree
  <2>4. QED
    BY <2>2, <2>3
<1>7. CodesAreDeleted' /\ KnowsTheRow(r)' /\ KnowsTheCode(r)'
  BY <1>1 DEF SerialInv, CodesAreDeleted, KnowsTheRow, KnowsTheCode
<1>8. QED
  BY <1>5, <1>6, <1>7 DEF SerialInv

\* The right code clears both columns, then marks the account.
LEMMA AcceptingSteps ==
  ASSUME \A q, r \in Reqs : q = r, IInv, SerialInv, NEW r \in Reqs,
         ResetAttempts(r) \/ MarkVerified(r)
  PROVE  SerialInv' /\ SerialStep
<1>0. TypeOK /\ pc \in [Reqs -> Steps]
  BY DEF IInv, TypeOK
<1>1. CASE ResetAttempts(r)
  <2>1. UpdateOtpAttempts(0, 0) /\ wrong' = 0 /\ UNCHANGED <<keyVars, req, codeHistory>>
        /\ pc[r] = "reset" /\ pc'[r] = "mark"
    BY <1>0, <1>1 DEF ResetAttempts, Goto
  <2>2. row'.failed = 0 /\ row'.lock = 0 /\ row'.exists = row.exists
        /\ row'.verified = row.verified
    BY <1>0, <2>1, UpdateColumns
  <2>3. row.lock = 0 /\ row.exists
    BY <2>1 DEF SerialInv, KnowsTheRow
  <2>4. Limiter!AcceptRight
    BY <2>2, <2>3 DEF Limiter!AcceptRight
  <2>5. SerialStep
    BY <2>2, <2>3, <2>4 DEF SerialStep, Limiter!Next
  <2>6. CountsAgree'
    BY <2>1, <2>2, <2>3, Constants DEF CountsAgree
  <2>7. CodesAreDeleted' /\ KnowsTheRow(r)' /\ KnowsTheCode(r)'
    BY <2>1, <2>2, <2>3 DEF SerialInv, CodesAreDeleted, KnowsTheRow, KnowsTheCode
  <2>8. QED
    BY <2>5, <2>6, <2>7 DEF SerialInv
<1>2. CASE MarkVerified(r)
  <2>1. UNCHANGED <<keyVars, req, codeHistory, wrong>> /\ pc[r] = "mark" /\ pc'[r] = "delete"
    BY <1>0, <1>2 DEF MarkVerified, Goto
  <2>2. row'.failed = row.failed /\ row'.lock = row.lock /\ row'.exists = row.exists
        /\ row'.verified
    BY <1>0, <1>2 DEF MarkVerified
  <2>3. SerialStep
    BY <1>0, <2>2, RowColumns DEF SerialStep
  <2>4. CountsAgree' /\ CodesAreDeleted' /\ KnowsTheRow(r)' /\ KnowsTheCode(r)'
    BY <2>1, <2>2 DEF SerialInv, CodesAreDeleted, CountsAgree, KnowsTheRow, KnowsTheCode
  <2>5. QED
    BY <2>3, <2>4 DEF SerialInv
<1>3. QED
  BY <1>1, <1>2

\* The code that is deleted is the one that was redeemed; then it obtains its tokens.
LEMMA RedeemingSteps ==
  ASSUME \A q, r \in Reqs : q = r, IInv, SerialInv, NEW r \in Reqs,
         DeleteCode(r) \/ IssueTokens(r)
  PROVE  SerialInv' /\ SerialStep
<1> USE DEF Goto, Finish
<1>0. TypeOK /\ pc \in [Reqs -> Steps]
  BY DEF IInv, TypeOK
<1>1. UNCHANGED <<row, late, abandoned, wrong>>
  BY DEF DeleteCode, IssueTokens
<1>2. SerialStep /\ CountsAgree'
  BY <1>0, <1>1, RowIsLeftAlone DEF SerialInv, CountsAgree
<1>3. CASE DeleteCode(r)
  <2>1. pc[r] = "delete" /\ pc'[r] = "tokens" /\ UNCHANGED <<req, used, reused>>
        /\ closed' = closed \cup {req[r].code}
        /\ wiped' = wiped \cup ({otp} \ {NoCode, req[r].code})
    BY <1>0, <1>3 DEF DeleteCode, DelOtp
  <2>2. CodesAreDeleted' /\ KnowsTheRow(r)' /\ KnowsTheCode(r)'
    BY <1>1, <2>1 DEF SerialInv, CodesAreDeleted, KnowsTheRow, KnowsTheCode
  <2>3. QED
    BY <1>2, <2>2 DEF SerialInv
<1>4. CASE IssueTokens(r)
  <2>1. pc[r] = "tokens" /\ pc'[r] = "idle" /\ UNCHANGED <<closed, wiped>>
        /\ used' = used \cup {req[r].code} /\ reused' = reused \cup ({req[r].code} \cap used)
    BY <1>0, <1>4 DEF IssueTokens
  <2>2. CodesAreDeleted' /\ KnowsTheRow(r)' /\ KnowsTheCode(r)'
    BY <1>1, <2>1 DEF SerialInv, CodesAreDeleted, KnowsTheRow, KnowsTheCode
  <2>3. QED
    BY <1>2, <2>2 DEF SerialInv
<1>5. QED
  BY <1>3, <1>4

\* The clock runs down a lock, the copy of it a request has read, and the code.
LEMMA ClockStep ==
  ASSUME IInv, SerialInv, Tick
  PROVE  SerialInv' /\ SerialStep
<1>0. TypeOK
  BY DEF IInv
<1>1. UNCHANGED <<late, pc, codeHistory, wrong>>
  BY DEF Tick
<1>2. \A r \in Reqs :
        /\ req'[r].code = req[r].code
        /\ req'[r].row.exists = req[r].row.exists
        /\ req'[r].row.failed = req[r].row.failed
        /\ req'[r].row.lock = Decrement(req[r].row.lock)
  <2> SUFFICES ASSUME NEW r \in Reqs
               PROVE  /\ req'[r].code = req[r].code
                      /\ req'[r].row.exists = req[r].row.exists
                      /\ req'[r].row.failed = req[r].row.failed
                      /\ req'[r].row.lock = Decrement(req[r].row.lock)
    OBVIOUS
  <2>1. req[r] \in Request /\ req'[r] = [req[r] EXCEPT !.row.lock = Decrement(@)]
    BY <1>0 DEF Tick, TypeOK
  <2>2. req'[r] = [req[r] EXCEPT !.row = [req[r].row EXCEPT !.lock = Decrement(@)]]
    BY <2>1 DEF Request
  <2>3. QED
    BY <2>1, <2>2 DEF Request, Row
<1>3. row'.exists = row.exists /\ row'.verified = row.verified
      /\ row'.failed = row.failed /\ row'.lock = Decrement(row.lock)
  BY <1>0 DEF Tick
<1>4. otp' \in {otp, NoCode}
  BY DEF Tick
<1>5. row.lock \in Nat /\ Decrement(0) = 0
  BY <1>0, RowColumns DEF Decrement
<1>6. SerialStep
  <2>1. CASE row.lock = 0
    BY <1>0, <1>3, <1>5, <2>1 DEF SerialStep
  <2>2. CASE row.lock > 0
    <3>1. row'.lock = row.lock - 1
      BY <1>3, <1>5, <2>2 DEF Decrement
    <3>2. Limiter!Minute
      BY <1>3, <2>2, <3>1 DEF Limiter!Minute
    <3>3. QED
      BY <1>3, <1>5, <3>1, <3>2 DEF SerialStep, Limiter!Next
  <2>3. QED
    BY <1>5, <2>1, <2>2
<1>7. CountsAgree' /\ CodesAreDeleted'
  BY <1>1, <1>3, <1>5 DEF SerialInv, CountsAgree, CodesAreDeleted
<1>8. ASSUME NEW r \in Reqs PROVE KnowsTheRow(r)' /\ KnowsTheCode(r)'
  <2>1. KnowsTheRow(r)'
    BY <1>1, <1>2, <1>3, <1>5 DEF SerialInv, KnowsTheRow
  <2>2. KnowsTheCode(r)'
    BY <1>1, <1>2, <1>4 DEF SerialInv, KnowsTheCode
  <2>3. QED
    BY <2>1, <2>2
<1>9. QED
  BY <1>6, <1>7, <1>8 DEF SerialInv

\* Every step of one request at a time is as the specification of the limiter, and the
\* promises about codes and verification, have it.
LEMMA SerialSteps ==
  ASSUME Faults = FALSE, \A q, r \in Reqs : q = r
  PROVE  IInv /\ SerialInv /\ [Next]_vars => SerialInv' /\ SerialStep
<1> SUFFICES ASSUME IInv, SerialInv, [Next]_vars PROVE SerialInv' /\ SerialStep
  OBVIOUS
<1>1. ASSUME NEW r \in Reqs, Progress(r) PROVE SerialInv' /\ SerialStep
  BY <1>1, PlainSteps, RegistrationSteps, ReadingSteps, CountingStep, AcceptingSteps,
     RedeemingSteps DEF Progress
<1>2. ASSUME NEW r \in Reqs,
             \/ Register(r) \/ Resend(r) \/ SignInMfa(r)
             \/ \E c \in Codes \cup {WrongCode} : PresentCode(r, c)
      PROVE SerialInv' /\ SerialStep
  BY <1>2, PlainSteps
<1>3. ASSUME NEW r \in Reqs
      PROVE ~RequestFails(r) /\ ~StoreFailureIgnored(r) /\ ~DelGivenUp(r)
            /\ ~TransactionRepeated(r)
  BY DEF RequestFails, StoreFailureIgnored, DelGivenUp, TransactionRepeated
<1>4. \A w \in late : FALSE
  BY DEF SerialInv, CodesAreDeleted
<1>5. CASE UNCHANGED vars
  <2>1. SerialStep
    BY <1>5, RowIsLeftAlone DEF IInv, vars
  <2>2. SerialInv'
    BY <1>5 DEF vars, SerialInv, CodesAreDeleted, CountsAgree, KnowsTheRow, KnowsTheCode
  <2>3. QED
    BY <2>1, <2>2
<1>6. QED
  BY <1>1, <1>2, <1>3, <1>4, <1>5, ClockStep DEF Next

\* Served one at a time by a Redis that answers, requests keep the promise of the
\* attempt limiter; no code obtains tokens twice; no verification deletes the code of
\* another; wrong codes stay below the limit; no registration takes a verification
\* back; and only the right code ends a lock before its time.
THEOREM SerialCodesKeepTheirPromises ==
  ASSUME Faults = FALSE, \A q, r \in Reqs : q = r
  PROVE  Spec => /\ LimiterPromise
                 /\ [](CodesAreOneTime /\ AnnouncedCodesSurvive /\ WrongCodesAreLimited)
                 /\ VerifiedStaysVerified
                 /\ LockRunsItsTime
<1>1. Init => Limiter!Init /\ SerialInv
  BY Constants DEF Init, Limiter!Init, SerialInv, CodesAreDeleted, CountsAgree, KnowsTheRow,
     KnowsTheCode, NoRow
<1>2. IInv /\ SerialInv /\ [Next]_vars => SerialInv' /\ SerialStep
  BY SerialSteps
<1>3. SerialInv => CodesAreOneTime /\ AnnouncedCodesSurvive /\ WrongCodesAreLimited
  BY DEF SerialInv, CodesAreDeleted, CountsAgree, CodesAreOneTime, AnnouncedCodesSurvive,
     WrongCodesAreLimited
<1>4. SerialStep => /\ [Limiter!Next]_<<row.failed, row.lock>>
                    /\ [row.verified => row'.verified]_vars
                    /\ [row.lock > 0 /\ row'.lock + 1 < row.lock
                          => \E r \in Reqs : pc[r] = "reset"]_vars
  BY DEF SerialStep
<1>5. QED
  BY <1>1, <1>2, <1>3, <1>4, OtpInvariant, PTL
     DEF Spec, LimiterPromise, Limiter!Spec, VerifiedStaysVerified, LockRunsItsTime
=============================================================================
