----------------------------- MODULE SerialProofs -----------------------------
(***************************************************************************)
(* SerialPromises of MCServices, for every value of the constants: served  *)
(* one at a time by a Redis that answers, the requests of the sessions and *)
(* of the codes do what the specifications that take them for one step     *)
(* say.  The proofs are those of RefreshSessionsProofs and                 *)
(* OtpVerificationProofs, for any component with one request; here they    *)
(* are applied to the two components of MCServices.                        *)
(***************************************************************************)
EXTENDS MCServices, TLAPS

SessionProofs == INSTANCE RefreshSessionsProofs
  WITH Reqs <- SerialReqs, Faults <- FALSE, late <- sessionLate, pc <- sessionPc,
       req <- sessionReq, owner <- owners, stored <- sessionStored, revoked <- sessionRevoked
CodeProofs == INSTANCE OtpVerificationProofs
  WITH Reqs <- SerialReqs, Codes <- OtpCodes, MaxFailed <- OtpMaxFailed, Faults <- FALSE,
       row <- otpRow, late <- otpLate, pc <- otpPc, req <- otpReq, stored <- otpStored

-----------------------------------------------------------------------------
(* The sessions of MCServices are those the theorem speaks of.               *)

\* The initial states.
LEMMA SameSessionInit == Sessions!Init <=> SessionProofs!Init
  BY DEF Sessions!Init, SessionProofs!Init, Sessions!Blank, SessionProofs!Blank

\* Sign-in, step by step.
LEMMA SameSignIns ==
  \A r \in SerialReqs :
    /\ \A u \in Users : Sessions!SignIn(r, u) <=> SessionProofs!SignIn(r, u)
    /\ Sessions!OpenSession(r) <=> SessionProofs!OpenSession(r)
    /\ Sessions!TrackSession(r) <=> SessionProofs!TrackSession(r)
    /\ Sessions!MintTokens(r) <=> SessionProofs!MintTokens(r)
<1> USE DEF Sessions!Goto, SessionProofs!Goto, Sessions!Finish, SessionProofs!Finish,
      Sessions!Blank, SessionProofs!Blank, Sessions!storeVars, SessionProofs!storeVars,
      Sessions!history, SessionProofs!history
<1>1. \A r \in SerialReqs, u \in Users : Sessions!SignIn(r, u) <=> SessionProofs!SignIn(r, u)
  BY DEF Sessions!SignIn, SessionProofs!SignIn, Sessions!FreshSids, SessionProofs!FreshSids,
     Sessions!FreshJtis, SessionProofs!FreshJtis
<1>2. \A r \in SerialReqs : Sessions!OpenSession(r) <=> SessionProofs!OpenSession(r)
  BY DEF Sessions!OpenSession, SessionProofs!OpenSession,
     Sessions!SetCurrentJti, SessionProofs!SetCurrentJti
<1>3. \A r \in SerialReqs : Sessions!TrackSession(r) <=> SessionProofs!TrackSession(r)
  BY DEF Sessions!TrackSession, SessionProofs!TrackSession,
     Sessions!AddSession, SessionProofs!AddSession
<1>4. \A r \in SerialReqs : Sessions!MintTokens(r) <=> SessionProofs!MintTokens(r)
  BY DEF Sessions!MintTokens, SessionProofs!MintTokens
<1>5. QED
  BY <1>1, <1>2, <1>3, <1>4

\* Refresh.
LEMMA SameRefreshes ==
  \A r \in SerialReqs :
    /\ \A t \in tokens : Sessions!PresentToken(r, t) <=> SessionProofs!PresentToken(r, t)
    /\ Sessions!GuardAccepts(r) <=> SessionProofs!GuardAccepts(r)
    /\ Sessions!LookupUser(r) <=> SessionProofs!LookupUser(r)
    /\ Sessions!RotateMatches(r) <=> SessionProofs!RotateMatches(r)
    /\ Sessions!RotateSet(r) <=> SessionProofs!RotateSet(r)
    /\ Sessions!RefreshRejected(r) <=> SessionProofs!RefreshRejected(r)
<1> USE DEF Sessions!Goto, SessionProofs!Goto, Sessions!Finish, SessionProofs!Finish,
      Sessions!Blank, SessionProofs!Blank, Sessions!storeVars, SessionProofs!storeVars,
      Sessions!history, SessionProofs!history, Sessions!Matches, SessionProofs!Matches
<1>1. \A r \in SerialReqs, t \in tokens :
        Sessions!PresentToken(r, t) <=> SessionProofs!PresentToken(r, t)
  BY DEF Sessions!PresentToken, SessionProofs!PresentToken
<1>2. \A r \in SerialReqs : Sessions!GuardAccepts(r) <=> SessionProofs!GuardAccepts(r)
  BY DEF Sessions!GuardAccepts, SessionProofs!GuardAccepts
<1>3. \A r \in SerialReqs : Sessions!LookupUser(r) <=> SessionProofs!LookupUser(r)
  BY DEF Sessions!LookupUser, SessionProofs!LookupUser,
     Sessions!FreshJtis, SessionProofs!FreshJtis
<1>4. \A r \in SerialReqs : Sessions!RotateMatches(r) <=> SessionProofs!RotateMatches(r)
  BY DEF Sessions!RotateMatches, SessionProofs!RotateMatches
<1>5. \A r \in SerialReqs : Sessions!RotateSet(r) <=> SessionProofs!RotateSet(r)
  BY DEF Sessions!RotateSet, SessionProofs!RotateSet,
     Sessions!SetCurrentJti, SessionProofs!SetCurrentJti
<1>6. \A r \in SerialReqs : Sessions!RefreshRejected(r) <=> SessionProofs!RefreshRejected(r)
  BY DEF Sessions!RefreshRejected, SessionProofs!RefreshRejected
<1>7. QED
  BY <1>1, <1>2, <1>3, <1>4, <1>5, <1>6

\* Logout from all devices.
LEMMA SameLogouts ==
  \A r \in SerialReqs :
    /\ \A u \in Users : Sessions!LogoutAll(r, u) <=> SessionProofs!LogoutAll(r, u)
    /\ Sessions!ListAndBegin(r) <=> SessionProofs!ListAndBegin(r)
    /\ \A s \in Sids : Sessions!RevokeSession(r, s) <=> SessionProofs!RevokeSession(r, s)
    /\ Sessions!UntrackSession(r) <=> SessionProofs!UntrackSession(r)
<1> USE DEF Sessions!Goto, SessionProofs!Goto, Sessions!Finish, SessionProofs!Finish,
      Sessions!Blank, SessionProofs!Blank, Sessions!storeVars, SessionProofs!storeVars,
      Sessions!history, SessionProofs!history
<1>1. \A r \in SerialReqs, u \in Users : Sessions!LogoutAll(r, u) <=> SessionProofs!LogoutAll(r, u)
  BY DEF Sessions!LogoutAll, SessionProofs!LogoutAll
<1>2. \A r \in SerialReqs : Sessions!ListAndBegin(r) <=> SessionProofs!ListAndBegin(r)
  BY DEF Sessions!ListAndBegin, SessionProofs!ListAndBegin,
     Sessions!ListSessions, SessionProofs!ListSessions
<1>3. \A r \in SerialReqs, s \in Sids :
        Sessions!RevokeSession(r, s) <=> SessionProofs!RevokeSession(r, s)
  BY DEF Sessions!RevokeSession, SessionProofs!RevokeSession,
     Sessions!RevokeKey, SessionProofs!RevokeKey,
     Sessions!WriteUnderWay, SessionProofs!WriteUnderWay
<1>4. \A r \in SerialReqs : Sessions!UntrackSession(r) <=> SessionProofs!UntrackSession(r)
  BY DEF Sessions!UntrackSession, SessionProofs!UntrackSession,
     Sessions!RemoveSession, SessionProofs!RemoveSession,
     Sessions!NextSession, SessionProofs!NextSession
<1>5. QED
  BY <1>1, <1>2, <1>3, <1>4

\* The next-state relations.
LEMMA SameSessionNext == Sessions!Next => SessionProofs!Next
<1> SUFFICES ASSUME Sessions!Next PROVE SessionProofs!Next
  OBVIOUS
<1>1. ASSUME NEW r \in SerialReqs, Sessions!Progress(r) PROVE SessionProofs!Next
  BY <1>1, SameSignIns, SameRefreshes, SameLogouts
     DEF Sessions!Progress, SessionProofs!Progress, SessionProofs!Next
<1>2. ASSUME NEW r \in SerialReqs, NEW u \in Users,
             Sessions!SignIn(r, u) \/ Sessions!LogoutAll(r, u)
      PROVE SessionProofs!Next
  BY <1>2, SameSignIns, SameLogouts DEF SessionProofs!Next
<1>3. ASSUME NEW r \in SerialReqs, NEW t \in tokens, Sessions!PresentToken(r, t)
      PROVE SessionProofs!Next
  BY <1>3, SameRefreshes DEF SessionProofs!Next
<1>4. ASSUME NEW r \in SerialReqs
      PROVE ~Sessions!RequestFails(r) /\ ~Sessions!SetWithoutReply(r) /\ ~Sessions!DelGivenUp(r)
  BY DEF Sessions!RequestFails, Sessions!SetWithoutReply, Sessions!DelGivenUp
<1>5. ASSUME NEW u \in Users, Sessions!IssueUnboundTokens(u) PROVE SessionProofs!Next
  <2>1. SessionProofs!IssueUnboundTokens(u)
    BY <1>5 DEF Sessions!IssueUnboundTokens, SessionProofs!IssueUnboundTokens,
       Sessions!storeVars, SessionProofs!storeVars, Sessions!history, SessionProofs!history
  <2>2. QED
    BY <2>1 DEF SessionProofs!Next
<1>6. ASSUME NEW w \in sessionLate, Sessions!LateArrives(w) \/ Sessions!LateIsLost(w)
      PROVE SessionProofs!Next
  <2>1. SessionProofs!LateArrives(w) \/ SessionProofs!LateIsLost(w)
    BY <1>6 DEF Sessions!LateArrives, SessionProofs!LateArrives,
       Sessions!LateIsLost, SessionProofs!LateIsLost,
       Sessions!SetCurrentJti, SessionProofs!SetCurrentJti,
       Sessions!RevokeKey, SessionProofs!RevokeKey,
       Sessions!WriteUnderWay, SessionProofs!WriteUnderWay,
       Sessions!AddSession, SessionProofs!AddSession,
       Sessions!RemoveSession, SessionProofs!RemoveSession,
       Sessions!history, SessionProofs!history
  <2>2. QED
    BY <2>1 DEF SessionProofs!Next
<1>7. CASE Sessions!Tick
  <2>1. SessionProofs!Tick
    BY <1>7 DEF Sessions!Tick, SessionProofs!Tick, Sessions!KeysPresent, SessionProofs!KeysPresent,
       Sessions!Decrement, SessionProofs!Decrement, Sessions!history, SessionProofs!history
  <2>2. QED
    BY <2>1 DEF SessionProofs!Next
<1>8. QED
  BY <1>1, <1>2, <1>3, <1>4, <1>5, <1>6, <1>7 DEF Sessions!Next

\* The promise of the atomic store.
LEMMA SameStorePromise == SessionProofs!AtomicStorePromise => Sessions!AtomicStorePromise
<1>1. SessionProofs!Store!Init => Sessions!Store!Init
  BY DEF Sessions!Store!Init, SessionProofs!Store!Init
<1>2. [SessionProofs!Store!AtomicNext]_(SessionProofs!Store!storeVars)
        => [Sessions!Store!AtomicNext]_(Sessions!Store!storeVars)
  BY DEF Sessions!Store!AtomicNext, SessionProofs!Store!AtomicNext,
     Sessions!Store!storeVars, SessionProofs!Store!storeVars,
     Sessions!Store!Open, SessionProofs!Store!Open,
     Sessions!Store!Rotate, SessionProofs!Store!Rotate,
     Sessions!Store!Renew, SessionProofs!Store!Renew,
     Sessions!Store!Drop, SessionProofs!Store!Drop
<1>3. QED
  BY <1>1, <1>2, PTL
     DEF Sessions!AtomicStorePromise, SessionProofs!AtomicStorePromise,
         Sessions!Store!AtomicSpec, SessionProofs!Store!AtomicSpec
-----------------------------------------------------------------------------
(* The codes of MCServices are those the theorem speaks of.                  *)

\* The initial states.
LEMMA SameCodeInit == Otps!Init <=> CodeProofs!Init
  BY DEF Otps!Init, CodeProofs!Init, Otps!Blank, CodeProofs!Blank, Otps!NoRow, CodeProofs!NoRow

\* The steps by which a request comes to its end.
LEMMA SameCodeProgress == \A r \in SerialReqs : Otps!Progress(r) => CodeProofs!Progress(r)
<1> SUFFICES ASSUME NEW r \in SerialReqs, Otps!Progress(r) PROVE CodeProofs!Progress(r)
  OBVIOUS
<1> USE DEF Otps!Goto, CodeProofs!Goto, Otps!Finish, CodeProofs!Finish, Otps!Blank, CodeProofs!Blank,
      Otps!NoRow, CodeProofs!NoRow, Otps!keyVars, CodeProofs!keyVars,
      Otps!codeHistory, CodeProofs!codeHistory
<1>1. Otps!RegisterCheck(r) => CodeProofs!RegisterCheck(r)
  BY DEF Otps!RegisterCheck, CodeProofs!RegisterCheck
<1>2. Otps!RegisterFind(r) => CodeProofs!RegisterFind(r)
  BY DEF Otps!RegisterFind, CodeProofs!RegisterFind
<1>3. Otps!RegisterWrite(r) => CodeProofs!RegisterWrite(r)
  BY DEF Otps!RegisterWrite, CodeProofs!RegisterWrite, Otps!InsertRefused,
         CodeProofs!InsertRefused, Otps!RegisteredRow, CodeProofs!RegisteredRow,
         Otps!IssueCode, CodeProofs!IssueCode
<1>4. Otps!ResendCheck(r) => CodeProofs!ResendCheck(r)
  BY DEF Otps!ResendCheck, CodeProofs!ResendCheck, Otps!IssueCode, CodeProofs!IssueCode
<1>5. Otps!StoreCode(r) => CodeProofs!StoreCode(r)
  BY DEF Otps!StoreCode, CodeProofs!StoreCode, Otps!SetOtp, CodeProofs!SetOtp
<1>6. Otps!SendEmail(r) => CodeProofs!SendEmail(r)
  BY DEF Otps!SendEmail, CodeProofs!SendEmail
<1>7. Otps!CheckLock(r) => CodeProofs!CheckLock(r)
  BY DEF Otps!CheckLock, CodeProofs!CheckLock
<1>8. Otps!FetchMatches(r) => CodeProofs!FetchMatches(r)
  BY DEF Otps!FetchMatches, CodeProofs!FetchMatches
<1>9. Otps!FetchFails(r) => CodeProofs!FetchFails(r)
  BY DEF Otps!FetchFails, CodeProofs!FetchFails
<1>10. Otps!CountFailure(r) => CodeProofs!CountFailure(r)
  BY DEF Otps!CountFailure, CodeProofs!CountFailure, Otps!Bump, CodeProofs!Bump,
         Otps!UpdateOtpAttempts, CodeProofs!UpdateOtpAttempts
<1>11. Otps!ResetAttempts(r) => CodeProofs!ResetAttempts(r)
  BY DEF Otps!ResetAttempts, CodeProofs!ResetAttempts, Otps!UpdateOtpAttempts,
         CodeProofs!UpdateOtpAttempts
<1>12. Otps!MarkVerified(r) => CodeProofs!MarkVerified(r)
  BY DEF Otps!MarkVerified, CodeProofs!MarkVerified
<1>13. Otps!DeleteCode(r) => CodeProofs!DeleteCode(r)
  BY DEF Otps!DeleteCode, CodeProofs!DeleteCode, Otps!DelOtp, CodeProofs!DelOtp
<1>14. Otps!IssueTokens(r) => CodeProofs!IssueTokens(r)
  BY DEF Otps!IssueTokens, CodeProofs!IssueTokens
<1>15. Otps!Rejected(r) => CodeProofs!Rejected(r)
  BY DEF Otps!Rejected, CodeProofs!Rejected, Otps!InsertRefused, CodeProofs!InsertRefused
<1>16. QED
  BY <1>1, <1>2, <1>3, <1>4, <1>5, <1>6, <1>7, <1>8, <1>9, <1>10, <1>11, <1>12,
     <1>13, <1>14, <1>15
     DEF Otps!Progress, CodeProofs!Progress

\* The steps by which one begins.
LEMMA SameCodeRequests ==
  \A r \in SerialReqs :
    /\ Otps!Register(r) => CodeProofs!Register(r)
    /\ Otps!Resend(r) => CodeProofs!Resend(r)
    /\ Otps!SignInMfa(r) => CodeProofs!SignInMfa(r)
    /\ \A c \in OtpCodes \cup {WrongCode} : Otps!PresentCode(r, c) => CodeProofs!PresentCode(r, c)
  BY DEF Otps!Register, CodeProofs!Register, Otps!Resend, CodeProofs!Resend,
         Otps!SignInMfa, CodeProofs!SignInMfa, Otps!PresentCode, CodeProofs!PresentCode,
         Otps!Goto, CodeProofs!Goto, Otps!IssueCode, CodeProofs!IssueCode, Otps!NoRow,
         CodeProofs!NoRow, Otps!keyVars, CodeProofs!keyVars, Otps!codeHistory,
         CodeProofs!codeHistory

\* The next-state relations.
LEMMA SameCodeNext == Otps!Next => CodeProofs!Next
<1> SUFFICES ASSUME Otps!Next PROVE CodeProofs!Next
  OBVIOUS
<1>1. ASSUME NEW r \in SerialReqs, Otps!Progress(r) PROVE CodeProofs!Next
  BY <1>1, SameCodeProgress DEF CodeProofs!Next
<1>2. ASSUME NEW r \in SerialReqs,
             \/ Otps!Register(r) \/ Otps!Resend(r) \/ Otps!SignInMfa(r)
             \/ \E c \in OtpCodes \cup {WrongCode} : Otps!PresentCode(r, c)
      PROVE CodeProofs!Next
  BY <1>2, SameCodeRequests DEF CodeProofs!Next
<1>3. ASSUME NEW r \in SerialReqs
      PROVE ~Otps!RequestFails(r) /\ ~Otps!StoreFailureIgnored(r) /\ ~Otps!DelGivenUp(r)
            /\ ~Otps!TransactionRepeated(r)
  BY DEF Otps!RequestFails, Otps!StoreFailureIgnored, Otps!DelGivenUp, Otps!TransactionRepeated
<1>4. ASSUME NEW w \in otpLate, Otps!LateArrives(w) \/ Otps!LateIsLost(w) PROVE CodeProofs!Next
  <2>1. CodeProofs!LateArrives(w) \/ CodeProofs!LateIsLost(w)
    BY <1>4
       DEF Otps!LateArrives, CodeProofs!LateArrives, Otps!LateIsLost,
           CodeProofs!LateIsLost, Otps!SetOtp, CodeProofs!SetOtp, Otps!DelOtp,
           CodeProofs!DelOtp, Otps!codeHistory, CodeProofs!codeHistory
  <2>2. QED
    BY <2>1 DEF CodeProofs!Next
<1>5. CASE Otps!Tick
  <2>1. CodeProofs!Tick
    BY <1>5 DEF Otps!Tick, CodeProofs!Tick, Otps!Decrement, CodeProofs!Decrement,
       Otps!codeHistory, CodeProofs!codeHistory
  <2>2. QED
    BY <2>1 DEF CodeProofs!Next
<1>6. QED
  BY <1>1, <1>2, <1>3, <1>4, <1>5 DEF Otps!Next

\* The promise of the attempt limiter.
LEMMA SameLimiterPromise == CodeProofs!LimiterPromise => Otps!LimiterPromise
<1>1. CodeProofs!Limiter!Init => Otps!Limiter!Init
  BY DEF Otps!Limiter!Init, CodeProofs!Limiter!Init
<1>2. CodeProofs!Limiter!Next => Otps!Limiter!Next
  BY DEF Otps!Limiter!Next, CodeProofs!Limiter!Next,
     Otps!Limiter!CountWrong, CodeProofs!Limiter!CountWrong,
     Otps!Limiter!AcceptRight, CodeProofs!Limiter!AcceptRight,
     Otps!Limiter!Minute, CodeProofs!Limiter!Minute,
     Otps!Limiter!Bump, CodeProofs!Limiter!Bump
<1>3. QED
  BY <1>1, <1>2, PTL
     DEF Otps!LimiterPromise, CodeProofs!LimiterPromise,
         Otps!Limiter!Spec, CodeProofs!Limiter!Spec
-----------------------------------------------------------------------------
\* While its part is not the one that moves, a component stutters.
LEMMA SerialPartsMove ==
  [Next]_mcVars => [Sessions!Next]_sessionVars /\ [Otps!Next]_otpVars
  BY DEF Next, mcVars, A, B, C, D, E

\* The sessions and the codes of MCServices behave as RefreshSessionsProofs and
\* OtpVerificationProofs have them.
LEMMA SerialSpecs == Spec => SessionProofs!Spec /\ CodeProofs!Spec
<1>1. Init => SessionProofs!Init /\ CodeProofs!Init
  BY SameSessionInit, SameCodeInit DEF Init
<1>2. [Next]_mcVars => [SessionProofs!Next]_(SessionProofs!vars) /\ [CodeProofs!Next]_(CodeProofs!vars)
  <2>1. UNCHANGED sessionVars => UNCHANGED SessionProofs!vars
    BY DEF sessionVars, SessionProofs!vars
  <2>2. UNCHANGED otpVars => UNCHANGED CodeProofs!vars
    BY DEF otpVars, CodeProofs!vars
  <2>3. QED
    BY <2>1, <2>2, SerialPartsMove, SameSessionNext, SameCodeNext
<1>3. QED
  BY <1>1, <1>2, PTL DEF Spec, SessionProofs!Spec, CodeProofs!Spec

\* Served one at a time by a Redis that answers, requests do what the specifications
\* that take them for one step say: a refresh compares and replaces at once, wrong codes
\* are counted up to a lock that runs its time, a code is redeemed once, and none is
\* deleted for another (rotateIfMatches, verify-otp, registration).
THEOREM SerialPromisesHold == Spec => SerialPromises
<1>1. SessionProofs!Spec => SessionProofs!AtomicStorePromise
  BY SerialAssumption, SessionProofs!SerialSessionsAreAtomic
<1>2. CodeProofs!Spec => /\ CodeProofs!LimiterPromise
                        /\ [](CodeProofs!CodesAreOneTime /\ CodeProofs!AnnouncedCodesSurvive
                                /\ CodeProofs!WrongCodesAreLimited)
                        /\ CodeProofs!VerifiedStaysVerified
                        /\ CodeProofs!LockRunsItsTime
  BY SerialAssumption, CodeProofs!SerialCodesKeepTheirPromises
<1>3. /\ CodeProofs!CodesAreOneTime => Otps!CodesAreOneTime
      /\ CodeProofs!AnnouncedCodesSurvive => Otps!AnnouncedCodesSurvive
      /\ CodeProofs!WrongCodesAreLimited => Otps!WrongCodesAreLimited
  BY DEF CodeProofs!CodesAreOneTime, Otps!CodesAreOneTime,
     CodeProofs!AnnouncedCodesSurvive, Otps!AnnouncedCodesSurvive,
     CodeProofs!WrongCodesAreLimited, Otps!WrongCodesAreLimited
<1>4. CodeProofs!VerifiedStaysVerified => Otps!VerifiedStaysVerified
  <2>1. [otpRow.verified => otpRow'.verified]_(CodeProofs!vars)
          => [otpRow.verified => otpRow'.verified]_(Otps!vars)
    BY DEF CodeProofs!vars, Otps!vars
  <2>2. QED
    BY <2>1, PTL DEF CodeProofs!VerifiedStaysVerified, Otps!VerifiedStaysVerified
<1>5. CodeProofs!LockRunsItsTime => Otps!LockRunsItsTime
  <2>1. [otpRow.lock > 0 /\ otpRow'.lock + 1 < otpRow.lock
           => \E r \in SerialReqs : otpPc[r] = "reset"]_(CodeProofs!vars)
          => [otpRow.lock > 0 /\ otpRow'.lock + 1 < otpRow.lock
                => \E r \in SerialReqs : otpPc[r] = "reset"]_(Otps!vars)
    BY DEF CodeProofs!vars, Otps!vars
  <2>2. QED
    BY <2>1, PTL DEF CodeProofs!LockRunsItsTime, Otps!LockRunsItsTime
<1>6. QED
  BY <1>1, <1>2, <1>3, <1>4, <1>5, SerialSpecs, SameStorePromise, SameLimiterPromise, PTL
     DEF SerialPromises
=============================================================================
