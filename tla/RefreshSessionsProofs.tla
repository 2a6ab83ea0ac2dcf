------------------------ MODULE RefreshSessionsProofs ------------------------
(***************************************************************************)
(* Proofs about RefreshSessions, for every value of its constants.  The    *)
(* argument: while the SET of a jti can still happen (its request has not  *)
(* issued the token, or has given the write up) no token carries that jti; *)
(* a jti becomes spent only by being presented in a token; so no SET can   *)
(* write a spent jti.  IInv of RefreshSessions says this, one lemma per    *)
(* action shows it is kept, and the theorems follow from it.               *)
(***************************************************************************)
EXTENDS RefreshSessions, TLAPS

\* At each of its steps a request's locals are proper identifiers.
LEMMA RequestTypes ==
  ASSUME TypeOK, RequestsWellFormed, TokensWellFormed, NEW r \in Reqs
  PROVE  /\ req[r] \in Request
         /\ pc[r] \in {"guard", "lookup", "match", "rotate", "open", "track", "mint"} => req[r].sid \in Sids
         /\ pc[r] \in {"guard", "lookup", "match", "rotate"} => req[r].old \in Jtis
         /\ pc[r] \in {"match", "rotate", "open", "track", "mint"} => req[r].new \in Jtis
         /\ pc[r] # "idle" => req[r].user \in Users
         /\ pc[r] = "untrack" => req[r].sid \in Sids
  BY DEF TypeOK, RequestsWellFormed, TokensWellFormed, Request

\* The locals of an idle request are well typed.
LEMMA BlankIsRequest == Blank \in Request
  BY DEF Blank, Request

\* What the steps of the logout-all loop do to the requests.
LogoutMoves(r) ==
  /\ pc[r] \in {"list", "revoke", "untrack"}
  /\ pc' \in [Reqs -> Steps]
  /\ req' \in [Reqs -> Request]
  /\ \A q \in Reqs \ {r} : pc'[q] = pc[q] /\ req'[q] = req[q]
  /\ \/ pc'[r] = "idle" /\ req'[r] = Blank
     \/ /\ pc'[r] \in {"revoke", "untrack"}
        /\ req'[r].user = req[r].user
        /\ req'[r].new = NoJti
        /\ pc'[r] = "untrack" => req'[r].sid \in req'[r].todo
        /\ \A s \in req'[r].todo : owner[s] = req[r].user

\* The end of a turn of the logout-all loop is one of its moves.
LEMMA NextSessionMoves ==
  ASSUME IInv, NEW r \in Reqs, pc[r] = "untrack", NextSession(r)
  PROVE  LogoutMoves(r)
<1>1. CASE req[r].todo \ {req[r].sid} = {}
  BY <1>1, BlankIsRequest DEF LogoutMoves, NextSession, Finish, Goto, IInv, TypeOK, Steps
<1>2. CASE req[r].todo \ {req[r].sid} # {}
  <2>1. req[r] \in Request
    BY DEF IInv, TypeOK
  <2> DEFINE next == [req[r] EXCEPT !.todo = req[r].todo \ {req[r].sid}]
  <2>2. /\ next \in Request
        /\ next.user = req[r].user /\ next.new = req[r].new
        /\ next.todo = req[r].todo \ {req[r].sid}
    BY <2>1 DEF Request
  <2>3. /\ req' = [req EXCEPT ![r] = next]
        /\ pc' = [pc EXCEPT ![r] = "revoke"]
    BY <1>2 DEF NextSession, Goto
  <2>4. req[r].new = NoJti /\ \A s \in req[r].todo \cap Sids : owner[s] = req[r].user
    BY DEF IInv, RequestsWellFormed, KeysBelongToOwner
  <2> HIDE DEF next
  <2>5. QED
    BY <2>1, <2>2, <2>3, <2>4 DEF LogoutMoves, IInv, TypeOK, Steps, Request
<1>3. QED
  BY <1>1, <1>2

\* The moves of the logout-all loop keep the requests well formed.
LEMMA LogoutMovesInv ==
  ASSUME IInv, NEW r \in Reqs, LogoutMoves(r), UNCHANGED <<tokens, owner, gen, stored>>
  PROVE  RequestsWellFormed'
<1> SUFFICES ASSUME NEW q \in Reqs PROVE RequestsWellFormed!(q)'
  BY DEF RequestsWellFormed
<1>1. CASE q = r
  BY <1>1 DEF LogoutMoves, IInv, RequestsWellFormed
<1>2. CASE q # r
  BY <1>2 DEF LogoutMoves, IInv, RequestsWellFormed
<1>3. QED
  BY <1>1, <1>2

-----------------------------------------------------------------------------
\* A sign-in takes a sid and a jti that occur nowhere yet.
LEMMA SignInInv ==
  ASSUME IInv, NEW r \in Reqs, NEW u \in Users, SignIn(r, u)
  PROVE  IInv'
<1> USE NullAssumption, RefreshTtlAssumption DEF SignIn, Goto, FreshSids, FreshJtis, IInv,
      storeVars, history
<1>0. PICK s \in Sids, j \in Jtis :
        /\ owner[s] = NoUser /\ gen[j] = NoSid
        /\ req' = [req EXCEPT ![r] = [user |-> u, sid |-> s, old |-> NoJti, new |-> j, todo |-> {}]]
        /\ owner' = [owner EXCEPT ![s] = u]
        /\ gen' = [gen EXCEPT ![j] = s]
  OBVIOUS
<1>1. TypeOK'
  BY <1>0 DEF TypeOK, Request, Steps
<1>2. RequestsWellFormed'
  BY <1>0 DEF RequestsWellFormed, TypeOK, Steps
<1>3. LateWritesWellFormed'
  BY <1>0 DEF LateWritesWellFormed, TypeOK, Write
<1>4. UnissuedJtisAreUnique'
  <2>1. ~InToken(j) /\ \A w \in late : w.op = "setAllow" => w.jti # j
    BY <1>0
       DEF InToken, TypeOK, IssuedTokensAreBacked, TokensWellFormed, LateWritesWellFormed,
           Write
  <2>2. \A q \in Reqs : req[q].new # j
    BY <1>0 DEF RequestsWellFormed, TypeOK, Steps, Blank
  <2>3. QED
    BY <1>0, <2>1, <2>2 DEF UnissuedJtisAreUnique, InToken
<1>5. CleanlyRevokedIsQuiet'
  BY <1>0 DEF CleanlyRevokedIsQuiet, WriteUnderWay, TypeOK
<1>6. IssuedTokensAreBacked'
  BY <1>0 DEF IssuedTokensAreBacked, TypeOK, Token
<1>7. KeysBelongToOwner'
  <2>1. \A q \in Reqs : s \notin req[q].todo
    <3> SUFFICES ASSUME NEW q \in Reqs, s \in req[q].todo PROVE FALSE
      OBVIOUS
    <3>1. pc[q] # "idle"
      BY DEF RequestsWellFormed, Blank
    <3>2. QED
      BY <1>0, <3>1, RequestTypes DEF KeysBelongToOwner
  <2>2. \A x \in Users : ~(indexTtl[x][s] > 0)
    BY <1>0 DEF KeysBelongToOwner
  <2>3. \A t \in Sids : allow'[t] # NoJti => gen'[allow'[t]] = t
    BY <1>0 DEF KeysBelongToOwner, TypeOK
  <2>4. \A t \in Sids, x \in Users : indexTtl'[x][t] > 0 => owner'[t] = x
    BY <1>0, <2>2 DEF KeysBelongToOwner
  <2>5. \A t \in Sids, q \in Reqs : t \in req'[q].todo => owner'[t] = req'[q].user
    BY <1>0, <2>1 DEF KeysBelongToOwner
  <2>6. QED
    BY <2>3, <2>4, <2>5 DEF KeysBelongToOwner
<1>8. TokensWellFormed' /\ SpentIsIssued' /\ SpentNeverAccepted'
  BY DEF TokensWellFormed, SpentIsIssued, InToken, SpentNeverAccepted
<1>9. QED
  BY <1>1, <1>2, <1>3, <1>4, <1>5, <1>6, <1>7, <1>8

\* The first SET of a session writes a jti that is in no token, so not spent.
LEMMA OpenSessionInv ==
  ASSUME IInv, NEW r \in Reqs, OpenSession(r)
  PROVE  IInv'
<1> USE NullAssumption, RefreshTtlAssumption DEF OpenSession, Goto, SetCurrentJti, IInv,
      storeVars, history
<1>1. TypeOK'
  BY RequestTypes DEF TypeOK, Steps
<1>2. RequestsWellFormed'
  BY DEF RequestsWellFormed, TypeOK
<1>3. SpentIsIssued'
  BY DEF SpentIsIssued, InToken
<1>4. CleanlyRevokedIsQuiet'
  BY DEF CleanlyRevokedIsQuiet, WriteUnderWay, TypeOK
<1>5. SpentNeverAccepted'
  BY DEF SpentNeverAccepted, TypeOK, SpentIsIssued, UnissuedJtisAreUnique
<1>6. IssuedTokensAreBacked'
  BY DEF IssuedTokensAreBacked, TypeOK
<1>7. KeysBelongToOwner'
  BY DEF KeysBelongToOwner, RequestsWellFormed
<1>8. LateWritesWellFormed' /\ UnissuedJtisAreUnique' /\ TokensWellFormed'
  BY DEF LateWritesWellFormed, UnissuedJtisAreUnique, InToken, TokensWellFormed
<1>9. QED
  BY <1>1, <1>2, <1>3, <1>4, <1>5, <1>6, <1>7, <1>8

\* The index key is written under the user who signs in.
LEMMA TrackSessionInv ==
  ASSUME IInv, NEW r \in Reqs, TrackSession(r)
  PROVE  IInv'
<1> USE NullAssumption, RefreshTtlAssumption DEF TrackSession, Goto, AddSession, IInv,
      storeVars, history
<1>1. TypeOK'
  BY RequestTypes DEF TypeOK, Steps
<1>2. RequestsWellFormed'
  BY DEF RequestsWellFormed, TypeOK
<1>3. CleanlyRevokedIsQuiet'
  BY DEF CleanlyRevokedIsQuiet, WriteUnderWay, TypeOK
<1>4. KeysBelongToOwner'
  BY DEF KeysBelongToOwner, RequestsWellFormed
<1>5. /\ LateWritesWellFormed'
      /\ UnissuedJtisAreUnique'
      /\ TokensWellFormed'
      /\ SpentIsIssued'
      /\ SpentNeverAccepted'
      /\ IssuedTokensAreBacked'
  BY DEF LateWritesWellFormed, UnissuedJtisAreUnique, InToken, TokensWellFormed,
     SpentIsIssued, InToken, SpentNeverAccepted, IssuedTokensAreBacked
<1>6. QED
  BY <1>1, <1>2, <1>3, <1>4, <1>5

\* Only here a jti enters a token; its request forgets it in the same step.
LEMMA MintTokensInv ==
  ASSUME IInv, NEW r \in Reqs, MintTokens(r)
  PROVE  IInv'
<1> USE NullAssumption, RefreshTtlAssumption DEF MintTokens, Goto, Finish, IInv,
      storeVars, history
<1>1. TypeOK'
  BY RequestTypes DEF TypeOK, Request, Steps, Blank, Token
<1>2. RequestsWellFormed'
  BY DEF RequestsWellFormed, TypeOK
<1>3. LateWritesWellFormed'
  BY DEF LateWritesWellFormed, TypeOK
<1>4. UnissuedJtisAreUnique'
  BY DEF UnissuedJtisAreUnique, RequestsWellFormed, TypeOK, InToken, Blank
<1>5. TokensWellFormed'
  BY RequestTypes DEF TokensWellFormed
<1>6. SpentIsIssued'
  BY DEF SpentIsIssued, InToken
<1>7. CleanlyRevokedIsQuiet'
  BY DEF CleanlyRevokedIsQuiet, WriteUnderWay, TypeOK
<1>8. IssuedTokensAreBacked'
  BY DEF IssuedTokensAreBacked, RequestsWellFormed, UnissuedJtisAreUnique, InToken
<1>9. KeysBelongToOwner'
  BY DEF KeysBelongToOwner, TypeOK, Blank
<1>10. SpentNeverAccepted'
  BY DEF SpentNeverAccepted
<1>11. QED
  BY <1>1, <1>2, <1>3, <1>4, <1>5, <1>6, <1>7, <1>8, <1>9, <1>10

\* Tokens without a session touch nothing the invariant speaks of.
LEMMA IssueUnboundTokensInv ==
  ASSUME IInv, NEW u \in Users, IssueUnboundTokens(u)
  PROVE  IInv'
<1> USE NullAssumption, RefreshTtlAssumption DEF IssueUnboundTokens, IInv, storeVars, history
<1>1. TypeOK'
  BY DEF TypeOK, Token
<1>2. RequestsWellFormed'
  BY DEF RequestsWellFormed
<1>3. LateWritesWellFormed'
  BY DEF LateWritesWellFormed, TypeOK
<1>4. UnissuedJtisAreUnique'
  BY DEF UnissuedJtisAreUnique, InToken, LateWritesWellFormed
<1>5. TokensWellFormed'
  BY DEF TokensWellFormed
<1>6. SpentIsIssued'
  BY DEF SpentIsIssued, InToken
<1>7. IssuedTokensAreBacked'
  BY DEF IssuedTokensAreBacked, TypeOK
<1>8. CleanlyRevokedIsQuiet' /\ SpentNeverAccepted' /\ KeysBelongToOwner'
  BY DEF CleanlyRevokedIsQuiet, WriteUnderWay, SpentNeverAccepted, KeysBelongToOwner
<1>9. QED
  BY <1>1, <1>2, <1>3, <1>4, <1>5, <1>6, <1>7, <1>8

\* A presented token brings its session and its user into the request.
LEMMA PresentTokenInv ==
  ASSUME IInv, NEW r \in Reqs, NEW t \in tokens, PresentToken(r, t)
  PROVE  IInv'
<1> USE NullAssumption, RefreshTtlAssumption DEF PresentToken, Goto, IInv, storeVars, history
<1>1. TypeOK'
  BY DEF TypeOK, Request, Steps, Blank, Token
<1>2. RequestsWellFormed'
  BY DEF RequestsWellFormed, TypeOK, Blank, Token
<1>3. UnissuedJtisAreUnique'
  BY DEF UnissuedJtisAreUnique, InToken, Blank
<1>4. CleanlyRevokedIsQuiet'
  BY DEF CleanlyRevokedIsQuiet, WriteUnderWay, TypeOK
<1>5. KeysBelongToOwner'
  BY DEF KeysBelongToOwner, TypeOK, Blank
<1>6. /\ LateWritesWellFormed'
      /\ TokensWellFormed'
      /\ SpentIsIssued'
      /\ SpentNeverAccepted'
      /\ IssuedTokensAreBacked'
  BY DEF LateWritesWellFormed, TokensWellFormed, SpentIsIssued, InToken,
     SpentNeverAccepted, IssuedTokensAreBacked
<1>7. QED
  BY <1>1, <1>2, <1>3, <1>4, <1>5, <1>6

\* The guard's GET only moves the request on.
LEMMA GuardAcceptsInv ==
  ASSUME IInv, NEW r \in Reqs, GuardAccepts(r)
  PROVE  IInv'
<1> USE NullAssumption, RefreshTtlAssumption DEF GuardAccepts, Goto, Matches, IInv,
      storeVars, history
<1>1. TypeOK'
  BY DEF TypeOK, Steps
<1>2. RequestsWellFormed'
  BY DEF RequestsWellFormed, TypeOK
<1>3. CleanlyRevokedIsQuiet'
  BY DEF CleanlyRevokedIsQuiet, WriteUnderWay, TypeOK
<1>4. /\ LateWritesWellFormed'
      /\ UnissuedJtisAreUnique'
      /\ TokensWellFormed'
      /\ SpentIsIssued'
      /\ SpentNeverAccepted'
      /\ IssuedTokensAreBacked'
      /\ KeysBelongToOwner'
  BY DEF LateWritesWellFormed, UnissuedJtisAreUnique, InToken, TokensWellFormed,
     SpentIsIssued, InToken, SpentNeverAccepted, IssuedTokensAreBacked, KeysBelongToOwner
<1>5. QED
  BY <1>1, <1>2, <1>3, <1>4

\* The next jti occurs nowhere yet.
LEMMA LookupUserInv ==
  ASSUME IInv, NEW r \in Reqs, LookupUser(r)
  PROVE  IInv'
<1> USE NullAssumption, RefreshTtlAssumption DEF LookupUser, Goto, FreshJtis, IInv,
      storeVars, history
<1>0. PICK j \in Jtis : /\ gen[j] = NoSid
                        /\ req' = [req EXCEPT ![r] = [req[r] EXCEPT !.new = j]]
                        /\ gen' = [gen EXCEPT ![j] = req[r].sid]
  OBVIOUS
<1>a. /\ req' \in [Reqs -> Request]
      /\ req'[r].new = j
      /\ req'[r].sid = req[r].sid /\ req'[r].old = req[r].old
      /\ req'[r].user = req[r].user /\ req'[r].todo = req[r].todo
      /\ \A q \in Reqs \ {r} : req'[q] = req[q]
  <2>1. req[r] \in Request
    BY DEF TypeOK
  <2> DEFINE next == [req[r] EXCEPT !.new = j]
  <2>2. /\ next \in Request /\ next.new = j /\ next.sid = req[r].sid /\ next.old = req[r].old
        /\ next.user = req[r].user /\ next.todo = req[r].todo
    BY <2>1, <1>0 DEF Request
  <2>3. req' = [req EXCEPT ![r] = next] /\ req \in [Reqs -> Request]
    BY <1>0 DEF TypeOK
  <2> HIDE DEF next
  <2>4. QED
    BY <2>2, <2>3
<1>1. TypeOK'
  BY <1>0, <1>a DEF TypeOK, Request, Steps
<1>2. RequestsWellFormed'
  BY <1>0 DEF RequestsWellFormed, TypeOK
<1>3. LateWritesWellFormed'
  BY <1>0 DEF LateWritesWellFormed, TypeOK, Write
<1>4. UnissuedJtisAreUnique'
  <2>1. ~InToken(j) /\ \A w \in late : w.op = "setAllow" => w.jti # j
    BY <1>0
       DEF InToken, TypeOK, IssuedTokensAreBacked, TokensWellFormed, LateWritesWellFormed,
           Write
  <2>2. \A q \in Reqs : req[q].new # j
    BY <1>0, RequestTypes DEF RequestsWellFormed, TypeOK, Steps, Blank
  <2>3. QED
    BY <1>a, <2>1, <2>2 DEF UnissuedJtisAreUnique, InToken
<1>5. CleanlyRevokedIsQuiet'
  BY <1>0 DEF CleanlyRevokedIsQuiet, WriteUnderWay
<1>6. IssuedTokensAreBacked'
  BY <1>0 DEF IssuedTokensAreBacked
<1>7. KeysBelongToOwner'
  BY <1>0 DEF KeysBelongToOwner
<1>8. TokensWellFormed' /\ SpentIsIssued' /\ SpentNeverAccepted'
  BY DEF TokensWellFormed, SpentIsIssued, InToken, SpentNeverAccepted
<1>9. QED
  BY <1>1, <1>2, <1>3, <1>4, <1>5, <1>6, <1>7, <1>8

\* A match proves the session open: it was not cleanly revoked.
LEMMA RotateMatchesInv ==
  ASSUME IInv, NEW r \in Reqs, RotateMatches(r)
  PROVE  IInv'
<1> USE NullAssumption, RefreshTtlAssumption DEF RotateMatches, Goto, Matches, IInv,
      storeVars, history
<1>1. TypeOK'
  BY DEF TypeOK, Steps
<1>2. RequestsWellFormed'
  BY DEF RequestsWellFormed, TypeOK
<1>3. CleanlyRevokedIsQuiet'
  BY RequestTypes DEF CleanlyRevokedIsQuiet, WriteUnderWay
<1>4. /\ LateWritesWellFormed'
      /\ UnissuedJtisAreUnique'
      /\ TokensWellFormed'
      /\ SpentIsIssued'
      /\ SpentNeverAccepted'
      /\ IssuedTokensAreBacked'
      /\ KeysBelongToOwner'
  BY DEF LateWritesWellFormed, UnissuedJtisAreUnique, InToken, TokensWellFormed,
     SpentIsIssued, InToken, SpentNeverAccepted, IssuedTokensAreBacked, KeysBelongToOwner
<1>5. QED
  BY <1>1, <1>2, <1>3, <1>4

\* The SET of a rotation: the written jti is in no token, so it is not spent,
\* and no other session accepts the jti that becomes spent.
LEMMA RotateSetInv ==
  ASSUME IInv, NEW r \in Reqs, RotateSet(r)
  PROVE  IInv'
<1> USE NullAssumption, RefreshTtlAssumption DEF RotateSet, Goto, SetCurrentJti, IInv,
      storeVars, history
<1>1. TypeOK'
  BY RequestTypes DEF TypeOK, Steps
<1>2. RequestsWellFormed'
  BY DEF RequestsWellFormed, TypeOK, IssuedTokensAreBacked
<1>3. SpentIsIssued'
  BY DEF SpentIsIssued, RequestsWellFormed, InToken
<1>4. CleanlyRevokedIsQuiet'
  BY DEF CleanlyRevokedIsQuiet, WriteUnderWay, TypeOK
<1>5. SpentNeverAccepted'
  BY DEF SpentNeverAccepted, TypeOK, Token, RequestsWellFormed, UnissuedJtisAreUnique,
         SpentIsIssued, InToken, IssuedTokensAreBacked, KeysBelongToOwner
<1>6. IssuedTokensAreBacked'
  BY DEF IssuedTokensAreBacked, TypeOK
<1>7. KeysBelongToOwner'
  BY DEF KeysBelongToOwner, RequestsWellFormed
<1>8. LateWritesWellFormed' /\ UnissuedJtisAreUnique' /\ TokensWellFormed'
  BY DEF LateWritesWellFormed, UnissuedJtisAreUnique, InToken, TokensWellFormed
<1>9. QED
  BY <1>1, <1>2, <1>3, <1>4, <1>5, <1>6, <1>7, <1>8

\* A rejected refresh only forgets its locals.
LEMMA RefreshRejectedInv ==
  ASSUME IInv, NEW r \in Reqs, RefreshRejected(r)
  PROVE  IInv'
<1> USE NullAssumption, RefreshTtlAssumption DEF RefreshRejected, Goto, Finish, IInv,
      storeVars, history
<1>1. TypeOK'
  BY DEF TypeOK, Request, Steps, Blank
<1>2. RequestsWellFormed'
  BY DEF RequestsWellFormed, TypeOK
<1>3. UnissuedJtisAreUnique'
  BY DEF UnissuedJtisAreUnique, InToken, Blank
<1>4. CleanlyRevokedIsQuiet'
  BY DEF CleanlyRevokedIsQuiet, WriteUnderWay, TypeOK
<1>5. KeysBelongToOwner'
  BY DEF KeysBelongToOwner, TypeOK, Blank
<1>6. /\ LateWritesWellFormed'
      /\ TokensWellFormed'
      /\ SpentIsIssued'
      /\ SpentNeverAccepted'
      /\ IssuedTokensAreBacked'
  BY DEF LateWritesWellFormed, TokensWellFormed, SpentIsIssued, InToken,
     SpentNeverAccepted, IssuedTokensAreBacked
<1>7. QED
  BY <1>1, <1>2, <1>3, <1>4, <1>5, <1>6

\* A logout-all starts with no session to revoke.
LEMMA LogoutAllInv ==
  ASSUME IInv, NEW r \in Reqs, NEW u \in Users, LogoutAll(r, u)
  PROVE  IInv'
<1> USE NullAssumption, RefreshTtlAssumption DEF LogoutAll, Goto, IInv, storeVars, history
<1>1. TypeOK'
  BY DEF TypeOK, Request, Steps, Blank
<1>2. RequestsWellFormed'
  BY DEF RequestsWellFormed, TypeOK, Blank
<1>3. UnissuedJtisAreUnique'
  BY DEF UnissuedJtisAreUnique, InToken, Blank
<1>4. CleanlyRevokedIsQuiet'
  BY DEF CleanlyRevokedIsQuiet, WriteUnderWay, TypeOK
<1>5. KeysBelongToOwner'
  BY DEF KeysBelongToOwner, TypeOK, Blank
<1>6. /\ LateWritesWellFormed'
      /\ TokensWellFormed'
      /\ SpentIsIssued'
      /\ SpentNeverAccepted'
      /\ IssuedTokensAreBacked'
  BY DEF LateWritesWellFormed, TokensWellFormed, SpentIsIssued, InToken,
     SpentNeverAccepted, IssuedTokensAreBacked
<1>7. QED
  BY <1>1, <1>2, <1>3, <1>4, <1>5, <1>6

\* KEYS returns sessions of this user only.
LEMMA ListAndBeginInv ==
  ASSUME IInv, NEW r \in Reqs, ListAndBegin(r)
  PROVE  IInv'
<1>r. req[r].user \in Users /\ pc[r] = "list"
  BY RequestTypes DEF IInv, ListAndBegin
<1>0. LogoutMoves(r)
  <2>1. CASE req' = [req EXCEPT ![r].todo = ListSessions(req[r].user)] /\ Goto(r, "revoke")
    <3>1. req[r] \in Request /\ req[r].user \in Users /\ req[r].new = NoJti
      BY <1>r DEF IInv, TypeOK, RequestsWellFormed
    <3> DEFINE next == [req[r] EXCEPT !.todo = ListSessions(req[r].user)]
    <3>2. next \in Request /\ next.user = req[r].user /\ next.new = req[r].new
          /\ next.todo = ListSessions(req[r].user)
      BY <3>1 DEF Request, ListSessions
    <3>3. \A s \in next.todo : owner[s] = req[r].user
      BY <3>1, <3>2 DEF IInv, KeysBelongToOwner, ListSessions
    <3>4. req' = [req EXCEPT ![r] = next] /\ pc' = [pc EXCEPT ![r] = "revoke"]
      BY <2>1 DEF Goto
    <3> HIDE DEF next
    <3>5. QED
      BY <1>r, <3>1, <3>2, <3>3, <3>4 DEF IInv, LogoutMoves, TypeOK, Steps
  <2>2. CASE Finish(r)
    BY <1>r, <2>2, BlankIsRequest DEF Finish, Goto, IInv, LogoutMoves, TypeOK, Steps
  <2>3. QED
    BY <2>1, <2>2 DEF ListAndBegin
<1> USE NullAssumption, RefreshTtlAssumption DEF ListAndBegin, Goto, Finish, ListSessions,
      IInv, storeVars, history
<1>1. TypeOK'
  BY <1>0 DEF TypeOK, LogoutMoves
<1>2. RequestsWellFormed'
  BY <1>0, LogoutMovesInv
<1>3. UnissuedJtisAreUnique'
  BY <1>0 DEF UnissuedJtisAreUnique, LogoutMoves, InToken, Blank
<1>4. CleanlyRevokedIsQuiet'
  BY <1>0 DEF CleanlyRevokedIsQuiet, WriteUnderWay, TypeOK
<1>5. KeysBelongToOwner'
  BY <1>0 DEF KeysBelongToOwner, LogoutMoves, Blank
<1>6. /\ LateWritesWellFormed'
      /\ TokensWellFormed'
      /\ SpentIsIssued'
      /\ SpentNeverAccepted'
      /\ IssuedTokensAreBacked'
  BY DEF LateWritesWellFormed, TokensWellFormed, SpentIsIssued, InToken,
     SpentNeverAccepted, IssuedTokensAreBacked
<1>7. QED
  BY <1>1, <1>2, <1>3, <1>4, <1>5, <1>6

\* The DEL of an allowlist key: if no SET of it is under way none can start,
\* for a refresh would have to find the key first.
LEMMA RevokeSessionInv ==
  ASSUME IInv, NEW r \in Reqs, NEW s \in Sids, RevokeSession(r, s)
  PROVE  IInv'
<1>r. pc[r] = "revoke" /\ s \in req[r].todo
  BY DEF RevokeSession
<1>0. LogoutMoves(r)
  <2>1. req[r] \in Request /\ req[r].new = NoJti
    BY <1>r DEF IInv, TypeOK, RequestsWellFormed
  <2> DEFINE next == [req[r] EXCEPT !.sid = s]
  <2>2. next \in Request /\ next.user = req[r].user /\ next.new = req[r].new
        /\ next.todo = req[r].todo /\ next.sid = s
    BY <2>1 DEF Request
  <2>3. req' = [req EXCEPT ![r] = next] /\ pc' = [pc EXCEPT ![r] = "untrack"]
    BY DEF RevokeSession, Goto
  <2>4. \A t \in req[r].todo : owner[t] = req[r].user
    BY <2>1 DEF IInv, KeysBelongToOwner, Request
  <2> HIDE DEF next
  <2>5. QED
    BY <1>r, <2>1, <2>2, <2>3, <2>4 DEF IInv, LogoutMoves, TypeOK, Steps
<1> USE NullAssumption, RefreshTtlAssumption DEF RevokeSession, Goto, RevokeKey, IInv,
      storeVars, history
<1>1. TypeOK'
  BY <1>0 DEF TypeOK, LogoutMoves
<1>2. RequestsWellFormed'
  BY <1>0, LogoutMovesInv
<1>3. UnissuedJtisAreUnique'
  BY <1>0 DEF UnissuedJtisAreUnique, InToken
<1>4. CleanlyRevokedIsQuiet'
  <2>1. owner[s] # NoUser
    BY RequestTypes DEF KeysBelongToOwner
  <2>2. \A t \in Sids : WriteUnderWay(t)' => WriteUnderWay(t)
    BY <1>0 DEF WriteUnderWay, LogoutMoves
  <2>3. QED
    BY <2>1, <2>2 DEF CleanlyRevokedIsQuiet, TypeOK
<1>5. SpentNeverAccepted'
  BY DEF SpentNeverAccepted, TypeOK
<1>6. KeysBelongToOwner'
  BY <1>0 DEF KeysBelongToOwner
<1>7. LateWritesWellFormed' /\ TokensWellFormed' /\ SpentIsIssued' /\ IssuedTokensAreBacked'
  BY DEF LateWritesWellFormed, TokensWellFormed, SpentIsIssued, InToken, IssuedTokensAreBacked
<1>8. QED
  BY <1>1, <1>2, <1>3, <1>4, <1>5, <1>6, <1>7

\* The index key goes, the loop goes on.
LEMMA UntrackSessionInv ==
  ASSUME IInv, NEW r \in Reqs, UntrackSession(r)
  PROVE  IInv'
<1>0. LogoutMoves(r)
  BY NextSessionMoves DEF UntrackSession
<1> USE NullAssumption, RefreshTtlAssumption DEF UntrackSession, Goto, Finish,
      NextSession, RemoveSession, IInv, storeVars, history
<1>1. TypeOK'
  BY <1>0, RequestTypes DEF TypeOK, LogoutMoves
<1>2. RequestsWellFormed'
  BY <1>0, LogoutMovesInv
<1>3. UnissuedJtisAreUnique'
  BY <1>0 DEF UnissuedJtisAreUnique, LogoutMoves, InToken, Blank
<1>4. CleanlyRevokedIsQuiet'
  BY <1>0 DEF CleanlyRevokedIsQuiet, WriteUnderWay, TypeOK
<1>5. KeysBelongToOwner'
  <2>1. \A s \in Sids, u \in Users : indexTtl'[u][s] > 0 => indexTtl[u][s] > 0
    BY RequestTypes DEF TypeOK
  <2>2. QED
    BY <1>0, <2>1 DEF KeysBelongToOwner, LogoutMoves, Blank
<1>6. /\ LateWritesWellFormed'
      /\ TokensWellFormed'
      /\ SpentIsIssued'
      /\ SpentNeverAccepted'
      /\ IssuedTokensAreBacked'
  BY DEF LateWritesWellFormed, TokensWellFormed, SpentIsIssued, InToken,
     SpentNeverAccepted, IssuedTokensAreBacked
<1>7. QED
  BY <1>1, <1>2, <1>3, <1>4, <1>5, <1>6

\* The outstanding write of a failed request keeps its jti out of every token.
LEMMA RequestFailsInv ==
  ASSUME IInv, NEW r \in Reqs, RequestFails(r)
  PROVE  IInv'
<1> USE NullAssumption, RefreshTtlAssumption DEF RequestFails, Goto, Finish, Outstanding,
      IInv, storeVars, history
<1>0. \A w \in late' : \/ w \in late
                       \/ /\ w.user = req[r].user /\ w.sid = req[r].sid
                          /\ w.jti = req[r].new /\ w.old = req[r].old
                          /\ \/ w.op = "setAllow" /\ pc[r] \in {"open", "rotate"}
                             \/ w.op = "setIndex" /\ pc[r] = "track"
  OBVIOUS
<1>1. TypeOK'
  BY RequestTypes DEF TypeOK, Request, Steps, Blank, Write
<1>2. RequestsWellFormed'
  BY DEF RequestsWellFormed, TypeOK
<1>3. LateWritesWellFormed'
  <2>1. ASSUME NEW w \in late', w \notin late PROVE LateWritesWellFormed!(w)'
    BY <1>0, <2>1 DEF RequestsWellFormed, IssuedTokensAreBacked
  <2>2. ASSUME NEW w \in late PROVE LateWritesWellFormed!(w)'
    BY <2>2 DEF LateWritesWellFormed
  <2>3. QED
    BY <2>1, <2>2 DEF LateWritesWellFormed
<1>4. UnissuedJtisAreUnique'
  BY <1>0 DEF UnissuedJtisAreUnique, RequestsWellFormed, TypeOK, InToken, Blank
<1>5. CleanlyRevokedIsQuiet'
  BY <1>0 DEF CleanlyRevokedIsQuiet, WriteUnderWay, TypeOK
<1>6. KeysBelongToOwner'
  BY DEF KeysBelongToOwner, TypeOK, Blank
<1>7. TokensWellFormed' /\ SpentIsIssued' /\ SpentNeverAccepted' /\ IssuedTokensAreBacked'
  BY DEF TokensWellFormed, SpentIsIssued, InToken, SpentNeverAccepted, IssuedTokensAreBacked
<1>8. QED
  BY <1>1, <1>2, <1>3, <1>4, <1>5, <1>6, <1>7

\* A SET without reply writes what the SET with a reply would.
LEMMA SetWithoutReplyInv ==
  ASSUME IInv, NEW r \in Reqs, SetWithoutReply(r)
  PROVE  IInv'
<1> USE NullAssumption, RefreshTtlAssumption DEF SetWithoutReply, SetCurrentJti, IInv,
      storeVars, history
<1>1. TypeOK'
  BY RequestTypes DEF TypeOK
<1>2. RequestsWellFormed'
  BY DEF RequestsWellFormed
<1>3. SpentIsIssued'
  BY DEF SpentIsIssued, RequestsWellFormed, InToken
<1>4. CleanlyRevokedIsQuiet'
  BY DEF CleanlyRevokedIsQuiet, WriteUnderWay, TypeOK
<1>5. SpentNeverAccepted'
  BY RequestTypes DEF SpentNeverAccepted, TypeOK, Token, RequestsWellFormed,
     UnissuedJtisAreUnique, SpentIsIssued, InToken, IssuedTokensAreBacked,
     KeysBelongToOwner
<1>6. IssuedTokensAreBacked'
  BY DEF IssuedTokensAreBacked, TypeOK
<1>7. KeysBelongToOwner'
  BY DEF KeysBelongToOwner, RequestsWellFormed, TypeOK
<1>8. LateWritesWellFormed' /\ UnissuedJtisAreUnique' /\ TokensWellFormed'
  BY DEF LateWritesWellFormed, UnissuedJtisAreUnique, InToken, TokensWellFormed
<1>9. QED
  BY <1>1, <1>2, <1>3, <1>4, <1>5, <1>6, <1>7, <1>8

\* A given-up DEL is remembered with the owner of its session.
LEMMA DelGivenUpInv ==
  ASSUME IInv, NEW r \in Reqs, DelGivenUp(r)
  PROVE  IInv'
<1>0. LogoutMoves(r)
  <2>1. CASE pc[r] = "revoke"
    <3>1. PICK s \in req[r].todo : req' = [req EXCEPT ![r].sid = s] /\ pc' = [pc EXCEPT ![r] = "untrack"]
      BY <2>1 DEF DelGivenUp, Goto
    <3>2. req[r] \in Request /\ req[r].new = NoJti
      BY <2>1 DEF IInv, TypeOK, RequestsWellFormed
    <3> DEFINE next == [req[r] EXCEPT !.sid = s]
    <3>3. next \in Request /\ next.user = req[r].user /\ next.new = req[r].new
          /\ next.todo = req[r].todo /\ next.sid = s
      BY <3>2 DEF Request
    <3>4. req' = [req EXCEPT ![r] = next]
      BY <3>1
    <3>5. \A t \in req[r].todo : owner[t] = req[r].user
      BY <3>2 DEF IInv, KeysBelongToOwner, Request
    <3> HIDE DEF next
    <3>6. QED
      BY <2>1, <3>1, <3>2, <3>3, <3>4, <3>5 DEF IInv, LogoutMoves, TypeOK, Steps
  <2>2. CASE pc[r] = "untrack"
    BY <2>2, NextSessionMoves DEF DelGivenUp
  <2>3. QED
    BY <2>1, <2>2 DEF DelGivenUp
<1>r. req[r] \in Request /\ req[r].user \in Users /\ (pc[r] = "untrack" => req[r].sid \in req[r].todo)
  BY DEF DelGivenUp, IInv, TypeOK, RequestsWellFormed
<1>a. \A w \in late' :
        \/ w \in late
        \/ w \in Write /\ w.op \in {"delAllow", "delIndex"} /\ owner[w.sid] = w.user
  <2>1. \A s \in req[r].todo : s \in Sids /\ owner[s] = req[r].user
    BY <1>r DEF IInv, KeysBelongToOwner, Request
  <2>2. PICK s \in req[r].todo, op \in {"delAllow", "delIndex"} :
          late' = late \cup {[op |-> op, user |-> req[r].user, sid |-> s, jti |-> NoJti, old |-> NoJti]}
    BY <1>r DEF DelGivenUp
  <2> DEFINE w0 == [op |-> op, user |-> req[r].user, sid |-> s, jti |-> NoJti, old |-> NoJti]
  <2>3. w0 \in Write /\ w0.op = op /\ w0.sid = s /\ w0.user = req[r].user
    BY <1>r, <2>1, <2>2 DEF Write
  <2>4. late' = late \cup {w0}
    BY <2>2
  <2> HIDE DEF w0
  <2>5. w0.op \in {"delAllow", "delIndex"} /\ owner[w0.sid] = w0.user
    BY <2>1, <2>2, <2>3
  <2>6. QED
    BY <2>3, <2>4, <2>5
<1> USE NullAssumption, RefreshTtlAssumption DEF DelGivenUp, Goto, Finish, NextSession,
      IInv, storeVars, history
<1>1. TypeOK'
  BY <1>0, <1>a DEF TypeOK, LogoutMoves
<1>2. RequestsWellFormed'
  BY <1>0, LogoutMovesInv
<1>3. LateWritesWellFormed'
  BY <1>a DEF LateWritesWellFormed
<1>4. UnissuedJtisAreUnique'
  BY <1>0, <1>a DEF UnissuedJtisAreUnique, LogoutMoves, InToken, Blank
<1>5. CleanlyRevokedIsQuiet'
  BY <1>0, <1>a DEF CleanlyRevokedIsQuiet, WriteUnderWay, TypeOK
<1>6. KeysBelongToOwner'
  BY <1>0 DEF KeysBelongToOwner, LogoutMoves, Blank
<1>7. TokensWellFormed' /\ SpentIsIssued' /\ SpentNeverAccepted' /\ IssuedTokensAreBacked'
  BY DEF TokensWellFormed, SpentIsIssued, InToken, SpentNeverAccepted, IssuedTokensAreBacked
<1>8. QED
  BY <1>1, <1>2, <1>3, <1>4, <1>5, <1>6, <1>7

\* A late SET writes a jti that is in no token; a late DEL removes.
LEMMA LateArrivesInv ==
  ASSUME IInv, NEW w \in late, LateArrives(w)
  PROVE  IInv'
<1> USE NullAssumption, RefreshTtlAssumption DEF LateArrives, SetCurrentJti, RevokeKey,
      AddSession, RemoveSession, IInv, storeVars, history
<1>1. TypeOK'
  BY DEF TypeOK, Write, LateWritesWellFormed
<1>2. RequestsWellFormed'
  BY DEF RequestsWellFormed
<1>3. LateWritesWellFormed'
  BY DEF LateWritesWellFormed, TypeOK
<1>4. UnissuedJtisAreUnique'
  BY DEF UnissuedJtisAreUnique, InToken
<1>5. SpentIsIssued'
  BY DEF SpentIsIssued, LateWritesWellFormed, InToken
<1>6. CleanlyRevokedIsQuiet'
  BY DEF CleanlyRevokedIsQuiet, WriteUnderWay, LateWritesWellFormed, TypeOK, Write
<1>7. SpentNeverAccepted'
  BY DEF SpentNeverAccepted, TypeOK, Token, Write, LateWritesWellFormed,
     UnissuedJtisAreUnique, SpentIsIssued, InToken, IssuedTokensAreBacked,
     KeysBelongToOwner
<1>8. IssuedTokensAreBacked'
  BY DEF IssuedTokensAreBacked, TypeOK
<1>9. KeysBelongToOwner'
  BY DEF KeysBelongToOwner, LateWritesWellFormed, TypeOK, Write
<1>10. TokensWellFormed'
  BY DEF TokensWellFormed
<1>11. QED
  BY <1>1, <1>2, <1>3, <1>4, <1>5, <1>6, <1>7, <1>8, <1>9, <1>10

\* A write that never arrives only leaves late.
LEMMA LateIsLostInv ==
  ASSUME IInv, NEW w \in late, LateIsLost(w)
  PROVE  IInv'
<1> USE NullAssumption, RefreshTtlAssumption DEF LateIsLost, IInv, storeVars, history
<1>1. TypeOK'
  BY DEF TypeOK
<1>2. LateWritesWellFormed'
  BY DEF LateWritesWellFormed, TypeOK
<1>3. UnissuedJtisAreUnique'
  BY DEF UnissuedJtisAreUnique, InToken
<1>4. CleanlyRevokedIsQuiet'
  BY DEF CleanlyRevokedIsQuiet, WriteUnderWay, TypeOK
<1>5. /\ RequestsWellFormed'
      /\ TokensWellFormed'
      /\ SpentIsIssued'
      /\ SpentNeverAccepted'
      /\ IssuedTokensAreBacked'
      /\ KeysBelongToOwner'
  BY DEF RequestsWellFormed, TokensWellFormed, SpentIsIssued, InToken, SpentNeverAccepted,
     IssuedTokensAreBacked, KeysBelongToOwner
<1>6. QED
  BY <1>1, <1>2, <1>3, <1>4, <1>5

\* Expiry only removes keys.
LEMMA TickInv ==
  ASSUME IInv, Tick
  PROVE  IInv'
<1> USE NullAssumption, RefreshTtlAssumption DEF Tick, Decrement, KeysPresent, IInv,
      storeVars, history
<1>1. TypeOK'
  BY DEF TypeOK
<1>2. CleanlyRevokedIsQuiet'
  BY DEF CleanlyRevokedIsQuiet, WriteUnderWay, TypeOK
<1>3. SpentNeverAccepted'
  BY DEF SpentNeverAccepted, TypeOK
<1>4. KeysBelongToOwner'
  BY DEF KeysBelongToOwner, TypeOK, Blank
<1>5. /\ RequestsWellFormed'
      /\ LateWritesWellFormed'
      /\ UnissuedJtisAreUnique'
      /\ TokensWellFormed'
      /\ SpentIsIssued'
      /\ IssuedTokensAreBacked'
  BY DEF RequestsWellFormed, LateWritesWellFormed, UnissuedJtisAreUnique, InToken,
     TokensWellFormed, SpentIsIssued, InToken, IssuedTokensAreBacked
<1>6. QED
  BY <1>1, <1>2, <1>3, <1>4, <1>5

-----------------------------------------------------------------------------
\* The invariant holds at the start.
LEMMA InitInv == Init => IInv
<1> SUFFICES ASSUME Init PROVE IInv
  OBVIOUS
<1> USE NullAssumption, RefreshTtlAssumption DEF Init
<1>1. TypeOK
  BY BlankIsRequest DEF TypeOK, Steps
<1>2. RequestsWellFormed /\ LateWritesWellFormed /\ UnissuedJtisAreUnique
  BY DEF RequestsWellFormed, LateWritesWellFormed, UnissuedJtisAreUnique, Blank
<1>3. TokensWellFormed /\ SpentIsIssued /\ CleanlyRevokedIsQuiet
  BY DEF TokensWellFormed, SpentIsIssued, CleanlyRevokedIsQuiet
<1>4. SpentNeverAccepted /\ IssuedTokensAreBacked /\ KeysBelongToOwner
  BY DEF SpentNeverAccepted, IssuedTokensAreBacked, KeysBelongToOwner, Blank
<1>5. QED
  BY <1>1, <1>2, <1>3, <1>4 DEF IInv

\* Every step keeps the invariant: one case per group of actions.
LEMMA NextInv == IInv /\ [Next]_vars => IInv'
<1> SUFFICES ASSUME IInv, [Next]_vars PROVE IInv'
  OBVIOUS
<1>1. ASSUME NEW r \in Reqs, Progress(r) PROVE IInv'
  BY <1>1, OpenSessionInv, TrackSessionInv, MintTokensInv, GuardAcceptsInv, LookupUserInv,
     RotateMatchesInv, RotateSetInv, RefreshRejectedInv, ListAndBeginInv, UntrackSessionInv,
     RevokeSessionInv DEF Progress
<1>2. ASSUME NEW r \in Reqs, NEW u \in Users, SignIn(r, u) \/ LogoutAll(r, u) PROVE IInv'
  BY <1>2, SignInInv, LogoutAllInv
<1>3. ASSUME NEW r \in Reqs, NEW t \in tokens, PresentToken(r, t) PROVE IInv'
  BY <1>3, PresentTokenInv
<1>4. ASSUME NEW r \in Reqs, RequestFails(r) \/ SetWithoutReply(r) \/ DelGivenUp(r) PROVE IInv'
  BY <1>4, RequestFailsInv, SetWithoutReplyInv, DelGivenUpInv
<1>5. ASSUME NEW u \in Users, IssueUnboundTokens(u) PROVE IInv'
  BY <1>5, IssueUnboundTokensInv
<1>6. ASSUME NEW w \in late, LateArrives(w) \/ LateIsLost(w) PROVE IInv'
  BY <1>6, LateArrivesInv, LateIsLostInv
<1>7. CASE Tick
  BY <1>7, TickInv
<1>8. CASE UNCHANGED vars
  BY <1>8 DEF vars, IInv, TypeOK, RequestsWellFormed, LateWritesWellFormed,
     UnissuedJtisAreUnique, InToken, TokensWellFormed, SpentIsIssued, CleanlyRevokedIsQuiet,
     WriteUnderWay, SpentNeverAccepted, IssuedTokensAreBacked, KeysBelongToOwner
<1>9. QED
  BY <1>1, <1>2, <1>3, <1>4, <1>5, <1>6, <1>7, <1>8 DEF Next

\* The inductive invariant holds in every reachable state, for any number of
\* users, sessions, requests and instances, with or without Redis faults.
THEOREM SessionInvariant == Spec => []IInv
  BY InitInv, NextInv, PTL DEF Spec

\* Type correctness.
THEOREM SessionTypes == Spec => []TypeOK
<1>1. IInv => TypeOK
  BY DEF IInv
<1>2. QED
  BY <1>1, SessionInvariant, PTL

\* A jti that a rotation replaced is never accepted again (the GET-then-SET of
\* rotateIfMatches, under any interleaving, lost reply or late write).
THEOREM SpentJtisStaySpent == Spec => []SpentNeverAccepted
<1>1. IInv => SpentNeverAccepted
  BY DEF IInv
<1>2. QED
  BY <1>1, SessionInvariant, PTL

\* A session that logout-all deleted while no SET of its key was under way is
\* closed for good.
THEOREM CleanRevocationHolds == Spec => []CleanRevocationIsFinal
<1>1. IInv => CleanRevocationIsFinal
  BY DEF IInv, CleanlyRevokedIsQuiet, CleanRevocationIsFinal
<1>2. QED
  BY <1>1, SessionInvariant, PTL

\* Every refresh token handed out names a stored jti of the right session and
\* user, and no two tokens share a jti.
THEOREM TokensAreBacked == Spec => []IssuedTokensAreBacked
<1>1. IInv => IssuedTokensAreBacked
  BY DEF IInv
<1>2. QED
  BY <1>1, SessionInvariant, PTL

\* Allowlist and index agree on the owner of a session, so logout-all of one
\* user cannot close a session of another.
THEOREM SessionsAreNotMixed == Spec => []KeysBelongToOwner
<1>1. IInv => KeysBelongToOwner
  BY DEF IInv
<1>2. QED
  BY <1>1, SessionInvariant, PTL

\* Every SET of an allowlist key is a Replace of the abstract store.
LEMMA SetIsReplace ==
  ASSUME IInv, NEW s \in Sids, NEW j \in Jtis, NEW old \in Jtis \cup {NoJti},
         SetCurrentJti(s, j, old), ~InToken(j),
         old # NoJti => InToken(old) /\ gen[old] = s
  PROVE  Store!Next
<1>1. j \notin spent /\ j # old
  BY NullAssumption DEF IInv, SpentIsIssued
<1>2. CASE old = NoJti
  <2>1. Store!Replace(s, j, {})
    BY <1>1, <1>2 DEF SetCurrentJti, Store!Replace
  <2>2. QED
    BY <2>1 DEF Store!Next
<1>3. CASE old # NoJti
  <2>1. \A t \in Sids \ {s} : allow[t] # old
    BY <1>3 DEF IInv, KeysBelongToOwner
  <2>2. Store!Replace(s, j, {old})
    BY <1>1, <1>3, <2>1 DEF SetCurrentJti, Store!Replace
  <2>3. QED
    BY <1>3, <2>2 DEF Store!Next
<1>4. QED
  BY <1>2, <1>3

\* Every DEL of an allowlist key is a Drop of the abstract store.
LEMMA RevokeIsDrop ==
  ASSUME NEW s \in Sids, IInv, RevokeKey(s), UNCHANGED spent PROVE Store!Next
<1>1. Store!Drop({s})
  BY DEF RevokeKey, Store!Drop, IInv, TypeOK
<1>2. QED
  BY <1>1 DEF Store!Next

\* Every step is a step of the abstract store or leaves it alone.
LEMMA StepRefines == IInv /\ [Next]_vars => [Store!Next]_(Store!storeVars)
<1> SUFFICES ASSUME IInv, [Next]_vars, ~UNCHANGED <<allow, spent>> PROVE Store!Next
  BY DEF Store!storeVars
<1> USE DEF storeVars, history
<1>1. ASSUME NEW r \in Reqs, OpenSession(r) \/ (SetWithoutReply(r) /\ pc[r] = "open") PROVE Store!Next
  <2>1. SetCurrentJti(req[r].sid, req[r].new, NoJti) /\ pc[r] = "open"
    BY <1>1 DEF OpenSession, SetWithoutReply
  <2>2. req[r].sid \in Sids /\ req[r].new \in Jtis /\ ~InToken(req[r].new)
    BY <2>1, RequestTypes, NullAssumption DEF IInv, UnissuedJtisAreUnique
  <2>3. QED
    BY <2>1, <2>2, SetIsReplace
<1>2. ASSUME NEW r \in Reqs, RotateSet(r) \/ (SetWithoutReply(r) /\ pc[r] = "rotate") PROVE Store!Next
  <2>1. SetCurrentJti(req[r].sid, req[r].new, req[r].old) /\ pc[r] = "rotate"
    BY <1>2 DEF RotateSet, SetWithoutReply
  <2>2. req[r].sid \in Sids /\ req[r].new \in Jtis /\ req[r].old \in Jtis /\ ~InToken(req[r].new)
    BY <2>1, RequestTypes, NullAssumption DEF IInv, UnissuedJtisAreUnique
  <2>3. InToken(req[r].old) /\ gen[req[r].old] = req[r].sid
    BY <2>1 DEF IInv, RequestsWellFormed, InToken, IssuedTokensAreBacked
  <2>4. QED
    BY <2>1, <2>2, <2>3, SetIsReplace
<1>3. ASSUME NEW r \in Reqs, NEW s \in Sids, RevokeSession(r, s) PROVE Store!Next
  BY <1>3, RevokeIsDrop DEF RevokeSession
<1>4. ASSUME NEW w \in late, LateArrives(w) PROVE Store!Next
  <2>1. w.sid \in Sids /\ w.jti \in Jtis \cup {NoJti} /\ w.old \in Jtis \cup {NoJti}
    BY DEF IInv, TypeOK, Write
  <2>2. CASE w.op = "setAllow" /\ SetCurrentJti(w.sid, w.jti, w.old)
    <3>1. w.jti \in Jtis /\ ~InToken(w.jti)
      BY <2>1, <2>2 DEF IInv, LateWritesWellFormed, UnissuedJtisAreUnique
    <3>2. w.old # NoJti => InToken(w.old) /\ gen[w.old] = w.sid
      BY <2>1, <2>2, NullAssumption DEF IInv, LateWritesWellFormed, InToken,
         IssuedTokensAreBacked
    <3>3. QED
      BY <2>1, <2>2, <3>1, <3>2, SetIsReplace
  <2>3. CASE RevokeKey(w.sid) /\ UNCHANGED spent
    BY <2>1, <2>3, RevokeIsDrop
  <2>4. CASE UNCHANGED <<allow, spent>>
    BY <2>4
  <2>5. QED
    BY <1>4, <2>2, <2>3, <2>4 DEF LateArrives
<1>5. CASE Tick
  <2>1. Store!Drop({s \in Sids : allowTtl[s] = 1})
    BY <1>5 DEF Tick, Store!Drop
  <2>2. QED
    BY <2>1 DEF Store!Next
<1>6. ASSUME NEW r \in Reqs,
             TrackSession(r) \/ MintTokens(r) \/ GuardAccepts(r) \/ LookupUser(r) \/ RotateMatches(r)
               \/ RefreshRejected(r) \/ ListAndBegin(r) \/ UntrackSession(r)
               \/ RequestFails(r) \/ DelGivenUp(r)
      PROVE FALSE
  BY <1>6 DEF TrackSession, MintTokens, GuardAccepts, LookupUser, RotateMatches,
     RefreshRejected,
     ListAndBegin, UntrackSession, RequestFails, DelGivenUp
<1>7. ASSUME NEW r \in Reqs, NEW u \in Users, SignIn(r, u) \/ LogoutAll(r, u) PROVE FALSE
  BY <1>7 DEF SignIn, LogoutAll
<1>8. ASSUME NEW r \in Reqs, NEW t \in tokens, PresentToken(r, t) PROVE FALSE
  BY <1>8 DEF PresentToken
<1>9. ASSUME NEW u \in Users, IssueUnboundTokens(u) PROVE FALSE
  BY <1>9 DEF IssueUnboundTokens
<1>10. ASSUME NEW w \in late, LateIsLost(w) PROVE FALSE
  BY <1>10 DEF LateIsLost
<1>11. ~UNCHANGED vars
  BY DEF vars
<1>12. ASSUME NEW r \in Reqs, SetWithoutReply(r) PROVE pc[r] = "open" \/ pc[r] = "rotate"
  BY <1>12 DEF SetWithoutReply
<1>13. QED
  BY <1>1, <1>2, <1>3, <1>4, <1>5, <1>6, <1>7, <1>8, <1>9, <1>10, <1>11, <1>12 DEF Next,
     Progress

\* The component implements the abstract session store (its weak promise).
THEOREM ImplementsStore == Spec => StorePromise
<1>1. Init => Store!Init
  BY DEF Init, Store!Init
<1>2. QED
  BY <1>1, StepRefines, SessionInvariant, PTL DEF Spec, StorePromise, Store!Spec
-----------------------------------------------------------------------------
(* One request at a time, and a Redis that answers: nothing can come between *)
(* the GET and the SET of rotateIfMatches but the expiry of the key, so that *)
(* the SET meets what the GET has seen, or nothing.                          *)

\* A jti is generated for a session that somebody has opened.
SessionsAreOpened == \A j \in Jtis : gen[j] # NoSid => gen[j] \in Sids /\ owner[gen[j]] # NoUser

\* What the SET of an allowlist key will meet.
SetsMeetWhatWasRead ==
  \A r \in Reqs :
    /\ pc[r] = "open" => allow[req[r].sid] = NoJti
    /\ pc[r] = "rotate" => allow[req[r].sid] \in {req[r].old, NoJti}

SerialInv == late = {} /\ SessionsAreOpened /\ SetsMeetWhatWasRead

\* Nothing is given up where Redis answers.
LEMMA NothingIsLate ==
  ASSUME Faults = FALSE, late = {}, [Next]_vars
  PROVE  late' = {}
<1>1. ASSUME NEW r \in Reqs, Progress(r) PROVE UNCHANGED late
  BY <1>1 DEF Progress, OpenSession, TrackSession, MintTokens, GuardAccepts, LookupUser,
     RotateMatches, RotateSet, RefreshRejected, ListAndBegin, UntrackSession, RevokeSession,
     storeVars
<1>2. ASSUME NEW r \in Reqs, NEW u \in Users, SignIn(r, u) \/ LogoutAll(r, u) PROVE UNCHANGED late
  BY <1>2 DEF SignIn, LogoutAll, storeVars
<1>3. ASSUME NEW r \in Reqs, NEW t \in tokens, PresentToken(r, t) PROVE UNCHANGED late
  BY <1>3 DEF PresentToken, storeVars
<1>4. ASSUME NEW r \in Reqs PROVE ~RequestFails(r) /\ ~SetWithoutReply(r) /\ ~DelGivenUp(r)
  BY DEF RequestFails, SetWithoutReply, DelGivenUp
<1>5. ASSUME NEW u \in Users, IssueUnboundTokens(u) PROVE UNCHANGED late
  BY <1>5 DEF IssueUnboundTokens, storeVars
<1>6. CASE Tick \/ UNCHANGED vars
  BY <1>6 DEF Tick, vars
<1>7. QED
  BY <1>1, <1>2, <1>3, <1>4, <1>5, <1>6 DEF Next

\* A session without an owner has no allowlist key.
LEMMA UnopenedIsEmpty ==
  ASSUME IInv, SessionsAreOpened, NEW s \in Sids, owner[s] = NoUser
  PROVE  allow[s] = NoJti
<1> SUFFICES ASSUME allow[s] # NoJti PROVE FALSE
  OBVIOUS
<1>1. allow[s] \in Jtis /\ gen[allow[s]] = s /\ s # NoSid
  BY NullAssumption DEF IInv, TypeOK, KeysBelongToOwner
<1>2. QED
  BY <1>1 DEF SessionsAreOpened

\* Jtis are generated for the session of a sign-in, or of a token presented.
LEMMA SessionsStayOpened ==
  ASSUME IInv, SessionsAreOpened, [Next]_vars
  PROVE  SessionsAreOpened'
<1>1. ASSUME NEW r \in Reqs, NEW u \in Users, SignIn(r, u) PROVE SessionsAreOpened'
  <2>1. PICK s \in Sids, j \in Jtis : /\ owner' = [owner EXCEPT ![s] = u]
                                     /\ gen' = [gen EXCEPT ![j] = s]
    BY <1>1 DEF SignIn, FreshSids, FreshJtis
  <2>2. QED
    BY <2>1, NullAssumption DEF SessionsAreOpened, IInv, TypeOK
<1>2. ASSUME NEW r \in Reqs, LookupUser(r) PROVE SessionsAreOpened'
  <2>1. req[r].sid \in Sids /\ owner[req[r].sid] # NoUser
    BY <1>2, RequestTypes, NullAssumption DEF LookupUser, IInv, RequestsWellFormed,
       IssuedTokensAreBacked
  <2>2. PICK j \in Jtis : gen' = [gen EXCEPT ![j] = req[r].sid]
    BY <1>2 DEF LookupUser, FreshJtis
  <2>3. UNCHANGED owner
    BY <1>2 DEF LookupUser
  <2>4. QED
    BY <2>1, <2>2, <2>3 DEF SessionsAreOpened
<1>3. CASE UNCHANGED <<owner, gen>>
  BY <1>3 DEF SessionsAreOpened
<1> USE DEF storeVars, history
<1>4. ASSUME NEW r \in Reqs, Progress(r), ~LookupUser(r) PROVE UNCHANGED <<owner, gen>>
  BY <1>4 DEF Progress, OpenSession, TrackSession, MintTokens, GuardAccepts,
     RotateMatches, RotateSet, RefreshRejected, ListAndBegin, UntrackSession, RevokeSession
<1>5. ASSUME NEW r \in Reqs, RequestFails(r) \/ SetWithoutReply(r) \/ DelGivenUp(r)
      PROVE UNCHANGED <<owner, gen>>
  BY <1>5 DEF RequestFails, SetWithoutReply, DelGivenUp
<1>6. ASSUME NEW r \in Reqs, NEW u \in Users, LogoutAll(r, u) PROVE UNCHANGED <<owner, gen>>
  BY <1>6 DEF LogoutAll
<1>7. ASSUME NEW r \in Reqs, NEW t \in tokens, PresentToken(r, t) PROVE UNCHANGED <<owner, gen>>
  BY <1>7 DEF PresentToken
<1>8. ASSUME NEW u \in Users, IssueUnboundTokens(u) PROVE UNCHANGED <<owner, gen>>
  BY <1>8 DEF IssueUnboundTokens
<1>9. ASSUME NEW w \in late, LateArrives(w) \/ LateIsLost(w) PROVE UNCHANGED <<owner, gen>>
  BY <1>9 DEF LateArrives, LateIsLost
<1>10. CASE Tick \/ UNCHANGED vars
  BY <1>10, <1>3 DEF Tick, vars
<1>11. QED
  BY <1>1, <1>2, <1>3, <1>4, <1>5, <1>6, <1>7, <1>8, <1>9, <1>10 DEF Next

\* The SET of the only request meets what its GET, or its sign-in, has seen.
LEMMA SetsStillMeetWhatWasRead ==
  ASSUME Faults = FALSE, \A q, r \in Reqs : q = r, IInv, SerialInv, [Next]_vars
  PROVE  SetsMeetWhatWasRead'
<1> USE NullAssumption DEF storeVars, history, Goto, Finish, IInv, TypeOK
<1>1. ASSUME NEW r \in Reqs, NEW u \in Users, SignIn(r, u) PROVE SetsMeetWhatWasRead'
  <2>1. PICK s \in Sids, j \in Jtis :
          /\ owner[s] = NoUser
          /\ req' = [req EXCEPT ![r] = [user |-> u, sid |-> s, old |-> NoJti, new |-> j, todo |-> {}]]
    BY <1>1 DEF SignIn, FreshSids, FreshJtis
  <2>2. allow[s] = NoJti
    BY <2>1, UnopenedIsEmpty DEF SerialInv
  <2>3. req'[r].sid = s /\ pc'[r] = "open" /\ UNCHANGED allow
    BY <1>1, <2>1 DEF SignIn
  <2>4. QED
    BY <2>2, <2>3 DEF SetsMeetWhatWasRead
<1>2. ASSUME NEW r \in Reqs, RotateMatches(r) PROVE SetsMeetWhatWasRead'
  BY <1>2 DEF RotateMatches, Matches, SetsMeetWhatWasRead
<1>3. CASE Tick
  <2>1. \A s \in Sids : allow'[s] \in {allow[s], NoJti}
    BY <1>3 DEF Tick
  <2>2. \A r \in Reqs : pc[r] \in {"open", "rotate"} => req[r].sid \in Sids
    BY RequestTypes
  <2>3. UNCHANGED <<pc, req>>
    BY <1>3 DEF Tick
  <2>4. QED
    BY <2>1, <2>2, <2>3 DEF SerialInv, SetsMeetWhatWasRead
<1>4. CASE UNCHANGED <<pc, req, allow>>
  BY <1>4 DEF SerialInv, SetsMeetWhatWasRead
<1>5. ASSUME NEW r \in Reqs, pc'[r] \notin {"open", "rotate"} PROVE SetsMeetWhatWasRead'
  BY <1>5 DEF SetsMeetWhatWasRead
<1>6. ASSUME NEW r \in Reqs, Progress(r), ~RotateMatches(r) PROVE pc'[r] \notin {"open", "rotate"}
  <2>1. ASSUME ListAndBegin(r) \/ UntrackSession(r) PROVE pc'[r] \in {"idle", "revoke"}
    BY <2>1 DEF ListAndBegin, UntrackSession, NextSession
  <2>2. ASSUME NEW s \in Sids, RevokeSession(r, s) PROVE pc'[r] = "untrack"
    BY <2>2 DEF RevokeSession
  <2>3. ASSUME \/ OpenSession(r) \/ TrackSession(r) \/ MintTokens(r) \/ GuardAccepts(r)
               \/ LookupUser(r) \/ RotateSet(r) \/ RefreshRejected(r)
        PROVE pc'[r] \in {"track", "mint", "idle", "lookup", "match"}
    BY <2>3 DEF OpenSession, TrackSession, MintTokens, GuardAccepts, LookupUser, RotateSet,
       RefreshRejected
  <2>4. QED
    BY <1>6, <2>1, <2>2, <2>3 DEF Progress
<1>7. ASSUME NEW r \in Reqs, NEW u \in Users, LogoutAll(r, u) PROVE pc'[r] = "list"
  BY <1>7 DEF LogoutAll
<1>8. ASSUME NEW r \in Reqs, NEW t \in tokens, PresentToken(r, t) PROVE pc'[r] = "guard"
  BY <1>8 DEF PresentToken
<1>9. ASSUME NEW u \in Users, IssueUnboundTokens(u) PROVE UNCHANGED <<pc, req, allow>>
  BY <1>9 DEF IssueUnboundTokens
<1>10. ASSUME NEW r \in Reqs PROVE ~RequestFails(r) /\ ~SetWithoutReply(r) /\ ~DelGivenUp(r)
  BY DEF RequestFails, SetWithoutReply, DelGivenUp
<1>11. CASE UNCHANGED vars
  BY <1>11, <1>4 DEF vars
<1>12. \A w \in late : FALSE
  BY DEF SerialInv
<1> HIDE DEF IInv, TypeOK, Goto, Finish
<1>13. QED
  BY <1>1, <1>2, <1>3, <1>4, <1>5, <1>6, <1>7, <1>8, <1>9, <1>10, <1>11, <1>12 DEF Next

\* The SET of a sign-in opens a session; that of a rotation replaces the jti presented,
\* or one that has just expired.
LEMMA SerialStepRefines ==
  ASSUME Faults = FALSE, \A q, r \in Reqs : q = r, IInv, SerialInv, [Next]_vars
  PROVE  [Store!AtomicNext]_(Store!storeVars)
<1> SUFFICES ASSUME ~UNCHANGED <<allow, spent>> PROVE Store!AtomicNext
  BY DEF Store!storeVars
<1> USE DEF storeVars, history
<1>1. ASSUME NEW r \in Reqs, OpenSession(r) PROVE Store!AtomicNext
  <2>1. SetCurrentJti(req[r].sid, req[r].new, NoJti) /\ pc[r] = "open"
    BY <1>1 DEF OpenSession
  <2>2. req[r].sid \in Sids /\ req[r].new \in Jtis /\ req[r].new \notin spent
    BY <2>1, RequestTypes, NullAssumption DEF IInv, UnissuedJtisAreUnique, SpentIsIssued
  <2>3. allow[req[r].sid] = NoJti
    BY <2>1 DEF SerialInv, SetsMeetWhatWasRead
  <2>4. Store!Open(req[r].sid, req[r].new)
    BY <2>1, <2>2, <2>3 DEF SetCurrentJti, Store!Open
  <2>5. QED
    BY <2>2, <2>4 DEF Store!AtomicNext
<1>2. ASSUME NEW r \in Reqs, RotateSet(r) PROVE Store!AtomicNext
  <2> DEFINE s == req[r].sid
             old == req[r].old
             new == req[r].new
  <2>1. SetCurrentJti(s, new, old) /\ pc[r] = "rotate"
    BY <1>2 DEF RotateSet
  <2>2. s \in Sids /\ new \in Jtis /\ old \in Jtis /\ ~InToken(new)
    BY <2>1, RequestTypes, NullAssumption DEF IInv, UnissuedJtisAreUnique
  <2>3. InToken(old) /\ gen[old] = s
    BY <2>1 DEF IInv, RequestsWellFormed, InToken, IssuedTokensAreBacked
  <2>4. new \notin spent \cup {old} /\ old # NoJti
    BY <2>2, <2>3, NullAssumption DEF IInv, SpentIsIssued
  <2>5. allow[s] \in {old, NoJti}
    BY <2>1 DEF SerialInv, SetsMeetWhatWasRead
  <2>6. allow' = [allow EXCEPT ![s] = new] /\ spent' = spent \cup {old}
    BY <2>1, <2>4 DEF SetCurrentJti
  <2>7. \A t \in Sids \ {s} : allow[t] # old
    BY <2>3, <2>4 DEF IInv, KeysBelongToOwner
  <2> HIDE DEF s, old, new
  <2>8. Store!Rotate(s, old, new) \/ Store!Renew(s, old, new)
    BY <2>4, <2>5, <2>6, <2>7 DEF Store!Rotate, Store!Renew
  <2>9. QED
    BY <2>2, <2>8 DEF Store!AtomicNext
<1>3. ASSUME NEW r \in Reqs, NEW s \in Sids, RevokeSession(r, s) PROVE Store!AtomicNext
  <2>1. Store!Drop({s})
    BY <1>3 DEF RevokeSession, RevokeKey, Store!Drop, IInv, TypeOK
  <2>2. QED
    BY <2>1 DEF Store!AtomicNext
<1>4. CASE Tick
  <2>1. Store!Drop({s \in Sids : allowTtl[s] = 1})
    BY <1>4 DEF Tick, Store!Drop
  <2>2. QED
    BY <2>1 DEF Store!AtomicNext
<1>5. ASSUME NEW r \in Reqs,
             TrackSession(r) \/ MintTokens(r) \/ GuardAccepts(r) \/ LookupUser(r) \/ RotateMatches(r)
               \/ RefreshRejected(r) \/ ListAndBegin(r) \/ UntrackSession(r)
               \/ RequestFails(r) \/ DelGivenUp(r) \/ SetWithoutReply(r)
      PROVE FALSE
  BY <1>5 DEF TrackSession, MintTokens, GuardAccepts, LookupUser, RotateMatches,
     RefreshRejected, SetWithoutReply,
     ListAndBegin, UntrackSession, RequestFails, DelGivenUp
<1>6. ASSUME NEW r \in Reqs, NEW u \in Users, SignIn(r, u) \/ LogoutAll(r, u) PROVE FALSE
  BY <1>6 DEF SignIn, LogoutAll
<1>7. ASSUME NEW r \in Reqs, NEW t \in tokens, PresentToken(r, t) PROVE FALSE
  BY <1>7 DEF PresentToken
<1>8. ASSUME NEW u \in Users, IssueUnboundTokens(u) PROVE FALSE
  BY <1>8 DEF IssueUnboundTokens
<1>9. ~UNCHANGED vars /\ \A w \in late : FALSE
  BY DEF vars, SerialInv
<1>10. QED
  BY <1>1, <1>2, <1>3, <1>4, <1>5, <1>6, <1>7, <1>8, <1>9 DEF Next, Progress

\* Served one at a time by a Redis that answers, requests use a session as the comment
\* above rotateIfMatches says: compared and replaced in one step.
THEOREM SerialSessionsAreAtomic ==
  ASSUME Faults = FALSE, \A q, r \in Reqs : q = r
  PROVE  Spec => AtomicStorePromise
<1>1. Init => Store!Init /\ SerialInv
  BY DEF Init, Store!Init, SerialInv, SessionsAreOpened, SetsMeetWhatWasRead
<1>2. IInv /\ SerialInv /\ [Next]_vars => SerialInv' /\ [Store!AtomicNext]_(Store!storeVars)
  <2> SUFFICES ASSUME IInv, SerialInv, [Next]_vars
               PROVE  SerialInv' /\ [Store!AtomicNext]_(Store!storeVars)
    OBVIOUS
  <2>1. SerialInv'
    BY NothingIsLate, SessionsStayOpened, SetsStillMeetWhatWasRead DEF SerialInv
  <2>2. QED
    BY <2>1, SerialStepRefines
<1>3. QED
  BY <1>1, <1>2, SessionInvariant, PTL DEF Spec, AtomicStorePromise, Store!AtomicSpec
=============================================================================
