------------------------------ MODULE CsrfTokens ------------------------------
(***************************************************************************)
(* CSRF tokens of one user: one Redis key, set by every "get token", read   *)
(* by the guard of a state-changing request, deleted by "revoke".  No route *)
(* uses the guard yet.  Commands may be lost as in RedisService: a SET that  *)
(* throws may still be executed, also later; a DEL is silently not done; a   *)
(* GET that fails answers null.  Tokens are numbers, 0 is no token.          *)
(***************************************************************************)
EXTENDS Integers

CONSTANTS MaxTokens,      \* bound: tokens generated
          CsrfReqs

ASSUME CsrfAssumption == MaxTokens \in Nat

VARIABLES
  csrf,          \* csrf:token:<user>
  lastToken,
  lateSets,      \* SETs that were given up and have not arrived yet
  inBrowser,         \* tokens that browsers hold
  checkPc, checkToken,     \* requests in the guard
  revoked,       \* history: tokens held when a DEL was done
  stale          \* history: requests that have got past the guard with one of them

csrfVars == <<csrf, lastToken, lateSets, inBrowser, checkPc, checkToken, revoked, stale>>

CsrfInit ==
  /\ csrf = 0 /\ lastToken = 0 /\ lateSets = {} /\ inBrowser = {}
  /\ checkPc = [r \in CsrfReqs |-> "idle"] /\ checkToken = [r \in CsrfReqs |-> 0]
  /\ revoked = {} /\ stale = {}
-----------------------------------------------------------------------------
\* GET csrf-token.
GenerateToken ==
  /\ lastToken < MaxTokens /\ lastToken' = lastToken + 1
  /\ csrf' = lastToken' /\ inBrowser' = inBrowser \cup {lastToken'}
  /\ UNCHANGED <<lateSets, checkPc, checkToken, revoked, stale>>
\* The SET throws; the token is not handed out.
GenerateFails ==
  /\ lastToken < MaxTokens /\ lastToken' = lastToken + 1
  /\ \/ csrf' = lastToken' /\ UNCHANGED lateSets
     \/ lateSets' = lateSets \cup {lastToken'} /\ UNCHANGED csrf
     \/ UNCHANGED <<csrf, lateSets>>
  /\ UNCHANGED <<inBrowser, checkPc, checkToken, revoked, stale>>
LateSetArrives ==
  /\ \E t \in lateSets : csrf' = t /\ lateSets' = lateSets \ {t}
  /\ UNCHANGED <<lastToken, inBrowser, checkPc, checkToken, revoked, stale>>

TokenExpires ==
  /\ csrf # 0 /\ csrf' = 0
  /\ UNCHANGED <<lastToken, lateSets, inBrowser, checkPc, checkToken, revoked, stale>>

\* Mutant: another key is deleted.
AfterRevokeKept == csrf
AfterRevoke == 0
\* GET csrf-token/revoke answers success too when the DEL is lost and nothing happens.
RevokeToken ==
  /\ csrf' = AfterRevoke /\ revoked' = inBrowser
  /\ UNCHANGED <<lastToken, lateSets, inBrowser, checkPc, checkToken, stale>>

\* The guard: safe methods pass before this, a request without a token is refused.
StateChangingRequest(r) ==
  /\ checkPc[r] = "idle"
  /\ \E t \in inBrowser : checkToken' = [checkToken EXCEPT ![r] = t]
  /\ checkPc' = [checkPc EXCEPT ![r] = "validate"]
  /\ UNCHANGED <<csrf, lastToken, lateSets, inBrowser, revoked, stale>>

\* secureCompare of what the GET answers.
Valid(stored, token) == stored # 0 /\ stored = token
ValidateToken(r) ==
  /\ checkPc[r] = "validate"
  /\ \E stored \in {csrf, 0} :
       /\ checkPc' = [checkPc EXCEPT ![r] =
            IF Valid(stored, checkToken[r]) THEN "passed" ELSE "refused"]
       /\ stale' = IF Valid(stored, checkToken[r]) /\ checkToken[r] \in revoked
                   THEN stale \cup {r} ELSE stale
  /\ UNCHANGED <<csrf, lastToken, lateSets, inBrowser, checkToken, revoked>>
CsrfAnswered(r) ==
  /\ checkPc[r] \in {"passed", "refused"}
  /\ checkPc' = [checkPc EXCEPT ![r] = "idle"]
  /\ checkToken' = [checkToken EXCEPT ![r] = 0]
  /\ stale' = stale \ {r}
  /\ UNCHANGED <<csrf, lastToken, lateSets, inBrowser, revoked>>

CsrfNext ==
  \/ GenerateToken \/ GenerateFails \/ LateSetArrives \/ TokenExpires
  \/ RevokeToken
  \/ \E r \in CsrfReqs : StateChangingRequest(r) \/ ValidateToken(r) \/ CsrfAnswered(r)

CsrfSpec == CsrfInit /\ [][CsrfNext]_csrfVars
-----------------------------------------------------------------------------
CsrfTypeOK ==
  /\ csrf \in 0 .. MaxTokens /\ lateSets \subseteq 1 .. MaxTokens
  /\ inBrowser \subseteq 1 .. MaxTokens
  /\ checkPc \in [CsrfReqs -> {"idle", "validate", "passed", "refused"}]

\* csrf.controller.ts:68, "Revoke CSRF token": once its revocation was done, no
\* token the browser holds passes the guard any more, although SETs that were
\* given up may still arrive after the DEL.
RevokedTokensStayRevoked == stale = {}
=============================================================================
