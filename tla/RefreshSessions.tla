--------------------------- MODULE RefreshSessions ---------------------------
(***************************************************************************)
(* Refresh-token sessions: sign-in, refresh-token rotation and logout-all, *)
(* as interleaved requests of several app instances over one Redis.        *)
(*                                                                         *)
(* Redis holds two kinds of key, both with a time to live:                 *)
(*   auth:session:<sid>:jti            allow[s], allowTtl[s]               *)
(*   auth:user:<userId>:session:<sid>  indexTtl[u][s], 0 when absent       *)
(*                                                                         *)
(* A request is one of Reqs.  Between two steps of a request the code is   *)
(* suspended at an await, so every Redis command and every database read   *)
(* is an action.  pc[r] names the await the request is suspended at:       *)
(*   refresh:  guard -> lookup -> match -> rotate -> mint                  *)
(*   sign-in:  open -> track -> mint                                       *)
(*   logout:   list -> (revoke -> untrack)*                                *)
(*                                                                         *)
(* With Faults, a Redis command may fail the way redis.service.ts reports  *)
(* it: get answers null, keys answers [], del is silently given up, set    *)
(* throws.  The command may nevertheless reach the server later, or more   *)
(* than once (the client library resends commands whose reply was lost):   *)
(* such writes are kept in late.                                           *)
(*                                                                         *)
(* Sids and Jtis are the random identifiers; taking one that was never     *)
(* generated before stands for randomUUID.  In a finite instance their     *)
(* number bounds how many sign-ins and rotations a behaviour has.          *)
(***************************************************************************)
EXTENDS Naturals

CONSTANTS Users, Sids, Jtis, Reqs,
          RefreshTtl,           \* refresh-token expiry, in ticks
          Faults,               \* may Redis commands fail?
          NoUser, NoSid, NoJti

ASSUME RefreshTtlAssumption == RefreshTtl \in Nat \ {0}
ASSUME FaultsAssumption == Faults \in BOOLEAN
ASSUME NullAssumption == NoUser \notin Users /\ NoSid \notin Sids /\ NoJti \notin Jtis

VARIABLES
  allow, allowTtl,  \* the allowlist keys
  indexTtl,         \* the per-user session index keys
  late,             \* writes whose request gave up on them
  pc, req,          \* the requests: where they are and their local variables
  tokens,           \* every refresh token handed to a client
  owner, gen,       \* history: for whom a sid, for which sid a jti was generated
  stored, spent,    \* history: jtis ever allowlisted; presented and replaced
  revoked           \* history: sessions logout-all deleted, and how

storeVars == <<allow, allowTtl, indexTtl, late>>
history == <<owner, gen, stored, spent, revoked>>
vars == <<allow, allowTtl, indexTtl, late, pc, req, tokens,
          owner, gen, stored, spent, revoked>>

Steps == {"idle", "guard", "lookup", "match", "rotate", "mint",
          "open", "track", "list", "revoke", "untrack"}

\* A refresh token.  Tokens of verify-otp and of the OAuth sign-in carry
\* neither sid nor jti.  from is history: the jti presented to obtain it.
Token == [user : Users, sid : Sids \cup {NoSid}, jti : Jtis \cup {NoJti},
          from : Jtis \cup {NoJti}]

\* Locals of a request: the presented jti (old), the generated one (new) and
\* the sessions logout-all has still to revoke (todo).
Request == [user : Users \cup {NoUser}, sid : Sids \cup {NoSid},
            old : Jtis \cup {NoJti}, new : Jtis \cup {NoJti},
            todo : SUBSET Sids]

Blank == [user |-> NoUser, sid |-> NoSid, old |-> NoJti, new |-> NoJti, todo |-> {}]

Write == [op : {"setAllow", "delAllow", "setIndex", "delIndex"},
          user : Users, sid : Sids, jti : Jtis \cup {NoJti},
          old : Jtis \cup {NoJti}]

TypeOK ==
  /\ allow \in [Sids -> Jtis \cup {NoJti}]
  /\ allowTtl \in [Sids -> 0 .. RefreshTtl]
  /\ indexTtl \in [Users -> [Sids -> 0 .. RefreshTtl]]
  /\ late \subseteq Write
  /\ pc \in [Reqs -> Steps]
  /\ req \in [Reqs -> Request]
  /\ tokens \subseteq Token
  /\ owner \in [Sids -> Users \cup {NoUser}]
  /\ gen \in [Jtis -> Sids \cup {NoSid}]
  /\ stored \subseteq Jtis
  /\ spent \subseteq Jtis
  /\ revoked \in [Sids -> {"no", "racing", "clean"}]

Init ==
  /\ allow = [s \in Sids |-> NoJti]
  /\ allowTtl = [s \in Sids |-> 0]
  /\ indexTtl = [u \in Users |-> [s \in Sids |-> 0]]
  /\ late = {}
  /\ pc = [r \in Reqs |-> "idle"]
  /\ req = [r \in Reqs |-> Blank]
  /\ tokens = {}
  /\ owner = [s \in Sids |-> NoUser]
  /\ gen = [j \in Jtis |-> NoSid]
  /\ stored = {}
  /\ spent = {}
  /\ revoked = [s \in Sids |-> "no"]
-----------------------------------------------------------------------------
(* Helpers *)

FreshSids == {s \in Sids : owner[s] = NoUser}
\* Mutant: the generator may repeat itself.
RepeatingJtis == Jtis
FreshJtis == {j \in Jtis : gen[j] = NoSid}

Goto(r, step) == pc' = [pc EXCEPT ![r] = step]

\* The request ends, with a response or with an error.
Finish(r) ==
  /\ Goto(r, "idle")
  /\ req' = [req EXCEPT ![r] = Blank]

\* Mutant: SET is sent without EX.
SetForever(s, j, old) ==
  /\ allow' = [allow EXCEPT ![s] = j]
  /\ allowTtl' = [allowTtl EXCEPT ![s] = 0]
  /\ stored' = stored \cup {j}
  /\ spent' = spent \cup ({old} \ {NoJti})

\* SET auth:session:<s>:jti j EX ttl; old is the jti this write replaces on
\* presentation, NoJti for a sign-in.
SetCurrentJti(s, j, old) ==
  /\ allow' = [allow EXCEPT ![s] = j]
  /\ allowTtl' = [allowTtl EXCEPT ![s] = RefreshTtl]
  /\ stored' = stored \cup {j}
  /\ spent' = spent \cup ({old} \ {NoJti})

AddSession(u, s) == indexTtl' = [indexTtl EXCEPT ![u][s] = RefreshTtl]

RemoveSession(u, s) == indexTtl' = [indexTtl EXCEPT ![u][s] = 0]

\* Some write of the allowlist key of s is on its way: a request is suspended
\* in its SET, or a SET was given up but may still arrive.
WriteUnderWay(s) ==
  \/ \E r \in Reqs : pc[r] \in {"open", "rotate"} /\ req[r].sid = s
  \/ \E w \in late : w.op = "setAllow" /\ w.sid = s

\* DEL auth:session:<s>:jti.
RevokeKey(s) ==
  /\ allow' = [allow EXCEPT ![s] = NoJti]
  /\ allowTtl' = [allowTtl EXCEPT ![s] = 0]
  /\ revoked' = [revoked EXCEPT ![s] =
                   IF revoked[s] = "clean" \/ ~WriteUnderWay(s)
                   THEN "clean" ELSE "racing"]

\* listSessions: the sids of the index keys present for user u.
ListSessions(u) == {s \in Sids : indexTtl[u][s] > 0}
-----------------------------------------------------------------------------
(* Sign-in *)

\* Mutant: the allowlist key is not written.
SignInUnstored(r, u) ==
  /\ pc[r] = "idle"
  /\ \E s \in FreshSids, j \in FreshJtis :
       /\ req' = [req EXCEPT ![r] = [user |-> u, sid |-> s, old |-> NoJti, new |-> j, todo |-> {}]]
       /\ owner' = [owner EXCEPT ![s] = u]
       /\ gen' = [gen EXCEPT ![j] = s]
  /\ Goto(r, "track")
  /\ UNCHANGED <<storeVars, tokens, stored, spent, revoked>>

\* Credentials accepted and no MFA: sid and jti are generated; the request is
\* suspended in the SET of the allowlist key.
SignIn(r, u) ==
  /\ pc[r] = "idle"
  /\ \E s \in FreshSids, j \in FreshJtis :
       /\ req' = [req EXCEPT ![r] = [user |-> u, sid |-> s, old |-> NoJti, new |-> j, todo |-> {}]]
       /\ owner' = [owner EXCEPT ![s] = u]
       /\ gen' = [gen EXCEPT ![j] = s]
  /\ Goto(r, "open")
  /\ UNCHANGED <<storeVars, tokens, stored, spent, revoked>>

OpenSession(r) ==
  /\ pc[r] = "open"
  /\ SetCurrentJti(req[r].sid, req[r].new, NoJti)
  /\ Goto(r, "track")
  /\ UNCHANGED <<indexTtl, late, req, tokens, owner, gen, revoked>>

TrackSession(r) ==
  /\ pc[r] = "track"
  /\ AddSession(req[r].user, req[r].sid)
  /\ Goto(r, "mint")
  /\ UNCHANGED <<allow, allowTtl, late, req, tokens, history>>

\* generateTokens and the response, for sign-in and for refresh.
MintTokens(r) ==
  /\ pc[r] = "mint"
  /\ tokens' = tokens \cup {[user |-> req[r].user, sid |-> req[r].sid,
                             jti |-> req[r].new, from |-> req[r].old]}
  /\ Finish(r)
  /\ UNCHANGED <<storeVars, history>>

\* verify-otp and the OAuth sign-in issue tokens without a session.
IssueUnboundTokens(u) ==
  /\ tokens' = tokens \cup {[user |-> u, sid |-> NoSid, jti |-> NoJti, from |-> NoJti]}
  /\ UNCHANGED <<storeVars, pc, req, history>>
-----------------------------------------------------------------------------
(* Refresh *)

\* A client presents a token.  The guard verifies it and rejects it when the
\* signature or expiry check fails (such a request changes nothing and is not
\* an action) or when it carries no sid and jti.
PresentToken(r, t) ==
  /\ pc[r] = "idle"
  /\ t.sid # NoSid /\ t.jti # NoJti
  /\ req' = [req EXCEPT ![r] = [Blank EXCEPT !.user = t.user, !.sid = t.sid, !.old = t.jti]]
  /\ Goto(r, "guard")
  /\ UNCHANGED <<storeVars, tokens, history>>

\* Mutant: any jti will do while the session is open.
SessionOpen(r) == allow[req[r].sid] # NoJti

\* GET of the allowlist key equals the presented jti: the check made by the
\* guard and, a second time, by rotateIfMatches.
Matches(r) == allow[req[r].sid] = req[r].old

GuardAccepts(r) ==
  /\ pc[r] = "guard"
  /\ Matches(r)
  /\ Goto(r, "lookup")
  /\ UNCHANGED <<storeVars, req, tokens, history>>

\* Mutant: the presented jti is allowlisted again instead of a new one.
LookupKeepingJti(r) ==
  /\ pc[r] = "lookup"
  /\ req' = [req EXCEPT ![r].new = req[r].old]
  /\ Goto(r, "match")
  /\ UNCHANGED <<storeVars, tokens, history>>

\* findUserByEmail finds a verified user; the next jti is generated.
LookupUser(r) ==
  /\ pc[r] = "lookup"
  /\ \E j \in FreshJtis :
       /\ req' = [req EXCEPT ![r].new = j]
       /\ gen' = [gen EXCEPT ![j] = req[r].sid]
  /\ Goto(r, "match")
  /\ UNCHANGED <<storeVars, tokens, owner, stored, spent, revoked>>

\* Mutant: rotateIfMatches trusts the check of the guard.
RotateUnchecked(r) ==
  /\ pc[r] = "match"
  /\ Goto(r, "rotate")
  /\ UNCHANGED <<storeVars, req, tokens, history>>

RotateMatches(r) ==
  /\ pc[r] = "match"
  /\ Matches(r)
  /\ Goto(r, "rotate")
  /\ UNCHANGED <<storeVars, req, tokens, history>>

RotateSet(r) ==
  /\ pc[r] = "rotate"
  /\ SetCurrentJti(req[r].sid, req[r].new, req[r].old)
  /\ Goto(r, "mint")
  /\ UNCHANGED <<indexTtl, late, req, tokens, owner, gen, revoked>>

\* 401: the allowlist check fails (a failed GET answers null, which never
\* matches), or 4xx: the user is gone or unverified.
RefreshRejected(r) ==
  /\ \/ pc[r] \in {"guard", "match"} /\ (~Matches(r) \/ Faults)
     \/ pc[r] = "lookup"
  /\ Finish(r)
  /\ UNCHANGED <<storeVars, tokens, history>>
-----------------------------------------------------------------------------
(* Logout from all devices *)

\* The access token of u is accepted and findById finds the user.
LogoutAll(r, u) ==
  /\ pc[r] = "idle"
  /\ \E t \in tokens : t.user = u
  /\ req' = [req EXCEPT ![r] = [Blank EXCEPT !.user = u]]
  /\ Goto(r, "list")
  /\ UNCHANGED <<storeVars, tokens, history>>

\* KEYS, or [] when it fails.
ListAndBegin(r) ==
  /\ pc[r] = "list"
  /\ \/ /\ ListSessions(req[r].user) # {}
        /\ req' = [req EXCEPT ![r].todo = ListSessions(req[r].user)]
        /\ Goto(r, "revoke")
     \/ /\ ListSessions(req[r].user) = {} \/ Faults
        /\ Finish(r)
  /\ UNCHANGED <<storeVars, tokens, history>>

\* After the DEL of an allowlist key the loop goes on to its index key.
RevokeSession(r, s) ==
  /\ pc[r] = "revoke"
  /\ s \in req[r].todo
  /\ RevokeKey(s)
  /\ req' = [req EXCEPT ![r].sid = s]
  /\ Goto(r, "untrack")
  /\ UNCHANGED <<indexTtl, late, tokens, owner, gen, stored, spent>>

\* Mutant: the loop never advances.
SameSession(r) ==
  /\ Goto(r, "revoke")
  /\ UNCHANGED req

\* The next turn of the loop, or the end of it.
NextSession(r) ==
  LET rest == req[r].todo \ {req[r].sid}
  IN  IF rest = {}
      THEN Finish(r)
      ELSE /\ Goto(r, "revoke")
           /\ req' = [req EXCEPT ![r].todo = rest]

UntrackSession(r) ==
  /\ pc[r] = "untrack"
  /\ RemoveSession(req[r].user, req[r].sid)
  /\ NextSession(r)
  /\ UNCHANGED <<allow, allowTtl, late, tokens, history>>
-----------------------------------------------------------------------------
(* Redis faults and time *)

\* The write request r is suspended in.
Outstanding(r) ==
  LET write(op) == [op |-> op, user |-> req[r].user, sid |-> req[r].sid,
                    jti |-> req[r].new, old |-> req[r].old]
  IN  CASE pc[r] \in {"open", "rotate"} -> {write("setAllow")}
        [] pc[r] = "track" -> {write("setIndex")}
        [] OTHER -> {}

\* Mutant: a failed SET is swallowed, as a failed DEL is.
FailureSwallowed(r) ==
  /\ Faults
  /\ pc[r] \in {"open", "track", "rotate"}
  /\ late' = late \cup Outstanding(r)
  /\ Goto(r, IF pc[r] = "open" THEN "track" ELSE "mint")
  /\ UNCHANGED <<allow, allowTtl, indexTtl, req, tokens, history>>

\* set throws (error or timeout): the request fails with 500.  Also a crash of
\* the instance serving the request.  The outstanding write may still arrive.
RequestFails(r) ==
  /\ Faults
  /\ pc[r] # "idle"
  /\ late' = late \cup Outstanding(r)
  /\ Finish(r)
  /\ UNCHANGED <<allow, allowTtl, indexTtl, tokens, history>>

\* The server applied the SET but its reply was lost: the client library will
\* send the command again, the request is still suspended in it.
SetWithoutReply(r) ==
  /\ Faults
  /\ \/ pc[r] = "open" /\ SetCurrentJti(req[r].sid, req[r].new, NoJti)
     \/ pc[r] = "rotate" /\ SetCurrentJti(req[r].sid, req[r].new, req[r].old)
  /\ UNCHANGED <<indexTtl, late, pc, req, tokens, owner, gen, revoked>>

\* del gives up on error or timeout without telling its caller.
DelGivenUp(r) ==
  /\ Faults
  /\ \/ /\ pc[r] = "revoke"
        /\ \E s \in req[r].todo :
             /\ late' = late \cup {[op |-> "delAllow", user |-> req[r].user, sid |-> s,
                                    jti |-> NoJti, old |-> NoJti]}
             /\ req' = [req EXCEPT ![r].sid = s]
        /\ Goto(r, "untrack")
     \/ /\ pc[r] = "untrack"
        /\ late' = late \cup {[op |-> "delIndex", user |-> req[r].user, sid |-> req[r].sid,
                               jti |-> NoJti, old |-> NoJti]}
        /\ NextSession(r)
  /\ UNCHANGED <<allow, allowTtl, indexTtl, tokens, history>>

\* A given-up write reaches the server; the library may deliver it again.
LateArrives(w) ==
  /\ late' \in {late, late \ {w}}
  /\ \/ /\ w.op = "setAllow"
        /\ SetCurrentJti(w.sid, w.jti, w.old)
        /\ UNCHANGED <<indexTtl, revoked>>
     \/ /\ w.op = "delAllow"
        /\ RevokeKey(w.sid)
        /\ UNCHANGED <<indexTtl, stored, spent>>
     \/ /\ w.op = "setIndex"
        /\ AddSession(w.user, w.sid)
        /\ UNCHANGED <<allow, allowTtl, stored, spent, revoked>>
     \/ /\ w.op = "delIndex"
        /\ RemoveSession(w.user, w.sid)
        /\ UNCHANGED <<allow, allowTtl, stored, spent, revoked>>
  /\ UNCHANGED <<pc, req, tokens, owner, gen>>

\* ... or never does.
LateIsLost(w) ==
  /\ late' = late \ {w}
  /\ UNCHANGED <<allow, allowTtl, indexTtl, pc, req, tokens, history>>

KeysPresent ==
  \/ \E s \in Sids : allowTtl[s] > 0
  \/ \E u \in Users, s \in Sids : indexTtl[u][s] > 0

Decrement(n) == IF n = 0 THEN 0 ELSE n - 1

\* Time passes; Redis drops the keys whose time to live has run out.
Tick ==
  /\ KeysPresent
  /\ allow' = [s \in Sids |-> IF allowTtl[s] = 1 THEN NoJti ELSE allow[s]]
  /\ allowTtl' = [s \in Sids |-> Decrement(allowTtl[s])]
  /\ indexTtl' = [u \in Users |-> [s \in Sids |-> Decrement(indexTtl[u][s])]]
  /\ UNCHANGED <<late, pc, req, tokens, history>>
-----------------------------------------------------------------------------
\* The steps by which a request that has begun comes to its end.
Progress(r) ==
  \/ OpenSession(r) \/ TrackSession(r) \/ MintTokens(r)
  \/ GuardAccepts(r) \/ LookupUser(r) \/ RotateMatches(r) \/ RotateSet(r)
  \/ RefreshRejected(r)
  \/ ListAndBegin(r) \/ UntrackSession(r)
  \/ \E s \in Sids : RevokeSession(r, s)

Next ==
  \/ \E r \in Reqs :
       \/ Progress(r)
       \/ \E u \in Users : SignIn(r, u)
       \/ \E t \in tokens : PresentToken(r, t)
       \/ \E u \in Users : LogoutAll(r, u)
       \/ RequestFails(r)
       \/ SetWithoutReply(r)
       \/ DelGivenUp(r)
  \/ \E u \in Users : IssueUnboundTokens(u)
  \/ \E w \in late : LateArrives(w) \/ LateIsLost(w)
  \/ Tick

Spec == Init /\ [][Next]_vars

\* Every await of a request settles (each Redis command races a timer), so a
\* request that has begun keeps moving; and time passes.  Clients owe nothing.
Fairness ==
  /\ \A r \in Reqs : WF_vars(Progress(r))
  /\ WF_vars(Tick)

FairSpec == Spec /\ Fairness
-----------------------------------------------------------------------------
(* Properties *)

\* A jti that a refresh presented and replaced in the allowlist is never the
\* accepted one again, whatever refreshes race, replies get lost and given-up
\* writes arrive late (the rotation of rotateIfMatches).
SpentNeverAccepted == \A s \in Sids : allow[s] \notin spent

\* A session whose allowlist key logout-all deleted while no SET of that key
\* was under way stays closed for good: no token of it is accepted again, in
\* particular not through a refresh that had already passed the guard.
CleanRevocationIsFinal == \A s \in Sids : revoked[s] = "clean" => allow[s] = NoJti

\* A refresh token leaves the server only after its jti was stored, for the
\* session and the user it names, and no two tokens share a jti: sign-in and
\* refresh store first and issue afterwards, also when a write of theirs fails.
IssuedTokensAreBacked ==
  /\ \A t \in tokens : t.sid # NoSid =>
       /\ t.jti \in stored
       /\ gen[t.jti] = t.sid
       /\ owner[t.sid] = t.user
  /\ \A t, q \in tokens : t.jti = q.jti /\ t.jti # NoJti => t = q

\* The two key spaces agree on whose session is whose: the allowlist accepts
\* for s only a jti generated for s, and s is indexed only under the user who
\* signed in, so that logout-all of one user closes no session of another.
KeysBelongToOwner ==
  \A s \in Sids :
    /\ allow[s] # NoJti => gen[allow[s]] = s
    /\ \A u \in Users : indexTtl[u][s] > 0 => owner[s] = u
    /\ \A r \in Reqs : s \in req[r].todo => owner[s] = req[r].user

\* The component implements the weak session store ...
Store == INSTANCE SessionStore WITH current <- allow
StorePromise == Store!Spec

\* ... and the atomic one when requests are served one at a time and Redis
\* answers.
AtomicStorePromise == Store!AtomicSpec

\* Every request comes to an end, the loop of logout-all included.
RequestsFinish == \A r \in Reqs : pc[r] # "idle" ~> pc[r] = "idle"

\* No jti is accepted for ever: unless it is replaced or revoked it expires.
EveryJtiExpires == \A s \in Sids, j \in Jtis : (allow[s] = j) ~> (allow[s] # j)
-----------------------------------------------------------------------------
(* The inductive invariant behind the safety properties.  Its core: a jti    *)
(* whose SET can still happen belongs to one request or one given-up write,  *)
(* and is not in any token yet; a spent jti is in a token.  So no SET can    *)
(* bring a spent jti back.                                                   *)

InToken(j) == \E t \in tokens : t.jti = j

\* The locals of a request, at each of its steps.
RequestsWellFormed ==
  \A r \in Reqs :
    LET q == req[r] IN
    /\ pc[r] = "idle" => q = Blank
    /\ pc[r] \in {"guard", "lookup", "match", "rotate"} =>
         \E t \in tokens : t.sid # NoSid /\ t.sid = q.sid /\ t.jti = q.old /\ t.user = q.user
    /\ pc[r] \in {"open", "track", "mint"} => q.sid \in Sids /\ owner[q.sid] = q.user
    /\ pc[r] \in {"open", "track"} => q.old = NoJti
    /\ pc[r] \in {"match", "rotate", "open", "track", "mint"} => q.new # NoJti /\ gen[q.new] = q.sid
    /\ pc[r] \in {"guard", "lookup", "list", "revoke", "untrack"} => q.new = NoJti
    /\ pc[r] \in {"track", "mint"} => q.new \in stored
    /\ pc[r] # "idle" => q.user \in Users
    /\ pc[r] = "untrack" => q.sid \in q.todo

\* What a given-up write may still do.
LateWritesWellFormed ==
  \A w \in late :
    /\ owner[w.sid] = w.user
    /\ w.op = "setAllow" => w.jti # NoJti /\ gen[w.jti] = w.sid
    /\ w.op = "setAllow" /\ w.old # NoJti => \E t \in tokens : t.jti = w.old /\ t.sid = w.sid

\* A generated jti is in one place only until its token is issued.
UnissuedJtisAreUnique ==
  /\ \A r \in Reqs : req[r].new # NoJti =>
       /\ ~InToken(req[r].new)
       /\ \A q \in Reqs \ {r} : req[q].new # req[r].new
       /\ \A w \in late : w.op = "setAllow" => w.jti # req[r].new
  /\ \A w \in late : w.op = "setAllow" => ~InToken(w.jti)

TokensWellFormed == \A t \in tokens : (t.sid = NoSid) <=> (t.jti = NoJti)

SpentIsIssued == \A j \in spent : InToken(j)

\* A cleanly revoked session has no SET that could reopen it.
CleanlyRevokedIsQuiet ==
  \A s \in Sids : revoked[s] = "clean" =>
    owner[s] # NoUser /\ allow[s] = NoJti /\ ~WriteUnderWay(s)

IInv ==
  /\ TypeOK
  /\ RequestsWellFormed
  /\ LateWritesWellFormed
  /\ UnissuedJtisAreUnique
  /\ TokensWellFormed
  /\ SpentIsIssued
  /\ CleanlyRevokedIsQuiet
  /\ SpentNeverAccepted
  /\ IssuedTokensAreBacked
  /\ KeysBelongToOwner
-----------------------------------------------------------------------------
(* Statements of the documentation, which the code does not keep *)

\* documents/logics_md/jti_refresh_flow.md: "single-use refresh tokens".
TokensAreSingleUse ==
  \A t, q \in tokens : t.from = q.from /\ t.from # NoJti => t = q

\* The same document on logout-all: "all refresh tokens fail on next use".
LogoutClosesSessions == \A s \in Sids : revoked[s] # "no" => allow[s] = NoJti

\* The same document: the index key lets logout-all "find all sessions".  The code
\* does not keep it: a refresh renews the allowlist key only.
LiveSessionsAreIndexed ==
  \A s \in Sids :
    (allow[s] # NoJti /\ \A r \in Reqs : pc[r] = "track" => req[r].sid # s)
      => indexTtl[owner[s]][s] > 0
=============================================================================
