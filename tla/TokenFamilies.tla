---------------------------- MODULE TokenFamilies ----------------------------
(***************************************************************************)
(* TokenRotationService: rotation with token families, reuse detection and *)
(* a grace period for concurrent requests.  The service is a provider that *)
(* no use case calls yet (RefreshSessions has the refresh that runs); this *)
(* module is about what it would do.                                       *)
(*                                                                         *)
(* Three Redis keys per session: the allowlisted jti, the family record,   *)
(* the jti that enjoys the grace period; and the index of a user's         *)
(* sessions.  Requests of several instances run at once, each suspended at *)
(* one Redis command at a time:                                            *)
(*   rotation:   check -> (grace) -> family -> (create) -> store ->        *)
(*               compare -> set -> count -> counted                        *)
(*   revocation: (revoke -> (revoked) -> del -> unindex)*                   *)
(* A rotation that detects a reuse, or the limit, becomes a revocation.    *)
(*                                                                         *)
(* Keys expire.  A command may fail as redis.service.ts     *)
(* has it: a GET answers null, a SET throws, a DEL is silently given up.   *)
(* A write that was given up, or whose reply was lost, may still reach the *)
(* server, once or several times: it is kept in famLate.  jtis are numbers *)
(* in the order they are generated, 0 is an absent key.                    *)
(***************************************************************************)
EXTENDS Integers, FiniteSets

CONSTANTS FamReqs,         \* the requests that may be under way at once
          FamSids,
          FamActive,       \* bound: the sessions whose tokens are presented
          MaxRotations,    \* MAX_ROTATIONS
          MaxFamBegun,     \* bound: requests that are ever begun
          MaxFamMishaps    \* bound: commands and requests that fail, records and jtis that
                           \* expire

ASSUME FamilyAssumption ==
  /\ MaxRotations \in Nat \ {0} /\ MaxFamMishaps \in Nat /\ MaxFamBegun \in Nat
  /\ IsFiniteSet(FamReqs) /\ IsFiniteSet(FamSids) /\ FamActive \subseteq FamSids

VARIABLES
  allowed,      \* JtiAllowlistService: the current jti of a session
  family,       \* token:family:<sid>
  grace,        \* token:grace:<sid>
  indexed,      \* UserSessionIndexService: the user's sessions
  famLate,      \* writes that were given up, or repeated, and may still arrive
  famBegun, famMishaps,  \* the requests begun, failures and expirations so far
  famPc, famReq,
  lastJti,      \* the jtis generated so far
  held,         \* history: tokens handed out, as <<sid, jti>>
  latest,       \* history: the last jti the allowlist had of a session
  graced,       \* history: tokens that have had a grace period, or that are
                \* replaced because an older one was in its grace period
  clashed,      \* history: <<key, sid>> whose key was written by a request that had
                \* not read what it wrote over; families with a write left on its way
  ended,        \* history: sessions whose revocation was completed
  shut,         \* history: sessions whose jti was deleted, no SET of it on its way
  bare          \* history: sessions whose record has, at some time since their
                \* revocation was completed, not said that they are revoked

famKeys == <<allowed, family, grace, indexed>>
famHist == <<latest, graced, clashed, ended, shut, bare>>
familyVars == <<famKeys, famLate, famBegun, famMishaps, famPc, famReq, lastJti, held, famHist>>

NoFamily == [count |-> -1, revoked |-> FALSE]
FamIdle == [sid |-> "none", jti |-> 0, seen |-> 0, new |-> 0, fam |-> NoFamily,
            cause |-> "none", todo |-> {}, after |-> {}]
FamSteps == {"idle", "check", "grace", "family", "create", "store", "compare", "set",
             "count", "counted", "revoke", "revoked", "del", "unindex"}

FirstJti == CHOOSE f \in [FamSids -> 1 .. Cardinality(FamSids)] :
              \A s, t \in FamSids : f[s] = f[t] => s = t

\* Sessions that a sign-in has opened; families appear with the first rotation.
FamiliesInit ==
  /\ allowed = FirstJti /\ latest = FirstJti
  /\ held = {<<s, FirstJti[s]>> : s \in FamSids}
  /\ family = [s \in FamSids |-> NoFamily]
  /\ grace = [s \in FamSids |-> 0]
  /\ indexed = FamSids /\ famLate = {} /\ famMishaps = 0 /\ famBegun = 0
  /\ famPc = [r \in FamReqs |-> "idle"] /\ famReq = [r \in FamReqs |-> FamIdle]
  /\ lastJti = Cardinality(FamSids)
  /\ graced = {} /\ clashed = {} /\ ended = {} /\ shut = {} /\ bare = {}
-----------------------------------------------------------------------------
(* Commands that write *)

SeesBare == bare' = bare \cup {s \in ended' : ~family'[s].revoked}

FamGoto(r, step) == famPc' = [famPc EXCEPT ![r] = step]
FamEnds(r) == FamGoto(r, "idle") /\ famReq' = [famReq EXCEPT ![r] = FamIdle]

FamWrite(key, q, jti, fam) ==
  [key |-> key, sid |-> q.sid, seen |-> q.seen, jti |-> jti, old |-> q.fam, fam |-> fam]
\* The SET or DEL that a request is suspended in: a new record, what was read and
\* changed, the PRESENTED jti for the grace period (current or not), the new jti.
FamCommand(r) ==
  LET q == famReq[r] IN
  CASE famPc[r] = "create"  -> FamWrite("family", q, 0, [count |-> 0, revoked |-> FALSE])
    [] famPc[r] = "counted" -> FamWrite("family", q, 0, [q.fam EXCEPT !.count = @ + 1])
    [] famPc[r] = "revoked" -> FamWrite("family", q, 0, [q.fam EXCEPT !.revoked = TRUE])
    [] famPc[r] = "store"   -> FamWrite("grace", q, q.jti, NoFamily)
    [] famPc[r] = "set"     -> FamWrite("set", q, q.new, NoFamily)
    [] famPc[r] = "del"     -> FamWrite("del", q, 0, NoFamily)
    [] famPc[r] = "unindex" -> FamWrite("unindex", q, 0, NoFamily)
FamSets == {"create", "store", "set", "counted", "revoked"}
FamDels == {"del", "unindex"}

\* Some SET of the allowlist key of s is on its way.
SetOnItsWay(s) ==
  \/ \E r \in FamReqs : famPc[r] = "set" /\ famReq[r].sid = s
  \/ \E w \in famLate : w.key = "set" /\ w.sid = s

\* Mutant: nothing is kept of the replaced jti.
StoredForgotten(s, j) == grace
Stored(s, j) == [grace EXCEPT ![s] = j]
\* Mutant: the family is marked, the allowlist entry stays.
KeepAllowed(s) == allowed
DropAllowed(s) == [allowed EXCEPT ![s] = 0]

ExecuteFamily(w) ==
  /\ w.key = "family"
  /\ family' = [family EXCEPT ![w.sid] = w.fam]
  /\ clashed' = clashed \cup {x \in {<<"family", w.sid>>} : family[w.sid] # w.old}
  /\ UNCHANGED <<allowed, grace, indexed, latest, graced, ended, shut>>
  /\ SeesBare
ExecuteGrace(w) ==
  /\ w.key = "grace"
  /\ grace' = Stored(w.sid, w.jti)
  /\ graced' = graced \cup {<<w.sid, grace'[w.sid]>>}
                      \cup {<<w.sid, w.seen>> : x \in {w.seen} \ {w.jti}}
  /\ UNCHANGED <<allowed, family, indexed, latest, clashed, ended, shut, bare>>
ExecuteSet(w) ==
  /\ w.key = "set"
  /\ allowed' = [allowed EXCEPT ![w.sid] = w.jti]
  /\ latest' = [latest EXCEPT ![w.sid] = w.jti]
  /\ clashed' = clashed \cup {x \in {<<"allowed", w.sid>>} : latest[w.sid] \notin {w.seen, w.jti}}
  /\ UNCHANGED <<family, grace, indexed, graced, ended, shut, bare>>
ExecuteDel(w) ==
  /\ w.key = "del"
  /\ allowed' = DropAllowed(w.sid)
  /\ shut' = shut \cup {s \in {w.sid} : ~SetOnItsWay(s)}
  /\ UNCHANGED <<family, grace, indexed, latest, graced, clashed, ended, bare>>
ExecuteUnindex(w) ==
  /\ w.key = "unindex"
  /\ indexed' = indexed \ {w.sid}
  /\ UNCHANGED <<allowed, family, grace, famHist>>
FamExecute(w) ==
  ExecuteFamily(w) \/ ExecuteGrace(w) \/ ExecuteSet(w) \/ ExecuteDel(w) \/ ExecuteUnindex(w)
-----------------------------------------------------------------------------
(* Rotation *)

FamBegin == famBegun < MaxFamBegun /\ famBegun' = famBegun + 1

RotateToken(r) ==
  /\ famPc[r] = "idle" /\ FamBegin
  /\ \E t \in {x \in held : x[1] \in FamActive} :
       famReq' = [famReq EXCEPT ![r] =
                    [FamIdle EXCEPT !.sid = t[1], !.jti = t[2], !.after = ended]]
  /\ FamGoto(r, "check")
  /\ UNCHANGED <<famKeys, famLate, famMishaps, lastJti, held, famHist>>

FamMishap == famMishaps < MaxFamMishaps /\ famMishaps' = famMishaps + 1
\* A GET answers what is there, or null when it fails.
Answers(x, value, null) ==
  \/ x = value /\ UNCHANGED famMishaps
  \/ x = null /\ FamMishap

\* getCurrentJtiForSession, and the comparison with the presented jti.
CheckJti(r) ==
  /\ famPc[r] = "check"
  /\ \E now \in {allowed[famReq[r].sid], 0} :
       /\ Answers(now, allowed[famReq[r].sid], 0)
       /\ \/ now = 0 /\ FamEnds(r)
          \/ /\ now # 0
             /\ FamGoto(r, IF now = famReq[r].jti THEN "family" ELSE "grace")
             /\ famReq' = [famReq EXCEPT ![r].seen = now]
  /\ UNCHANGED <<famKeys, famLate, famBegun, lastJti, held, famHist>>

FamRevokes(r, cause) == FamGoto(r, "revoke") /\ famReq' = [famReq EXCEPT ![r].cause = cause]

CheckGracePeriod(r) ==
  /\ famPc[r] = "grace"
  /\ \E j \in {grace[famReq[r].sid], 0} :
       /\ Answers(j, grace[famReq[r].sid], 0)
       /\ \/ j = famReq[r].jti /\ FamGoto(r, "family") /\ UNCHANGED famReq
          \/ j # famReq[r].jti /\ FamRevokes(r, "reuse")
  /\ UNCHANGED <<famKeys, famLate, famBegun, lastJti, held, famHist>>

\* Mutant: the limit is one too high.
TooManyLater(f) == f.count > MaxRotations
TooMany(f) == f.count >= MaxRotations

\* Mutant: the mark of a revoked family is not looked at.
CheckFamilyCount(r) ==
  /\ famPc[r] = "family"
  /\ \E f \in {family[famReq[r].sid], NoFamily} :
       /\ Answers(f, family[famReq[r].sid], NoFamily)
       /\ \/ f = NoFamily /\ FamGoto(r, "create") /\ UNCHANGED famReq
          \/ TooMany(f) /\ FamRevokes(r, "limit")
          \/ f # NoFamily /\ ~TooMany(f) /\ FamGoto(r, "store") /\ UNCHANGED famReq
  /\ UNCHANGED <<famKeys, famLate, famBegun, lastJti, held, famHist>>
\* getTokenFamily and the checks of the family.
CheckFamily(r) ==
  /\ famPc[r] = "family"
  /\ \E f \in {family[famReq[r].sid], NoFamily} :
       /\ Answers(f, family[famReq[r].sid], NoFamily)
       /\ \/ f = NoFamily /\ FamGoto(r, "create") /\ UNCHANGED famReq
          \/ TooMany(f) /\ FamRevokes(r, "limit")
          \/ ~TooMany(f) /\ f.revoked /\ FamEnds(r)
          \/ f # NoFamily /\ ~TooMany(f) /\ ~f.revoked /\ FamGoto(r, "store") /\ UNCHANGED famReq
  /\ UNCHANGED <<famKeys, famLate, famBegun, lastJti, held, famHist>>

CreateTokenFamily(r) ==
  /\ famPc[r] = "create" /\ FamExecute(FamCommand(r))
  /\ FamGoto(r, "store")
  /\ UNCHANGED <<famLate, famBegun, famMishaps, famReq, lastJti, held>>

\* generateJti, then storeInGracePeriod.
StoreInGracePeriod(r) ==
  /\ famPc[r] = "store" /\ FamExecute(FamCommand(r))
  /\ lastJti' = lastJti + 1
  /\ famReq' = [famReq EXCEPT ![r].new = lastJti + 1]
  /\ FamGoto(r, "compare")
  /\ UNCHANGED <<famLate, famBegun, famMishaps, held>>

\* rotateIfMatches, GET then SET.
RotateCompare(r) ==
  /\ famPc[r] = "compare"
  /\ \E now \in {allowed[famReq[r].sid], 0} :
       /\ Answers(now, allowed[famReq[r].sid], 0)
       /\ \/ now = famReq[r].seen /\ FamGoto(r, "set") /\ UNCHANGED famReq
          \/ now # famReq[r].seen /\ FamEnds(r)
  /\ UNCHANGED <<famKeys, famLate, famBegun, lastJti, held, famHist>>
RotateReplace(r) ==
  /\ famPc[r] = "set" /\ FamExecute(FamCommand(r))
  /\ FamGoto(r, "count")
  /\ UNCHANGED <<famLate, famBegun, famMishaps, famReq, lastJti, held>>

\* generateTokens: the client gets its tokens.
HandOut(r) ==
  /\ held' = held \cup {<<famReq[r].sid, famReq[r].new>>}
  /\ FamEnds(r)

\* updateTokenFamily, GET then SET of what was read.
ReadForUpdate(r) ==
  /\ famPc[r] = "count"
  /\ \E f \in {family[famReq[r].sid], NoFamily} :
       /\ Answers(f, family[famReq[r].sid], NoFamily)
       /\ \/ f = NoFamily /\ HandOut(r)
          \/ /\ f # NoFamily /\ FamGoto(r, "counted")
             /\ famReq' = [famReq EXCEPT ![r].fam = f] /\ UNCHANGED held
  /\ UNCHANGED <<famKeys, famLate, famBegun, lastJti, famHist>>
UpdateTokenFamily(r) ==
  /\ famPc[r] = "counted" /\ FamExecute(FamCommand(r))
  /\ HandOut(r)
  /\ UNCHANGED <<famLate, famBegun, famMishaps, lastJti>>
-----------------------------------------------------------------------------
(* Revocation of one session, alone or in the loop over all of a user *)

RevokeAllUserSessions(r) ==
  /\ famPc[r] = "idle" /\ FamBegin
  /\ \E s \in indexed :
       famReq' = [famReq EXCEPT ![r] =
                    [FamIdle EXCEPT !.sid = s, !.todo = indexed \ {s}, !.cause = "all"]]
  /\ FamGoto(r, "revoke")
  /\ UNCHANGED <<famKeys, famLate, famMishaps, lastJti, held, famHist>>

ReadForRevoke(r) ==
  /\ famPc[r] = "revoke"
  /\ \E f \in {family[famReq[r].sid], NoFamily} :
       /\ Answers(f, family[famReq[r].sid], NoFamily)
       /\ famReq' = [famReq EXCEPT ![r].fam = f]
       /\ FamGoto(r, IF f = NoFamily THEN "del" ELSE "revoked")
  /\ UNCHANGED <<famKeys, famLate, famBegun, lastJti, held, famHist>>
RevokeTokenFamily(r) ==
  /\ famPc[r] = "revoked" /\ FamExecute(FamCommand(r))
  /\ FamGoto(r, "del")
  /\ UNCHANGED <<famLate, famBegun, famMishaps, famReq, lastJti, held>>
RevokeFamilySession(r) ==
  /\ famPc[r] = "del" /\ FamExecute(FamCommand(r))
  /\ FamGoto(r, "unindex")
  /\ UNCHANGED <<famLate, famBegun, famMishaps, famReq, lastJti, held>>

\* The sessions that are left for the loop.
Others(todo, t) == todo \ {t}
\* The next session of the loop, or the end.
NextOfAll(r) ==
  \/ famReq[r].todo = {} /\ FamEnds(r)
  \/ \E t \in famReq[r].todo :
       /\ famReq' = [famReq EXCEPT ![r].sid = t, ![r].todo = Others(@, t)]
       /\ FamGoto(r, "revoke")
\* removeSession, and on.
RemoveFamilySession(r) ==
  /\ famPc[r] = "unindex"
  /\ indexed' = indexed \ {famReq[r].sid}
  /\ ended' = ended \cup {famReq[r].sid}
  /\ NextOfAll(r)
  /\ UNCHANGED <<allowed, family, grace, famLate, famMishaps, famBegun, lastJti, held, latest, graced, clashed, shut>>
  /\ SeesBare
-----------------------------------------------------------------------------
FamilyStep(r) ==
  \/ CheckJti(r) \/ CheckGracePeriod(r) \/ CheckFamily(r) \/ CreateTokenFamily(r)
  \/ StoreInGracePeriod(r) \/ RotateCompare(r) \/ RotateReplace(r)
  \/ ReadForUpdate(r) \/ UpdateTokenFamily(r) \/ ReadForRevoke(r)
  \/ RevokeTokenFamily(r) \/ RevokeFamilySession(r) \/ RemoveFamilySession(r)

\* A write is left on its way, or lost.
LeftOnItsWay(w) ==
  \/ UNCHANGED <<famLate, clashed>>
  \/ /\ famLate' = famLate \cup {w}
     /\ clashed' = clashed \cup {x \in {<<"family", w.sid>>} : w.key = "family"}

\* A SET throws: rotateToken answers "internal error", revokeAllUserSessions throws;
\* or the instance that serves the request crashes.  What is done stays done.
FamilyFails(r) ==
  /\ FamMishap /\ famPc[r] # "idle"
  /\ FamEnds(r)
  /\ \/ famPc[r] \in FamSets \cup FamDels /\ LeftOnItsWay(FamCommand(r))
     \/ famPc[r] \notin FamSets \cup FamDels /\ UNCHANGED <<famLate, clashed>>
  /\ UNCHANGED <<famKeys, famBegun, lastJti, held, latest, graced, ended, shut, bare>>
\* del gives up and does not tell.
FamDelGivenUp(r) ==
  /\ FamMishap /\ famPc[r] \in FamDels
  /\ LeftOnItsWay(FamCommand(r))
  /\ \/ famPc[r] = "del" /\ FamGoto(r, "unindex") /\ UNCHANGED <<famReq, ended>>
     \/ famPc[r] = "unindex" /\ NextOfAll(r) /\ ended' = ended \cup {famReq[r].sid}
  /\ UNCHANGED <<famKeys, famBegun, lastJti, held, latest, graced, shut>>
  /\ SeesBare
\* The reply of a SET is lost: the client library sends the command again.
FamReplyLost(r) ==
  /\ FamMishap /\ famPc[r] \in FamSets
  /\ LeftOnItsWay(FamCommand(r))
  /\ UNCHANGED <<famKeys, famPc, famReq, famBegun, lastJti, held, latest, graced, ended, shut, bare>>
\* A write that was left arrives, for the last time or not.
FamLateArrives(w) ==
  /\ famLate' \in {famLate, famLate \ {w}}
  /\ FamExecute(w)
  /\ UNCHANGED <<famBegun, famMishaps, famPc, famReq, lastJti, held>>

GraceEnds(s) ==
  /\ grace[s] # 0 /\ grace' = [grace EXCEPT ![s] = 0]
  /\ UNCHANGED <<allowed, family, indexed, famLate, famPc, famReq, famBegun, famMishaps, lastJti, held, famHist>>
FamilyExpires(s) ==
  /\ FamMishap /\ family[s] # NoFamily /\ family' = [family EXCEPT ![s] = NoFamily]
  /\ UNCHANGED <<allowed, grace, indexed, famLate, famPc, famReq, famBegun, lastJti, held,
                 latest, graced, clashed, ended, shut>>
  /\ SeesBare
JtiRunsOut(s) ==
  /\ FamMishap /\ allowed[s] # 0 /\ allowed' = [allowed EXCEPT ![s] = 0]
  /\ UNCHANGED <<family, grace, indexed, famLate, famPc, famReq, famBegun, lastJti, held, famHist>>

FamiliesNext ==
  \/ \E r \in FamReqs :
       \/ RotateToken(r) \/ RevokeAllUserSessions(r) \/ FamilyStep(r)
       \/ FamilyFails(r) \/ FamDelGivenUp(r) \/ FamReplyLost(r)
  \/ \E w \in famLate : FamLateArrives(w)
  \/ \E s \in FamSids : GraceEnds(s) \/ FamilyExpires(s) \/ JtiRunsOut(s)

FamiliesSpec == FamiliesInit /\ [][FamiliesNext]_familyVars
-----------------------------------------------------------------------------
(* Properties *)

FamiliesTypeOK ==
  /\ allowed \in [FamSids -> Nat] /\ grace \in [FamSids -> Nat]
  /\ family \in [FamSids -> [count : Int, revoked : BOOLEAN]]
  /\ indexed \subseteq FamSids
  /\ famPc \in [FamReqs -> FamSteps] /\ lastJti \in Nat
  /\ held \subseteq FamSids \X Nat

\* token-rotation.service.ts:41, "Grace period": a token that was handed out is
\* taken for stolen only after its grace period has begun, whatever fails on the way,
\* for the period begins before the jti is replaced: a client whose rotation broke off
\* can repeat it.  Two exceptions: a token replaced on behalf of an older one in its
\* grace period never gets a period of its own; and where the GET and the SET of the
\* rotation did not see the same jti (racing rotations, a SET that arrived late), one
\* of two genuine clients is the thief.
GraceComesFirst ==
  \A r \in FamReqs : famReq[r].cause = "reuse" =>
    \/ <<famReq[r].sid, famReq[r].jti>> \in graced
    \/ <<"allowed", famReq[r].sid>> \in clashed

\* The count of a family exceeds MAX_ROTATIONS by no more than the requests that were
\* past the check together, each of them once, as long as no update of the record was
\* lost under another and none is on its way: the check and the count are far apart,
\* but nobody enters while the count stands at the limit.
RotationsAreLimited ==
  \A s \in FamSids : <<"family", s>> \notin clashed =>
    family[s].count <= MaxRotations - 1 + Cardinality(FamReqs)

\* Tokens are judged rightly: no client is taken for a thief without cause, and none
\* rotates beyond the limit.
TokensAreJudged == GraceComesFirst /\ RotationsAreLimited

HandsOut(r) == held' # held /\ famPc'[r] # famPc[r]
\* A revoked session is locked twice.  Once its jti was deleted while no SET of it was
\* on its way, no jti of it is ever accepted again; and whatever became of the DEL
\* (lost, undone by a rotation under way), a rotation that begins after the revocation
\* succeeds only if the record did not bear the mark all the time since: it was not
\* there to be marked, it has expired, or a request that had read it before, or could
\* not read it, wrote over the mark.
RevokedStaysRevoked ==
  [][/\ \A s \in shut' : allowed'[s] = 0
     /\ \A r \in FamReqs : HandsOut(r) /\ famReq[r].sid \in famReq[r].after => famReq[r].sid \in bare]_familyVars
=============================================================================
