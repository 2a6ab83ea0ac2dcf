---------------------------- MODULE RequestLimits ----------------------------
(***************************************************************************)
(* The two request counters of one client: the middleware of               *)
(* createAdaptiveRateLimiter in front of /auth, and DDoSProtectionGuard on *)
(* every route.  Requests run concurrently, one Redis command per step.    *)
(*                                                                         *)
(* Redis may fail as RedisService has it: GET and TTL answer null, EXPIRE  *)
(* answers false, INCR, SET and the limiter's MULTI throw, executed or not *)
(* - then the limiter lets the request pass and the guard's request fails. *)
(* The process may crash between two commands.                             *)
(***************************************************************************)
EXTENDS Integers

CONSTANTS LimReqs,
          MaxRequests,      \* maxRequests of the limiter
          DdosMaxRequests,  \* MAX_REQUESTS of the guard
          MaxSeen,          \* bound: the counters
          LimFaults         \* BOOLEAN: Redis may fail, the process may crash

ASSUME LimitAssumption ==
  /\ MaxRequests \in Nat /\ DdosMaxRequests \in Nat /\ MaxSeen \in Nat
  /\ LimFaults \in BOOLEAN

VARIABLES
  limCount, limBlocked,     \* rate-limit:auth:<client> and its :blocked key
  ddosCount, ddosBlocked,   \* ddos:count:<ip> and ddos:blocked:<ip>
  limPc, limSeen,           \* requests, and the count each one was given
  lostExpire,               \* history: the guard's EXPIRE was not done
  excused                   \* history: since its window began, the counter has
                            \* seen a fault, or its block has come to an end

limitKeys == <<limCount, limBlocked, ddosCount, ddosBlocked>>
limitVars == <<limitKeys, limPc, limSeen, lostExpire, excused>>

NoCount == [n |-> 0, ttl |-> FALSE]
Counters == {"limiter", "guard"}

LimitsInit ==
  /\ limCount = NoCount /\ ddosCount = NoCount
  /\ limBlocked = FALSE /\ ddosBlocked = FALSE
  /\ limPc = [r \in LimReqs |-> "idle"] /\ limSeen = [r \in LimReqs |-> 0]
  /\ lostExpire = FALSE /\ excused = {}
-----------------------------------------------------------------------------
LimGoto(r, step) == limPc' = [limPc EXCEPT ![r] = step]
Seen(r, n) == limSeen' = [limSeen EXCEPT ![r] = n]
LimEnds(r) == LimGoto(r, "idle") /\ Seen(r, 0)
\* What a read may answer.
Reads(value) == IF LimFaults THEN {value, FALSE} ELSE {value}
Excuse(c) == excused' = excused \cup {c}

\* A request under /auth meets the limiter first, any other one the guard.
RequestArrives(r) ==
  /\ limPc[r] = "idle"
  /\ \E first \in {"limiter", "guard"} : LimGoto(r, first)
  /\ UNCHANGED <<limitKeys, limSeen, lostExpire, excused>>

CheckLimiterBlock(r) ==
  /\ limPc[r] = "limiter"
  /\ \E blocked \in Reads(limBlocked) :
       \/ blocked /\ LimEnds(r)
       \/ ~blocked /\ LimGoto(r, "count") /\ UNCHANGED limSeen
  /\ UNCHANGED <<limitKeys, lostExpire, excused>>

\* Mutant: the time to live is set by a command of its own, later.
CountedLater(c) == [c EXCEPT !.n = @ + 1]
\* RedisService.increment: INCR and EXPIRE NX in one transaction.
Counted(c) == [n |-> c.n + 1, ttl |-> TRUE]

LimiterCounts(r) ==
  /\ limPc[r] = "count" /\ limCount.n < MaxSeen
  /\ limCount' = Counted(limCount)
  /\ Seen(r, limCount'.n)
  /\ LimGoto(r, IF limCount'.n > MaxRequests THEN "block" ELSE "guard")
  /\ UNCHANGED <<limBlocked, ddosCount, ddosBlocked, lostExpire, excused>>

LimiterBlocks(r) ==
  /\ limPc[r] = "block"
  /\ limBlocked' = TRUE
  /\ LimEnds(r)
  /\ UNCHANGED <<limCount, ddosCount, ddosBlocked, lostExpire, excused>>

\* catch: the request is let through.
LimiterFails(r) ==
  /\ LimFaults /\ limPc[r] \in {"count", "block"}
  /\ LimGoto(r, "guard")
  /\ limCount' \in {limCount} \cup (IF limPc[r] = "count" /\ limCount.n < MaxSeen
                                    THEN {Counted(limCount)} ELSE {})
  /\ Excuse("limiter")
  /\ UNCHANGED <<limBlocked, ddosCount, ddosBlocked, limSeen, lostExpire>>
-----------------------------------------------------------------------------
CheckGuardBlock(r) ==
  /\ limPc[r] = "guard"
  /\ \E blocked \in Reads(ddosBlocked) :
       \/ blocked /\ LimEnds(r)
       \/ ~blocked /\ LimGoto(r, "incr") /\ UNCHANGED limSeen
  /\ UNCHANGED <<limitKeys, lostExpire, excused>>

\* Mutant: a block is only due when the request is exactly one too many.
OverLimitOnce(n) == n = DdosMaxRequests + 2
OverLimit(n) == n > DdosMaxRequests
AfterCount(r, n) == IF OverLimit(n) THEN "ddos_block" ELSE "pass"

GuardCounts(r) ==
  /\ limPc[r] = "incr" /\ ddosCount.n < MaxSeen
  /\ ddosCount' = [ddosCount EXCEPT !.n = @ + 1]
  /\ Seen(r, ddosCount'.n)
  /\ LimGoto(r, IF ddosCount'.n = 1 THEN "expire" ELSE AfterCount(r, ddosCount'.n))
  /\ UNCHANGED <<limCount, limBlocked, ddosBlocked, lostExpire, excused>>

\* EXPIRE after the INCR that answered 1; false is ignored.
GuardExpires(r) ==
  /\ limPc[r] = "expire"
  /\ \/ ddosCount' = [ddosCount EXCEPT !.ttl = TRUE] /\ UNCHANGED lostExpire
     \/ LimFaults /\ lostExpire' = TRUE /\ UNCHANGED ddosCount
  /\ LimGoto(r, AfterCount(r, limSeen[r]))
  /\ UNCHANGED <<limCount, limBlocked, ddosBlocked, limSeen, excused>>

GuardBlocks(r) ==
  /\ limPc[r] = "ddos_block"
  /\ ddosBlocked' = TRUE
  /\ LimEnds(r)
  /\ UNCHANGED <<limCount, limBlocked, ddosCount, lostExpire, excused>>

\* The request goes on to its handler.
RequestPasses(r) ==
  /\ limPc[r] = "pass" /\ LimEnds(r)
  /\ UNCHANGED <<limitKeys, lostExpire, excused>>

\* INCR or SET throws: the request ends with an error.
GuardFails(r) ==
  /\ LimFaults /\ limPc[r] \in {"incr", "ddos_block"}
  /\ LimEnds(r)
  /\ \/ UNCHANGED <<ddosCount, lostExpire>>
     \/ /\ limPc[r] = "incr" /\ ddosCount.n < MaxSeen
        /\ ddosCount' = [ddosCount EXCEPT !.n = @ + 1]
        /\ lostExpire' = (lostExpire \/ ddosCount.n = 0)
  /\ Excuse("guard")
  /\ UNCHANGED <<limCount, limBlocked, ddosBlocked>>
-----------------------------------------------------------------------------
ProcessCrashes ==
  /\ LimFaults
  /\ limPc' = [r \in LimReqs |-> "idle"] /\ limSeen' = [r \in LimReqs |-> 0]
  /\ lostExpire' = (lostExpire \/ \E r \in LimReqs : limPc[r] = "expire")
  /\ excused' = Counters
  /\ UNCHANGED limitKeys

LimiterWindowEnds ==
  /\ limCount.ttl /\ limCount' = NoCount
  /\ excused' = excused \ {"limiter"}
  /\ UNCHANGED <<limBlocked, ddosCount, ddosBlocked, limPc, limSeen, lostExpire>>
LimiterBlockEnds ==
  /\ limBlocked /\ limBlocked' = FALSE /\ Excuse("limiter")
  /\ UNCHANGED <<limCount, ddosCount, ddosBlocked, limPc, limSeen, lostExpire>>
GuardWindowEnds ==
  /\ ddosCount.ttl /\ ddosCount' = NoCount
  /\ excused' = excused \ {"guard"}
  /\ UNCHANGED <<limCount, limBlocked, ddosBlocked, limPc, limSeen, lostExpire>>
GuardBlockEnds ==
  /\ ddosBlocked /\ ddosBlocked' = FALSE /\ Excuse("guard")
  /\ UNCHANGED <<limCount, limBlocked, ddosCount, limPc, limSeen, lostExpire>>

LimitStep(r) ==
  \/ CheckLimiterBlock(r) \/ LimiterCounts(r) \/ LimiterBlocks(r) \/ CheckGuardBlock(r)
  \/ GuardCounts(r) \/ GuardExpires(r) \/ GuardBlocks(r) \/ RequestPasses(r)

LimitsNext ==
  \/ \E r \in LimReqs : RequestArrives(r) \/ LimitStep(r) \/ LimiterFails(r) \/ GuardFails(r)
  \/ ProcessCrashes \/ LimiterWindowEnds \/ LimiterBlockEnds \/ GuardWindowEnds \/ GuardBlockEnds

LimitsSpec == LimitsInit /\ [][LimitsNext]_limitVars
-----------------------------------------------------------------------------
(* Properties *)

LimQuiet == \A r \in LimReqs : limPc[r] = "idle"

LimitsTypeOK ==
  /\ limCount \in [n : 0 .. MaxSeen, ttl : BOOLEAN] /\ ddosCount \in [n : 0 .. MaxSeen, ttl : BOOLEAN]
  /\ limBlocked \in BOOLEAN /\ ddosBlocked \in BOOLEAN /\ excused \subseteq Counters

\* A client that exceeds a limit is blocked once its requests have been answered,
\* however many of them were counted at the same time.
FloodsAreBlocked ==
  LimQuiet =>
    /\ limCount.n > MaxRequests /\ "limiter" \notin excused => limBlocked
    /\ ddosCount.n > DdosMaxRequests /\ "guard" \notin excused => ddosBlocked

\* No client is counted for ever.  The limiter's window ends whatever fails and
\* wherever the process crashes; the guard's is endless once its EXPIRE is lost,
\* and then the client stays over the limit and is blocked again after every block.
CountersEnd ==
  /\ limCount.n > 0 => limCount.ttl
  /\ LimQuiet /\ ddosCount.n > 0 => ddosCount.ttl \/ lostExpire

\* The limits hold for those above them, and only as long as the window runs.
LimitsHold == FloodsAreBlocked /\ CountersEnd
=============================================================================
