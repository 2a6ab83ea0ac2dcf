---------------------------- MODULE AccessProofs ----------------------------
(***************************************************************************)
(* What decides whether a request gets in: rate limits, address lists,     *)
(* countries, CSRF tokens. One section for each; none needs another's.     *)
(***************************************************************************)
EXTENDS RequestLimits, AccessControl, GeoAccess, CsrfTokens, TLAPS
-----------------------------------------------------------------------------
(***************************************************************************)
(* The limits hold for any number of concurrent requests, any limits, and   *)
(* with faults and crashes anywhere.  "Blocked once the requests have been  *)
(* answered" is not inductive: while they are on their way, the block that  *)
(* is missing is still in the hands of one of them (FloodsAreDealtWith), as *)
(* is the time to live of the guard's counter (WindowsEnd).                 *)
(***************************************************************************)
LimSteps == {"idle", "limiter", "count", "block", "guard", "incr", "expire", "ddos_block", "pass"}

Counter == [n : Nat, ttl : BOOLEAN]

RequestTypes == limPc \in [LimReqs -> LimSteps] /\ limSeen \in [LimReqs -> Nat]
KeyTypes ==
  /\ limCount \in Counter /\ ddosCount \in Counter
  /\ limBlocked \in BOOLEAN /\ ddosBlocked \in BOOLEAN /\ lostExpire \in BOOLEAN
LimTypes == KeyTypes /\ RequestTypes /\ excused \subseteq Counters

\* Who is to block the client at the guard.
WillBlock(r) ==
  limPc[r] = "ddos_block" \/ (limPc[r] = "expire" /\ limSeen[r] > DdosMaxRequests)

FloodsAreDealtWith ==
  /\ limCount.n > MaxRequests /\ "limiter" \notin excused
       => limBlocked \/ \E r \in LimReqs : limPc[r] = "block"
  /\ ddosCount.n > DdosMaxRequests /\ "guard" \notin excused
       => ddosBlocked \/ \E r \in LimReqs : WillBlock(r)

WindowsEnd ==
  /\ limCount.n > 0 => limCount.ttl
  /\ ddosCount.n > 0
       => ddosCount.ttl \/ lostExpire \/ \E r \in LimReqs : limPc[r] = "expire"

LimBounds == limCount.n <= MaxSeen /\ ddosCount.n <= MaxSeen

LimInv == LimTypes /\ LimBounds /\ FloodsAreDealtWith /\ WindowsEnd

\* What INCR, EXPIRE and both in one make of a counter.
LEMMA IncrOfCounter ==
  ASSUME NEW c \in Counter
  PROVE  /\ [c EXCEPT !.n = @ + 1] \in Counter
         /\ [c EXCEPT !.n = @ + 1].n = c.n + 1
         /\ [c EXCEPT !.n = @ + 1].ttl = c.ttl
  BY DEF Counter

LEMMA ExpireOfCounter ==
  ASSUME NEW c \in Counter
  PROVE  /\ [c EXCEPT !.ttl = TRUE] \in Counter
         /\ [c EXCEPT !.ttl = TRUE].n = c.n
         /\ [c EXCEPT !.ttl = TRUE].ttl
  BY DEF Counter

LEMMA CountedCounter ==
  ASSUME NEW c \in Counter
  PROVE  /\ Counted(c) \in Counter
         /\ Counted(c).n = c.n + 1
         /\ Counted(c).ttl
  BY DEF Counter, Counted

\* All of it, of the two counters.
LEMMA CounterOps ==
  ASSUME KeyTypes
  PROVE  /\ limCount.n \in Nat /\ ddosCount.n \in Nat
         /\ limCount.ttl \in BOOLEAN /\ ddosCount.ttl \in BOOLEAN
         /\ Counted(limCount) \in Counter /\ Counted(limCount).n = limCount.n + 1
         /\ Counted(limCount).ttl
         /\ [ddosCount EXCEPT !.n = @ + 1] \in Counter
         /\ [ddosCount EXCEPT !.n = @ + 1].n = ddosCount.n + 1
         /\ [ddosCount EXCEPT !.n = @ + 1].ttl = ddosCount.ttl
         /\ [ddosCount EXCEPT !.ttl = TRUE] \in Counter
         /\ [ddosCount EXCEPT !.ttl = TRUE].n = ddosCount.n
         /\ [ddosCount EXCEPT !.ttl = TRUE].ttl
<1>1. limCount \in Counter /\ ddosCount \in Counter
  BY DEF KeyTypes
<1>2. limCount.n \in Nat /\ ddosCount.n \in Nat /\ limCount.ttl \in BOOLEAN /\ ddosCount.ttl \in BOOLEAN
  BY <1>1 DEF Counter
<1>3. /\ Counted(limCount) \in Counter /\ Counted(limCount).n = limCount.n + 1
      /\ Counted(limCount).ttl
  BY <1>1, CountedCounter
<1>4. /\ [ddosCount EXCEPT !.n = @ + 1] \in Counter
      /\ [ddosCount EXCEPT !.n = @ + 1].n = ddosCount.n + 1
      /\ [ddosCount EXCEPT !.n = @ + 1].ttl = ddosCount.ttl
  BY <1>1, IncrOfCounter
<1>5. /\ [ddosCount EXCEPT !.ttl = TRUE] \in Counter
      /\ [ddosCount EXCEPT !.ttl = TRUE].n = ddosCount.n
      /\ [ddosCount EXCEPT !.ttl = TRUE].ttl
  BY <1>1, ExpireOfCounter
<1> QED
  BY <1>2, <1>3, <1>4, <1>5

LEMMA NoCountIsZero == NoCount \in Counter /\ NoCount.n = 0
  BY DEF NoCount, Counter

LEMMA LimInit == LimitsInit => LimInv
<1> SUFFICES ASSUME LimitsInit
             PROVE  LimInv
  OBVIOUS
<1>1. KeyTypes
  BY NoCountIsZero DEF LimitsInit, KeyTypes
<1>2. RequestTypes /\ excused \subseteq Counters
  BY DEF LimitsInit, RequestTypes, LimSteps
<1>3. FloodsAreDealtWith /\ WindowsEnd
  BY NoCountIsZero, LimitAssumption DEF LimitsInit, FloodsAreDealtWith, WindowsEnd
<1>4. LimBounds
  BY NoCountIsZero, LimitAssumption DEF LimitsInit, LimBounds
<1> QED
  BY <1>1, <1>2, <1>3, <1>4 DEF LimInv, LimTypes
-----------------------------------------------------------------------------
(* Types *)

LEMMA KeyTypesStep ==
  ASSUME LimTypes, LimitsNext
  PROVE  KeyTypes'
<1> USE CounterOps, NoCountIsZero DEF LimTypes, KeyTypes
<1>1. CASE ProcessCrashes
  BY <1>1 DEF ProcessCrashes, limitKeys
<1>2. CASE LimiterWindowEnds \/ LimiterBlockEnds \/ GuardWindowEnds \/ GuardBlockEnds
  BY <1>2 DEF LimiterWindowEnds, LimiterBlockEnds, GuardWindowEnds, GuardBlockEnds
<1>3. ASSUME NEW r \in LimReqs,
             RequestArrives(r) \/ LimitStep(r) \/ LimiterFails(r) \/ GuardFails(r)
      PROVE  KeyTypes'
  <2>1. CASE RequestArrives(r) \/ CheckLimiterBlock(r) \/ CheckGuardBlock(r) \/ RequestPasses(r)
    BY <2>1 DEF RequestArrives, CheckLimiterBlock, CheckGuardBlock, RequestPasses, limitKeys
  <2>2. CASE LimiterCounts(r) \/ LimiterBlocks(r)
    BY <2>2 DEF LimiterCounts, LimiterBlocks
  <2>3. CASE GuardCounts(r) \/ GuardBlocks(r)
    BY <2>3 DEF GuardCounts, GuardBlocks
  <2>4. CASE GuardExpires(r)
    BY <2>4 DEF GuardExpires
  <2>5. CASE LimiterFails(r)
    BY <2>5 DEF LimiterFails
  <2>6. CASE GuardFails(r)
    <3>1. ddosCount' \in Counter
      BY <2>6 DEF GuardFails
    <3>2. lostExpire' \in BOOLEAN
      BY <2>6, Zenon DEF GuardFails
    <3> QED
      BY <2>6, <3>1, <3>2 DEF GuardFails
  <2> QED
    BY <1>3, <2>1, <2>2, <2>3, <2>4, <2>5, <2>6 DEF LimitStep
<1> QED
  BY <1>1, <1>2, <1>3 DEF LimitsNext

LEMMA LimBoundsStep ==
  ASSUME LimTypes, LimBounds, LimitsNext
  PROVE  LimBounds'
<1> USE CounterOps, NoCountIsZero, LimitAssumption
    DEF LimTypes, KeyTypes, LimBounds, LimitAssumption
<1>1. CASE ProcessCrashes
  BY <1>1 DEF ProcessCrashes, limitKeys
<1>2. CASE LimiterWindowEnds \/ LimiterBlockEnds \/ GuardWindowEnds \/ GuardBlockEnds
  BY <1>2 DEF LimiterWindowEnds, LimiterBlockEnds, GuardWindowEnds, GuardBlockEnds
<1>3. ASSUME NEW r \in LimReqs,
             RequestArrives(r) \/ LimitStep(r) \/ LimiterFails(r) \/ GuardFails(r)
      PROVE  LimBounds'
  <2>1. CASE RequestArrives(r) \/ CheckLimiterBlock(r) \/ CheckGuardBlock(r) \/ RequestPasses(r)
    BY <2>1 DEF RequestArrives, CheckLimiterBlock, CheckGuardBlock, RequestPasses, limitKeys
  <2>2. CASE LimiterCounts(r) \/ LimiterBlocks(r)
    BY <2>2 DEF LimiterCounts, LimiterBlocks
  <2>3. CASE GuardCounts(r) \/ GuardBlocks(r) \/ GuardFails(r)
    <3>1. /\ limCount' = limCount
          /\ \/ ddosCount' = ddosCount
             \/ ddosCount.n < MaxSeen /\ ddosCount' = [ddosCount EXCEPT !.n = @ + 1]
      BY <2>3 DEF GuardCounts, GuardBlocks, GuardFails
    <3>2. CASE ddosCount' = ddosCount
      BY <3>1, <3>2
    <3>3. CASE ddosCount.n < MaxSeen /\ ddosCount' = [ddosCount EXCEPT !.n = @ + 1]
      <4>1. ddosCount'.n = ddosCount.n + 1
        BY <3>3
      <4> QED
        BY <3>1, <3>3, <4>1
    <3> QED
      BY <3>1, <3>2, <3>3
  <2>4. CASE GuardExpires(r)
    BY <2>4 DEF GuardExpires
  <2>5. CASE LimiterFails(r)
    BY <2>5 DEF LimiterFails
  <2> QED
    BY <1>3, <2>1, <2>2, <2>3, <2>4, <2>5 DEF LimitStep
<1> QED
  BY <1>1, <1>2, <1>3 DEF LimitsNext

LEMMA RequestTypesStep ==
  ASSUME LimTypes, LimitsNext
  PROVE  RequestTypes'
<1> USE CounterOps DEF LimTypes, KeyTypes, RequestTypes, LimSteps, LimGoto, Seen, LimEnds
<1>1. CASE ProcessCrashes
  BY <1>1 DEF ProcessCrashes
<1>2. CASE LimiterWindowEnds \/ LimiterBlockEnds \/ GuardWindowEnds \/ GuardBlockEnds
  BY <1>2 DEF LimiterWindowEnds, LimiterBlockEnds, GuardWindowEnds, GuardBlockEnds
<1>3. ASSUME NEW r \in LimReqs,
             RequestArrives(r) \/ LimitStep(r) \/ LimiterFails(r) \/ GuardFails(r)
      PROVE  RequestTypes'
  <2>1. CASE RequestArrives(r) \/ CheckLimiterBlock(r) \/ CheckGuardBlock(r) \/ RequestPasses(r)
    BY <2>1 DEF RequestArrives, CheckLimiterBlock, CheckGuardBlock, RequestPasses
  <2>2. CASE LimiterCounts(r) \/ LimiterBlocks(r)
    BY <2>2 DEF LimiterCounts, LimiterBlocks
  <2>3. CASE GuardCounts(r)
    <3>1. ddosCount'.n \in Nat
      BY <2>3 DEF GuardCounts
    <3>2. AfterCount(r, ddosCount'.n) \in LimSteps
      BY DEF AfterCount
    <3> QED
      BY <2>3, <3>1, <3>2 DEF GuardCounts
  <2>4. CASE GuardExpires(r) \/ GuardBlocks(r)
    BY <2>4 DEF GuardExpires, GuardBlocks, AfterCount
  <2>5. CASE LimiterFails(r)
    BY <2>5 DEF LimiterFails
  <2>6. CASE GuardFails(r)
    BY <2>6 DEF GuardFails
  <2> QED
    BY <1>3, <2>1, <2>2, <2>3, <2>4, <2>5, <2>6 DEF LimitStep
<1> QED
  BY <1>1, <1>2, <1>3 DEF LimitsNext

LEMMA ExcusesStep ==
  ASSUME LimTypes, LimitsNext
  PROVE  (excused \subseteq Counters)'
  BY DEF LimTypes, LimitsNext, Excuse, Counters, ProcessCrashes, LimiterWindowEnds,
         LimiterBlockEnds, GuardWindowEnds, GuardBlockEnds, LimitStep, RequestArrives,
         CheckLimiterBlock, CheckGuardBlock, RequestPasses, LimiterCounts, LimiterBlocks,
         GuardCounts, GuardExpires, GuardBlocks, LimiterFails, GuardFails
-----------------------------------------------------------------------------
(* The limiter's half of the invariant *)

LimiterDealsWith ==
  limCount.n > MaxRequests /\ "limiter" \notin excused
    => limBlocked \/ \E r \in LimReqs : limPc[r] = "block"

GuardDealsWith ==
  ddosCount.n > DdosMaxRequests /\ "guard" \notin excused
    => ddosBlocked \/ \E r \in LimReqs : WillBlock(r)

LEMMA LimiterStep ==
  ASSUME LimTypes, LimiterDealsWith, limCount.n > 0 => limCount.ttl, LimitsNext
  PROVE  LimiterDealsWith' /\ (limCount.n > 0 => limCount.ttl)'
<1> USE LimitAssumption, CounterOps, NoCountIsZero
    DEF LimitAssumption, LimTypes, KeyTypes, RequestTypes, LimSteps,
        LimiterDealsWith, LimGoto, Seen, LimEnds, Excuse, Counters
<1>1. CASE ProcessCrashes
  BY <1>1 DEF ProcessCrashes, limitKeys
<1>2. CASE LimiterWindowEnds \/ LimiterBlockEnds \/ GuardWindowEnds \/ GuardBlockEnds
  BY <1>2 DEF LimiterWindowEnds, LimiterBlockEnds, GuardWindowEnds, GuardBlockEnds
<1>3. ASSUME NEW r \in LimReqs,
             RequestArrives(r) \/ LimitStep(r) \/ LimiterFails(r) \/ GuardFails(r)
      PROVE  LimiterDealsWith' /\ (limCount.n > 0 => limCount.ttl)'
  <2>1. CASE RequestArrives(r) \/ CheckLimiterBlock(r) \/ CheckGuardBlock(r) \/ RequestPasses(r)
    BY <2>1 DEF RequestArrives, CheckLimiterBlock, CheckGuardBlock, RequestPasses, limitKeys
  <2>2. CASE LimiterCounts(r)
    BY <2>2 DEF LimiterCounts
  <2>3. CASE LimiterBlocks(r)
    BY <2>3 DEF LimiterBlocks
  <2>4. CASE LimiterFails(r)
    BY <2>4 DEF LimiterFails
  <2>5. CASE GuardCounts(r) \/ GuardExpires(r) \/ GuardBlocks(r) \/ GuardFails(r)
    BY <2>5 DEF GuardCounts, GuardExpires, GuardBlocks, GuardFails
  <2> QED
    BY <1>3, <2>1, <2>2, <2>3, <2>4, <2>5 DEF LimitStep
<1> QED
  BY <1>1, <1>2, <1>3 DEF LimitsNext
-----------------------------------------------------------------------------
(* The guard's half *)

GuardWindow ==
  ddosCount.n > 0 => ddosCount.ttl \/ lostExpire \/ \E r \in LimReqs : limPc[r] = "expire"

LEMMA GuardStep ==
  ASSUME LimTypes, GuardDealsWith, GuardWindow, LimitsNext
  PROVE  GuardDealsWith' /\ GuardWindow'
<1> USE LimitAssumption, CounterOps, NoCountIsZero
    DEF LimitAssumption, LimTypes, KeyTypes, RequestTypes, LimSteps,
        GuardDealsWith, GuardWindow, WillBlock, LimGoto, Seen, LimEnds, Excuse, Counters
<1>1. CASE ProcessCrashes
  BY <1>1 DEF ProcessCrashes, limitKeys
<1>2. CASE LimiterWindowEnds \/ LimiterBlockEnds \/ GuardWindowEnds \/ GuardBlockEnds
  BY <1>2 DEF LimiterWindowEnds, LimiterBlockEnds, GuardWindowEnds, GuardBlockEnds
<1>3. ASSUME NEW r \in LimReqs,
             RequestArrives(r) \/ LimitStep(r) \/ LimiterFails(r) \/ GuardFails(r)
      PROVE  GuardDealsWith' /\ GuardWindow'
  <2>1. CASE RequestArrives(r) \/ CheckLimiterBlock(r) \/ CheckGuardBlock(r) \/ RequestPasses(r)
    BY <2>1 DEF RequestArrives, CheckLimiterBlock, CheckGuardBlock, RequestPasses, limitKeys
  <2>2. CASE LimiterCounts(r) \/ LimiterBlocks(r) \/ LimiterFails(r)
    BY <2>2 DEF LimiterCounts, LimiterBlocks, LimiterFails
  <2>3. CASE GuardCounts(r)
    BY <2>3 DEF GuardCounts, AfterCount, OverLimit
  <2>4. CASE GuardExpires(r)
    BY <2>4 DEF GuardExpires, AfterCount, OverLimit
  <2>5. CASE GuardBlocks(r)
    BY <2>5 DEF GuardBlocks
  <2>6. CASE GuardFails(r)
    <3>1. "guard" \in excused'
      BY <2>6 DEF GuardFails
    <3>2. \A q \in LimReqs : limPc[q] = "expire" => limPc'[q] = "expire"
      BY <2>6 DEF GuardFails
    <3>3. CASE UNCHANGED <<ddosCount, lostExpire>>
      BY <3>1, <3>2, <3>3
    <3>4. CASE /\ ddosCount' = [ddosCount EXCEPT !.n = @ + 1]
               /\ lostExpire' = (lostExpire \/ ddosCount.n = 0)
      <4>1. ddosCount'.ttl = ddosCount.ttl
        BY <3>4
      <4>2. ddosCount.n = 0 \/ ddosCount.n > 0
        OBVIOUS
      <4> QED
        BY <3>1, <3>2, <3>4, <4>1, <4>2
    <3> QED
      BY <2>6, <3>3, <3>4 DEF GuardFails
  <2> QED
    BY <1>3, <2>1, <2>2, <2>3, <2>4, <2>5, <2>6 DEF LimitStep
<1> QED
  BY <1>1, <1>2, <1>3 DEF LimitsNext
-----------------------------------------------------------------------------
LEMMA LimStep == LimInv /\ [LimitsNext]_limitVars => LimInv'
<1> SUFFICES ASSUME LimInv, [LimitsNext]_limitVars
             PROVE  LimInv'
  OBVIOUS
<1>1. CASE UNCHANGED limitVars
  BY <1>1
     DEF LimInv, LimTypes, LimBounds, KeyTypes, RequestTypes, FloodsAreDealtWith, WindowsEnd, WillBlock,
         limitVars, limitKeys
<1>2. CASE LimitsNext
  BY <1>2, KeyTypesStep, LimBoundsStep, RequestTypesStep, ExcusesStep, LimiterStep, GuardStep
     DEF LimInv, LimTypes, FloodsAreDealtWith, WindowsEnd, LimiterDealsWith, GuardDealsWith, GuardWindow
<1> QED
  BY <1>1, <1>2

LEMMA LimitsInvariant == LimitsSpec => []LimInv
  BY LimInit, LimStep, PTL DEF LimitsSpec

\* Type correctness of the two counters.
THEOREM LimitsTypesHold == LimitsSpec => []LimitsTypeOK
<1>1. LimInv => LimitsTypeOK
  <2> SUFFICES ASSUME LimInv PROVE LimitsTypeOK
    OBVIOUS
  <2>1. /\ limCount \in [n : Nat, ttl : BOOLEAN] /\ ddosCount \in [n : Nat, ttl : BOOLEAN]
        /\ limCount.n <= MaxSeen /\ ddosCount.n <= MaxSeen /\ MaxSeen \in Nat
    BY LimitAssumption DEF LimInv, LimTypes, KeyTypes, LimBounds, Counter
  <2>2. limCount.n \in 0 .. MaxSeen /\ ddosCount.n \in 0 .. MaxSeen
    BY <2>1
  <2>3. /\ limCount \in [n : 0 .. MaxSeen, ttl : BOOLEAN]
        /\ ddosCount \in [n : 0 .. MaxSeen, ttl : BOOLEAN]
    BY <2>1, <2>2
  <2> QED
    BY <2>3 DEF LimInv, LimTypes, KeyTypes, LimitsTypeOK
<1> QED
  BY <1>1, LimitsInvariant, PTL

\* What run services checks of RequestLimits, for every number of requests and every
\* limit: who exceeds a limit is blocked, and every count ends, unless EXPIRE was lost.
THEOREM LimitsAlwaysHold == LimitsSpec => []LimitsHold
<1>1. LimInv => LimitsHold
  BY DEF LimInv, FloodsAreDealtWith, WindowsEnd, WillBlock, LimitsHold, FloodsAreBlocked,
         CountersEnd, LimQuiet
<1> QED
  BY <1>1, LimitsInvariant, PTL
-----------------------------------------------------------------------------
(***************************************************************************)
(* AccessControl.  An address with too many failures is on the blocklist,  *)
(* or has been pardoned, or one of the requests that recorded the failures  *)
(* is still on its way to put it there.                                      *)
(***************************************************************************)
FailCounter == [n : 0 .. MaxFailed, ttl : BOOLEAN]
RepRequest == [ip : Ips \cup {"none"}, n : 0 .. MaxFailed, kind : BlockKinds, due : BOOLEAN]
RepSteps == {"idle", "expire", "add", "reason", "done", "unreason", "size", "member", "pass",
             "deny"}

AccessTypes ==
  /\ blocklist \subseteq Ips /\ allowlist \subseteq Ips
  /\ failed \in [Ips -> FailCounter] /\ reason \in [Ips -> BlockKinds]
  /\ repPc \in [RepReqs -> RepSteps] /\ repReq \in [RepReqs -> RepRequest]
  /\ \A r \in RepReqs : repPc[r] \in {"expire", "add", "reason", "unreason"} => repReq[r].ip \in Ips

WillBlockIp(r, ip) ==
  /\ repReq[r].ip = ip
  /\ \/ repPc[r] = "add"
     \/ repPc[r] = "expire" /\ Reaches(repReq[r].n)
FailuresAreDealtWith ==
  \A ip \in Ips : Reaches(failed[ip].n) /\ ip \notin pardoned
                    => ip \in blocklist \/ \E r \in RepReqs : WillBlockIp(r, ip)

GuardsAreNotDue == \A r \in RepReqs : repPc[r] \in {"size", "member", "pass"} => ~repReq[r].due

AccessInv == AccessTypes /\ FailuresAreDealtWith /\ GuardsAreNotDue

LEMMA RepIdleRequest == RepIdle \in RepRequest /\ NoCounter \in FailCounter /\ NoCounter.n = 0
  BY AccessAssumption DEF RepIdle, RepRequest, BlockKinds, NoCounter, FailCounter

LEMMA CountUpCounter ==
  ASSUME NEW c \in FailCounter
  PROVE  CountUp(c) \in FailCounter /\ CountUp(c).n \in 0 .. MaxFailed
  BY AccessAssumption DEF CountUp, FailCounter

LEMMA AccessStarts == AccessInit => AccessInv
  BY RepIdleRequest, AccessAssumption
     DEF AccessInit, AccessInv, AccessTypes, FailuresAreDealtWith, GuardsAreNotDue,
         RepSteps, Reaches, BlockKinds
\* The five ways a request begins, by what is left of its record.
LEMMA RequestsBegin ==
  ASSUME AccessTypes, NEW r \in RepReqs
  PROVE  /\ RecordFailedAttempt(r) =>
              \E ip \in Ips, q \in RepRequest :
                 /\ repReq' = [repReq EXCEPT ![r] = q] /\ q.ip = ip /\ q.n = failed'[ip].n
                 /\ failed' = [failed EXCEPT ![ip] = CountUp(@)]
                 /\ CountUp(failed[ip]) \in FailCounter /\ pardoned' = pardoned \ {ip}
                 /\ RepGoto(r, IF failed'[ip].n = 1 THEN "expire"
                               ELSE IF Reaches(failed'[ip].n) THEN "add" ELSE "done")
         /\ BlockIP(r) \/ ControlBlockIp(r) =>
              \E q \in RepRequest :
                 repReq' = [repReq EXCEPT ![r] = q] /\ q.ip \in Ips /\ RepGoto(r, "add")
         /\ UnblockIP(r) =>
              \E ip \in blocklist, q \in RepRequest :
                 /\ repReq' = [repReq EXCEPT ![r] = q] /\ q.ip = ip
                 /\ blocklist' = blocklist \ {ip} /\ pardoned' = pardoned \cup {ip}
         /\ CheckBlocked(r) =>
              \E ip \in Ips, q \in RepRequest :
                 /\ repReq' = [repReq EXCEPT ![r] = q] /\ q.ip = ip /\ q.due = BlockIsDue(ip)
                 /\ RepGoto(r, AfterBlocklist(ip))
<1>1. repReq[r] \in RepRequest /\ repReq \in [RepReqs -> RepRequest]
  BY DEF AccessTypes
<1>2. ASSUME RecordFailedAttempt(r)
      PROVE  \E ip \in Ips, q \in RepRequest :
                 /\ repReq' = [repReq EXCEPT ![r] = q] /\ q.ip = ip /\ q.n = failed'[ip].n
                 /\ failed' = [failed EXCEPT ![ip] = CountUp(@)]
                 /\ CountUp(failed[ip]) \in FailCounter /\ pardoned' = pardoned \ {ip}
                 /\ RepGoto(r, IF failed'[ip].n = 1 THEN "expire"
                               ELSE IF Reaches(failed'[ip].n) THEN "add" ELSE "done")
  <2>1. PICK ip \in Ips :
          /\ failed' = [failed EXCEPT ![ip] = CountUp(@)] /\ pardoned' = pardoned \ {ip}
          /\ repReq' = [repReq EXCEPT ![r].ip = ip, ![r].n = failed'[ip].n, ![r].kind = "temporary"]
          /\ RepGoto(r, IF failed'[ip].n = 1 THEN "expire"
                        ELSE IF Reaches(failed'[ip].n) THEN "add" ELSE "done")
    BY <1>2 DEF RecordFailedAttempt
  <2>2. CountUp(failed[ip]) \in FailCounter /\ CountUp(failed[ip]).n \in 0 .. MaxFailed
    BY CountUpCounter DEF AccessTypes
  <2>3. failed'[ip] = CountUp(failed[ip])
    BY <2>1 DEF AccessTypes
  <2> DEFINE n == CountUp(failed[ip]).n
             p == [repReq[r] EXCEPT !.ip = ip, !.n = n, !.kind = "temporary"]
  <2>4. p \in RepRequest /\ p.ip = ip /\ p.n = n
    <3>1. n \in 0 .. MaxFailed
      BY <2>2
    <3> HIDE DEF n
    <3> QED
      BY <1>1, <3>1 DEF RepRequest, BlockKinds
  <2>5. repReq' = [repReq EXCEPT ![r] = p]
    BY <1>1, <2>1, <2>3, <2>4
  <2> QED
    BY <2>1, <2>2, <2>3, <2>4, <2>5
<1>3. ASSUME BlockIP(r) \/ ControlBlockIp(r)
      PROVE  \E q \in RepRequest :
                 repReq' = [repReq EXCEPT ![r] = q] /\ q.ip \in Ips /\ RepGoto(r, "add")
  <2>1. PICK ip \in Ips, kind \in BlockKinds :
          repReq' = [repReq EXCEPT ![r].ip = ip, ![r].kind = kind] /\ RepGoto(r, "add")
    BY <1>3 DEF BlockIP, ControlBlockIp, BlockKinds
  <2> DEFINE p == [repReq[r] EXCEPT !.ip = ip, !.kind = kind]
  <2>2. p \in RepRequest /\ p.ip = ip
    BY <1>1 DEF RepRequest, BlockKinds
  <2>3. repReq' = [repReq EXCEPT ![r] = p]
    BY <1>1, <2>1, <2>2
  <2> QED
    BY <2>1, <2>2, <2>3
<1>4. ASSUME UnblockIP(r)
      PROVE  \E ip \in blocklist, q \in RepRequest :
                 /\ repReq' = [repReq EXCEPT ![r] = q] /\ q.ip = ip
                 /\ blocklist' = blocklist \ {ip} /\ pardoned' = pardoned \cup {ip}
  <2>1. PICK ip \in blocklist :
          /\ repReq' = [repReq EXCEPT ![r].ip = ip]
          /\ blocklist' = blocklist \ {ip} /\ pardoned' = pardoned \cup {ip}
    BY <1>4 DEF UnblockIP
  <2>2. ip \in Ips
    BY DEF AccessTypes
  <2> DEFINE p == [repReq[r] EXCEPT !.ip = ip]
  <2>3. p \in RepRequest /\ p.ip = ip
    BY <1>1, <2>2 DEF RepRequest
  <2>4. repReq' = [repReq EXCEPT ![r] = p]
    BY <1>1, <2>1, <2>3
  <2> QED
    BY <2>1, <2>3, <2>4
<1>5. ASSUME CheckBlocked(r)
      PROVE  \E ip \in Ips, q \in RepRequest :
                 /\ repReq' = [repReq EXCEPT ![r] = q] /\ q.ip = ip /\ q.due = BlockIsDue(ip)
                 /\ RepGoto(r, AfterBlocklist(ip))
  <2>1. PICK ip \in Ips :
          /\ repReq' = [repReq EXCEPT ![r].ip = ip, ![r].due = BlockIsDue(ip)]
          /\ RepGoto(r, AfterBlocklist(ip))
    BY <1>5 DEF CheckBlocked
  <2>2. BlockIsDue(ip) \in BOOLEAN
    BY DEF BlockIsDue
  <2> DEFINE due == BlockIsDue(ip)
             p == [repReq[r] EXCEPT !.ip = ip, !.due = due]
  <2>3. p \in RepRequest /\ p.ip = ip /\ p.due = due
    <3>1. due \in BOOLEAN
      BY <2>2
    <3> HIDE DEF due
    <3> QED
      BY <1>1, <3>1 DEF RepRequest
  <2>4. repReq' = [repReq EXCEPT ![r] = p]
    BY <1>1, <2>1, <2>3
  <2> QED
    BY <2>1, <2>3, <2>4
<1> QED
  BY <1>2, <1>3, <1>4, <1>5
LEMMA AccessTypesStep ==
  ASSUME AccessTypes, AccessNext
  PROVE  AccessTypes'
<1> USE DEF AccessTypes, accessKeys, RepGoto, RepEnds, RepSteps
<1>1. ASSUME NEW r \in RepReqs, RecordFailedAttempt(r)
      PROVE  AccessTypes'
  <2>1. PICK ip \in Ips, q \in RepRequest :
          /\ repReq' = [repReq EXCEPT ![r] = q] /\ q.ip = ip
          /\ failed' = [failed EXCEPT ![ip] = CountUp(@)] /\ CountUp(failed[ip]) \in FailCounter
          /\ RepGoto(r, IF failed'[ip].n = 1 THEN "expire"
                        ELSE IF Reaches(failed'[ip].n) THEN "add" ELSE "done")
    BY <1>1, RequestsBegin
  <2>2. failed' \in [Ips -> FailCounter] /\ UNCHANGED <<blocklist, allowlist, reason>>
    BY <1>1, <2>1 DEF RecordFailedAttempt
  <2>3. PICK step \in RepSteps : repPc' = [repPc EXCEPT ![r] = step]
    BY <2>1
  <2> QED
    BY <2>1, <2>2, <2>3
<1>2. ASSUME NEW r \in RepReqs, BlockIP(r) \/ ControlBlockIp(r)
      PROVE  AccessTypes'
  <2>1. PICK q \in RepRequest :
          repReq' = [repReq EXCEPT ![r] = q] /\ q.ip \in Ips /\ RepGoto(r, "add")
    BY <1>2, RequestsBegin
  <2> QED
    BY <1>2, <2>1 DEF BlockIP, ControlBlockIp
<1>3. ASSUME NEW r \in RepReqs, UnblockIP(r)
      PROVE  AccessTypes'
  <2>1. PICK ip \in blocklist, q \in RepRequest :
          /\ repReq' = [repReq EXCEPT ![r] = q] /\ q.ip = ip
          /\ blocklist' = blocklist \ {ip}
    BY <1>3, RequestsBegin
  <2> QED
    BY <1>3, <2>1 DEF UnblockIP
<1>4. ASSUME NEW r \in RepReqs, CheckBlocked(r)
      PROVE  AccessTypes'
  <2>1. PICK ip \in Ips, q \in RepRequest :
          repReq' = [repReq EXCEPT ![r] = q] /\ RepGoto(r, AfterBlocklist(ip))
    BY <1>4, RequestsBegin
  <2> QED
    BY <1>4, <2>1 DEF CheckBlocked, AfterBlocklist
<1>5. ASSUME NEW r \in RepReqs, ExpireFailures(r)
      PROVE  AccessTypes'
  <2>1. repReq[r].ip \in Ips
    BY <1>5 DEF ExpireFailures
  <2>2. failed' \in [Ips -> FailCounter]
    <3> DEFINE ip == repReq[r].ip
               running == failed[ip].n > 0
               c == [failed[ip] EXCEPT !.ttl = running]
    <3>1. failed' = [failed EXCEPT ![ip] = c]
      BY <1>5 DEF ExpireFailures
    <3>2. c \in FailCounter
      <4>1. running \in BOOLEAN /\ failed[ip] \in FailCounter
        BY <2>1
      <4> HIDE DEF running
      <4> QED
        BY <4>1 DEF FailCounter
    <3> QED
      BY <2>1, <3>1, <3>2
  <2> QED
    BY <1>5, <2>1, <2>2 DEF ExpireFailures
<1>6. ASSUME NEW r \in RepReqs, \/ FailureRecorded(r) \/ SetReason(r) \/ DropReason(r)
                                \/ GuardAnswers(r)
      PROVE  AccessTypes'
  <2>1. reason' \in [Ips -> BlockKinds]
    BY <1>6 DEF FailureRecorded, SetReason, DropReason, GuardAnswers, RepRequest, BlockKinds
  <2> QED
    BY <1>6, <2>1, RepIdleRequest DEF FailureRecorded, SetReason, DropReason, GuardAnswers
<1>7. ASSUME NEW r \in RepReqs, \/ AddToBlocklist(r) \/ CheckAllowlistSize(r) \/ CheckAllowed(r)
      PROVE  AccessTypes'
  BY <1>7 DEF AddToBlocklist, CheckAllowlistSize, CheckAllowed
<1>8. ASSUME NEW ip \in Ips,
             AllowIp(ip) \/ RemoveAllowedIp(ip) \/ FailuresEnd(ip) \/ ReasonEnds(ip)
      PROVE  AccessTypes'
  BY <1>8, RepIdleRequest DEF AllowIp, RemoveAllowedIp, FailuresEnd, ReasonEnds, BlockKinds
<1> QED
  BY <1>1, <1>2, <1>3, <1>4, <1>5, <1>6, <1>7, <1>8 DEF AccessNext, AccessStep

\* Whoever takes a step, the others will block whom they would have blocked.
LEMMA OthersWillBlock ==
  ASSUME AccessTypes, NEW r \in RepReqs, NEW y \in RepReqs \ {r}, NEW ip,
         UNCHANGED repReq \/ \E q : repReq' = [repReq EXCEPT ![r] = q],
         UNCHANGED repPc \/ \E step : RepGoto(r, step),
         WillBlockIp(y, ip)
  PROVE  WillBlockIp(y, ip)'
  BY DEF AccessTypes, WillBlockIp, RepGoto

LEMMA FailuresAreDealtWithStep ==
  ASSUME AccessTypes, FailuresAreDealtWith, AccessNext
  PROVE  FailuresAreDealtWith'
<1> DEFINE DealtWith(x) == x \in blocklist \/ \E y \in RepReqs : WillBlockIp(y, x)
<1>0. \A x \in Ips : Reaches(failed[x].n) /\ x \notin pardoned => DealtWith(x)
  BY DEF FailuresAreDealtWith
<1>1. ASSUME NEW r \in RepReqs, RecordFailedAttempt(r)
      PROVE  FailuresAreDealtWith'
  <2>1. PICK ip \in Ips, q \in RepRequest :
          /\ repReq' = [repReq EXCEPT ![r] = q] /\ q.ip = ip /\ q.n = failed'[ip].n
          /\ failed' = [failed EXCEPT ![ip] = CountUp(@)] /\ pardoned' = pardoned \ {ip}
          /\ RepGoto(r, IF failed'[ip].n = 1 THEN "expire"
                        ELSE IF Reaches(failed'[ip].n) THEN "add" ELSE "done")
    BY <1>1, RequestsBegin
  <2>2. repPc[r] = "idle" /\ UNCHANGED blocklist
    BY <1>1 DEF RecordFailedAttempt
  <2>3. Reaches(failed'[ip].n) => WillBlockIp(r, ip)'
    BY <2>1 DEF AccessTypes, WillBlockIp, RepGoto
  <2>4. ASSUME NEW x \in Ips \ {ip}, Reaches(failed'[x].n), x \notin pardoned'
        PROVE  DealtWith(x)'
    <3>1. failed'[x] = failed[x] /\ x \notin pardoned
      BY <2>1, <2>4 DEF AccessTypes
    <3>2. CASE x \in blocklist
      BY <2>2, <3>2
    <3>3. ASSUME NEW y \in RepReqs, WillBlockIp(y, x)
          PROVE  DealtWith(x)'
      <4>1. y # r
        BY <2>2, <3>3 DEF WillBlockIp
      <4>2. WillBlockIp(y, x)'
        BY <2>1, <3>3, <4>1, OthersWillBlock
      <4> QED
        BY <4>2
    <3> QED
      BY <1>0, <2>4, <3>1, <3>2, <3>3
  <2>5. ASSUME NEW x \in Ips, Reaches(failed'[x].n), x \notin pardoned'
        PROVE  DealtWith(x)'
    BY <2>3, <2>4, <2>5
  <2> QED
    BY <2>5 DEF FailuresAreDealtWith
<1>2. ASSUME NEW r \in RepReqs, ~WillBlockIp(r, repReq[r].ip),
             UNCHANGED repReq \/ \E q : repReq' = [repReq EXCEPT ![r] = q],
             UNCHANGED repPc \/ \E step : RepGoto(r, step),
             \A x \in Ips : failed'[x].n = failed[x].n \/ ~Reaches(failed'[x].n),
             blocklist \subseteq blocklist' \cup pardoned', pardoned \subseteq pardoned'
      PROVE  FailuresAreDealtWith'
  <2> SUFFICES ASSUME NEW x \in Ips, Reaches(failed'[x].n), x \notin pardoned'
               PROVE  DealtWith(x)'
    BY DEF FailuresAreDealtWith
  <2>1. DealtWith(x)
    BY <1>0, <1>2
  <2>2. CASE x \in blocklist
    BY <1>2, <2>2
  <2>3. ASSUME NEW y \in RepReqs, WillBlockIp(y, x)
        PROVE  DealtWith(x)'
    <3>1. y # r
      BY <1>2, <2>3 DEF WillBlockIp
    <3>2. WillBlockIp(y, x)'
      BY <1>2, <2>3, <3>1, OthersWillBlock
    <3> QED
      BY <3>2
  <2> QED
    BY <2>1, <2>2, <2>3
<1>3. ASSUME NEW r \in RepReqs, BlockIP(r) \/ ControlBlockIp(r) \/ UnblockIP(r) \/ CheckBlocked(r)
      PROVE  FailuresAreDealtWith'
  <2>1. ~WillBlockIp(r, repReq[r].ip) /\ UNCHANGED failed /\ \E step : RepGoto(r, step)
    BY <1>3 DEF BlockIP, ControlBlockIp, UnblockIP, CheckBlocked, WillBlockIp, accessKeys
  <2>2. \E q : repReq' = [repReq EXCEPT ![r] = q]
    BY <1>3, RequestsBegin
  <2>3. blocklist \subseteq blocklist' \cup pardoned' /\ pardoned \subseteq pardoned'
    BY <1>3 DEF BlockIP, ControlBlockIp, UnblockIP, CheckBlocked, accessKeys
  <2> QED
    BY <1>2, <2>1, <2>2, <2>3
<1>4. ASSUME NEW r \in RepReqs, ExpireFailures(r)
      PROVE  FailuresAreDealtWith'
  <2>1. repReq[r].ip \in Ips /\ repPc[r] = "expire"
    BY <1>4 DEF ExpireFailures, AccessTypes
  <2>2. \A x \in Ips : failed'[x].n = failed[x].n
    BY <1>4, <2>1 DEF ExpireFailures
  <2>3. UNCHANGED <<blocklist, pardoned, repReq>>
    BY <1>4 DEF ExpireFailures
  <2>4. \A x \in Ips : WillBlockIp(r, x) => WillBlockIp(r, x)'
    BY <1>4, <2>3 DEF ExpireFailures, WillBlockIp, RepGoto
  <2>5. \A y \in RepReqs \ {r}, x \in Ips : WillBlockIp(y, x) => WillBlockIp(y, x)'
    BY <1>4, <2>3, OthersWillBlock DEF ExpireFailures
  <2> QED
    BY <1>0, <2>2, <2>3, <2>4, <2>5 DEF FailuresAreDealtWith
<1>5. ASSUME NEW r \in RepReqs, AddToBlocklist(r)
      PROVE  FailuresAreDealtWith'
  <2>1. UNCHANGED <<failed, pardoned, repReq>> /\ blocklist' = blocklist \cup {repReq[r].ip}
    BY <1>5 DEF AddToBlocklist
  <2>2. \A x \in Ips : WillBlockIp(r, x) => x \in blocklist'
    BY <2>1 DEF WillBlockIp
  <2>3. \A y \in RepReqs \ {r}, x \in Ips : WillBlockIp(y, x) => WillBlockIp(y, x)'
    BY <1>5, <2>1, OthersWillBlock DEF AddToBlocklist
  <2> QED
    BY <1>0, <2>1, <2>2, <2>3 DEF FailuresAreDealtWith
<1>6. ASSUME NEW r \in RepReqs,
             \/ FailureRecorded(r) \/ SetReason(r) \/ DropReason(r) \/ GuardAnswers(r)
             \/ CheckAllowlistSize(r) \/ CheckAllowed(r)
      PROVE  FailuresAreDealtWith'
  <2>1. /\ ~WillBlockIp(r, repReq[r].ip) /\ UNCHANGED <<failed, blocklist, pardoned>>
        /\ \E step : RepGoto(r, step)
        /\ UNCHANGED repReq \/ repReq' = [repReq EXCEPT ![r] = RepIdle]
    BY <1>6 DEF FailureRecorded, SetReason, DropReason, GuardAnswers, CheckAllowlistSize,
                CheckAllowed, WillBlockIp, accessKeys, RepEnds
  <2> QED
    BY <1>2, <2>1
<1>7. ASSUME NEW ip \in Ips,
             AllowIp(ip) \/ RemoveAllowedIp(ip) \/ FailuresEnd(ip) \/ ReasonEnds(ip)
      PROVE  FailuresAreDealtWith'
  <2>1. UNCHANGED <<repReq, repPc, blocklist, pardoned>>
    BY <1>7 DEF AllowIp, RemoveAllowedIp, FailuresEnd, ReasonEnds
  <2>2. \A x \in Ips : failed'[x] = failed[x] \/ failed'[x] = NoCounter
    BY <1>7 DEF AllowIp, RemoveAllowedIp, FailuresEnd, ReasonEnds, AccessTypes
  <2>3. ~Reaches(NoCounter.n)
    BY AccessAssumption, RepIdleRequest DEF Reaches
  <2> QED
    BY <1>0, <2>1, <2>2, <2>3 DEF FailuresAreDealtWith, WillBlockIp
<1> QED
  BY <1>1, <1>3, <1>4, <1>5, <1>6, <1>7 DEF AccessNext, AccessStep

LEMMA GuardsAreNotDueStep ==
  ASSUME AccessTypes, FailuresAreDealtWith, GuardsAreNotDue, AccessNext
  PROVE  GuardsAreNotDue'
<1> USE DEF GuardsAreNotDue, RepGoto, RepEnds
<1>1. ASSUME NEW r \in RepReqs, RecordFailedAttempt(r)
      PROVE  GuardsAreNotDue'
  <2>1. PICK ip \in Ips, q \in RepRequest :
          /\ repReq' = [repReq EXCEPT ![r] = q]
          /\ RepGoto(r, IF failed'[ip].n = 1 THEN "expire"
                        ELSE IF Reaches(failed'[ip].n) THEN "add" ELSE "done")
    BY <1>1, RequestsBegin
  <2> QED
    BY <2>1 DEF AccessTypes
<1>2. ASSUME NEW r \in RepReqs, BlockIP(r) \/ ControlBlockIp(r) \/ UnblockIP(r)
      PROVE  GuardsAreNotDue'
  <2>1. PICK q : repReq' = [repReq EXCEPT ![r] = q]
    BY <1>2, RequestsBegin
  <2>2. repPc' = [repPc EXCEPT ![r] = "add"] \/ repPc' = [repPc EXCEPT ![r] = "unreason"]
    BY <1>2 DEF BlockIP, ControlBlockIp, UnblockIP
  <2> QED
    BY <2>1, <2>2 DEF AccessTypes
<1>3. ASSUME NEW r \in RepReqs, CheckBlocked(r)
      PROVE  GuardsAreNotDue'
  <2>1. PICK ip \in Ips, q \in RepRequest :
          /\ repReq' = [repReq EXCEPT ![r] = q] /\ q.due = BlockIsDue(ip)
          /\ RepGoto(r, AfterBlocklist(ip))
    BY <1>3, RequestsBegin
  <2>2. BlockIsDue(ip) => ip \in blocklist
    BY DEF BlockIsDue, FailuresAreDealtWith, WillBlockIp, Reaches
  <2> QED
    BY <2>1, <2>2 DEF AccessTypes, AfterBlocklist
<1>4. ASSUME NEW r \in RepReqs, AccessStep(r)
      PROVE  GuardsAreNotDue'
  <2>1. repPc[r] \notin {"size", "member"} => repPc'[r] \notin {"size", "member", "pass"}
    BY <1>4 DEF AccessStep, ExpireFailures, FailureRecorded, AddToBlocklist, SetReason, DropReason,
                CheckAllowlistSize, CheckAllowed, GuardAnswers, AccessTypes
  <2>2. \A x \in RepReqs \ {r} : repPc'[x] = repPc[x] /\ repReq'[x] = repReq[x]
    BY <1>4 DEF AccessStep, ExpireFailures, FailureRecorded, AddToBlocklist, SetReason, DropReason,
                CheckAllowlistSize, CheckAllowed, GuardAnswers, AccessTypes
  <2>3. repPc[r] \in {"size", "member"} => UNCHANGED repReq
    BY <1>4 DEF AccessStep, ExpireFailures, FailureRecorded, AddToBlocklist, SetReason, DropReason,
                CheckAllowlistSize, CheckAllowed, GuardAnswers
  <2> QED
    BY <2>1, <2>2, <2>3
<1>5. ASSUME NEW ip \in Ips,
             AllowIp(ip) \/ RemoveAllowedIp(ip) \/ FailuresEnd(ip) \/ ReasonEnds(ip)
      PROVE  GuardsAreNotDue'
  BY <1>5 DEF AllowIp, RemoveAllowedIp, FailuresEnd, ReasonEnds
<1> QED
  BY <1>1, <1>2, <1>3, <1>4, <1>5 DEF AccessNext

LEMMA AccessInvStep == AccessInv /\ [AccessNext]_accessVars => AccessInv'
<1>1. ASSUME AccessInv, UNCHANGED accessVars
      PROVE  AccessInv'
  BY <1>1 DEF AccessInv, AccessTypes, FailuresAreDealtWith, WillBlockIp, GuardsAreNotDue,
     accessVars, accessKeys
<1> QED
  BY <1>1, AccessTypesStep, FailuresAreDealtWithStep, GuardsAreNotDueStep DEF AccessInv

\* Type correctness of the address lists, of their counters and of the requests on
\* their way through them.
THEOREM AccessTypesHold == AccessSpec => []AccessTypeOK
<1>1. AccessInv => AccessTypeOK
  BY DEF AccessInv, AccessTypes, AccessTypeOK, FailCounter
<1> QED
  BY <1>1, AccessStarts, AccessInvStep, PTL DEF AccessSpec

\* An address whose failures have reached the limit gets nobody past the guard, however
\* many failures, blocks, pardons and connections run at a time
\* (anomaly-detection.service.ts, recordFailedAttempt; ip-control.service.ts, isIpAllowed).
THEOREM FailuresCloseTheDoorAlways == AccessSpec => []FailuresCloseTheDoor
<1>1. AccessInv => FailuresCloseTheDoor
  BY DEF AccessInv, GuardsAreNotDue, FailuresCloseTheDoor
<1> QED
  BY <1>1, AccessStarts, AccessInvStep, PTL DEF AccessSpec
-----------------------------------------------------------------------------
(***************************************************************************)
(* GeoAccess.  While a clean start is under way the allowlist is what it   *)
(* has loaded so far; a country that was blocked all along is on the list   *)
(* that the request still has to look at, or already refused.               *)
(***************************************************************************)
GeoTypes ==
  /\ GeoTypeOK
  /\ instTodo \in [Instances -> SUBSET Countries] /\ instConfig \in [Instances -> SUBSET Countries]
  /\ geoCountry \in [GeoReqs -> Countries \cup {NoCountry}]
  /\ clean \subseteq Instances /\ mustRefuse \subseteq GeoReqs

CleanStartsLoad ==
  \A g \in clean : /\ instPc[g] = "load" /\ instTodo[g] \subseteq instConfig[g]
                   /\ allowedCountries = instConfig[g] \ instTodo[g]

BlockedAreOnTheList ==
  \A r \in mustRefuse : geoPc[r] \in {"blocked?", "refused"} /\ geoCountry[r] \in blockedCountries

GeoInv == GeoTypes /\ CleanStartsLoad /\ AllowlistIsConfigured /\ BlockedAreOnTheList

LEMMA GeoStarts == GeoInit => GeoInv
  BY DEF GeoInit, GeoInv, GeoTypes, GeoTypeOK, CleanStartsLoad, AllowlistIsConfigured,
     BlockedAreOnTheList

LEMMA GeoTypesStep ==
  ASSUME GeoTypes, GeoNext
  PROVE  GeoTypes'
<1> USE DEF GeoTypes, GeoTypeOK, geoLists, instVars
<1>1. ASSUME NEW g \in Instances,
             GeoBoot(g) \/ ClearAllowlist(g) \/ LoadCountry(g) \/ StartEnds(g) \/ InstanceStops(g)
      PROVE  GeoTypes'
  BY <1>1, GeoAssumption
     DEF GeoBoot, ClearAllowlist, Cleared, LoadCountry, StartEnds, InstanceStops
<1>2. ASSUME NEW c \in Countries, \/ AddAllowedCountry(c) \/ RemoveAllowedCountry(c)
                                  \/ BlockCountry(c) \/ UnblockCountry(c)
      PROVE  GeoTypes'
  BY <1>2 DEF AddAllowedCountry, RemoveAllowedCountry, BlockCountry, UnblockCountry, ListsChange
<1>3. ASSUME NEW r \in GeoReqs, GeoRequest(r) \/ GeoAnswered(r)
      PROVE  GeoTypes'
  BY <1>3 DEF GeoRequest, GeoAnswered
<1>4. ASSUME NEW r \in GeoReqs, GeoStep(r)
      PROVE  GeoTypes'
  BY <1>4 DEF GeoStep, GuardReads, GuardReadFails, AfterBlockedList, AfterSize, AfterAllowedList
<1> QED
  BY <1>1, <1>2, <1>3, <1>4 DEF GeoNext

LEMMA GeoAllowlistStep ==
  ASSUME GeoTypes, CleanStartsLoad, AllowlistIsConfigured, GeoNext
  PROVE  CleanStartsLoad' /\ AllowlistIsConfigured'
<1> USE DEF GeoTypes, GeoTypeOK, CleanStartsLoad, AllowlistIsConfigured, geoLists, instVars
<1>1. ASSUME NEW g \in Instances, GeoBoot(g) \/ InstanceStops(g)
      PROVE  CleanStartsLoad' /\ AllowlistIsConfigured'
  BY <1>1 DEF GeoBoot, InstanceStops
<1>2. ASSUME NEW g \in Instances, ClearAllowlist(g)
      PROVE  CleanStartsLoad' /\ AllowlistIsConfigured'
  BY <1>2 DEF ClearAllowlist, Cleared
<1>3. ASSUME NEW g \in Instances, LoadCountry(g)
      PROVE  CleanStartsLoad' /\ AllowlistIsConfigured'
  BY <1>3 DEF LoadCountry
<1>4. ASSUME NEW g \in Instances, StartEnds(g)
      PROVE  CleanStartsLoad' /\ AllowlistIsConfigured'
  BY <1>4 DEF StartEnds
<1>5. ASSUME NEW c \in Countries, \/ AddAllowedCountry(c) \/ RemoveAllowedCountry(c)
                                  \/ BlockCountry(c) \/ UnblockCountry(c)
      PROVE  CleanStartsLoad' /\ AllowlistIsConfigured'
  BY <1>5 DEF AddAllowedCountry, RemoveAllowedCountry, BlockCountry, UnblockCountry, ListsChange
<1>6. ASSUME NEW r \in GeoReqs, GeoRequest(r) \/ GeoStep(r) \/ GeoAnswered(r)
      PROVE  CleanStartsLoad' /\ AllowlistIsConfigured'
  BY <1>6 DEF GeoRequest, GeoStep, GeoAnswered
<1> QED
  BY <1>1, <1>2, <1>3, <1>4, <1>5, <1>6 DEF GeoNext

LEMMA GeoBlocklistStep ==
  ASSUME GeoTypes, BlockedAreOnTheList, GeoNext
  PROVE  BlockedAreOnTheList'
<1> USE DEF GeoTypes, GeoTypeOK, BlockedAreOnTheList, geoLists, instVars
<1>1. ASSUME NEW g \in Instances,
             GeoBoot(g) \/ ClearAllowlist(g) \/ LoadCountry(g) \/ StartEnds(g) \/ InstanceStops(g)
      PROVE  BlockedAreOnTheList'
  BY <1>1 DEF GeoBoot, ClearAllowlist, LoadCountry, StartEnds, InstanceStops
<1>2. ASSUME NEW c \in Countries, \/ AddAllowedCountry(c) \/ RemoveAllowedCountry(c)
                                  \/ BlockCountry(c) \/ UnblockCountry(c)
      PROVE  BlockedAreOnTheList'
  BY <1>2 DEF AddAllowedCountry, RemoveAllowedCountry, BlockCountry, UnblockCountry, ListsChange
<1>3. ASSUME NEW r \in GeoReqs, GeoRequest(r) \/ GeoAnswered(r)
      PROVE  BlockedAreOnTheList'
  BY <1>3 DEF GeoRequest, GeoAnswered
<1>4. ASSUME NEW r \in GeoReqs, GeoStep(r)
      PROVE  BlockedAreOnTheList'
  BY <1>4 DEF GeoStep, GuardReads, GuardReadFails, AfterBlockedList
<1> QED
  BY <1>1, <1>2, <1>3, <1>4 DEF GeoNext

LEMMA GeoInvStep == GeoInv /\ [GeoNext]_geoVars => GeoInv'
<1>1. ASSUME GeoInv, UNCHANGED geoVars
      PROVE  GeoInv'
  BY <1>1 DEF GeoInv, GeoTypes, GeoTypeOK, CleanStartsLoad, AllowlistIsConfigured,
     BlockedAreOnTheList, geoVars, geoLists, instVars
<1> QED
  BY <1>1, GeoTypesStep, GeoAllowlistStep, GeoBlocklistStep DEF GeoInv

\* Type correctness of the lists of countries and of the starts that fill them.
THEOREM GeoTypesHold == GeoSpec => []GeoTypeOK
<1>1. GeoInv => GeoTypeOK
  BY DEF GeoInv, GeoTypes
<1> QED
  BY <1>1, GeoStarts, GeoInvStep, PTL DEF GeoSpec

\* An undisturbed start leaves the allowlist it was configured with, and a country that
\* is blocked all along is refused, for any number of instances that start, stop and are
\* broken off while others serve (geolocation.service.ts, onModuleInit and isCountryAllowed).
THEOREM CountryListsAreEnforced == GeoSpec => []ListsAreEnforced
<1>1. GeoInv => ListsAreEnforced
  BY DEF GeoInv, BlockedAreOnTheList, BlockedAreRefused, ListsAreEnforced
<1> QED
  BY <1>1, GeoStarts, GeoInvStep, PTL DEF GeoSpec
-----------------------------------------------------------------------------
(***************************************************************************)
(* CsrfTokens.  A token whose SET was given up is in no browser, and what  *)
(* arrives late is such a token: the key never again holds a token that    *)
(* was in a browser when the key was deleted.                              *)
(***************************************************************************)
CsrfTypes ==
  /\ lastToken \in 0 .. MaxTokens /\ csrf \in 0 .. lastToken
  /\ lateSets \subseteq 1 .. lastToken /\ inBrowser \subseteq 1 .. lastToken
  /\ checkPc \in [CsrfReqs -> {"idle", "validate", "passed", "refused"}]
  /\ checkToken \in [CsrfReqs -> 0 .. MaxTokens]

LateSetsAreNobodys == lateSets \cap inBrowser = {}
RevokedIsGone == revoked \subseteq inBrowser /\ csrf \notin revoked

CsrfInv == CsrfTypes /\ LateSetsAreNobodys /\ RevokedIsGone /\ RevokedTokensStayRevoked

LEMMA CsrfStarts == CsrfInit => CsrfInv
  BY CsrfAssumption
     DEF CsrfInit, CsrfInv, CsrfTypes, LateSetsAreNobodys, RevokedIsGone,
         RevokedTokensStayRevoked

LEMMA CsrfTypesStep ==
  ASSUME CsrfTypes, CsrfNext
  PROVE  CsrfTypes'
<1> USE CsrfAssumption DEF CsrfTypes, CsrfAssumption
<1>1. CASE GenerateToken \/ GenerateFails
  <2>1. /\ lastToken' = lastToken + 1 /\ lastToken' \in 0 .. MaxTokens
        /\ csrf' = lastToken' \/ UNCHANGED csrf
        /\ inBrowser' \subseteq inBrowser \cup {lastToken'}
        /\ lateSets' \subseteq lateSets \cup {lastToken'}
        /\ UNCHANGED <<checkPc, checkToken>>
    BY <1>1 DEF GenerateToken, GenerateFails
  <2>2. (1 .. lastToken) \cup {lastToken'} \subseteq 1 .. lastToken'
    BY <2>1
  <2>3. csrf' \in 0 .. lastToken'
    BY <2>1
  <2> QED
    BY <2>1, <2>2, <2>3
<1>2. CASE LateSetArrives
  <2>1. PICK t \in lateSets : csrf' = t /\ lateSets' = lateSets \ {t}
    BY <1>2 DEF LateSetArrives
  <2>2. t \in 1 .. lastToken
    BY <2>1
  <2>3. csrf' \in 0 .. lastToken
    BY <2>1, <2>2
  <2> QED
    BY <1>2, <2>1, <2>3 DEF LateSetArrives
<1>3. CASE TokenExpires \/ RevokeToken
  <2>1. csrf' = 0 /\ UNCHANGED <<lastToken, lateSets, inBrowser, checkPc, checkToken>>
    BY <1>3 DEF TokenExpires, RevokeToken, AfterRevoke
  <2>2. csrf' \in 0 .. lastToken
    BY <2>1
  <2> QED
    BY <2>1, <2>2
<1>4. ASSUME NEW r \in CsrfReqs, StateChangingRequest(r)
      PROVE  CsrfTypes'
  <2>1. PICK t \in inBrowser : checkToken' = [checkToken EXCEPT ![r] = t]
    BY <1>4 DEF StateChangingRequest
  <2>2. t \in 1 .. lastToken
    BY <2>1
  <2>3. t \in 0 .. MaxTokens
    BY <2>2
  <2> QED
    BY <1>4, <2>1, <2>3 DEF StateChangingRequest
<1>5. ASSUME NEW r \in CsrfReqs, ValidateToken(r) \/ CsrfAnswered(r)
      PROVE  CsrfTypes'
  <2>1. /\ UNCHANGED <<lastToken, csrf, lateSets, inBrowser>>
        /\ UNCHANGED checkToken \/ checkToken' = [checkToken EXCEPT ![r] = 0]
    BY <1>5 DEF ValidateToken, CsrfAnswered
  <2>2. checkPc' \in [CsrfReqs -> {"idle", "validate", "passed", "refused"}]
    BY <1>5 DEF ValidateToken, CsrfAnswered
  <2> QED
    BY <2>1, <2>2
<1> QED
  BY <1>1, <1>2, <1>3, <1>4, <1>5 DEF CsrfNext

LEMMA CsrfSafetyStep ==
  ASSUME CsrfInv, CsrfNext
  PROVE  LateSetsAreNobodys' /\ RevokedIsGone' /\ RevokedTokensStayRevoked'
<1> USE CsrfAssumption
    DEF CsrfInv, LateSetsAreNobodys, RevokedIsGone, RevokedTokensStayRevoked, CsrfAssumption
<1>1. CASE GenerateToken \/ GenerateFails
  <2>1. lastToken + 1 \notin inBrowser \cup lateSets \cup revoked
    BY DEF CsrfTypes
  <2> QED
    BY <1>1, <2>1 DEF GenerateToken, GenerateFails
<1>2. CASE LateSetArrives
  BY <1>2 DEF LateSetArrives
<1>3. CASE TokenExpires \/ RevokeToken
  <2>1. 0 \notin inBrowser
    BY DEF CsrfTypes
  <2> QED
    BY <1>3, <2>1 DEF TokenExpires, RevokeToken, AfterRevoke
<1>4. ASSUME NEW r \in CsrfReqs, StateChangingRequest(r) \/ CsrfAnswered(r)
      PROVE  LateSetsAreNobodys' /\ RevokedIsGone' /\ RevokedTokensStayRevoked'
  BY <1>4 DEF StateChangingRequest, CsrfAnswered
<1>5. ASSUME NEW r \in CsrfReqs, ValidateToken(r)
      PROVE  LateSetsAreNobodys' /\ RevokedIsGone' /\ RevokedTokensStayRevoked'
  <2>1. \A stored \in {csrf, 0} : ~(Valid(stored, checkToken[r]) /\ checkToken[r] \in revoked)
    BY DEF Valid
  <2>2. UNCHANGED <<csrf, lateSets, inBrowser, revoked, stale>>
    BY <1>5, <2>1 DEF ValidateToken
  <2> QED
    BY <2>2
<1> QED
  BY <1>1, <1>2, <1>3, <1>4, <1>5 DEF CsrfNext

LEMMA CsrfInvStep == CsrfInv /\ [CsrfNext]_csrfVars => CsrfInv'
<1>1. ASSUME CsrfInv, UNCHANGED csrfVars
      PROVE  CsrfInv'
  BY <1>1 DEF CsrfInv, CsrfTypes, LateSetsAreNobodys, RevokedIsGone, RevokedTokensStayRevoked, csrfVars
<1> QED
  BY <1>1, CsrfTypesStep, CsrfSafetyStep DEF CsrfInv

\* Type correctness of the token's key and of the browsers' tokens.
THEOREM CsrfTypesHold == CsrfSpec => []CsrfTypeOK
<1>1. CsrfInv => CsrfTypeOK
  BY CsrfAssumption DEF CsrfInv, CsrfTypes, CsrfTypeOK
<1> QED
  BY <1>1, CsrfStarts, CsrfInvStep, PTL DEF CsrfSpec

\* Once its revocation was done no token passes the guard any more, for any number of
\* requests and of SETs that arrive late (csrf.service.ts, revokeToken and validateToken).
THEOREM RevokedTokensArePast == CsrfSpec => []RevokedTokensStayRevoked
<1>1. CsrfInv => RevokedTokensStayRevoked
  BY DEF CsrfInv
<1> QED
  BY <1>1, CsrfStarts, CsrfInvStep, PTL DEF CsrfSpec
=============================================================================
