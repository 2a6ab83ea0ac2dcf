---------------------------- MODULE AccessControl ----------------------------
(***************************************************************************)
(* Who may connect: IPControlService with its guard, and the part of        *)
(* AnomalyDetectionService about addresses.  They share Redis keys, the     *)
(* blocklist and the reason of a block, but not their meaning: the reason   *)
(* is the only key with a time to live, and the guard looks only at the     *)
(* list.  Requests run concurrently, one Redis command per step; Redis      *)
(* answers (when it does not, both reads say "no" and everybody passes).    *)
(***************************************************************************)
EXTENDS Integers

CONSTANTS Ips, RepReqs,
          FailedBlocks,      \* failures from which it is put on the blocklist
          MaxFailed          \* bound: the counter

ASSUME AccessAssumption ==
  FailedBlocks \in Nat \ {0} /\ MaxFailed \in Nat

VARIABLES
  failed,      \* ip:failed:<ip>, with its hour running or not
  blocklist,   \* ip:blocklist
  allowlist,   \* ip:allowlist
  reason,      \* ip:block:reason:<ip>: of a "temporary" or a "permanent" block,
               \* the 30-day "note" of IPControlService, or "none"
  repPc, repReq,
  pardoned,    \* history: addresses taken off the list since they last failed
  overdue      \* history: addresses whose last block was temporary and has run out

accessKeys == <<failed, blocklist, allowlist, reason>>
accessVars == <<accessKeys, repPc, repReq, pardoned, overdue>>

NoCounter == [n |-> 0, ttl |-> FALSE]
RepIdle == [ip |-> "none", n |-> 0, kind |-> "none", due |-> FALSE]
BlockKinds == {"temporary", "permanent", "note", "none"}

AccessInit ==
  /\ failed = [ip \in Ips |-> NoCounter]
  /\ blocklist = {} /\ reason = [ip \in Ips |-> "none"]
  /\ repPc = [r \in RepReqs |-> "idle"] /\ repReq = [r \in RepReqs |-> RepIdle]
  /\ allowlist = {} /\ pardoned = {} /\ overdue = {}

RepGoto(r, step) == repPc' = [repPc EXCEPT ![r] = step]
RepEnds(r) == RepGoto(r, "idle") /\ repReq' = [repReq EXCEPT ![r] = RepIdle]
CountUp(c) == [c EXCEPT !.n = IF @ < MaxFailed THEN @ + 1 ELSE @]
-----------------------------------------------------------------------------
Reaches(n) == n >= FailedBlocks

RecordFailedAttempt(r) ==
  \E ip \in Ips :
    /\ repPc[r] = "idle"
    /\ failed' = [failed EXCEPT ![ip] = CountUp(@)]
    /\ repReq' = [repReq EXCEPT ![r].ip = ip, ![r].n = failed'[ip].n, ![r].kind = "temporary"]
    /\ RepGoto(r, IF failed'[ip].n = 1 THEN "expire" ELSE IF Reaches(failed'[ip].n) THEN "add" ELSE "done")
    /\ pardoned' = pardoned \ {ip}
    /\ UNCHANGED <<blocklist, allowlist, reason, overdue>>
ExpireFailures(r) ==
  LET ip == repReq[r].ip IN
  /\ repPc[r] = "expire"
  /\ failed' = [failed EXCEPT ![ip].ttl = failed[ip].n > 0]
  /\ RepGoto(r, IF Reaches(repReq[r].n) THEN "add" ELSE "done")
  /\ UNCHANGED <<blocklist, allowlist, reason, repReq, pardoned, overdue>>
FailureRecorded(r) ==
  /\ repPc[r] = "done" /\ RepEnds(r)
  /\ UNCHANGED <<accessKeys, pardoned, overdue>>

\* AnomalyDetectionService.blockIP, with a duration or without.
BlockIP(r) ==
  \E ip \in Ips, kind \in {"temporary", "permanent"} :
    /\ repPc[r] = "idle" /\ RepGoto(r, "add")
    /\ repReq' = [repReq EXCEPT ![r].ip = ip, ![r].kind = kind]
    /\ UNCHANGED <<accessKeys, pardoned, overdue>>
\* IPControlService.blockIp, with a reason or without.
ControlBlockIp(r) ==
  \E ip \in Ips, kind \in {"note", "none"} :
    /\ repPc[r] = "idle" /\ RepGoto(r, "add")
    /\ repReq' = [repReq EXCEPT ![r].ip = ip, ![r].kind = kind]
    /\ UNCHANGED <<accessKeys, pardoned, overdue>>
AddToBlocklist(r) ==
  /\ repPc[r] = "add"
  /\ blocklist' = blocklist \cup {repReq[r].ip}
  /\ overdue' = overdue \ {repReq[r].ip}
  /\ RepGoto(r, IF repReq[r].kind = "none" THEN "done" ELSE "reason")
  /\ UNCHANGED <<failed, allowlist, reason, repReq, pardoned>>
SetReason(r) ==
  /\ repPc[r] = "reason"
  /\ reason' = [reason EXCEPT ![repReq[r].ip] = repReq[r].kind]
  /\ RepEnds(r)
  /\ UNCHANGED <<failed, blocklist, allowlist, pardoned, overdue>>

\* unblockIP and removeFromBlocklist: SREM, then DEL of the reason.
UnblockIP(r) ==
  \E ip \in blocklist :
    /\ repPc[r] = "idle" /\ RepGoto(r, "unreason")
    /\ repReq' = [repReq EXCEPT ![r].ip = ip]
    /\ blocklist' = blocklist \ {ip}
    /\ pardoned' = pardoned \cup {ip} /\ overdue' = overdue \ {ip}
    /\ UNCHANGED <<failed, allowlist, reason>>
DropReason(r) ==
  /\ repPc[r] = "unreason"
  /\ reason' = [reason EXCEPT ![repReq[r].ip] = "none"]
  /\ RepEnds(r)
  /\ UNCHANGED <<failed, blocklist, allowlist, pardoned, overdue>>

AllowIp(ip) ==
  /\ allowlist' = allowlist \cup {ip}
  /\ UNCHANGED <<failed, blocklist, reason, repPc, repReq, pardoned, overdue>>
RemoveAllowedIp(ip) ==
  /\ allowlist' = allowlist \ {ip}
  /\ UNCHANGED <<failed, blocklist, reason, repPc, repReq, pardoned, overdue>>
-----------------------------------------------------------------------------
(* IPControlGuard: isIpAllowed in up to three reads *)

\* Failures of an address that have all been dealt with.
BlockIsDue(ip) ==
  /\ failed[ip].n >= FailedBlocks /\ ip \notin pardoned
  /\ \A x \in RepReqs : repReq[x].ip = ip => repPc[x] \notin {"expire", "add"}

\* Mutant: the allowlist is looked at first.
AfterBlocklistOpen(ip) == IF ip \in blocklist /\ ip \notin allowlist THEN "deny" ELSE "size"
AfterBlocklist(ip) == IF ip \in blocklist THEN "deny" ELSE "size"

CheckBlocked(r) ==
  \E ip \in Ips :
    /\ repPc[r] = "idle"
    /\ repReq' = [repReq EXCEPT ![r].ip = ip, ![r].due = BlockIsDue(ip)]
    /\ RepGoto(r, AfterBlocklist(ip))
    /\ UNCHANGED <<accessKeys, pardoned, overdue>>
CheckAllowlistSize(r) ==
  /\ repPc[r] = "size"
  /\ RepGoto(r, IF allowlist = {} THEN "pass" ELSE "member")
  /\ UNCHANGED <<accessKeys, repReq, pardoned, overdue>>
CheckAllowed(r) ==
  /\ repPc[r] = "member"
  /\ RepGoto(r, IF repReq[r].ip \in allowlist THEN "pass" ELSE "deny")
  /\ UNCHANGED <<accessKeys, repReq, pardoned, overdue>>
\* The request goes on, or ends with 403 and the reason that is found.
GuardAnswers(r) ==
  /\ repPc[r] \in {"pass", "deny"} /\ RepEnds(r)
  /\ UNCHANGED <<accessKeys, pardoned, overdue>>
-----------------------------------------------------------------------------
FailuresEnd(ip) ==
  /\ failed[ip].ttl /\ failed' = [failed EXCEPT ![ip] = NoCounter]
  /\ UNCHANGED <<blocklist, allowlist, reason, repPc, repReq, pardoned, overdue>>
ReasonEnds(ip) ==
  /\ reason[ip] \in {"temporary", "note"} /\ reason' = [reason EXCEPT ![ip] = "none"]
  /\ overdue' = IF reason[ip] = "temporary" THEN overdue \cup {ip} ELSE overdue
  /\ UNCHANGED <<failed, blocklist, allowlist, repPc, repReq, pardoned>>

AccessStep(r) ==
  \/ ExpireFailures(r) \/ FailureRecorded(r) \/ AddToBlocklist(r) \/ SetReason(r)
  \/ DropReason(r) \/ CheckAllowlistSize(r) \/ CheckAllowed(r) \/ GuardAnswers(r)
AccessNext ==
  \/ \E r \in RepReqs :
       \/ RecordFailedAttempt(r) \/ BlockIP(r) \/ ControlBlockIp(r) \/ UnblockIP(r)
       \/ CheckBlocked(r) \/ AccessStep(r)
  \/ \E ip \in Ips : AllowIp(ip) \/ RemoveAllowedIp(ip) \/ FailuresEnd(ip) \/ ReasonEnds(ip)

AccessSpec == AccessInit /\ [][AccessNext]_accessVars
-----------------------------------------------------------------------------
(* Properties *)

AccessTypeOK ==
  /\ blocklist \subseteq Ips /\ allowlist \subseteq Ips
  /\ \A ip \in Ips : failed[ip].n \in 0 .. MaxFailed
  /\ reason \in [Ips -> BlockKinds]

\* An address whose failed logins have reached the limit, and have all been
\* recorded, gets no further request past the guard, however many of them were
\* recorded at a time and whatever the allowlist says, unless somebody unblocks it.
FailuresCloseTheDoor == \A r \in RepReqs : repPc[r] = "pass" => ~repReq[r].due

\* anomaly-detection.service.ts:405 "Temporary block", :444 "2 hours": an address
\* whose temporary block has run out is no longer on the blocklist.  The code does not
\* keep it: what expires is the reason of the block.
TemporaryBlocksEnd == overdue \cap blocklist = {}
=============================================================================
