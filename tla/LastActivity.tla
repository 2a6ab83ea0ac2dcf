----------------------------- MODULE LastActivity -----------------------------
(***************************************************************************)
(* Last-activity tracking of one user: every authenticated request writes   *)
(* the time to a Redis key without waiting for it, so that two of these     *)
(* writes may arrive in either order, or never; a job on every instance     *)
(* moves the keys to the database every ten minutes, and sign-in writes the *)
(* database directly.  The jobs of several instances run at the same time.  *)
(* 0 is an absent key and a user who has never been active.                 *)
(***************************************************************************)
EXTENDS Integers

CONSTANTS Jobs,           \* runs of the batch job that may overlap
          SignIns,        \* sign-ins under way
          MaxActivity,    \* bound: the clock
          ActFaults       \* BOOLEAN: commands may fail

ASSUME ActivityAssumption == MaxActivity \in Nat \ {0} /\ ActFaults \in BOOLEAN

VARIABLES
  clock,
  flying,       \* the times of SETs nobody waits for
  cached,       \* trackLastActivity:<id>
  lastDb,       \* lastActivityAt of the row
  jobPc, jobRead,
  signAt,       \* when a sign-in under way took its time, or 0
  newest,       \* history: the newest activity the key was given
  lossExcused   \* history: what has since made the loss of it acceptable

activityVars == <<clock, flying, cached, lastDb, jobPc, jobRead, signAt, newest, lossExcused>>

ActivityInit ==
  /\ clock = 1 /\ flying = {} /\ cached = 0 /\ lastDb = 0
  /\ jobPc = [j \in Jobs |-> "idle"] /\ jobRead = [j \in Jobs |-> 0]
  /\ signAt = [s \in SignIns |-> 0]
  /\ newest = 0 /\ lossExcused = {}

ActTick ==
  /\ clock < MaxActivity /\ clock' = clock + 1
  /\ UNCHANGED <<flying, cached, lastDb, jobPc, jobRead, signAt, newest, lossExcused>>

\* A job that has read the key and not yet deleted it.
HasRead(j) == jobPc[j] \in {"find", "write", "delete"}

\* TrackLastActivityInterceptor: the time is taken, the request goes on.
Track ==
  /\ flying' = flying \cup {clock}
  /\ UNCHANGED <<clock, cached, lastDb, jobPc, jobRead, signAt, newest, lossExcused>>
\* updateLastActivityToRedis; an older time may overwrite a newer one.
TrackArrives ==
  /\ \E t \in flying :
       /\ flying' = flying \ {t} /\ cached' = t
       /\ newest' = IF t > newest THEN t ELSE newest
       /\ lossExcused' = IF t < newest THEN lossExcused \cup {"overtaken"}
                         ELSE IF \E j \in Jobs : HasRead(j) THEN {"raced"} ELSE {}
  /\ UNCHANGED <<clock, lastDb, jobPc, jobRead, signAt>>
\* The error of the SET is logged.
TrackFails ==
  /\ ActFaults /\ \E t \in flying : flying' = flying \ {t}
  /\ UNCHANGED <<clock, cached, lastDb, jobPc, jobRead, signAt, newest, lossExcused>>

\* 30 minutes without a request and without a batch.
KeyExpires ==
  /\ cached # 0 /\ cached' = 0
  /\ lossExcused' = lossExcused \cup {"expired"}
  /\ UNCHANGED <<clock, flying, lastDb, jobPc, jobRead, signAt, newest>>
-----------------------------------------------------------------------------
(* batchUpdateLastActivity: KEYS, then one key after the other (here one) *)

JobGoto(j, step) == jobPc' = [jobPc EXCEPT ![j] = step]
JobEnds(j) == JobGoto(j, "idle") /\ jobRead' = [jobRead EXCEPT ![j] = 0]

\* KEYS that fails answers the empty list.
JobLists(j) ==
  /\ jobPc[j] = "idle" /\ cached # 0 /\ JobGoto(j, "get")
  /\ UNCHANGED <<clock, flying, cached, lastDb, jobRead, signAt, newest, lossExcused>>

\* GET that fails answers null.
JobGets(j) ==
  /\ jobPc[j] = "get"
  /\ \E v \in {cached} \cup (IF ActFaults THEN {0} ELSE {}) :
       IF v = 0 THEN JobEnds(j)
       ELSE JobGoto(j, "find") /\ jobRead' = [jobRead EXCEPT ![j] = v]
  /\ UNCHANGED <<clock, flying, cached, lastDb, signAt, newest, lossExcused>>

JobFindsUser(j) ==
  /\ jobPc[j] = "find" /\ JobGoto(j, "write")
  /\ UNCHANGED <<clock, flying, cached, lastDb, jobRead, signAt, newest, lossExcused>>

\* The value that was read is written whatever the row has by now.
JobWrites(j) ==
  /\ jobPc[j] = "write" /\ JobGoto(j, "delete")
  /\ lastDb' = jobRead[j]
  /\ UNCHANGED <<clock, flying, cached, jobRead, signAt, newest, lossExcused>>

\* DEL that fails is swallowed: the key stays for the next batch.
JobDeletes(j) ==
  /\ jobPc[j] = "delete" /\ JobEnds(j)
  /\ cached' \in {0} \cup (IF ActFaults THEN {cached} ELSE {})
  /\ UNCHANGED <<clock, flying, lastDb, signAt, newest, lossExcused>>

\* Mutant: the key is cleaned up in a finally block.
KeyAfterFailureGone == 0
KeyAfterFailure == cached
\* A database command throws: continue with the next key.
JobSkips(j) ==
  /\ ActFaults /\ jobPc[j] \in {"find", "write"}
  /\ JobEnds(j)
  /\ cached' = KeyAfterFailure
  /\ UNCHANGED <<clock, flying, lastDb, signAt, newest, lossExcused>>
-----------------------------------------------------------------------------
(* updateLastActivityInDB, at sign-in; errors are swallowed *)

SignInReads(s) ==
  /\ signAt[s] = 0 /\ signAt' = [signAt EXCEPT ![s] = clock]
  /\ UNCHANGED <<clock, flying, cached, lastDb, jobPc, jobRead, newest, lossExcused>>
SignInWrites(s) ==
  /\ signAt[s] # 0 /\ signAt' = [signAt EXCEPT ![s] = 0]
  /\ lastDb' = signAt[s]
  /\ lossExcused' = IF signAt[s] < lastDb THEN lossExcused \cup {"late sign-in"} ELSE lossExcused
  /\ UNCHANGED <<clock, flying, cached, jobPc, jobRead, newest>>
SignInSkips(s) ==
  /\ ActFaults /\ signAt[s] # 0 /\ signAt' = [signAt EXCEPT ![s] = 0]
  /\ UNCHANGED <<clock, flying, cached, lastDb, jobPc, jobRead, newest, lossExcused>>
-----------------------------------------------------------------------------
JobStep(j) ==
  \/ JobLists(j) \/ JobGets(j) \/ JobFindsUser(j) \/ JobWrites(j) \/ JobDeletes(j)
  \/ JobSkips(j)

ActivityNext ==
  \/ ActTick \/ Track \/ TrackArrives \/ TrackFails \/ KeyExpires
  \/ \E j \in Jobs : JobStep(j)
  \/ \E s \in SignIns : SignInReads(s) \/ SignInWrites(s) \/ SignInSkips(s)

ActivitySpec == ActivityInit /\ [][ActivityNext]_activityVars
-----------------------------------------------------------------------------
(* Properties *)

ActivityTypeOK ==
  /\ clock \in 1 .. MaxActivity
  /\ flying \subseteq 1 .. MaxActivity /\ cached \in 0 .. MaxActivity /\ lastDb \in 0 .. MaxActivity
  /\ jobPc \in [Jobs -> {"idle", "get", "find", "write", "delete"}]
  /\ jobRead \in [Jobs -> 0 .. MaxActivity] /\ signAt \in [SignIns -> 0 .. MaxActivity]

\* The user's newest activity is in the key or in the row, through every failure
\* and with the jobs of several instances at once, unless the key has expired, has been
\* set while a job was between its GET and its DEL, or overwritten by an older time.
ActivityIsKept == newest <= lastDb \/ cached = newest \/ lossExcused # {}
=============================================================================
