--------------------------- MODULE ServicesProofs ---------------------------
(***************************************************************************)
(* What goes on behind the requests (last activity, the delivery of codes, *)
(* log entries) and what they are answered (pages, verdicts on passwords,  *)
(* errors, scores of logins). One section for each; none needs another's.  *)
(* The last one takes them, the token families and the access rules as     *)
(* MCServices runs them side by side.                                      *)
(***************************************************************************)
EXTENDS MCServices, TokenFamiliesProofs, AccessProofs,
        WellFoundedInduction, FiniteSetTheorems, TLAPS
-----------------------------------------------------------------------------
(***************************************************************************)
(* No activity is lost without one of the causes LastActivity names, for    *)
(* any number of overlapping batches and sign-ins.  The invariant says what *)
(* a batch that has read the key holds, as long as there is no cause: the   *)
(* newest activity, and in the row before it deletes the key.               *)
(***************************************************************************)
ActTypes == ActivityTypeOK /\ newest \in 0 .. MaxActivity

KeyOrRow == newest <= lastDb \/ cached = newest

NoCause ==
  lossExcused = {} =>
    /\ KeyOrRow
    /\ cached \in {0, newest}
    /\ \A j \in Jobs : HasRead(j) =>
         /\ jobRead[j] = newest
         /\ jobPc[j] = "delete" => newest <= lastDb

ActInv == ActTypes /\ NoCause

LEMMA ActInit == ActivityInit => ActInv
  BY ActivityAssumption
     DEF ActivityAssumption, ActivityInit, ActInv, ActTypes, ActivityTypeOK, NoCause, KeyOrRow,
         HasRead

LEMMA ActTypesStep ==
  ASSUME ActTypes, ActivityNext
  PROVE  ActTypes'
<1> USE ActivityAssumption DEF ActivityAssumption, ActTypes, ActivityTypeOK
<1>1. CASE ActTick \/ Track \/ TrackFails \/ KeyExpires
  <2>1. CASE ActTick
    BY <2>1 DEF ActTick
  <2>2. CASE Track
    BY <2>2 DEF Track
  <2>3. CASE TrackFails
    BY <2>3 DEF TrackFails
  <2>4. CASE KeyExpires
    BY <2>4 DEF KeyExpires
  <2> QED
    BY <1>1, <2>1, <2>2, <2>3, <2>4
<1>4. CASE TrackArrives
  BY <1>4 DEF TrackArrives
<1>2. ASSUME NEW j \in Jobs, JobStep(j)
      PROVE  ActTypes'
  <2>1. CASE JobLists(j) \/ JobFindsUser(j)
    BY <2>1 DEF JobLists, JobFindsUser, JobGoto
  <2>2. CASE JobGets(j)
    BY <2>2 DEF JobGets, JobGoto, JobEnds
  <2>3. CASE JobWrites(j)
    BY <2>3 DEF JobWrites, JobGoto
  <2>4. CASE JobDeletes(j)
    BY <2>4 DEF JobDeletes, JobGoto, JobEnds
  <2>5. CASE JobSkips(j)
    BY <2>5 DEF JobSkips, JobGoto, JobEnds, KeyAfterFailure
  <2> QED
    BY <1>2, <2>1, <2>2, <2>3, <2>4, <2>5 DEF JobStep
<1>3. ASSUME NEW s \in SignIns, SignInReads(s) \/ SignInWrites(s) \/ SignInSkips(s)
      PROVE  ActTypes'
  <2>1. CASE SignInReads(s)
    BY <2>1 DEF SignInReads
  <2>2. CASE SignInWrites(s)
    <3>1. signAt[s] \in 0 .. MaxActivity /\ 0 \in 0 .. MaxActivity
      BY <1>3
    <3>2. /\ signAt' = [signAt EXCEPT ![s] = 0] /\ lastDb' = signAt[s]
          /\ UNCHANGED <<clock, flying, cached, jobPc, jobRead, newest>>
      BY <2>2 DEF SignInWrites
    <3> DEFINE T == 0 .. MaxActivity
    <3>3. signAt \in [SignIns -> T] /\ 0 \in T
      BY <3>1
    <3>4. signAt' \in [SignIns -> T]
      <4> HIDE DEF T
      <4> QED
        BY <3>2, <3>3
    <3> QED
      BY <3>1, <3>2, <3>4
  <2>3. CASE SignInSkips(s)
    BY <2>3 DEF SignInSkips
  <2> QED
    BY <1>3, <2>1, <2>2, <2>3
<1> QED
  BY <1>1, <1>2, <1>3, <1>4 DEF ActivityNext

LEMMA NoCauseStep ==
  ASSUME ActTypes, NoCause, ActivityNext
  PROVE  NoCause'
<1> USE DEF ActTypes, ActivityTypeOK, NoCause, KeyOrRow, HasRead
<1>1. CASE ActTick \/ Track \/ TrackFails \/ KeyExpires
  BY <1>1 DEF ActTick, Track, TrackFails, KeyExpires
<1>2. CASE TrackArrives
  \* An older time is a cause; a newer one is newest, and is one if a batch holds another.
  BY <1>2 DEF TrackArrives
<1>3. ASSUME NEW j \in Jobs, JobStep(j)
      PROVE  NoCause'
  <2>1. CASE JobLists(j) \/ JobFindsUser(j)
    BY <2>1 DEF JobLists, JobFindsUser, JobGoto
  <2>2. CASE JobGets(j)
    BY <2>2 DEF JobGets, JobGoto, JobEnds
  <2>3. CASE JobWrites(j)
    BY <2>3 DEF JobWrites, JobGoto
  <2>4. CASE JobDeletes(j)
    BY <2>4 DEF JobDeletes, JobGoto, JobEnds
  <2>5. CASE JobSkips(j)
    BY <2>5 DEF JobSkips, JobGoto, JobEnds, KeyAfterFailure
  <2> QED
    BY <1>3, <2>1, <2>2, <2>3, <2>4, <2>5 DEF JobStep
<1>4. ASSUME NEW s \in SignIns, SignInReads(s) \/ SignInWrites(s) \/ SignInSkips(s)
      PROVE  NoCause'
  <2>1. CASE SignInReads(s) \/ SignInSkips(s)
    BY <2>1 DEF SignInReads, SignInSkips
  <2>2. CASE SignInWrites(s)
    <3>1. lastDb' = signAt[s] /\ signAt[s] \in Nat
      <4>1. signAt[s] \in 0 .. MaxActivity
        BY <1>4
      <4>2. lastDb' = signAt[s]
        BY <2>2 DEF SignInWrites
      <4>3. \A t \in 0 .. MaxActivity : t \in Nat
        BY ActivityAssumption DEF ActivityAssumption
      <4> QED
        BY <4>1, <4>2, <4>3
    <3>2. CASE signAt[s] < lastDb
      BY <2>2, <3>2 DEF SignInWrites
    <3>3. CASE ~(signAt[s] < lastDb)
      <4>1. lossExcused' = lossExcused
        BY <2>2, <3>3 DEF SignInWrites
      <4>2. lastDb <= lastDb'
        BY <3>1, <3>3
      <4>3. UNCHANGED <<newest, cached, jobPc, jobRead>>
        BY <2>2 DEF SignInWrites
      <4> QED
        BY <3>1, <4>1, <4>2, <4>3
    <3> QED
      BY <3>2, <3>3
  <2> QED
    BY <1>4, <2>1, <2>2
<1> QED
  BY <1>1, <1>2, <1>3, <1>4 DEF ActivityNext

LEMMA ActStep == ActInv /\ [ActivityNext]_activityVars => ActInv'
<1> SUFFICES ASSUME ActInv, [ActivityNext]_activityVars
             PROVE  ActInv'
  OBVIOUS
<1>1. CASE UNCHANGED activityVars
  BY <1>1 DEF ActInv, ActTypes, ActivityTypeOK, NoCause, KeyOrRow, HasRead, activityVars
<1>2. CASE ActivityNext
  BY <1>2, ActTypesStep, NoCauseStep DEF ActInv
<1> QED
  BY <1>1, <1>2

LEMMA ActAlways == ActivitySpec => []ActInv
  BY ActInit, ActStep, PTL DEF ActivitySpec

\* Type correctness of last-activity tracking.
THEOREM ActivityTypesHold == ActivitySpec => []ActivityTypeOK
<1>1. ActInv => ActivityTypeOK
  BY DEF ActInv, ActTypes
<1> QED
  BY <1>1, ActAlways, PTL

\* What run services checks of LastActivity, for every number of batches and sign-ins:
\* the newest activity is in the key or the row unless there is a cause.
THEOREM ActivityIsAlwaysKept == ActivitySpec => []ActivityIsKept
<1>1. ActInv => ActivityIsKept
  BY DEF ActInv, NoCause, KeyOrRow, ActivityIsKept
<1> QED
  BY <1>1, ActAlways, PTL
-----------------------------------------------------------------------------
(***************************************************************************)
(* What is known of a code's delivery is true, for any number of codes,     *)
(* attempts and addresses.  JobsAreTruthful adds to the promises the state  *)
(* "sent", in which a mail is out and its job not yet completed; ViewClears *)
(* says that a code that has to go is still on the viewer's list of work.   *)
(***************************************************************************)
JobStates == {"none", "waiting", "active", "sent", "delayed", "failed", "done"}
Job == [state : JobStates, tries : Int, stalls : Int, mailed : BOOLEAN]

JobTypes == job \in [Codes -> Job] /\ issued \in 0 .. MaxCodes

TruthfulJob(x) ==
  /\ x.state \in {"sent", "done"} => x.mailed
  /\ x.state = "failed" => x.tries = MaxTries \/ x.stalls > MaxStalls

JobsAreTruthful == \A c \in Codes : TruthfulJob(job[c])

ViewTypes ==
  /\ devOtp \in [Addresses -> 0 .. issued]
  /\ mustGo \subseteq 1 .. issued
  /\ viewPc # "clear" => mustGo = {}

ViewClears == \A a \in Addresses : devOtp[a] \in mustGo => a \in viewTodo

TellTypes == told \in [Codes -> {"none", "ok", "error"}]

DeliveryInv ==
  JobTypes /\ JobsAreTruthful /\ TellTypes /\ ToldMeansQueued /\ ViewTypes /\ ViewClears

\* The records that jobs become.
LEMMA JobRecords ==
  /\ Waiting \in Job /\ Waiting.state = "waiting"
  /\ NoJob \in Job /\ NoJob.state = "none"
<1>1. NoJob \in Job /\ NoJob.state = "none"
  BY DEF NoJob, Job, JobStates
<1>2. Waiting = [NoJob EXCEPT !.state = "waiting"]
  BY DEF Waiting
<1>3. Waiting \in Job /\ Waiting.state = "waiting"
  BY <1>1, <1>2 DEF Job, JobStates
<1> QED
  BY <1>1, <1>3

LEMMA DeliveryInitInv == DeliveryInit => DeliveryInv
<1> SUFFICES ASSUME DeliveryInit
             PROVE  DeliveryInv
  OBVIOUS
<1>1. JobTypes /\ JobsAreTruthful
  BY JobRecords, DeliveryAssumption
     DEF DeliveryInit, JobTypes, JobsAreTruthful, TruthfulJob, DeliveryAssumption
<1>2. TellTypes /\ ToldMeansQueued
  BY DEF DeliveryInit, TellTypes, ToldMeansQueued
<1>3. ViewTypes /\ ViewClears
  BY DEF DeliveryInit, ViewTypes, ViewClears
<1> QED
  BY <1>1, <1>2, <1>3 DEF DeliveryInv
-----------------------------------------------------------------------------
(* Jobs: one of them changes, or none *)

\* A job that is written is well formed and truthful, and is there.
GoodJob(x) == x \in Job /\ TruthfulJob(x) /\ x.state # "none"

LEMMA JobChangesInv ==
  ASSUME DeliveryInv, NEW c \in Codes, NEW x, GoodJob(x), JobChanges(c, x)
  PROVE  DeliveryInv'
<1>1. JobTypes' /\ JobsAreTruthful'
  BY DEF DeliveryInv, JobTypes, JobsAreTruthful, GoodJob, JobChanges
<1>2. TellTypes' /\ ToldMeansQueued'
  BY DEF DeliveryInv, JobTypes, TellTypes, ToldMeansQueued, GoodJob, JobChanges
<1>3. ViewTypes' /\ ViewClears'
  BY DEF DeliveryInv, ViewTypes, ViewClears, JobChanges, viewVars
<1> QED
  BY <1>1, <1>2, <1>3 DEF DeliveryInv

LEMMA JobInv ==
  ASSUME DeliveryInv, NEW c \in Codes, DeliveryStep(c) \/ WorkerDies(c)
  PROVE  DeliveryInv'
<1>1. job[c] \in Job /\ TruthfulJob(job[c])
  BY DEF DeliveryInv, JobTypes, JobsAreTruthful
<1>2. CASE WorkerTakes(c)
  <2> DEFINE y == [job[c] EXCEPT !.state = "active", !.tries = @ + 1]
  <2>0. y \in Job /\ y.state = "active"
    <3>1. job[c].tries + 1 \in Int /\ "active" \in JobStates
      BY <1>1 DEF Job, JobStates
    <3> DEFINE x == job[c]
               n == job[c].tries + 1
    <3>2. y = [x EXCEPT !.state = "active", !.tries = n]
      BY <1>1 DEF Job
    <3>3. x \in Job /\ n \in Int
      BY <1>1, <3>1
    <3> HIDE DEF x, n, y
    <3> QED
      BY <3>1, <3>2, <3>3 DEF Job
  <2>1. GoodJob(y)
    BY <2>0 DEF GoodJob, TruthfulJob
  <2> QED
    BY <1>2, <2>1, JobChangesInv DEF WorkerTakes
<1>3. CASE ProcessOtpEmail(c)
  <2>1. GoodJob([job[c] EXCEPT !.mailed = TRUE, !.state = "sent"])
    BY <1>1, <1>3 DEF ProcessOtpEmail, GoodJob, TruthfulJob, Job, JobStates
  <2> QED
    BY <1>3, <2>1, JobChangesInv DEF ProcessOtpEmail
<1>4. CASE ProcessFails(c)
  <2>1. PICK m \in {job[c].mailed, TRUE} :
          JobChanges(c, [job[c] EXCEPT !.mailed = m, !.state = AfterError(job[c])])
    BY <1>4 DEF ProcessFails
  <2>2. m \in BOOLEAN
    BY <1>1 DEF Job
  <2>3. \/ AfterError(job[c]) = "delayed"
        \/ AfterError(job[c]) = "failed" /\ job[c].tries = MaxTries
    <3>1. CASE LastTry(job[c].tries)
      BY <3>1 DEF AfterError, LastTry
    <3>2. CASE ~LastTry(job[c].tries)
      BY <3>2 DEF AfterError, LastTry
    <3> QED
      BY <3>1, <3>2
  <2>4. GoodJob([job[c] EXCEPT !.mailed = m, !.state = AfterError(job[c])])
    BY <1>1, <2>2, <2>3 DEF GoodJob, TruthfulJob, Job, JobStates
  <2> QED
    BY <2>1, <2>4, JobChangesInv
<1>5. CASE DelayEnds(c)
  <2>1. GoodJob([job[c] EXCEPT !.state = "waiting"])
    BY <1>1, <1>5 DEF DelayEnds, GoodJob, TruthfulJob, Job, JobStates
  <2> QED
    BY <1>5, <2>1, JobChangesInv DEF DelayEnds
<1>6. CASE JobCompletes(c)
  <2>1. GoodJob([job[c] EXCEPT !.state = "done"])
    BY <1>1, <1>6 DEF JobCompletes, GoodJob, TruthfulJob, Job, JobStates
  <2> QED
    BY <1>6, <2>1, JobChangesInv DEF JobCompletes
<1>7. CASE WorkerDies(c)
  <2> DEFINE next == IF job[c].stalls = MaxStalls THEN "failed" ELSE "waiting"
  <2>1. next = "waiting" \/ (next = "failed" /\ job[c].stalls + 1 > MaxStalls)
    <3>1. CASE job[c].stalls = MaxStalls
      BY <3>1, DeliveryAssumption DEF DeliveryAssumption
    <3>2. CASE job[c].stalls # MaxStalls
      BY <3>2
    <3> QED
      BY <3>1, <3>2
  <2> HIDE DEF next
  <2> DEFINE y == [job[c] EXCEPT !.stalls = @ + 1, !.tries = @ - 1, !.state = next]
  <2>2. y \in Job /\ y.state = next /\ y.stalls = job[c].stalls + 1
    <3>1. job[c].tries - 1 \in Int /\ job[c].stalls + 1 \in Int /\ next \in JobStates
      BY <1>1, <2>1 DEF Job, JobStates
    <3> DEFINE x == job[c]
               k == job[c].stalls + 1
               n == job[c].tries - 1
    <3>2. y = [x EXCEPT !.stalls = k, !.tries = n, !.state = next]
      BY <1>1 DEF Job
    <3>3. x \in Job /\ k \in Int /\ n \in Int
      BY <1>1, <3>1
    <3> HIDE DEF x, k, n, y
    <3>4. y \in Job /\ y.state = next
      BY <3>1, <3>2, <3>3 DEF Job
    <3>5. y.stalls = k
      BY <3>2, <3>3 DEF Job
    <3> QED
      BY <3>4, <3>5 DEF k
  <2>3. GoodJob(y)
    <3> HIDE DEF y
    <3> QED
      BY <2>1, <2>2 DEF GoodJob, TruthfulJob
  <2>4. JobChanges(c, y)
    BY <1>7 DEF WorkerDies, next
  <2> QED
    BY <2>3, <2>4, JobChangesInv
<1> QED
  BY <1>2, <1>3, <1>4, <1>5, <1>6, <1>7 DEF DeliveryStep
-----------------------------------------------------------------------------
LEMMA SendInv ==
  ASSUME DeliveryInv, NEW a \in Addresses, SendOtpEmail(a)
  PROVE  DeliveryInv'
<1> DEFINE c == issued + 1
<1>1. c \in Codes /\ issued \in Nat /\ issued' = c /\ issued' \in 0 .. MaxCodes
  BY DeliveryAssumption DEF DeliveryInv, JobTypes, SendOtpEmail, Codes, DeliveryAssumption
<1>2. PICK x \in Outcomes :
        /\ told' = [told EXCEPT ![c] = x[2]]
        /\ IF development THEN StoreOtp(a, c, x[1]) /\ UNCHANGED job
                          ELSE AddOtpEmailJob(c, x[1]) /\ UNCHANGED devOtp
  BY DEF SendOtpEmail, Told
<1>3. /\ x[1] \in BOOLEAN /\ x[2] \in {"ok", "error"}
      /\ x[2] = "ok" => x[1] = TRUE
  <2>1. x = <<TRUE, "ok">> \/ x = <<TRUE, "error">> \/ x = <<FALSE, "error">>
    BY DEF Outcomes
  <2>2. CASE x = <<TRUE, "ok">>
    BY <2>2
  <2>3. CASE x = <<TRUE, "error">>
    BY <2>3
  <2>4. CASE x = <<FALSE, "error">>
    BY <2>4
  <2> QED
    BY <2>1, <2>2, <2>3, <2>4
<1>4. /\ mustGo' = mustGo \ {devOtp[a]}
      /\ UNCHANGED <<development, viewPc, viewTodo, viewSeen>>
  BY DEF SendOtpEmail
<1>5. /\ job' = job \/ job' = [job EXCEPT ![c] = Waiting]
      /\ ~development /\ x[1] => job' = [job EXCEPT ![c] = Waiting]
  BY <1>2, <1>3 DEF AddOtpEmailJob
<1>6. devOtp' = devOtp \/ devOtp' = [devOtp EXCEPT ![a] = c]
  BY <1>2 DEF StoreOtp
<1> HIDE DEF c
<1>7. JobTypes' /\ JobsAreTruthful'
  BY <1>1, <1>5, JobRecords DEF DeliveryInv, JobTypes, JobsAreTruthful, TruthfulJob
<1>8. TellTypes' /\ ToldMeansQueued'
  BY <1>1, <1>2, <1>3, <1>4, <1>5, JobRecords
     DEF DeliveryInv, JobTypes, TellTypes, ToldMeansQueued
<1>9. ViewTypes' /\ ViewClears'
  <2> USE DEF DeliveryInv, ViewTypes, ViewClears
  <2>1. /\ mustGo' \subseteq 1 .. issued'
        /\ viewPc' # "clear" => mustGo' = {}
    <3>1. mustGo' \subseteq mustGo
      BY <1>4
    <3>2. 1 .. issued \subseteq 1 .. issued'
      BY <1>1 DEF c
    <3> QED
      BY <1>4, <3>1, <3>2
  <2>2. c \notin mustGo
    BY <1>1 DEF c
  <2>3. devOtp' \in [Addresses -> 0 .. issued']
    BY <1>1, <1>6 DEF c
  <2>4. ViewClears'
    BY <1>4, <1>6, <2>2
  <2> QED
    BY <2>1, <2>3, <2>4
<1> QED
  BY <1>7, <1>8, <1>9 DEF DeliveryInv

\* The viewer touches neither the jobs nor what clients were told.
LEMMA ViewerInv ==
  ASSUME DeliveryInv,
         \/ \E a \in Addresses : DevOtpExpires(a)
         \/ GetAllOtps \/ ListOne \/ ClearAll \/ ClearOne \/ ViewAnswered
  PROVE  DeliveryInv'
<1>1. UNCHANGED <<development, issued, told, job>>
  BY DEF DevOtpExpires, GetAllOtps, ListOne, ClearAll, ClearOne, ViewAnswered
<1>2. JobTypes' /\ JobsAreTruthful' /\ TellTypes' /\ ToldMeansQueued'
  BY <1>1 DEF DeliveryInv, JobTypes, JobsAreTruthful, TellTypes, ToldMeansQueued
<1>3. ViewTypes' /\ ViewClears'
  <2> USE <1>1 DEF DeliveryInv, JobTypes, ViewTypes, ViewClears
  <2>1. ASSUME NEW a \in Addresses, DevOtpExpires(a)
        PROVE  ViewTypes' /\ ViewClears'
    <3>1. /\ devOtp' = [devOtp EXCEPT ![a] = 0]
          /\ mustGo' = mustGo \ {devOtp[a]} /\ UNCHANGED <<viewPc, viewTodo>>
      BY <2>1 DEF DevOtpExpires
    <3>2. 0 \notin mustGo
      OBVIOUS
    <3>3. ViewTypes'
      <4>1. 0 \in 0 .. issued
        BY DeliveryAssumption DEF DeliveryAssumption
      <4>2. devOtp' \in [Addresses -> 0 .. issued']
        BY <3>1, <4>1
      <4>3. mustGo' \subseteq mustGo
        BY <3>1
      <4> QED
        BY <3>1, <4>2, <4>3
    <3>4. ViewClears'
      BY <3>1, <3>2
    <3> QED
      BY <3>3, <3>4
  <2>2. CASE GetAllOtps \/ ListOne \/ ViewAnswered
    BY <2>2 DEF GetAllOtps, ListOne, ViewAnswered
  <2>3. CASE ClearAll
    BY <2>3 DEF ClearAll, StoredAddresses
  <2>4. CASE ClearOne
    <3>1. PICK a \in viewTodo :
            /\ viewTodo' = viewTodo \ {a}
            /\ \/ devOtp' = [devOtp EXCEPT ![a] = 0] /\ UNCHANGED mustGo
               \/ UNCHANGED devOtp /\ mustGo' = mustGo \ {devOtp[a]}
      BY <2>4 DEF ClearOne, Rest
    <3>2. UNCHANGED viewPc
      BY <2>4 DEF ClearOne
    <3>3. 0 \notin mustGo
      OBVIOUS
    <3>4. ViewTypes'
      <4>1. 0 \in 0 .. issued
        BY DeliveryAssumption DEF DeliveryAssumption
      <4>2. devOtp' \in [Addresses -> 0 .. issued']
        BY <3>1, <4>1
      <4>3. mustGo' \subseteq mustGo
        BY <3>1
      <4> QED
        BY <3>2, <4>2, <4>3
    <3>5. ViewClears'
      BY <3>1, <3>3
    <3> QED
      BY <3>4, <3>5
  <2> QED
    BY <2>1, <2>2, <2>3, <2>4
<1> QED
  BY <1>2, <1>3 DEF DeliveryInv
-----------------------------------------------------------------------------
LEMMA DeliveryInvStep == DeliveryInv /\ [DeliveryNext]_deliveryVars => DeliveryInv'
<1> SUFFICES ASSUME DeliveryInv, [DeliveryNext]_deliveryVars
             PROVE  DeliveryInv'
  OBVIOUS
<1>1. CASE UNCHANGED deliveryVars
  BY <1>1 DEF DeliveryInv, JobTypes, JobsAreTruthful, TellTypes, ToldMeansQueued, ViewTypes,
              ViewClears, deliveryVars
<1>2. CASE DeliveryNext
  BY <1>2, SendInv, JobInv, ViewerInv DEF DeliveryNext
<1> QED
  BY <1>1, <1>2

LEMMA DeliveryAlways == DeliverySpec => []DeliveryInv
  BY DeliveryInitInv, DeliveryInvStep, PTL DEF DeliverySpec
-----------------------------------------------------------------------------
(* Types.  An attempt is only begun while one is left, and the attempt of a   *)
(* worker that died is given back.                                            *)

BoundedJob(x) ==
  /\ x.tries \in 0 .. MaxTries /\ x.stalls \in 0 .. MaxStalls + 1
  /\ x.state \in {"none", "waiting", "delayed"} => x.tries < MaxTries
  /\ x.state \in {"active", "sent"} => x.tries # 0
  /\ x.state # "failed" => x.stalls <= MaxStalls

JobBounds == \A c \in Codes : BoundedJob(job[c])
ViewBounds == viewPc \in {"idle", "list", "clear"} /\ viewTodo \subseteq Addresses

LEMMA JobStepBounds ==
  ASSUME DeliveryInv, JobBounds, NEW c \in Codes, DeliveryStep(c) \/ WorkerDies(c)
  PROVE  JobBounds' /\ (ViewBounds => ViewBounds')
<1>0. UNCHANGED <<viewPc, viewTodo>>
  BY DEF DeliveryStep, WorkerTakes, ProcessOtpEmail, ProcessFails, DelayEnds, JobCompletes,
         WorkerDies, JobChanges, viewVars
<1> SUFFICES JobBounds'
  BY <1>0 DEF ViewBounds
<1> DEFINE x == job[c]
<1>1. job \in [Codes -> Job] /\ x \in Job /\ BoundedJob(x)
  BY DEF DeliveryInv, JobTypes, JobBounds
<1>2. ASSUME NEW y, BoundedJob(y), JobChanges(c, y)
      PROVE  JobBounds'
  <2>1. job' = [job EXCEPT ![c] = y]
    BY <1>2 DEF JobChanges
  <2> QED
    BY <1>1, <1>2, <2>1 DEF JobBounds
<1>3. x.tries \in Int /\ x.stalls \in Int /\ MaxTries \in Nat \ {0} /\ MaxStalls \in Nat
  BY <1>1, DeliveryAssumption DEF Job, DeliveryAssumption
<1>4. x = [state |-> x.state, tries |-> x.tries, stalls |-> x.stalls, mailed |-> x.mailed]
  BY <1>1 DEF Job
<1> HIDE DEF x
<1>5. CASE WorkerTakes(c)
  <2> DEFINE y == [x EXCEPT !.state = "active", !.tries = @ + 1]
  <2>1. x.state = "waiting" /\ JobChanges(c, y)
    BY <1>5 DEF WorkerTakes, x
  <2>2. y.state = "active" /\ y.tries = x.tries + 1 /\ y.stalls = x.stalls
    BY <1>4
  <2> HIDE DEF y
  <2>3. BoundedJob(y)
    BY <1>1, <1>3, <2>1, <2>2 DEF BoundedJob
  <2> QED
    BY <1>2, <2>1, <2>3
<1>6. CASE ProcessOtpEmail(c) \/ DelayEnds(c) \/ JobCompletes(c)
  <2>1. PICK y : /\ JobChanges(c, y) /\ y.tries = x.tries /\ y.stalls = x.stalls
                 /\ \/ x.state \in {"active", "sent"} /\ y.state \in {"sent", "done"}
                    \/ x.state = "delayed" /\ y.state = "waiting"
    <3>1. CASE ProcessOtpEmail(c)
      <4> DEFINE y == [x EXCEPT !.mailed = TRUE, !.state = "sent"]
      <4>1. JobChanges(c, y) /\ x.state = "active"
        BY <3>1 DEF ProcessOtpEmail, x
      <4>2. y.tries = x.tries /\ y.stalls = x.stalls /\ y.state = "sent"
        BY <1>4
      <4> HIDE DEF y
      <4> QED
        BY <4>1, <4>2
    <3>2. CASE DelayEnds(c)
      BY <1>4, <3>2 DEF DelayEnds, x
    <3>3. CASE JobCompletes(c)
      BY <1>4, <3>3 DEF JobCompletes, x
    <3> QED
      BY <1>6, <3>1, <3>2, <3>3
  <2>2. BoundedJob(y)
    BY <1>1, <1>3, <2>1 DEF BoundedJob
  <2> QED
    BY <1>2, <2>1, <2>2
<1>7. CASE ProcessFails(c)
  <2>1. PICK m \in {x.mailed, TRUE} :
          JobChanges(c, [x EXCEPT !.mailed = m, !.state = AfterError(x)])
    BY <1>7 DEF ProcessFails, x
  <2> DEFINE y == [x EXCEPT !.mailed = m, !.state = AfterError(x)]
  <2>2. y.state = AfterError(x) /\ y.tries = x.tries /\ y.stalls = x.stalls
    BY <1>4
  <2>3. y.state = "failed" \/ (y.state = "delayed" /\ x.tries # MaxTries)
    BY <2>2 DEF AfterError, LastTry
  <2>4. x.state = "active" /\ JobChanges(c, y)
    BY <1>7, <2>1 DEF ProcessFails, x
  <2> HIDE DEF y
  <2>5. BoundedJob(y)
    BY <1>1, <1>3, <2>2, <2>3, <2>4 DEF BoundedJob
  <2> QED
    BY <1>2, <2>4, <2>5
<1>8. CASE WorkerDies(c)
  <2> DEFINE next == IF x.stalls = MaxStalls THEN "failed" ELSE "waiting"
             y == [x EXCEPT !.stalls = @ + 1, !.tries = @ - 1, !.state = next]
  <2>1. x.state \in {"active", "sent"} /\ JobChanges(c, y)
    BY <1>8 DEF WorkerDies, x
  <2>2. next = "failed" \/ (next = "waiting" /\ x.stalls # MaxStalls)
    OBVIOUS
  <2> HIDE DEF next
  <2>3. y.state = next /\ y.tries = x.tries - 1 /\ y.stalls = x.stalls + 1
    BY <1>4
  <2> HIDE DEF y
  <2>4. BoundedJob(y)
    BY <1>1, <1>3, <2>1, <2>2, <2>3 DEF BoundedJob
  <2> QED
    BY <1>2, <2>1, <2>4
<1> QED
  BY <1>5, <1>6, <1>7, <1>8 DEF DeliveryStep

LEMMA ViewStepBounds ==
  ASSUME DeliveryInv, JobBounds, ViewBounds,
         \/ \E a \in Addresses : SendOtpEmail(a) \/ DevOtpExpires(a)
         \/ GetAllOtps \/ ListOne \/ ClearAll \/ ClearOne \/ ViewAnswered
  PROVE  JobBounds' /\ ViewBounds'
<1>1. BoundedJob(Waiting)
  BY DeliveryAssumption DEF DeliveryAssumption, BoundedJob, Waiting, NoJob
<1>2. job' = job \/ \E c \in Codes : job' = [job EXCEPT ![c] = Waiting]
  <2>1. ASSUME NEW a \in Addresses, SendOtpEmail(a)
        PROVE  job' = job \/ \E c \in Codes : job' = [job EXCEPT ![c] = Waiting]
    <3>1. issued + 1 \in Codes
      BY <2>1, DeliveryAssumption DEF DeliveryInv, JobTypes, SendOtpEmail, Codes, DeliveryAssumption
    <3>2. job' = job \/ job' = [job EXCEPT ![issued + 1] = Waiting]
      BY <2>1 DEF SendOtpEmail, AddOtpEmailJob
    <3> QED
      BY <3>1, <3>2
  <2> QED
    BY <2>1 DEF DevOtpExpires, GetAllOtps, ListOne, ClearAll, ClearOne, ViewAnswered
<1>3. JobBounds'
  BY <1>1, <1>2 DEF DeliveryInv, JobTypes, JobBounds
<1>4. ViewBounds'
  BY DEF ViewBounds, SendOtpEmail, DevOtpExpires, GetAllOtps, ListOne, ClearAll, ClearOne,
         ViewAnswered, StoredAddresses, Rest
<1> QED
  BY <1>3, <1>4

LEMMA DeliveryBounds == DeliverySpec => [](JobBounds /\ ViewBounds)
<1>1. DeliveryInit => JobBounds /\ ViewBounds
  BY DeliveryAssumption
     DEF DeliveryAssumption, DeliveryInit, JobBounds, BoundedJob, NoJob, ViewBounds
<1>2. DeliveryInv /\ JobBounds /\ ViewBounds /\ [DeliveryNext]_deliveryVars
        => JobBounds' /\ ViewBounds'
  <2> SUFFICES ASSUME DeliveryInv, JobBounds, ViewBounds, [DeliveryNext]_deliveryVars
               PROVE  JobBounds' /\ ViewBounds'
    OBVIOUS
  <2>1. CASE UNCHANGED deliveryVars
    BY <2>1 DEF deliveryVars, JobBounds, ViewBounds
  <2>2. CASE DeliveryNext
    BY <2>2, JobStepBounds, ViewStepBounds DEF DeliveryNext
  <2> QED
    BY <2>1, <2>2
<1> QED
  BY <1>1, <1>2, DeliveryAlways, PTL DEF DeliverySpec

\* Type correctness of the delivery of codes; that no attempt is made beyond the limit
\* is part of it.
THEOREM DeliveryTypesHold == DeliverySpec => []DeliveryTypeOK
<1>1. DeliveryInv /\ JobBounds /\ ViewBounds => DeliveryTypeOK
  <2> SUFFICES ASSUME DeliveryInv, JobBounds, ViewBounds
               PROVE  DeliveryTypeOK
    OBVIOUS
  <2>1. \A c \in Codes : job[c].state \in JobStates
    BY DEF DeliveryInv, JobTypes, Job
  <2>2. devOtp \in [Addresses -> 0 .. MaxCodes] /\ issued \in 0 .. MaxCodes
    BY DeliveryAssumption DEF DeliveryAssumption, DeliveryInv, JobTypes, ViewTypes
  <2> QED
    BY <2>1, <2>2 DEF DeliveryInv, TellTypes, JobBounds, BoundedJob, ViewBounds, JobStates, DeliveryTypeOK
<1> QED
  BY <1>1, DeliveryAlways, DeliveryBounds, PTL
-----------------------------------------------------------------------------

\* What run services checks of CodeDelivery, for every number of codes and attempts:
\* what clients, the queue and the development viewer know of a delivery is true.
THEOREM DeliveryIsAlwaysTruthful == DeliverySpec => []DeliveryIsTruthful
<1>1. DeliveryInv => DeliveryIsTruthful
  BY DEF DeliveryInv, JobsAreTruthful, TruthfulJob, ViewTypes, ViewClears, DeliveryIsTruthful,
         CompletedMeansMailed, FailedMeansTried, ClearedMeansGone
<1> QED
  BY <1>1, DeliveryAlways, PTL
-----------------------------------------------------------------------------
(***************************************************************************)
(* What the pages of PaginationHelper show, for every number of records and *)
(* every configuration.  The inductive invariant says exactly which records *)
(* have been shown; products of page and limit are the arithmetic in it.    *)
(***************************************************************************)
(* Arithmetic *)

LEMMA ProductsGrow ==
  ASSUME NEW a \in Int, NEW b \in Int, NEW l \in Nat, a <= b
  PROVE  a * l <= b * l
  OBVIOUS

LEMMA NextMultiple ==
  ASSUME NEW a \in Int, NEW l \in Int
  PROVE  /\ (a + 1) * l = a * l + l
         /\ a * l \in Int
  OBVIOUS

\* The quotient rounded down.
LEMMA Quotient ==
  ASSUME NEW a \in Nat, NEW l \in Nat \ {0}
  PROVE  /\ a \div l \in Nat
         /\ (a \div l) * l <= a
         /\ a < (a \div l) * l + l
  OBVIOUS

\* page * limit < total says the same as page < ceil(total / limit).
LEMMA NextPageAgrees ==
  ASSUME NEW records \in Nat, NEW page \in Nat, NEW limit \in Nat \ {0}
  PROVE  HasNextPage(records, page, limit) <=> page < CalculateTotalPages(records, limit)
<1> DEFINE q == (records + limit - 1) \div limit
<1>1. /\ q \in Nat
      /\ q * limit <= records + limit - 1
      /\ records + limit - 1 < q * limit + limit
  <2>1. records + limit - 1 \in Nat
    OBVIOUS
  <2>2. QED
    BY <2>1, Quotient
<1>2. ASSUME page * limit < records, page >= q PROVE FALSE
  <2>1. q * limit <= page * limit
    BY <1>1, <1>2, ProductsGrow
  <2>2. /\ q * limit \in Int
        /\ page * limit \in Int
    BY <1>1, NextMultiple
  <2>3. QED
    BY <1>1, <1>2, <2>1, <2>2
<1>3. ASSUME page < q PROVE page * limit < records
  <2>1. (page + 1) * limit <= q * limit
    BY <1>1, <1>3, ProductsGrow
  <2>2. /\ (page + 1) * limit = page * limit + limit
        /\ page * limit \in Int
        /\ q * limit \in Int
    BY <1>1, NextMultiple
  <2>3. QED
    BY <1>1, <2>1, <2>2
<1>4. QED
  BY <1>1, <1>2, <1>3 DEF HasNextPage, CalculateTotalPages
-----------------------------------------------------------------------------
(* Types *)

LEMMA ParsedIsInt ==
  ASSUME NEW halves \in PageNumber, NEW default \in Int
  PROVE  /\ Parsed(halves, default) \in Int
         /\ default \in Nat => Parsed(halves, default) \in Nat
  BY PagesAssumption DEF Parsed, PageNumber

\* Whatever is asked for and however the bounds are configured, the limit is at
\* least 1.
LEMMA NormalizedParamsAreSound ==
  ASSUME NEW page \in PageNumber, NEW limit \in PageNumber, NEW config \in PageConfig
  PROVE  NormalizeParams(page, limit, config) \in [page : Nat, limit : Nat \ {0}]
<1>1. Parsed(page, Or(config.defaultPage, 1)) \in Nat
  <2>1. Or(config.defaultPage, 1) \in Nat
    BY PagesAssumption DEF Or, PageConfig
  <2>2. QED
    BY <2>1, ParsedIsInt
<1>2. /\ Or(config.minLimit, 1) \in Int
      /\ Or(config.maxLimit, DefaultMaxLimit) \in Int
      /\ Or(config.defaultLimit, DefaultPageLimit) \in Int
  BY PagesAssumption DEF Or, PageConfig, PageNumber
<1>3. Parsed(limit, Or(config.defaultLimit, DefaultPageLimit)) \in Int
  BY <1>2, ParsedIsInt
<1>4. NormalizedLimit(limit, config) \in Nat \ {0}
  BY <1>2, <1>3 DEF NormalizedLimit, Larger, Smaller
<1>5. QED
  BY <1>1, <1>4 DEF NormalizeParams

LEMMA OffsetIsProduct ==
  ASSUME NEW page \in Nat, NEW limit \in Nat
  PROVE  /\ CalculateOffset(page, limit) \in Nat
         /\ page >= 1 => CalculateOffset(page, limit) + limit = page * limit
         /\ page <= 1 => CalculateOffset(page, limit) = 0
         /\ CalculateOffset(page + 1, limit) = page * limit
<1>1. CASE page >= 1
  <2>1. /\ page - 1 \in Nat
        /\ Larger(page - 1, 0) = page - 1
        /\ Larger(page + 1 - 1, 0) = page
    BY <1>1 DEF Larger
  <2>2. /\ (page - 1) * limit \in Nat
        /\ (page - 1) * limit + limit = page * limit
    BY <2>1, NextMultiple
  <2>3. page <= 1 => (page - 1) * limit = 0
    BY <1>1
  <2>4. QED
    BY <2>1, <2>2, <2>3 DEF CalculateOffset
<1>2. CASE page = 0
  BY <1>2 DEF CalculateOffset, Larger
<1>3. QED
  BY <1>1, <1>2
-----------------------------------------------------------------------------
(* The invariant *)

\* Every number of records, page and limit stays sound (normalizeParams).
THEOREM PagesTypes == PagesSpec => []PagesTypeOK
<1>1. PagesInit => PagesTypeOK
  <2> SUFFICES ASSUME PagesInit PROVE PagesTypeOK
    OBVIOUS
  <2>1. pageReq \in [page : Nat, limit : Nat \ {0}]
    BY DEF PagesInit
  <2>2. reading \in BOOLEAN
    BY DEF PagesInit
  <2>3. total \in Nat /\ firstPage \in Nat
    BY DEF PagesInit
  <2>4. QED
    BY <2>1, <2>2, <2>3 DEF PagesTypeOK
<1>2. PagesTypeOK /\ [PagesNext]_pageVars => PagesTypeOK'
  <2> SUFFICES ASSUME PagesTypeOK, [PagesNext]_pageVars
               PROVE  PagesTypeOK'
    OBVIOUS
  <2>1. CASE ReadFirstPage
    <3>1. total' \in Nat
      BY <2>1, PagesAssumption DEF ReadFirstPage
    <3>2. pageReq' \in [page : Nat, limit : Nat \ {0}]
      <4>1. PICK page \in Halves, limit \in Halves, config \in PageConfigs :
              pageReq' = NormalizeParams(page, limit, config)
        BY <2>1 DEF ReadFirstPage
      <4>2. QED
        BY <4>1, PagesAssumption, NormalizedParamsAreSound
    <3>3. reading' \in BOOLEAN /\ firstPage' = pageReq'.page
      BY <2>1 DEF ReadFirstPage
    <3>4. QED
      BY <3>1, <3>2, <3>3 DEF PagesTypeOK
  <2>2. CASE ReadNextPage
    BY <2>2 DEF ReadNextPage, PagesTypeOK
  <2>3. CASE StopReading
    BY <2>3 DEF StopReading, PagesTypeOK
  <2>4. CASE UNCHANGED pageVars
    BY <2>4 DEF pageVars, PagesTypeOK
  <2>5. QED
    BY <2>1, <2>2, <2>3, <2>4 DEF PagesNext
<1>3. QED
  BY <1>1, <1>2, PTL DEF PagesSpec

\* hasNextPage and totalPages agree, for every page, limit and total.
THEOREM PagesAlwaysAgree == PagesSpec => []PagesAgree
<1>1. PagesTypeOK => PagesAgree
  BY NextPageAgrees DEF PagesTypeOK, PagesAgree
<1>2. QED
  BY <1>1, PagesTypes, PTL
-----------------------------------------------------------------------------
(* The reader.  What has been shown is an interval of records: each page      *)
(* begins where the one before it ends.                                       *)

PagesInv ==
  /\ PagesTypeOK
  /\ firstPage <= pageReq.page
  /\ ReadersMissNothing
  /\ NothingTwice

LEMMA FirstPageInv ==
  ASSUME PagesTypeOK', ReadFirstPage
  PROVE  PagesInv'
<1>1. /\ shown' = Records(pageReq.page, pageReq.limit)'
      /\ firstPage' = pageReq.page'
      /\ shownAgain' = {}
  BY DEF ReadFirstPage
<1>2. ReadersMissNothing'
  BY <1>1 DEF ReadersMissNothing, Records
<1>3. QED
  BY <1>1, <1>2 DEF PagesInv, PagesTypeOK, NothingTwice

LEMMA NextPageInv ==
  ASSUME PagesInv, PagesTypeOK', ReadNextPage
  PROVE  PagesInv'
<1> DEFINE p == pageReq.page
           l == pageReq.limit
           o == CalculateOffset(firstPage, l)
<1>1. /\ p \in Nat /\ l \in Nat \ {0} /\ firstPage \in Nat /\ firstPage <= p /\ total \in Nat
      /\ reading
      /\ shown = {i \in 0 .. (total - 1) : o <= i /\ i < CalculateOffset(p, l) + l}
  BY DEF PagesInv, PagesTypeOK, ReadersMissNothing, ReadNextPage
<1>2. /\ pageReq'.page = p + 1 /\ pageReq'.limit = l
      /\ reading' = reading /\ total' = total /\ firstPage' = firstPage
      /\ shown' = shown \cup Records(p + 1, l)
      /\ shownAgain' = shownAgain \cup (shown \cap Records(p + 1, l))
  BY DEF ReadNextPage, PagesInv, PagesTypeOK
<1>3. Records(p + 1, l) = {i \in 0 .. (total - 1) : p * l <= i /\ i < p * l + l}
  BY <1>1, OffsetIsProduct DEF Records
<1>4. /\ p * l \in Nat /\ o \in Nat /\ CalculateOffset(p, l) \in Nat
      /\ p >= 1 => CalculateOffset(p, l) + l = p * l
      /\ p = 0 => CalculateOffset(p, l) = 0 /\ p * l = 0 /\ o = 0
      /\ o <= p * l
  <2>1. /\ CalculateOffset(p, l) \in Nat
        /\ p >= 1 => CalculateOffset(p, l) + l = p * l
        /\ p <= 1 => CalculateOffset(p, l) = 0
        /\ CalculateOffset(p + 1, l) = p * l
    BY <1>1, OffsetIsProduct
  <2>2. /\ o \in Nat
        /\ firstPage >= 1 => o + l = firstPage * l
        /\ firstPage <= 1 => o = 0
    BY <1>1, OffsetIsProduct
  <2>3. firstPage * l <= p * l
    BY <1>1, ProductsGrow
  <2>4. p * l \in Nat /\ firstPage * l \in Nat /\ (p = 0 => p * l = 0)
    BY <1>1
  <2>5. o <= p * l
    BY <1>1, <2>2, <2>3, <2>4
  <2>6. QED
    BY <1>1, <2>1, <2>2, <2>4, <2>5
<1>5. ReadersMissNothing'
  <2>1. shown' = {i \in 0 .. (total - 1) : o <= i /\ i < p * l + l}
    BY <1>1, <1>2, <1>3, <1>4
  <2>2. CalculateOffset(p + 1, l) = p * l
    BY <1>1, OffsetIsProduct
  <2>3. QED
    BY <1>2, <2>1, <2>2 DEF ReadersMissNothing
<1>6. NothingTwice'
  <2>1. CASE firstPage = 0
    BY <1>2, <2>1 DEF NothingTwice
  <2>2. CASE firstPage # 0
    <3>1. p >= 1 /\ shownAgain = {}
      BY <1>1, <2>2 DEF PagesInv, NothingTwice
    <3>2. shown \cap Records(p + 1, l) = {}
      BY <1>1, <1>3, <1>4, <3>1
    <3>3. QED
      BY <1>2, <3>1, <3>2 DEF NothingTwice
  <2>3. QED
    BY <2>1, <2>2
<1>7. firstPage' <= pageReq'.page
  BY <1>1, <1>2
<1>8. QED
  BY <1>5, <1>6, <1>7 DEF PagesInv

LEMMA PagesInvariant == PagesSpec => []PagesInv
<1>1. PagesInit /\ PagesTypeOK => PagesInv
  BY DEF PagesInit, PagesInv, ReadersMissNothing, NothingTwice
<1>2. PagesInv /\ PagesTypeOK' /\ [PagesNext]_pageVars => PagesInv'
  <2> SUFFICES ASSUME PagesInv, PagesTypeOK', [PagesNext]_pageVars
               PROVE  PagesInv'
    OBVIOUS
  <2>1. CASE ReadFirstPage
    BY <2>1, FirstPageInv
  <2>2. CASE ReadNextPage
    BY <2>2, NextPageInv
  <2>3. CASE StopReading
    BY <2>3 DEF StopReading, PagesInv, ReadersMissNothing, NothingTwice
  <2>4. CASE UNCHANGED pageVars
    BY <2>4 DEF pageVars, PagesInv, PagesTypeOK, ReadersMissNothing, NothingTwice, Records
  <2>5. QED
    BY <2>1, <2>2, <2>3, <2>4 DEF PagesNext
<1>3. QED
  BY <1>1, <1>2, PagesTypes, PTL DEF PagesSpec

\* Whoever begins with the first page and stops when told that there is no next
\* one has seen every record.
THEOREM ReadersSeeEverything == PagesSpec => []LastPageEndsTheList
<1>1. PagesInv => LastPageEndsTheList
  <2> SUFFICES ASSUME PagesInv, reading, firstPage <= 1,
                      ~HasNextPage(total, pageReq.page, pageReq.limit)
               PROVE  shown = 0 .. (total - 1)
    BY DEF LastPageEndsTheList
  <2> DEFINE p == pageReq.page
             l == pageReq.limit
  <2>1. /\ p \in Nat /\ l \in Nat \ {0} /\ firstPage \in Nat /\ total \in Nat
        /\ shown = {i \in 0 .. (total - 1) : CalculateOffset(firstPage, l) <= i
                                             /\ i < CalculateOffset(p, l) + l}
    BY DEF PagesInv, PagesTypeOK, ReadersMissNothing
  <2>2. CalculateOffset(firstPage, l) = 0
    BY <2>1, OffsetIsProduct
  <2>3. p * l >= total /\ p * l \in Nat
    BY <2>1 DEF HasNextPage
  <2>4. CalculateOffset(p, l) + l >= p * l /\ CalculateOffset(p, l) \in Nat
    <3>1. /\ CalculateOffset(p, l) \in Nat
          /\ p >= 1 => CalculateOffset(p, l) + l = p * l
      BY <2>1, OffsetIsProduct
    <3>2. p = 0 => p * l = 0
      BY <2>1
    <3>3. QED
      BY <2>1, <2>3, <3>1, <3>2
  <2>5. QED
    BY <2>1, <2>2, <2>3, <2>4
<1>2. QED
  BY <1>1, PagesInvariant, PTL

\* No record is shown twice to a reader who asked for a whole page.
THEOREM RecordsAreShownOnce == PagesSpec => []NothingTwice
<1>1. PagesInv => NothingTwice
  BY DEF PagesInv
<1>2. QED
  BY <1>1, PagesInvariant, PTL

\* A reader who follows a list is shown all of it, once, whatever is asked for.
THEOREM PagesPromise == PagesSpec => []PagesShowAllOnce
<1>1. PagesAgree /\ LastPageEndsTheList /\ NothingTwice => PagesShowAllOnce
  BY DEF PagesShowAllOnce
<1>2. QED
  BY <1>1, PagesAlwaysAgree, ReadersSeeEverything, RecordsAreShownOnce, PTL
-----------------------------------------------------------------------------
(***************************************************************************)
(* PasswordRules.  The answer is the first of the rules that are on and     *)
(* broken; what that says of the list of common passwords follows from its  *)
(* place at the end and from what it is a list of.                          *)
(***************************************************************************)
\* There is a first one.
LEMMA LeastNumber ==
  ASSUME NEW T, T \subseteq Nat, T # {}
  PROVE  \E x \in T : \A y \in T : ~(y < x)
<1> DEFINE R == {ss \in Nat \X Nat : ss[1] < ss[2]}
<1>1. IsWellFoundedOn(R, Nat)
  BY NatLessThanWellFounded DEF OpToRel
<1>2. \E x \in T : \A y \in T : <<y, x>> \notin R
  <2> HIDE DEF R
  <2> QED
    BY <1>1, WFMin
<1> QED
  BY <1>2

LEMMA MinIsLeast ==
  ASSUME NEW T, T \subseteq Nat, T # {}
  PROVE  Min(T) \in T /\ \A y \in T : ~(y < Min(T))
<1>1. \E x \in T : \A y \in T : x <= y
  <2>1. PICK x \in T : \A y \in T : ~(y < x)
    BY LeastNumber
  <2> QED
    BY <2>1
<1>2. Min(T) \in T /\ \A y \in T : Min(T) <= y
  BY <1>1 DEF Min
<1>3. Min(T) \in Nat
  BY <1>2
<1> QED
  BY <1>2, <1>3

Rejected(p, env, i) ==
  /\ RuleOrder[i] \in SwitchedRules => RuleOn(env[RuleOrder[i]])
  /\ Breaks(p, RuleOrder[i])

LEMMA RuleOrderIsOne ==
  /\ DOMAIN RuleOrder = 1 .. 10
  /\ RuleOrder[7] = "special" /\ RuleOrder[10] = "common"
  /\ \A i \in 1 .. 10 : RuleOrder[i] # "valid" /\ (RuleOrder[i] = "common" => i = 10)
  BY DEF RuleOrder

LEMMA FirstBroken ==
  ASSUME NEW p, NEW env
  PROVE  \/ ValidatePassword(p, env) = "valid" /\ \A i \in 1 .. 10 : ~Rejected(p, env, i)
         \/ \E i \in 1 .. 10 : /\ ValidatePassword(p, env) = RuleOrder[i] /\ Rejected(p, env, i)
                              /\ \A j \in 1 .. 10 : j < i => ~Rejected(p, env, j)
<1> DEFINE broken == {i \in 1 .. 10 : Rejected(p, env, i)}
<1>1. ValidatePassword(p, env) = IF broken = {} THEN "valid" ELSE RuleOrder[Min(broken)]
  BY RuleOrderIsOne, Zenon DEF ValidatePassword, Rejected
<1>2. CASE broken = {}
  BY <1>1, <1>2
<1>3. CASE broken # {}
  <2>1. broken \subseteq Nat
    OBVIOUS
  <2>2. Min(broken) \in broken /\ \A y \in broken : ~(y < Min(broken))
    <3> HIDE DEF broken
    <3> QED
      BY <1>3, <2>1, MinIsLeast
  <2> DEFINE m == Min(broken)
  <2>3. m \in 1 .. 10 /\ Rejected(p, env, m)
    BY <2>2
  <2>4. \A j \in 1 .. 10 : j < m => ~Rejected(p, env, j)
    BY <2>2
  <2>5. ValidatePassword(p, env) = RuleOrder[m]
    BY <1>1, <1>3
  <2> HIDE DEF m
  <2> QED
    BY <2>3, <2>4, <2>5
<1> QED
  BY <1>2, <1>3

\* A listed password that is written with other capitals is the listed one in lower case.
LEMMA SameLetters ==
  ASSUME NEW c \in Seq(Lower \cup Numbers), NEW p \in Seq(PasswordLetters), Len(c) = Len(p),
         \A i \in DOMAIN c : c[i] = p[i] \/ (c[i] = "b" /\ p[i] = "B")
  PROVE  ToLowerCase(p) = c
<1>1. DOMAIN c = 1 .. Len(c) /\ DOMAIN p = 1 .. Len(c)
  OBVIOUS
<1>2. \A i \in 1 .. Len(c) : c[i] \in Lower \cup Numbers
  BY <1>1
<1>3. \A i \in 1 .. Len(c) : ToLowerCase(p)[i] = c[i]
  BY <1>1, <1>2 DEF ToLowerCase, Lower, Numbers
<1>4. ToLowerCase(p) = [i \in 1 .. Len(c) |-> ToLowerCase(p)[i]] /\ c = [i \in 1 .. Len(c) |-> c[i]]
  BY <1>1 DEF ToLowerCase
<1> QED
  BY <1>3, <1>4

\* A password on the list has no special character.
LEMMA CommonOnesArePlain ==
  ASSUME NEW p \in Seq(PasswordLetters), Common(p)
  PROVE  Breaks(p, "special")
<1>1. ToLowerCase(p) \in Seq(Lower \cup Numbers) /\ DOMAIN ToLowerCase(p) = DOMAIN p
  BY PasswordAssumption DEF Common, ToLowerCase
<1>2. \A i \in DOMAIN p : ToLowerCase(p)[i] \in Lower \cup Numbers
  BY <1>1
<1>3. \A i \in DOMAIN p : p[i] \notin Special
  BY <1>2 DEF ToLowerCase, Lower, Numbers, Special
<1> QED
  BY <1>3 DEF Breaks, Has

PasswordInv ==
  verdict = NoVerdict \/ \E p \in TestedPasswords, env \in TestedEnvs :
     verdict = [password |-> p, env |-> env, answer |-> ValidatePassword(p, env)]

LEMMA PasswordAlways == PasswordSpec => []PasswordInv
<1>1. PasswordInit => PasswordInv
  BY DEF PasswordInit, PasswordInv
<1>2. PasswordInv /\ [PasswordNext]_verdict => PasswordInv'
  BY DEF PasswordInv, PasswordNext, Validate, ValidationAnswered
<1> QED
  BY <1>1, <1>2, PTL DEF PasswordSpec

\* Every verdict is one of the answers the validator has.
THEOREM PasswordTypesHold == PasswordSpec => []PasswordTypeOK
<1>1. PasswordInv => PasswordTypeOK
  BY FirstBroken, RuleOrderIsOne DEF PasswordInv, PasswordTypeOK, NoVerdict
<1> QED
  BY <1>1, PasswordAlways, PTL

\* The list of common passwords refuses what it should, where no other rule does:
\* for lists of any length, passwords of any length and any environment.
THEOREM CommonListAlwaysWorks == PasswordSpec => []CommonListWorks
<1>1. ASSUME PasswordInv
      PROVE  CommonListWorks
  <2>1. CASE verdict = NoVerdict
    BY <2>1 DEF NoVerdict, CommonListWorks, CommonPasswordsAreRefused, CommonListIsLastResort
  <2>2. ASSUME NEW p \in TestedPasswords, NEW env \in TestedEnvs,
               verdict = [password |-> p, env |-> env, answer |-> ValidatePassword(p, env)]
        PROVE  CommonListWorks
    <3>1. p \in Seq(PasswordLetters) /\ CommonPasswords \subseteq Seq(Lower \cup Numbers)
          /\ env \in [SwitchedRules -> EnvValues]
      BY PasswordAssumption
    <3>2. verdict.password = p /\ verdict.env = env /\ verdict.answer = ValidatePassword(p, env)
      BY <2>2
    <3>3. ASSUME verdict.answer = "valid", env["common"] \in {"unset", "true"},
                 NEW c \in CommonPasswords, Len(c) = Len(p),
                 \A i \in DOMAIN c : c[i] = p[i] \/ (c[i] = "b" /\ p[i] = "B")
          PROVE  FALSE
      <4>1. ~Rejected(p, env, 10)
        <5>1. \A i \in 1 .. 10 : ValidatePassword(p, env) # RuleOrder[i]
          BY <3>2, <3>3, RuleOrderIsOne
        <5>2. \A i \in 1 .. 10 : ~Rejected(p, env, i)
          BY <5>1, FirstBroken
        <5>3. 10 \in 1 .. 10
          OBVIOUS
        <5> QED
          BY <5>2, <5>3, Zenon
      <4>2. ~Common(p)
        BY <3>3, <4>1, RuleOrderIsOne DEF Rejected, RuleOn, Breaks
      <4>3. ToLowerCase(p) = c
        BY <3>1, <3>3, SameLetters
      <4> QED
        BY <4>2, <4>3 DEF Common
    <3>4. ASSUME verdict.answer = "common"
          PROVE  env["special"] = "empty"
      <4>1. PICK i \in 1 .. 10 : /\ RuleOrder[i] = "common" /\ Rejected(p, env, i)
                                /\ \A j \in 1 .. 10 : j < i => ~Rejected(p, env, j)
        BY <3>2, <3>4, FirstBroken
      <4>2. i = 10
        BY <4>1, RuleOrderIsOne
      <4>3. Common(p) /\ ~Rejected(p, env, 7)
        <5>1. Breaks(p, "common")
          BY <4>1 DEF Rejected
        <5>2. Common(p)
          BY <5>1 DEF Breaks
        <5>3. 7 \in 1 .. 10 /\ 7 < i
          BY <4>2
        <5> QED
          BY <4>1, <5>2, <5>3, Zenon
      <4>4. Breaks(p, "special")
        BY <3>1, <4>3, CommonOnesArePlain
      <4> QED
        BY <4>3, <4>4, RuleOrderIsOne DEF Rejected, RuleOn
    <3>5. CommonPasswordsAreRefused
      BY <3>2, <3>3 DEF CommonPasswordsAreRefused
    <3>6. CommonListIsLastResort
      BY <3>2, <3>4 DEF CommonListIsLastResort
    <3> QED
      BY <3>5, <3>6 DEF CommonListWorks
  <2> QED
    BY <1>1, <2>1, <2>2 DEF PasswordInv
<1> QED
  BY <1>1, PasswordAlways, PTL
-----------------------------------------------------------------------------
(***************************************************************************)
(* ErrorResponses.  Where an exception is on its way through the filter     *)
(* says what it is, and whether somebody has answered already.              *)
(***************************************************************************)
PrismaCodes == {"init", "validation", "P2002", "P2025", "P2003", "P2034"}

IsException(x) ==
  /\ x \in [class : {x.class}, code : {x.code}, status : Nat, says : Messages]
  /\ x.class = "prisma" => x.code \in PrismaCodes
IsErrReq(q) ==
  q \in [http : BOOLEAN, url : Endpoints,
         from : {"app", "payment", "connect", "connect-update", "webhook"},
         asked : {q.asked}, jsonFailed : BOOLEAN, sendFailed : BOOLEAN, genuine : BOOLEAN]
IsResponse(x) ==
  x \in [there : BOOLEAN, sent : BOOLEAN, status : Nat, body : {x.body}, detail : {x.detail},
         writes : Nat]

\* Statuses are numbers, and each exception is of a kind the filter knows.
ErrTypes ==
  /\ errPc \in {"idle", "payment", "connect", "again", "filter", "domain", "general",
                "send", "failed", "done"}
  /\ IsErrReq(errReq) /\ IsException(thrown) /\ IsResponse(response)

\* Beyond the filter nobody has answered an HTTP request, and nobody answers twice.
WritesAreCounted ==
  /\ response.writes <= 2
  /\ response.writes = 2 => errPc = "done" /\ ~errReq.http
  /\ ~response.sent => response.writes = 0
  /\ errPc \in {"domain", "general", "send", "failed"} =>
       response.there /\ ~(errReq.http /\ response.sent)
  /\ errPc = "send" => errReq.http
  /\ errPc \in {"domain", "send"} => thrown.class = "domain"
  /\ errPc = "failed" => thrown.class = "nothing"
  /\ errPc = "general" => thrown.class \notin {"domain", "nothing"}

FromConnect == errReq.from \in {"connect", "connect-update"}

\* What a translation keeps of the error x, and that only a refusal has become a 403.
Tells(x, e) ==
  /\ x.says = e.says /\ x.code \in {e.code, "none"}
  /\ x.class \in {"http", "error"} \/ (x.class = e.class /\ x.status = 0)
  /\ x.class \notin {"prisma", "domain", "nothing"}
  /\ x.class = "http" /\ x.status = 403 => Refused(e)

\* An error of a Connect operation keeps its message, and a refusal that says so is
\* 403 once translated.
PermissionStays ==
  /\ errPc \in {"connect", "again"} => FromConnect
  /\ FromConnect =>
       /\ errPc \in {"connect", "again", "filter", "general", "done"}
       /\ errPc # "done" => Tells(thrown, errReq.asked) /\ ~response.sent
       /\ errPc \in {"again", "filter", "general"} /\ errReq.asked.says = "denied" =>
            thrown.class = "http" /\ thrown.status = 403

ErrInv == ErrTypes /\ WritesAreCounted /\ PermissionStays /\ ErrorsAreAnswered

LEMMA NoneAreTyped ==
  /\ IsException(NoException) /\ IsResponse(NoResponse) /\ IsErrReq(NoErrReq)
<1>1. IsException(NoException)
  BY DEF NoException, Exception, IsException, Messages
<1>2. IsResponse(NoResponse)
  BY DEF NoResponse, IsResponse
<1>3. IsErrReq(NoErrReq)
  BY DEF NoErrReq, IsErrReq, Endpoints
<1> QED
  BY <1>1, <1>2, <1>3

LEMMA ErrStarts == ErrorsInit => ErrInv
<1> SUFFICES ASSUME ErrorsInit
             PROVE  ErrInv
  OBVIOUS
<1>1. ErrTypes
  BY NoneAreTyped DEF ErrorsInit, ErrTypes
<1>2. WritesAreCounted /\ PermissionStays /\ ErrorsAreAnswered
  BY DEF ErrorsInit, NoErrReq, NoException, NoResponse, Exception, WritesAreCounted, PermissionStays,
         FromConnect, ErrorsAreAnswered, AnsweredAtMostOnce, CriticalErrorsAreAnswered,
         PermissionIsForbidden
<1> QED
  BY <1>1, <1>2 DEF ErrInv

LEMMA AppErrors ==
  ASSUME NEW e \in DomainErrors \cup PrismaErrors \cup HttpErrors \cup OtherErrors
  PROVE  IsException(e)
<1>1. CASE e \in DomainErrors
  <2>1. PICK c \in DOMAIN DomainStatus : e = Exception("domain", c, DomainStatus[c], "other")
    BY <1>1 DEF DomainErrors
  <2>2. DomainStatus[c] \in Nat
    BY DEF DomainStatus
  <2> HIDE DEF DomainStatus
  <2> QED
    BY <2>1, <2>2 DEF Exception, IsException, Messages
<1>2. CASE e \in PrismaErrors
  BY <1>2 DEF PrismaErrors, Exception, IsException, Messages, PrismaCodes
<1>3. CASE e \in HttpErrors
  BY <1>3 DEF HttpErrors, Exception, IsException, Messages
<1>4. CASE e \in OtherErrors
  BY <1>4 DEF OtherErrors, Exception, IsException, Messages
<1> QED
  BY <1>1, <1>2, <1>3, <1>4

LEMMA SdkErrors ==
  ASSUME NEW e \in StripeErrors
  PROVE  /\ IsException(e) /\ Tells(e, e)
<1>1. PICK c \in {"StripeInvalidRequestError", "StripeCardError", "StripePermissionError",
                  "StripeAPIError"},
           k \in {"none", "permission_denied", "resource_missing"}, s \in Messages :
             e = Exception(c, k, 0, s)
  BY DEF StripeErrors
<1> QED
  BY <1>1 DEF Exception, IsException, Tells

\* A handler throws, after it may have answered.
LEMMA ThrowStep ==
  ASSUME ErrInv, NEW http \in BOOLEAN, NEW url \in Endpoints, NEW there \in BOOLEAN,
         NEW answered \in BOOLEAN, HandlerThrows(http, url, there, answered)
  PROVE  ErrInv'
<1>1. PICK e \in DomainErrors \cup PrismaErrors \cup HttpErrors \cup OtherErrors :
        /\ errReq' = [NoErrReq EXCEPT !.http = http, !.url = url, !.asked = e]
        /\ thrown' = e
  BY DEF HandlerThrows
<1>2. /\ response' = [NoResponse EXCEPT !.there = there, !.sent = answered,
                        !.status = IF answered THEN 200 ELSE 0, !.writes = IF answered THEN 1 ELSE 0]
      /\ errPc' = "filter"
  BY DEF HandlerThrows
<1>3. errReq' = [http |-> http, url |-> url, from |-> "app", asked |-> e, jsonFailed |-> FALSE,
                 sendFailed |-> FALSE, genuine |-> FALSE]
  BY <1>1 DEF NoErrReq
<1>4. response' = [there |-> there, sent |-> answered, status |-> IF answered THEN 200 ELSE 0,
                   body |-> "none", detail |-> "none", writes |-> IF answered THEN 1 ELSE 0]
  BY <1>2 DEF NoResponse
<1>5. IsErrReq(errReq)'
  BY <1>3 DEF IsErrReq
<1>6. IsResponse(response)'
  BY <1>4 DEF IsResponse
<1>7. ErrTypes'
  BY <1>1, <1>2, <1>5, <1>6, AppErrors DEF ErrTypes
<1>8. WritesAreCounted' /\ PermissionStays'
  BY <1>2, <1>3, <1>4 DEF WritesAreCounted, PermissionStays, FromConnect
<1>9. ErrorsAreAnswered'
  BY <1>2, <1>4 DEF ErrorsAreAnswered, AnsweredAtMostOnce, CriticalErrorsAreAnswered,
     PermissionIsForbidden
<1> QED
  BY <1>7, <1>8, <1>9 DEF ErrInv

LEMMA StripeStep ==
  ASSUME ErrInv, StripeThrows
  PROVE  ErrInv'
<1>1. PICK from \in {"payment", "connect", "connect-update"}, e \in StripeErrors :
        /\ errReq' = [NoErrReq EXCEPT !.from = from, !.asked = e]
        /\ thrown' = e /\ response' = NoResponse
        /\ errPc' = IF from = "payment" THEN "payment" ELSE "connect"
  BY Zenon DEF StripeThrows
<1>2. errReq' = [http |-> TRUE, url |-> "other", from |-> from, asked |-> e, jsonFailed |-> FALSE,
                 sendFailed |-> FALSE, genuine |-> FALSE]
  BY <1>1 DEF NoErrReq
<1>3. IsErrReq(errReq)'
  BY <1>2 DEF IsErrReq, Endpoints
<1>4. ErrTypes'
  BY <1>1, <1>3, SdkErrors, NoneAreTyped DEF ErrTypes
<1>5. /\ errPc' \in {"payment", "connect"} /\ (errPc' = "connect" <=> FromConnect')
      /\ response'.writes = 0 /\ ~response'.sent
  BY <1>1, <1>2 DEF NoResponse, FromConnect
<1>6. PermissionStays'
  <2>1. thrown' = e /\ errReq'.asked = e /\ Tells(e, e)
    BY <1>1, <1>2, SdkErrors
  <2> QED
    BY <1>5, <2>1 DEF PermissionStays, FromConnect
<1>7. WritesAreCounted' /\ ErrorsAreAnswered'
  BY <1>5 DEF WritesAreCounted,
       ErrorsAreAnswered, AnsweredAtMostOnce, CriticalErrorsAreAnswered,
     PermissionIsForbidden
<1> QED
  BY <1>4, <1>6, <1>7 DEF ErrInv

LEMMA WebhookStep ==
  ASSUME ErrInv, HandleWebhook, errPc = "idle"
  PROVE  ErrInv'
<1>1. PICK g \in BOOLEAN : errReq' = [NoErrReq EXCEPT !.from = "webhook", !.genuine = g]
  BY DEF HandleWebhook
<1>2. errReq' = [http |-> TRUE, url |-> "other", from |-> "webhook", asked |-> NoException,
                 jsonFailed |-> FALSE, sendFailed |-> FALSE, genuine |-> g]
  BY <1>1 DEF NoErrReq
<1>3. IsErrReq(errReq)'
  BY <1>2 DEF IsErrReq, Endpoints
<1>4. CASE errPc' = "done" /\ response' = [NoResponse EXCEPT !.sent = TRUE, !.status = 200, !.writes = 1]
           /\ UNCHANGED thrown
  <2>1. response' = [there |-> TRUE, sent |-> TRUE, status |-> 200, body |-> "none",
                     detail |-> "none", writes |-> 1]
    BY <1>4 DEF NoResponse
  <2>2. IsResponse(response)'
    BY <2>1 DEF IsResponse
  <2>3. ErrTypes'
    BY <1>3, <1>4, <2>2 DEF ErrTypes, ErrInv
  <2> QED
    BY <1>2, <1>4, <2>1, <2>3
       DEF ErrInv, WritesAreCounted, PermissionStays, FromConnect,
       ErrorsAreAnswered, AnsweredAtMostOnce, CriticalErrorsAreAnswered, PermissionIsForbidden
<1>5. CASE errPc' = "filter" /\ thrown' = Exception("error", "none", 0, "other") /\ UNCHANGED response
  <2>1. IsException(thrown)' /\ thrown'.class = "error"
    BY <1>5 DEF IsException, Exception, Messages
  <2>2. ErrTypes'
    BY <1>3, <1>5, <2>1 DEF ErrTypes, ErrInv
  <2>3. response.writes <= 1
    BY DEF ErrInv, ErrTypes, IsResponse, WritesAreCounted
  <2> QED
    BY <1>2, <1>5, <2>2, <2>3
       DEF ErrInv, WritesAreCounted, PermissionStays, FromConnect,
       ErrorsAreAnswered, AnsweredAtMostOnce, CriticalErrorsAreAnswered,
     PermissionIsForbidden
<1> QED
  BY <1>4, <1>5 DEF HandleWebhook

LEMMA TranslationStep ==
  ASSUME ErrInv, HandlePaymentError \/ HandleConnectError \/ UpdateRewraps
  PROVE  ErrInv'
<1>1. ConnectError(thrown) \in {Exception("http", "none", n, thrown.says) : n \in {400, 403, 404}}
                                \cup {Exception("error", thrown.code, 0, thrown.says)}
  BY DEF ConnectError
<1>2. /\ IsException(ConnectError(thrown)) /\ ConnectError(thrown).says = thrown.says
  BY <1>1 DEF ErrInv, ErrTypes, IsException, Exception
<1>3. thrown.says = "denied" =>
        ConnectError(thrown).class = "http" /\ ConnectError(thrown).status = 403
  BY DEF ConnectError, IsPermissionDenied, Exception
<1>a. \A e : Tells(thrown, e) => Tells(ConnectError(thrown), e)
  <2> SUFFICES ASSUME NEW e, Tells(thrown, e)
               PROVE  Tells(ConnectError(thrown), e)
    OBVIOUS
  <2>1. CASE IsPermissionDenied(thrown)
    <3>1. ConnectError(thrown) = Exception("http", "none", 403, thrown.says)
      BY <2>1 DEF ConnectError
    <3>2. Refused(e)
      BY <2>1 DEF IsPermissionDenied, Refused, Tells
    <3> DEFINE x == ConnectError(thrown)
    <3>3. x.class = "http" /\ x.code = "none" /\ x.status = 403 /\ x.says = thrown.says
      BY <3>1 DEF Exception
    <3>4. thrown.says = e.says
      BY DEF Tells
    <3> HIDE DEF x
    <3>5. Tells(x, e)
      BY <3>2, <3>3, <3>4 DEF Tells
    <3> QED
      BY <3>5 DEF x
  <2>2. CASE ~IsPermissionDenied(thrown)
    <3>1. ConnectError(thrown) \in {Exception("http", "none", n, thrown.says) : n \in {400, 404}}
                                    \cup {Exception("error", thrown.code, 0, thrown.says)}
      BY <2>2 DEF ConnectError
    <3> DEFINE x == ConnectError(thrown)
    <3>2. /\ x.class \in {"http", "error"} /\ x.says = thrown.says
          /\ x.code \in {thrown.code, "none"} /\ (x.class = "http" => x.status # 403)
      BY <3>1 DEF Exception
    <3>3. thrown.says = e.says /\ thrown.code \in {e.code, "none"}
      BY DEF Tells
    <3> HIDE DEF x
    <3>4. Tells(x, e)
      BY <3>2, <3>3 DEF Tells
    <3> QED
      BY <3>4 DEF x
  <2> QED
    BY <2>1, <2>2
<1>4. UNCHANGED <<errReq, response>> /\ errPc' \in {"filter", "again"}
      /\ errPc \in {"payment", "connect", "again"} /\ (errPc = "payment" => errPc' = "filter")
  BY DEF HandlePaymentError, HandleConnectError, UpdateRewraps
<1>5. thrown' = Exception("error", thrown.code, 0, thrown.says) \/ thrown' = ConnectError(thrown)
  BY DEF HandlePaymentError, HandleConnectError, UpdateRewraps
<1>6. IsException(thrown)' /\ thrown'.says = thrown.says
  <2>1. IsException(Exception("error", thrown.code, 0, thrown.says))
    BY DEF ErrInv, ErrTypes, IsException, Exception
  <2> QED
    BY <1>2, <1>5, <2>1 DEF Exception
<1>7. errPc \in {"connect", "again"} => thrown' = ConnectError(thrown)
  BY DEF HandlePaymentError, HandleConnectError, UpdateRewraps
<1>8. ErrTypes'
  BY <1>4, <1>6 DEF ErrInv, ErrTypes
<1>9. WritesAreCounted'
  BY <1>4 DEF ErrInv, WritesAreCounted
<1>10. PermissionStays'
  <2> HIDE DEF ConnectError, Exception
  <2>1. FromConnect => /\ errPc \in {"connect", "again"} /\ ~response.sent
                       /\ Tells(thrown, errReq.asked)
    BY <1>4 DEF ErrInv, PermissionStays
  <2>2. FromConnect' <=> FromConnect
    BY <1>4 DEF FromConnect
  <2>3. FromConnect => Tells(thrown', errReq.asked)
    BY <1>7, <1>a, <2>1
  <2>4. FromConnect /\ errReq.asked.says = "denied" => thrown'.class = "http" /\ thrown'.status = 403
    BY <1>3, <1>7, <2>1 DEF Tells
  <2>5. errPc' = "again" => FromConnect
    BY DEF HandlePaymentError, HandleConnectError, UpdateRewraps, FromConnect
  <2> QED
    BY <1>4, <2>1, <2>2, <2>3, <2>4, <2>5 DEF PermissionStays
<1>11. ErrorsAreAnswered'
  BY <1>4 DEF ErrInv, ErrorsAreAnswered, AnsweredAtMostOnce, CriticalErrorsAreAnswered,
     PermissionIsForbidden
<1> QED
  BY <1>8, <1>9, <1>10, <1>11 DEF ErrInv

LEMMA FilterStep ==
  ASSUME ErrInv, Filter
  PROVE  ErrInv'
<1> USE DEF ErrInv
<1>1. UNCHANGED <<errReq, thrown, response>> /\ errPc = "filter"
  BY DEF Filter
<1>2. ErrTypes'
  BY <1>1 DEF ErrTypes, Filter
<1>3. WritesAreCounted'
  BY <1>1 DEF WritesAreCounted, Filter, Writable
<1>4. PermissionStays'
  <2>1. FromConnect => errPc' \in {"general", "done"}
    BY <1>1 DEF PermissionStays, Tells, Filter
  <2>2. errPc' \notin {"connect", "again"}
    BY DEF Filter
  <2> QED
    BY <1>1, <2>1, <2>2 DEF PermissionStays, FromConnect
<1>5. ErrorsAreAnswered'
  BY <1>1, <1>3 DEF ErrorsAreAnswered, AnsweredAtMostOnce, CriticalErrorsAreAnswered,
       PermissionIsForbidden, PermissionStays, FromConnect, Filter, Writable
<1> QED
  BY <1>2, <1>3, <1>4, <1>5

LEMMA SentIsSent ==
  ASSUME ErrInv, NEW status \in Nat, NEW body, NEW detail
  PROVE  /\ IsResponse(Sent(status, body, detail))
         /\ Sent(status, body, detail).sent
         /\ Sent(status, body, detail).there = response.there
         /\ Sent(status, body, detail).writes = response.writes + 1
         /\ ~response.sent => Sent(status, body, detail).status = status
<1>1. IsResponse(response)
  BY DEF ErrInv, ErrTypes
<1>2. CASE response.sent
  <2> DEFINE x == [response EXCEPT !.writes = @ + 1]
  <2>1. Sent(status, body, detail) = x
    BY <1>2 DEF Sent
  <2>2. IsResponse(x) /\ x.sent = response.sent /\ x.there = response.there
        /\ x.writes = response.writes + 1
    BY <1>1 DEF IsResponse
  <2> QED
    BY <1>2, <2>1, <2>2
<1>3. CASE ~response.sent
  <2> DEFINE n == response.writes + 1
             x == [response EXCEPT !.sent = TRUE, !.status = status, !.body = body,
                                   !.detail = detail, !.writes = n]
  <2>0. n \in Nat
    BY <1>1 DEF IsResponse
  <2>1. Sent(status, body, detail) = x
    BY <1>3 DEF Sent
  <2>4. n = response.writes + 1
    OBVIOUS
  <2> HIDE DEF n
  <2>2. x.sent /\ x.there = response.there /\ x.writes = n /\ x.status = status
    BY <1>1 DEF IsResponse
  <2>3. IsResponse(x)
    <3>1. x \in [there : BOOLEAN, sent : BOOLEAN, status : Nat, body : {body, response.body},
                 detail : {detail, response.detail}, writes : Nat]
      BY <1>1, <2>0 DEF IsResponse
    <3>2. x.body = body /\ x.detail = detail
      BY <1>1 DEF IsResponse
    <3> HIDE DEF x
    <3> QED
      BY <3>1, <3>2 DEF IsResponse
  <2> QED
    BY <2>1, <2>2, <2>3, <2>4
<1> QED
  BY <1>2, <1>3

LEMMA StatusIsANumber ==
  ASSUME ErrInv
  PROVE  HttpStatusOf(thrown) \in Nat /\ thrown.status \in Nat
<1>1. IsException(thrown)
  BY DEF ErrInv, ErrTypes
<1>2. \A c \in PrismaCodes : PrismaStatus(c) \in Nat
  BY DEF PrismaCodes, PrismaStatus
<1> HIDE DEF PrismaCodes, PrismaStatus
<1> QED
  BY <1>1, <1>2 DEF IsException, HttpStatusOf

\* The response is written, or left to whoever wrote it.
LEMMA AnswerStep ==
  ASSUME ErrInv, errPc \in {"domain", "general", "send", "failed"}, errPc' = "done",
         UNCHANGED <<errReq, thrown>>,
         NEW status \in Nat, NEW body, NEW detail,
         \/ response' = response /\ response.sent
         \/ response' = Sent(status, body, detail),
         errPc = "general" => status = HttpStatusOf(thrown)
  PROVE  ErrInv'
<1> USE DEF ErrInv
<1>1. IsResponse(response)' /\ response'.sent /\ response'.there = response.there
  BY SentIsSent DEF ErrTypes
<1>2. /\ response'.writes <= 2 /\ response'.writes \in Nat
      /\ errReq.http => response'.writes = 1 /\ response'.status = status
  <2>1. CASE response' = response /\ response.sent
    BY <2>1 DEF WritesAreCounted, ErrTypes, IsResponse
  <2>2. CASE response' = Sent(status, body, detail)
    <3>1. response'.writes = response.writes + 1 /\ response.writes \in Nat
          /\ (~response.sent => response'.status = status)
      BY <2>2, SentIsSent DEF ErrTypes, IsResponse
    <3>2. response.writes <= 1 /\ (errReq.http => response.writes = 0 /\ ~response.sent)
      BY <3>1 DEF WritesAreCounted
    <3> QED
      BY <3>1, <3>2
  <2> QED
    BY <2>1, <2>2
<1>3. ErrTypes'
  BY <1>1 DEF ErrTypes
<1>4. WritesAreCounted'
  BY <1>1, <1>2 DEF WritesAreCounted
<1>5. PermissionStays'
  BY DEF PermissionStays, FromConnect
<1>6. ErrorsAreAnswered'
  <2>1. AnsweredAtMostOnce' /\ CriticalErrorsAreAnswered'
    BY <1>1, <1>2 DEF AnsweredAtMostOnce, CriticalErrorsAreAnswered
  <2>2. ASSUME FromConnect
        PROVE  /\ errReq.asked.says = "denied" => response'.status = 403
               /\ response'.status = 403 => Refused(errReq.asked)
    <3>1. /\ errPc = "general" /\ Tells(thrown, errReq.asked) /\ ~response.sent
          /\ errReq.asked.says = "denied" => thrown.class = "http" /\ thrown.status = 403
      BY <2>2 DEF PermissionStays
    <3>2. response' = Sent(status, body, detail) /\ response'.status = status
      BY <3>1, SentIsSent
    <3>3. status = IF thrown.class = "http" THEN thrown.status ELSE 500
      BY <3>1 DEF HttpStatusOf, Tells
    <3> QED
      BY <3>1, <3>2, <3>3 DEF Tells
  <2>3. PermissionIsForbidden'
    BY <2>2 DEF PermissionIsForbidden, FromConnect, Refused
  <2> QED
    BY <2>1, <2>3 DEF ErrorsAreAnswered
<1> QED
  BY <1>3, <1>4, <1>5, <1>6

LEMMA JsonStep ==
  ASSUME ErrInv, JsonFails
  PROVE  ErrInv'
<1> USE DEF ErrInv
<1>1. /\ errPc \in {"domain", "general", "failed"} /\ UNCHANGED <<thrown, response>>
      /\ errPc' = IF errPc = "domain" /\ errReq.http /\ IsAuthEndpoint(errReq.url)
                  THEN "send" ELSE "done"
  BY DEF JsonFails, NextAfterJson
<1>2. /\ IsErrReq(errReq)' /\ errReq'.http = errReq.http /\ errReq'.url = errReq.url
      /\ errReq'.from = errReq.from /\ errReq'.asked = errReq.asked /\ errReq'.jsonFailed
  BY DEF JsonFails, ErrTypes, IsErrReq
<1>3. ErrTypes'
  BY <1>1, <1>2 DEF ErrTypes
<1>4. WritesAreCounted'
  BY <1>1, <1>2 DEF WritesAreCounted
<1>5. PermissionStays'
  BY <1>1, <1>2 DEF PermissionStays, FromConnect
<1>6. ErrorsAreAnswered'
  BY <1>1, <1>2 DEF ErrorsAreAnswered, AnsweredAtMostOnce, CriticalErrorsAreAnswered,
       PermissionIsForbidden, WritesAreCounted, PermissionStays, FromConnect
<1> QED
  BY <1>3, <1>4, <1>5, <1>6

LEMMA SendStep ==
  ASSUME ErrInv, SendFails
  PROVE  ErrInv'
<1> USE DEF ErrInv
<1>1. errPc = "send" /\ errPc' = "done" /\ UNCHANGED <<thrown, response>>
  BY DEF SendFails
<1>2. /\ IsErrReq(errReq)' /\ errReq'.http = errReq.http /\ errReq'.url = errReq.url
      /\ errReq'.from = errReq.from /\ errReq'.asked = errReq.asked /\ errReq'.sendFailed
  BY DEF SendFails, ErrTypes, IsErrReq
<1>3. ErrTypes'
  BY <1>1, <1>2 DEF ErrTypes
<1>4. WritesAreCounted'
  BY <1>1, <1>2 DEF WritesAreCounted
<1>5. PermissionStays' /\ ErrorsAreAnswered'
  BY <1>1, <1>2 DEF PermissionStays, FromConnect, ErrorsAreAnswered, AnsweredAtMostOnce,
       CriticalErrorsAreAnswered, PermissionIsForbidden, WritesAreCounted
<1> QED
  BY <1>3, <1>4, <1>5

LEMMA ErrStep == ErrInv /\ [ErrorsNext]_errorVars => ErrInv'
<1> SUFFICES ASSUME ErrInv, [ErrorsNext]_errorVars
             PROVE  ErrInv'
  OBVIOUS
<1>1. CASE HandleDomainError
  BY <1>1, AnswerStep, StatusIsANumber DEF HandleDomainError
<1>2. CASE FallbackSend
  BY <1>2, AnswerStep, StatusIsANumber DEF FallbackSend
<1>3. CASE HandleException
  BY <1>3, AnswerStep, StatusIsANumber DEF HandleException
<1>4. CASE FilterFailed
  BY <1>4, AnswerStep DEF FilterFailed
<1>5. CASE Answered
  <2>1. errPc' = "idle" /\ errReq' = NoErrReq /\ thrown' = NoException /\ response' = NoResponse
    BY <1>5 DEF Answered
  <2>2. ErrTypes'
    BY <2>1, NoneAreTyped DEF ErrTypes
  <2>3. WritesAreCounted' /\ PermissionStays' /\ ErrorsAreAnswered'
    BY <2>1 DEF NoErrReq, NoException, NoResponse, Exception, WritesAreCounted, PermissionStays,
         FromConnect, ErrorsAreAnswered, AnsweredAtMostOnce, CriticalErrorsAreAnswered,
         PermissionIsForbidden
  <2> QED
    BY <2>2, <2>3 DEF ErrInv
<1>6. CASE UNCHANGED errorVars
  BY <1>6 DEF errorVars, ErrInv, ErrTypes, WritesAreCounted,
     PermissionStays, FromConnect, ErrorsAreAnswered, AnsweredAtMostOnce,
     CriticalErrorsAreAnswered, PermissionIsForbidden, IsErrReq, IsException, IsResponse
<1> QED
  BY <1>1, <1>2, <1>3, <1>4, <1>5, <1>6, ThrowStep, StripeStep, WebhookStep, TranslationStep,
     FilterStep, JsonStep, SendStep DEF ErrorsNext

LEMMA ErrAlways == ErrorsSpec => []ErrInv
  BY ErrStarts, ErrStep, PTL DEF ErrorsSpec

\* What is thrown, how far the answer is and what it says are of their types, whatever
\* is thrown where.
THEOREM ErrorTypesHold == ErrorsSpec => []ErrorsTypeOK
<1>1. ErrInv => ErrorsTypeOK
  BY DEF ErrInv, ErrTypes, IsResponse, WritesAreCounted, ErrorsTypeOK
<1> QED
  BY <1>1, ErrAlways, PTL

\* What run rules checks of the exception filter, for any request and any exception:
\* the answer is sent once at most, critical errors reach the client as long as json()
\* or send() does, a refusal that says so is told as 403, and nothing else is.
THEOREM ErrorsAreAlwaysAnswered == ErrorsSpec => []ErrorsAreAnswered
<1> QED
  BY ErrAlways, PTL DEF ErrInv
-----------------------------------------------------------------------------
(***************************************************************************)
(* AnomalyDetection.  An analysis that is about to be stored has counted    *)
(* its attempt, and has one of the three reputations of an address.         *)
(***************************************************************************)
AnRecord == [device : Devices \cup {<<Unknown, Unknown>>}, place : Places \cup {Unknown},
             hour : 0 .. MaxHour, past : Seq(LoginAttempts), n : 0 .. MaxCount, bad : {0, 30, 60}]

AnInv ==
  /\ logins \in Seq(LoginAttempts)
  /\ velocity \in [n : 0 .. MaxCount, ttl : BOOLEAN]
  /\ hour \in 0 .. MaxHour
  /\ anPc \in [AnReqs -> {"idle", "velocity", "window", "address", "push", "trim"}]
  /\ anReq \in [AnReqs -> AnRecord]
  /\ \A r \in AnReqs : anPc[r] # "idle" => anReq[r].device \in Devices

\* Two signals are two.
LEMMA TwoSignals ==
  ASSUME NEW q, NEW i \in 1 .. 7, NEW j \in 1 .. 7, i # j,
         <<q.n > MaxPerWindow, IsNewDevice(q), IsNewLocation(q), IsImpossibleTravel(q),
           IsUnusualTime(q), q.bad > 0, IsNewFingerprint(q)>>[i],
         <<q.n > MaxPerWindow, IsNewDevice(q), IsNewLocation(q), IsImpossibleTravel(q),
           IsUnusualTime(q), q.bad > 0, IsNewFingerprint(q)>>[j]
  PROVE  Signals(q) >= 2
<1> DEFINE S == {k \in 1 .. 7 :
      <<q.n > MaxPerWindow, IsNewDevice(q), IsNewLocation(q), IsImpossibleTravel(q),
        IsUnusualTime(q), q.bad > 0, IsNewFingerprint(q)>>[k]}
<1>1. {i, j} \subseteq S
  OBVIOUS
<1>2. IsFiniteSet(S)
  <2>1. S \subseteq 1 .. 7
    OBVIOUS
  <2>2. IsFiniteSet(1 .. 7)
    <3>1. \A a, b \in Int : IsFiniteSet(a .. b)
      BY FS_Interval
    <3>2. 1 \in Int /\ 7 \in Int
      OBVIOUS
    <3> QED
      BY <3>1, <3>2, Zenon
  <2> HIDE DEF S
  <2> QED
    BY <2>1, <2>2, FS_Subset
<1>3. Signals(q) = Cardinality(S)
  BY DEF Signals
<1> HIDE DEF S
<1>4. Cardinality({i, j}) = 2
  <2>1. IsFiniteSet({i}) /\ Cardinality({i}) = 1
    BY FS_Singleton
  <2>2. Cardinality({i} \cup {j}) = Cardinality({i}) + 1
    BY <2>1, FS_AddElement
  <2>3. {i} \cup {j} = {i, j}
    OBVIOUS
  <2> QED
    BY <2>1, <2>2, <2>3
<1>5. Cardinality({i, j}) <= Cardinality(S) /\ Cardinality(S) \in Nat
  BY <1>1, <1>2, FS_Subset, FS_CardinalityType
<1> QED
  BY <1>3, <1>4, <1>5

\* The names of the signals.
LEMMA SignalNames ==
  ASSUME NEW q
  PROVE  LET s == <<q.n > MaxPerWindow, IsNewDevice(q), IsNewLocation(q), IsImpossibleTravel(q),
                    IsUnusualTime(q), q.bad > 0, IsNewFingerprint(q)>>
         IN  /\ q.n > MaxPerWindow => s[1]
             /\ IsNewDevice(q) => s[2]
             /\ IsNewLocation(q) => s[3]
             /\ IsImpossibleTravel(q) => s[4]
             /\ IsUnusualTime(q) => s[5]
             /\ q.bad > 0 => s[6]
             /\ IsNewFingerprint(q) => s[7]
  OBVIOUS

\* No weight alone passes the threshold.
LEMMA BlockTakesTwo ==
  ASSUME NEW q, q.n \in Int, q.bad \in {0, 30, 60}, ShouldBlock(q)
  PROVE  Signals(q) >= 2
  BY TwoSignals, SignalNames, AnomalyAssumption DEF ShouldBlock, Score

\* A login that the user has made before has one signal at most, the smallest.
LEMMA UsualPasses ==
  ASSUME NEW q, q.n \in Int, q.n <= MaxPerWindow, q.bad = 0, ~IsImpossibleTravel(q),
         \E k \in DOMAIN q.past : q.past[k].device = q.device /\ q.past[k].place = q.place
  PROVE  ~ShouldBlock(q) /\ ~ShouldRequireMFA(q)
<1>1. ~IsNewDevice(q) /\ ~IsNewLocation(q) /\ ~IsNewFingerprint(q)
  BY DEF IsNewDevice, IsNewLocation, IsNewFingerprint
<1>2. ~(q.n > MaxPerWindow)
  BY AnomalyAssumption
<1> QED
  BY <1>1, <1>2 DEF ShouldBlock, ShouldRequireMFA, Score

LEMMA AnIdleIsOne == AnIdle \in AnRecord
<1>1. 0 \in 0 .. MaxHour /\ 0 \in 0 .. MaxCount /\ <<>> \in Seq(LoginAttempts)
  BY AnomalyAssumption
<1> QED
  BY <1>1 DEF AnIdle, AnRecord

LEMMA AnUpdates ==
  ASSUME NEW p \in AnRecord
  PROVE  /\ \A n \in 0 .. MaxCount : [p EXCEPT !.n = n] \in AnRecord
                                   /\ [p EXCEPT !.n = n].device = p.device
         /\ \A bad \in {0, 30, 60} : [p EXCEPT !.bad = bad] \in AnRecord
                                    /\ [p EXCEPT !.bad = bad].device = p.device
<1>1. ASSUME NEW n \in 0 .. MaxCount
      PROVE  [p EXCEPT !.n = n] \in AnRecord /\ [p EXCEPT !.n = n].device = p.device
  BY DEF AnRecord
<1>2. ASSUME NEW bad \in {0, 30, 60}
      PROVE  [p EXCEPT !.bad = bad] \in AnRecord /\ [p EXCEPT !.bad = bad].device = p.device
  BY DEF AnRecord
<1> QED
  BY <1>1, <1>2

LEMMA AnStarts == AnomalyInit => AnInv
<1>1. NoAttempts \in [n : 0 .. MaxCount, ttl : BOOLEAN] /\ 0 \in 0 .. MaxHour
  BY AnomalyAssumption DEF NoAttempts
<1> QED
  BY <1>1, AnIdleIsOne DEF AnomalyInit, AnInv

\* One request moves on.
LEMMA AnMoves ==
  ASSUME AnInv, NEW r \in AnReqs, NEW s \in {"idle", "velocity", "window", "address", "push", "trim"},
         NEW q \in AnRecord, s # "idle" => q.device \in Devices,
         anPc' = [anPc EXCEPT ![r] = s], anReq' = [anReq EXCEPT ![r] = q]
  PROVE  /\ anPc' \in [AnReqs -> {"idle", "velocity", "window", "address", "push", "trim"}]
         /\ anReq' \in [AnReqs -> AnRecord]
         /\ \A x \in AnReqs : anPc'[x] # "idle" => anReq'[x].device \in Devices
  BY DEF AnInv

LEMMA NewestLogins == AnInv => GetLoginHistory \in Seq(LoginAttempts)
<1> SUFFICES ASSUME AnInv
             PROVE  GetLoginHistory \in Seq(LoginAttempts)
  OBVIOUS
<1> DEFINE k == IF Len(logins) < HistorySize THEN Len(logins) ELSE HistorySize
<1>1. logins \in Seq(LoginAttempts) /\ k \in Nat /\ k <= Len(logins)
  BY AnomalyAssumption DEF AnInv
<1> HIDE DEF k
<1>2. SubSeq(logins, 1, k) \in Seq(LoginAttempts)
  BY <1>1
<1> QED
  BY <1>2 DEF GetLoginHistory, k

LEMMA AnCounts ==
  ASSUME AnInv
  PROVE  Incr(velocity) \in [n : 0 .. MaxCount, ttl : BOOLEAN]
<1> DEFINE m == IF velocity.n < MaxCount THEN velocity.n + 1 ELSE velocity.n
<1>1. m \in 0 .. MaxCount
  BY AnomalyAssumption DEF AnInv
<1>2. Incr(velocity) = [velocity EXCEPT !.n = m]
  BY DEF Incr
<1> HIDE DEF m
<1> QED
  BY <1>1, <1>2 DEF AnInv

LEMMA AnStep == AnInv /\ [AnomalyNext]_anomalyVars => AnInv'
<1> SUFFICES ASSUME AnInv, [AnomalyNext]_anomalyVars
             PROVE  AnInv'
  OBVIOUS
<1>1. ASSUME NEW r \in AnReqs, AnalyzeLoginAttempt(r)
      PROVE  AnInv'
  <2>1. PICK d \in Devices, p \in Places \cup {Unknown} :
             anReq' = [anReq EXCEPT ![r] = [AnIdle EXCEPT !.device = d, !.place = p,
                         !.hour = hour, !.past = GetLoginHistory]]
    BY <1>1 DEF AnalyzeLoginAttempt
  <2> DEFINE q == [AnIdle EXCEPT !.device = d, !.place = p, !.hour = hour, !.past = GetLoginHistory]
  <2>2. q \in AnRecord /\ q.device = d
    BY AnIdleIsOne, NewestLogins DEF AnRecord, AnInv
  <2>3. anReq' = [anReq EXCEPT ![r] = q] /\ anPc' = [anPc EXCEPT ![r] = "velocity"]
        /\ UNCHANGED <<logins, velocity, hour>>
    BY <1>1, <2>1 DEF AnalyzeLoginAttempt, AnGoto
  <2> HIDE DEF q
  <2>4. /\ anPc' \in [AnReqs -> {"idle", "velocity", "window", "address", "push", "trim"}]
        /\ anReq' \in [AnReqs -> AnRecord]
        /\ \A x \in AnReqs : anPc'[x] # "idle" => anReq'[x].device \in Devices
    BY <2>2, <2>3, AnMoves
  <2> QED
    BY <2>3, <2>4 DEF AnInv
<1>2. ASSUME NEW r \in AnReqs, CheckVelocity(r)
      PROVE  AnInv'
  <2> DEFINE q == [anReq[r] EXCEPT !.n = velocity'.n]
  <2>1. velocity' \in [n : 0 .. MaxCount, ttl : BOOLEAN]
    BY <1>2, AnCounts DEF CheckVelocity
  <2>2. q \in AnRecord /\ q.device = anReq[r].device
    <3>1. velocity'.n \in 0 .. MaxCount /\ anReq[r] \in AnRecord
      BY <2>1 DEF AnInv
    <3> QED
      BY <3>1, AnUpdates
  <2>3. anReq' = [anReq EXCEPT ![r] = q] /\ UNCHANGED <<logins, hour>>
    BY <1>2 DEF CheckVelocity, AnInv
  <2>4. PICK s \in {"window", "address"} : anPc' = [anPc EXCEPT ![r] = s]
    BY <1>2 DEF CheckVelocity, AnGoto
  <2>5. anReq[r].device \in Devices
    BY <1>2 DEF CheckVelocity, AnInv
  <2> HIDE DEF q
  <2>6. /\ anPc' \in [AnReqs -> {"idle", "velocity", "window", "address", "push", "trim"}]
        /\ anReq' \in [AnReqs -> AnRecord]
        /\ \A x \in AnReqs : anPc'[x] # "idle" => anReq'[x].device \in Devices
    BY <2>2, <2>3, <2>4, <2>5, AnMoves
  <2> QED
    BY <2>1, <2>3, <2>6 DEF AnInv
<1>3. ASSUME NEW r \in AnReqs, StartWindow(r)
      PROVE  AnInv'
  <2>1. velocity' \in [n : 0 .. MaxCount, ttl : BOOLEAN]
    <3> DEFINE b == velocity.n > 0
    <3>1. b \in BOOLEAN /\ velocity' = [velocity EXCEPT !.ttl = b]
      BY <1>3 DEF StartWindow
    <3> HIDE DEF b
    <3> QED
      BY <3>1 DEF AnInv
  <2> QED
    BY <1>3, <2>1 DEF StartWindow, AnGoto, AnInv
<1>4. ASSUME NEW r \in AnReqs, CheckIPReputation(r)
      PROVE  AnInv'
  <2>1. PICK bad \in {0, 30, 60} : anReq' = [anReq EXCEPT ![r] = [anReq[r] EXCEPT !.bad = bad]]
    BY <1>4 DEF CheckIPReputation, AnInv
  <2> DEFINE q == [anReq[r] EXCEPT !.bad = bad]
  <2>2. q \in AnRecord /\ q.device = anReq[r].device
    BY AnUpdates DEF AnInv
  <2>3. anReq' = [anReq EXCEPT ![r] = q] /\ anPc' = [anPc EXCEPT ![r] = "push"]
        /\ UNCHANGED <<logins, velocity, hour>> /\ anReq[r].device \in Devices
    BY <1>4, <2>1 DEF CheckIPReputation, AnGoto, AnInv
  <2> HIDE DEF q
  <2>4. /\ anPc' \in [AnReqs -> {"idle", "velocity", "window", "address", "push", "trim"}]
        /\ anReq' \in [AnReqs -> AnRecord]
        /\ \A x \in AnReqs : anPc'[x] # "idle" => anReq'[x].device \in Devices
    BY <2>2, <2>3, AnMoves
  <2> QED
    BY <2>3, <2>4 DEF AnInv
<1>5. ASSUME NEW r \in AnReqs, PushLogin(r)
      PROVE  AnInv'
  <2>1. AttemptOf(anReq[r]) \in LoginAttempts
    BY <1>5 DEF PushLogin, AnInv, AnRecord, AttemptOf, LoginAttempts
  <2>2. <<AttemptOf(anReq[r])>> \o logins \in Seq(LoginAttempts)
    BY <2>1 DEF AnInv
  <2> QED
    BY <1>5, <2>2 DEF PushLogin, AnGoto, AnInv
<1>6. ASSUME NEW r \in AnReqs, TrimLogins(r)
      PROVE  AnInv'
  BY <1>6, NewestLogins, AnIdleIsOne DEF TrimLogins, AnEnds, AnGoto, AnInv
<1>7. CASE HourPasses
  <2>1. hour' \in 0 .. MaxHour
    BY <1>7, AnomalyAssumption DEF HourPasses, AnInv
  <2> QED
    BY <1>7, <2>1 DEF HourPasses, AnInv
<1>8. CASE VelocityEnds
  <2>1. NoAttempts \in [n : 0 .. MaxCount, ttl : BOOLEAN]
    BY AnomalyAssumption DEF NoAttempts
  <2> QED
    BY <1>8, <2>1 DEF VelocityEnds, AnInv
<1>9. CASE UNCHANGED anomalyVars
  BY <1>9 DEF anomalyVars, AnInv
<1> QED
  BY <1>1, <1>2, <1>3, <1>4, <1>5, <1>6, <1>7, <1>8, <1>9 DEF AnomalyNext

LEMMA AnAlways == AnomalySpec => []AnInv
  BY AnStarts, AnStep, PTL DEF AnomalySpec

\* Type correctness of the login history and the counter.
THEOREM AnomalyTypesHold == AnomalySpec => []AnomalyTypeOK
<1>1. AnInv => AnomalyTypeOK
  BY DEF AnInv, AnomalyTypeOK
<1> QED
  BY <1>1, AnAlways, PTL

\* The weights fit the thresholds from both sides, for histories of any length: a
\* login like an earlier one passes, and no signal blocks a login by itself.
THEOREM ScoresAreAlwaysProportionate == AnomalySpec => []ScoresAreProportionate
<1>1. ASSUME AnInv
      PROVE  ScoresAreProportionate
  <2>1. \A r \in AnReqs : anReq[r].n \in Int /\ anReq[r].bad \in {0, 30, 60}
    BY <1>1 DEF AnInv, AnRecord
  <2>2. UsualLoginsPass
    BY <2>1, UsualPasses DEF UsualLoginsPass
  <2>3. OneSignalNeverBlocks
    BY <2>1, BlockTakesTwo DEF OneSignalNeverBlocks
  <2> QED
    BY <2>2, <2>3 DEF ScoresAreProportionate
<1> QED
  BY <1>1, AnAlways, PTL
-----------------------------------------------------------------------------
(***************************************************************************)
(* SafeLogging.  A leaf is masked at the first known field on its path, or  *)
(* in its text; what is left of the path has no secret field but the last.  *)
(***************************************************************************)
\* The leaves of values, and those of details that are absent.
AnyLeaf == [at : Seq(PathSteps), says : {"null", "plain", "address", "absent"}]

LEMMA LeafPlaces ==
  ASSUME NEW x \in AnyLeaf
  PROVE  /\ x.at \in Seq(PathSteps) /\ Len(x.at) \in Nat /\ DOMAIN x.at = 1 .. Len(x.at)
         /\ KnownFields(x) \subseteq Nat /\ Fields(x) \subseteq Nat
  BY DEF AnyLeaf, KnownFields, Fields

LEMMA MaskedTextIsSafe ==
  ASSUME NEW x \in AnyLeaf, KnownFields(x) = {}
  PROVE  ~Shows(MaskText(x))
<1>1. MaskText(x).at = x.at /\ MaskText(x).says # "address"
  BY DEF MaskText, AnyLeaf, MaskString
<1> QED
  BY <1>1 DEF Shows, KnownFields, Known

\* A field that is masked may be secret; those around it are not.
LEMMA MaskedFieldIsSafe ==
  ASSUME NEW x \in AnyLeaf, NEW k \in DOMAIN x.at, x.at[k] \in Known,
         \A j \in DOMAIN x.at : x.at[j] = "secret" => ~(j < k)
  PROVE  ~Shows(MaskField(x, k))
<1>1. x.at \in Seq(PathSteps) /\ Len(x.at) \in Nat /\ DOMAIN x.at = 1 .. Len(x.at)
  BY LeafPlaces
<1>2. CASE k = Len(x.at) /\ x.says = "null"
  <2>1. MaskField(x, k) = x
    BY <1>2 DEF MaskField
  <2>2. ASSUME NEW j \in DOMAIN x.at, x.at[j] = "secret" PROVE j = Len(x.at)
    BY <1>1, <1>2, <2>2
  <2> QED
    BY <1>2, <2>1, <2>2 DEF Shows
<1>3. CASE ~(k = Len(x.at) /\ x.says = "null")
  <2> DEFINE y == MaskField(x, k)
  <2>1. /\ y.at = SubSeq(x.at, 1, k)
        /\ y.says = (IF x.at[k] = "secret" THEN "[REDACTED]" ELSE "masked")
    BY <1>3 DEF MaskField, MaskPiiValue
  <2>2. DOMAIN y.at = 1 .. k /\ Len(y.at) = k /\ \A j \in 1 .. k : y.at[j] = x.at[j]
    BY <1>1, <2>1
  <2> HIDE DEF y
  <2>3. y.says # "address"
    BY <2>1
  <2>4. ASSUME NEW j \in DOMAIN y.at, y.at[j] = "secret"
        PROVE  j = Len(y.at) /\ y.says = "[REDACTED]"
    <3>1. j \in 1 .. k /\ j \in DOMAIN x.at /\ x.at[j] = "secret"
      BY <1>1, <2>2, <2>4
    <3>2. j = k
      BY <1>1, <3>1
    <3> QED
      BY <2>1, <2>2, <3>1, <3>2
  <2>5. ~Shows(y)
    BY <2>3, <2>4 DEF Shows
  <2> QED
    BY <2>5 DEF y
<1> QED
  BY <1>2, <1>3

\* maskDeep leaves nothing to be seen, however deep.
LEMMA DeepIsSafe ==
  ASSUME NEW x \in AnyLeaf
  PROVE  ~Shows(MaskDeepLeaf(x))
<1>1. CASE KnownFields(x) = {}
  BY <1>1, MaskedTextIsSafe DEF MaskDeepLeaf
<1>2. CASE KnownFields(x) # {}
  <2> DEFINE k == Min(KnownFields(x))
  <2>1. k \in KnownFields(x) /\ \A j \in KnownFields(x) : ~(j < k)
    BY <1>2, LeafPlaces, MinIsLeast
  <2>2. MaskDeepLeaf(x) = MaskField(x, k)
    BY <1>2 DEF MaskDeepLeaf
  <2> HIDE DEF k
  <2>3. /\ k \in DOMAIN x.at /\ x.at[k] \in Known
        /\ \A j \in DOMAIN x.at : x.at[j] = "secret" => ~(j < k)
    BY <2>1 DEF KnownFields, Known
  <2> QED
    BY <2>2, <2>3, MaskedFieldIsSafe
<1> QED
  BY <1>1, <1>2

\* The logger's own masking leaves what is in other fields, and in an Error.
LEMMA LoggerIsSafe ==
  ASSUME NEW x \in AnyLeaf, Shows(MaskPiiInLeaf(x))
  PROVE  OutOfReach(MaskPiiInLeaf(x))
<1>1. CASE Fields(x) = {}
  <2>1. KnownFields(x) = {}
    BY <1>1 DEF Fields, KnownFields, Known
  <2> QED
    BY <1>1, <2>1, MaskedTextIsSafe DEF MaskPiiInLeaf
<1>2. CASE Fields(x) # {}
  <2> DEFINE k == Min(Fields(x))
  <2>1. k \in Fields(x) /\ \A j \in Fields(x) : ~(j < k)
    BY <1>2, LeafPlaces, MinIsLeast
  <2>2. MaskPiiInLeaf(x) = IF x.at[k] \in Known THEN MaskField(x, k) ELSE x
    BY <1>2 DEF MaskPiiInLeaf
  <2> HIDE DEF k
  <2>3. x.at[k] \in PathSteps \ {"item"}
    <3>1. k \in DOMAIN x.at /\ x.at[k] # "item"
      BY <2>1 DEF Fields
    <3>2. x.at \in Seq(PathSteps) /\ k \in 1 .. Len(x.at)
      BY <3>1, LeafPlaces
    <3> QED
      BY <3>1, <3>2
  <2>4. CASE x.at[k] \in Known
    <3>1. /\ k \in DOMAIN x.at
          /\ \A j \in DOMAIN x.at : x.at[j] = "secret" => ~(j < k)
      BY <2>1 DEF Fields
    <3> QED
      BY <2>2, <2>4, <3>1, MaskedFieldIsSafe
  <2>5. CASE x.at[k] \notin Known
    <3>1. MaskPiiInLeaf(x) = x /\ x.at[k] \in {"error", "other"}
      BY <2>2, <2>3, <2>5 DEF PathSteps
    <3> QED
      BY <1>2, <3>1 DEF OutOfReach, k
  <2> QED
    BY <2>4, <2>5
<1> QED
  BY <1>1, <1>2

\* A value never turns into one that is absent.
LEMMA DetailsStay ==
  ASSUME NEW d \in GivenDetails
  PROVE  /\ d \subseteq AnyLeaf
         /\ d # Absent => MaskPiiInValue(d) # Absent
<1> DEFINE nothing == [at |-> <<>>, says |-> "absent"]
<1>1. nothing \in AnyLeaf /\ nothing.says = "absent"
  BY DEF AnyLeaf
<1>2. Absent = {nothing}
  BY DEF Absent, Text
<1> HIDE DEF nothing
<1>3. CASE d = Absent
  BY <1>1, <1>2, <1>3
<1>4. CASE d # Absent
  <2>1. d \subseteq Leaf
    <3>1. Null \subseteq Leaf
      BY DEF Null, Text, Leaf
    <3> QED
      BY <1>4, <3>1, LoggingAssumption DEF GivenDetails, LoggingAssumption
  <2>2. Leaf \subseteq AnyLeaf /\ \A x \in Leaf : x.says # "absent"
    BY DEF Leaf, AnyLeaf
  <2>3. ASSUME NEW x \in d PROVE MaskPiiInLeaf(x).says # "absent"
    <3>1. x.says # "absent" /\ x \in Leaf
      BY <2>1, <2>2
    <3>2. MaskText(x).says # "absent"
      BY <3>1 DEF MaskText, MaskString, Leaf
    <3>3. \A k : MaskField(x, k).says # "absent"
      BY <3>1 DEF MaskField, MaskPiiValue
    <3> QED
      BY <3>1, <3>2, <3>3 DEF MaskPiiInLeaf
  <2>4. nothing \notin MaskPiiInValue(d)
    BY <1>1, <2>3 DEF MaskPiiInValue
  <2> QED
    BY <1>2, <1>4, <2>1, <2>2, <2>4
<1> QED
  BY <1>3, <1>4

\* Masked texts, of whatever leaves, show no address.
LEMMA MaskedTexts ==
  ASSUME NEW v, v \subseteq AnyLeaf
  PROVE  \A x \in MaskTexts(v) : x.says # "address"
<1> SUFFICES ASSUME NEW x \in v PROVE MaskText(x).says # "address"
  BY DEF MaskTexts
<1>1. x \in AnyLeaf
  OBVIOUS
<1> QED
  BY <1>1 DEF MaskText, AnyLeaf, MaskString

\* JSON.stringify of a message object: leaves again, somewhat deeper.
LEMMA JsonLeaves ==
  ASSUME NEW m \in LogMessages, m.form \notin TextForms, NEW own \in GivenDetails
  PROVE  m.is \subseteq AnyLeaf /\ Json(m, own) \subseteq AnyLeaf
<1>1. m.is \subseteq AnyLeaf
  <2>1. m.is \in Objects
    BY DEF LogMessages
  <2> QED
    BY <2>1, LoggingAssumption DEF LoggingAssumption, Leaf, AnyLeaf
<1>2. ASSUME NEW v, v \subseteq AnyLeaf PROVE Inside(v) \subseteq AnyLeaf
  <2> SUFFICES ASSUME NEW x \in v PROVE [at |-> <<"other">> \o x.at, says |-> x.says] \in AnyLeaf
    BY DEF Inside
  <2>1. x.at \in Seq(PathSteps) /\ x.says \in {"null", "plain", "address", "absent"}
    BY <1>2 DEF AnyLeaf
  <2>2. <<"other">> \in Seq(PathSteps)
    BY DEF PathSteps
  <2>3. <<"other">> \o x.at \in Seq(PathSteps)
    BY <2>1, <2>2
  <2> QED
    BY <2>1, <2>3 DEF AnyLeaf
<1>3. Inside(m.is) \subseteq AnyLeaf /\ Inside(own) \subseteq AnyLeaf
  BY <1>1, <1>2, DetailsStay
<1> QED
  BY <1>1, <1>3 DEF Json

\* What each form of a message may show.
LEMMA TextsAreSafe ==
  ASSUME NEW m \in LogMessages, m.form \in TextForms
  PROVE  \A x \in MaskTexts(m.is) : ~Shows(x)
<1>1. m.is \in {Text("plain"), Text("address")}
  BY DEF LogMessages, TextForms, LogTexts
<1> SUFFICES ASSUME NEW y \in m.is PROVE ~Shows(MaskText(y))
  BY DEF MaskTexts
<1>2. y.at = <<>> /\ y.says \in {"plain", "address"}
  BY <1>1 DEF Text
<1>3. y = [at |-> <<>>, says |-> y.says]
  BY <1>1 DEF Text
<1>4. MaskText(y).at = <<>> /\ MaskText(y).says # "address"
  BY <1>2, <1>3 DEF MaskText, MaskString
<1> QED
  BY <1>4 DEF Shows

MessageIsSafe(level, form, message) ==
  \A x \in message :
    Shows(x) => \/ form = "nested"
                \/ form = "untold" /\ (x.says = "address" => level = "info")

LEMMA FormIsOne ==
  ASSUME NEW m \in LogMessages
  PROVE  m.form \in TextForms \/ m.form = "untold" \/ m.form = "nested"
  BY DEF LogMessages

LEMMA InfoIsSafe ==
  ASSUME NEW m \in LogMessages, NEW own \in GivenDetails
  PROVE  MessageIsSafe("info", m.form, InfoMessage(m, own))
  BY FormIsOne, TextsAreSafe DEF InfoMessage, MessageIsSafe

LEMMA WarnOrErrorIsSafe ==
  ASSUME NEW m \in LogMessages, NEW own \in GivenDetails, NEW level
  PROVE  MessageIsSafe(level, m.form, WarnOrErrorMessage(m, own))
<1>1. CASE m.form \in TextForms
  <2>1. m.form # "nested" /\ m.form # "untold"
    BY <1>1 DEF TextForms
  <2>2. WarnOrErrorMessage(m, own) = MaskTexts(m.is)
    BY <2>1 DEF WarnOrErrorMessage
  <2> QED
    BY <1>1, <2>2, TextsAreSafe DEF MessageIsSafe
<1>2. CASE m.form = "untold"
  <2>1. WarnOrErrorMessage(m, own) = MaskTexts(Json(m, own))
    BY <1>2 DEF WarnOrErrorMessage
  <2>2. Json(m, own) \subseteq AnyLeaf
    BY <1>2, JsonLeaves DEF TextForms
  <2> QED
    BY <1>2, <2>1, <2>2, MaskedTexts DEF MessageIsSafe
<1>3. CASE m.form = "nested"
  BY <1>3 DEF MessageIsSafe
<1> QED
  BY <1>1, <1>2, <1>3, FormIsOne

\* The answer of the logger, whichever way a call has: with the details given, or, by a
\* third argument that is null, with none.
LEMMA WriteIsSafe ==
  ASSUME NEW level \in {"info", "warn", "error"}, NEW m \in LogMessages,
         NEW d \in GivenDetails, NEW third, NEW message, NEW e \in GivenDetails,
         MessageIsSafe(level, m.form, message),
         d \in {Absent, Null} => e \in {Absent, Null},
         d \notin {Absent, Null} /\ third # Null => e = d,
         Write(level, m, d, third, message, e)
  PROVE  EntriesAreSafe' /\ LoggingTypeOK'
<1> DEFINE details == IF e = Null THEN Absent ELSE MaskPiiInValue(e)
<1>1. /\ logged'.message = message /\ logged'.details = details
      /\ logged'.body = Absent /\ logged'.response = Absent /\ logged'.failure = "none"
      /\ call'.by = level /\ call'.form = m.form /\ call'.given = d /\ call'.third = third
  BY DEF Write, NoEntry
<1>2. Absent \in GivenDetails /\ MaskPiiInValue(Absent) = Absent
  <2>1. ASSUME NEW x \in Absent PROVE MaskPiiInLeaf(x) = x
    <3>1. x = [at |-> <<>>, says |-> "absent"]
      BY <2>1 DEF Absent, Text
    <3>2. Fields(x) = {} /\ MaskText(x) = x
      BY <3>1 DEF Fields, MaskText, MaskString
    <3> QED
      BY <3>2 DEF MaskPiiInLeaf
  <2> QED
    BY <2>1 DEF MaskPiiInValue, GivenDetails
<1>3. \A x \in Absent : ~Shows(x)
  BY DEF Absent, Text, Shows
<1>4. \A x \in details : Shows(x) => OutOfReach(x)
  <2>1. \A x \in MaskPiiInValue(e) : Shows(x) => OutOfReach(x)
    BY DetailsStay, LoggerIsSafe DEF MaskPiiInValue
  <2> QED
    BY <1>3, <2>1
<1>5. d \in {Absent, Null} => details = Absent
  BY <1>2
<1>6. d \notin {Absent, Null} /\ third # Null => details # Absent
  BY DetailsStay
<1> HIDE DEF details
<1>7. m.form \in TextForms \cup {"none", "untold", "nested"}
  BY FormIsOne
<1>8. NothingKnownIsShown'
  BY <1>1, <1>3, <1>4 DEF NothingKnownIsShown, MessageIsSafe
<1>9. DetailsAreWritten'
  BY <1>1, <1>5, <1>6 DEF DetailsAreWritten
<1> QED
  BY <1>1, <1>7, <1>8, <1>9 DEF EntriesAreSafe, LoggingTypeOK

LEMMA SanitizedIsSafe ==
  ASSUME NEW v \in SUBSET Leaf
  PROVE  \A x \in SanitizePayload(v) : ~Shows(x)
<1>1. Leaf \subseteq AnyLeaf
  BY DEF Leaf, AnyLeaf
<1>2. CASE v = Text("null")
  <2>1. \A x \in Text("null") : ~Shows(x)
    BY DEF Text, Shows
  <2> QED
    BY <1>2, <2>1 DEF SanitizePayload
<1>3. CASE v # Text("null")
  BY <1>1, <1>3, DeepIsSafe DEF SanitizePayload, MaskDeep
<1> QED
  BY <1>2, <1>3

LEMMA InterceptorIsSafe ==
  ASSUME LogRequest \/ LogFailure
  PROVE  EntriesAreSafe' /\ LoggingTypeOK'
<1>1. \A x \in Absent : ~Shows(x)
  BY DEF Absent, Text, Shows
<1>2. CASE LogRequest
  <2>1. PICK body \in Payloads, answer \in Responses :
          /\ call' = [NoCall EXCEPT !.by = "interceptor", !.given = body]
          /\ logged' = [NoEntry EXCEPT !.body = SanitizePayload(body),
                                       !.response = SanitizePayload(answer)]
    BY <1>2 DEF LogRequest
  <2>2. body \in SUBSET Leaf /\ answer \in SUBSET Leaf
    BY LoggingAssumption DEF LoggingAssumption
  <2>3. /\ call'.by = "interceptor" /\ call'.form = "none"
        /\ logged'.message = Absent /\ logged'.failure = "none"
        /\ logged'.details = Absent /\ logged'.body = SanitizePayload(body)
        /\ logged'.response = SanitizePayload(answer)
    BY <2>1 DEF NoEntry, NoCall
  <2> QED
    BY <1>1, <2>2, <2>3, SanitizedIsSafe
       DEF EntriesAreSafe, NothingKnownIsShown, DetailsAreWritten, LoggingTypeOK
<1>3. CASE LogFailure
  <2>1. PICK body \in Payloads, by \in {"error", "thrown"}, says \in {"plain", "address"} :
          /\ call' = [NoCall EXCEPT !.by = IF by = "error" THEN "interceptor of error"
                                                           ELSE "interceptor of thrown",
                                    !.given = body]
          /\ logged' = [NoEntry EXCEPT !.body = SanitizePayload(body),
                                       !.failure = IF by = "error" THEN MaskString(says)
                                                                   ELSE says]
    BY <1>3 DEF LogFailure
  <2>2. body \in SUBSET Leaf
    BY LoggingAssumption DEF LoggingAssumption
  <2>3. /\ call'.by \in {"interceptor of error", "interceptor of thrown"}
        /\ call'.form = "none"
        /\ logged'.message = Absent /\ logged'.details = Absent /\ logged'.response = Absent
        /\ logged'.body = SanitizePayload(body)
    BY <2>1 DEF NoEntry, NoCall
  <2>4. /\ logged'.failure = "address" => call'.by = "interceptor of thrown"
        /\ logged'.failure \in {"plain", "masked", "address"}
    BY <2>1 DEF NoEntry, NoCall, MaskString
  <2> QED
    BY <1>1, <2>2, <2>3, <2>4, SanitizedIsSafe
       DEF EntriesAreSafe, NothingKnownIsShown, DetailsAreWritten, LoggingTypeOK
<1> QED
  BY <1>2, <1>3

\* Which of its arguments warn and error take for the details.
LEMMA ThirdArguments ==
  ~IsObject(Absent) /\ ~IsObject(Stack) /\ IsObject(Null) /\ Absent # Null
<1>1. ASSUME NEW says, says # "null" PROVE ~IsObject(Text(says)) /\ Text(says) # Null
  <2>1. [at |-> <<>>, says |-> says] \in Text(says)
    BY DEF Text
  <2>2. [at |-> <<>>, says |-> says].at = <<>> /\ [at |-> <<>>, says |-> says].says = says
    OBVIOUS
  <2>3. \A x \in Null : x.says = "null"
    BY DEF Null, Text
  <2> QED
    BY <1>1, <2>1, <2>2, <2>3 DEF IsObject
<1>2. Absent = Text("absent") /\ Stack = Text("stack")
  BY DEF Absent, Stack
<1>3. ~IsObject(Text("absent")) /\ Text("absent") # Null
  BY <1>1
<1>4. ~IsObject(Text("stack"))
  BY <1>1
<1> QED
  BY <1>2, <1>3, <1>4 DEF IsObject

LEMMA DetailsTaken ==
  ASSUME NEW m \in LogMessages, NEW d \in GivenDetails
  PROVE  /\ \A third \in {Absent, Stack, Null} :
              /\ m.form # "text" =>
                   WarnOrError(m, d, third, Absent) = IF third = Null THEN Null ELSE d
              /\ WarnOrError(m, Absent, third, d) \in {d, third} \cup {Absent}
              /\ third # Null =>
                   \/ WarnOrError(m, Absent, third, d) = d
                   \/ d = Null /\ WarnOrError(m, Absent, third, d) = Absent
              /\ third = Null => WarnOrError(m, Absent, third, d) \in {d, Null}
         /\ IsObject(d) => WarnOrError(m, Absent, d, Absent) = d
<1>1. ASSUME NEW third \in {Absent, Stack, Null}
      PROVE  IsObject(third) <=> third = Null
  BY ThirdArguments
<1>2. ASSUME NEW third \in {Absent, Stack, Null}
      PROVE  m.form # "text" =>
               WarnOrError(m, d, third, Absent) = IF third = Null THEN Null ELSE d
  BY <1>1 DEF WarnOrError, ObjectDetails
<1>3. ASSUME NEW third \in {Absent, Stack, Null}
      PROVE  /\ WarnOrError(m, Absent, third, d) \in {d, third} \cup {Absent}
             /\ third # Null =>
                  \/ WarnOrError(m, Absent, third, d) = d
                  \/ d = Null /\ WarnOrError(m, Absent, third, d) = Absent
             /\ third = Null => WarnOrError(m, Absent, third, d) \in {d, Null}
  BY <1>1 DEF WarnOrError, ObjectDetails, TextDetails
<1>4. IsObject(d) => WarnOrError(m, Absent, d, Absent) = d
  BY DEF WarnOrError, ObjectDetails, TextDetails
<1> QED
  BY <1>2, <1>3, <1>4

LEMMA WarnOrErrorStep ==
  ASSUME LogWarnOrError
  PROVE  EntriesAreSafe' /\ LoggingTypeOK'
<1>1. PICK level \in {"warn", "error"}, m \in LogMessages, d \in GivenDetails,
           third \in {Absent, Stack, Null} :
        \/ /\ m.form # "text"
           /\ Write(level, m, d, third, WarnOrErrorMessage(m, d), WarnOrError(m, d, third, Absent))
        \/ Write(level, m, d, third, WarnOrErrorMessage(m, Absent), WarnOrError(m, Absent, third, d))
        \/ /\ IsObject(d)
           /\ Write(level, m, d, d, WarnOrErrorMessage(m, Absent), WarnOrError(m, Absent, d, Absent))
  BY DEF LogWarnOrError
<1>2. Absent \in GivenDetails /\ Null \in GivenDetails
  BY DEF GivenDetails
<1>3. /\ MessageIsSafe(level, m.form, WarnOrErrorMessage(m, d))
      /\ MessageIsSafe(level, m.form, WarnOrErrorMessage(m, Absent))
  BY <1>2, WarnOrErrorIsSafe
<1>4. CASE /\ m.form # "text"
           /\ Write(level, m, d, third, WarnOrErrorMessage(m, d), WarnOrError(m, d, third, Absent))
  <2> DEFINE e == WarnOrError(m, d, third, Absent)
  <2>1. e = IF third = Null THEN Null ELSE d
    BY <1>4, DetailsTaken
  <2>2. e \in GivenDetails /\ (d \in {Absent, Null} => e \in {Absent, Null})
        /\ (third # Null => e = d)
    BY <1>2, <2>1
  <2>3. Write(level, m, d, third, WarnOrErrorMessage(m, d), e)
    BY <1>4
  <2> HIDE DEF e
  <2> QED
    BY <1>3, <2>2, <2>3, WriteIsSafe
<1>5. CASE Write(level, m, d, third, WarnOrErrorMessage(m, Absent), WarnOrError(m, Absent, third, d))
  <2> DEFINE e == WarnOrError(m, Absent, third, d)
  <2>1. /\ third # Null => e = d \/ (d = Null /\ e = Absent)
        /\ third = Null => e \in {d, Null}
    BY DetailsTaken
  <2>2. Write(level, m, d, third, WarnOrErrorMessage(m, Absent), e)
    BY <1>5
  <2> HIDE DEF e
  <2>3. /\ e \in GivenDetails
        /\ d \in {Absent, Null} => e \in {Absent, Null}
        /\ d \notin {Absent, Null} /\ third # Null => e = d
    BY <1>2, <2>1
  <2> QED
    BY <1>3, <2>2, <2>3, WriteIsSafe
<1>6. CASE /\ IsObject(d)
           /\ Write(level, m, d, d, WarnOrErrorMessage(m, Absent), WarnOrError(m, Absent, d, Absent))
  <2>1. Write(level, m, d, d, WarnOrErrorMessage(m, Absent), d)
    BY <1>6, DetailsTaken
  <2> QED
    BY <1>3, <2>1, WriteIsSafe
<1> QED
  BY <1>1, <1>4, <1>5, <1>6

LEMMA LogStep ==
  ASSUME EntriesAreSafe /\ LoggingTypeOK, [LoggingNext]_loggingVars
  PROVE  EntriesAreSafe' /\ LoggingTypeOK'
<1>1. CASE UNCHANGED loggingVars
  BY <1>1 DEF loggingVars, EntriesAreSafe, NothingKnownIsShown, DetailsAreWritten, LoggingTypeOK
<1>2. CASE Written
  <2>1. logged' = NoEntry /\ call' = NoCall /\ \A x \in Absent : ~Shows(x)
    BY <1>2 DEF Written, Absent, Text, Shows
  <2> QED
    BY <2>1 DEF NoEntry, NoCall, EntriesAreSafe, NothingKnownIsShown, DetailsAreWritten,
                LoggingTypeOK
<1>3. CASE LogInfo
  <2>1. PICK m \in LogMessages, d \in GivenDetails :
          Write("info", m, d, Absent, InfoMessage(m, IF m.form = "text" THEN Absent ELSE d), d)
    BY <1>3 DEF LogInfo
  <2> DEFINE own == IF m.form = "text" THEN Absent ELSE d
  <2>2. own \in GivenDetails
    BY DEF GivenDetails
  <2>3. Write("info", m, d, Absent, InfoMessage(m, own), d)
    BY <2>1
  <2> HIDE DEF own
  <2>4. MessageIsSafe("info", m.form, InfoMessage(m, own))
    BY <2>2, InfoIsSafe
  <2> QED
    BY <2>3, <2>4, WriteIsSafe
<1>4. CASE LogWarnOrError
  BY <1>4, WarnOrErrorStep
<1>5. CASE LogRequest \/ LogFailure
  BY <1>5, InterceptorIsSafe
<1> QED
  BY <1>1, <1>2, <1>3, <1>4, <1>5 DEF LoggingNext

LEMMA LogAlways == LoggingSpec => [](EntriesAreSafe /\ LoggingTypeOK)
<1>1. LoggingInit => EntriesAreSafe /\ LoggingTypeOK
  <2>1. \A x \in Absent : ~Shows(x)
    BY DEF Absent, Text, Shows
  <2> QED
    BY <2>1 DEF LoggingInit, NoEntry, NoCall, EntriesAreSafe, NothingKnownIsShown,
                DetailsAreWritten, LoggingTypeOK
<1> QED
  BY <1>1, LogStep, PTL DEF LoggingSpec

\* Type correctness of the entries.
THEOREM LoggingTypesHold == LoggingSpec => []LoggingTypeOK
  BY LogAlways, PTL

\* For bodies, responses and details of any depth and size: no entry shows an address or
\* a secret of a request, nor one of a text that is a call's message, nor one of its
\* details in a field known by its name; and details that a call gives are written.  The
\* exceptions are those of the property: message objects without a text, Errors, fields
\* with other names, and details beside a third argument that is null.
THEOREM EntriesAreAlwaysSafe == LoggingSpec => []EntriesAreSafe
  BY LogAlways, PTL
-----------------------------------------------------------------------------
(* The components side by side *)

LEMMA OneServiceMoves ==
  [Next]_mcVars =>
    /\ [FamiliesNext]_familyVars /\ [AnomalyNext]_anomalyVars /\ [AccessNext]_accessVars
    /\ [LimitsNext]_limitVars /\ [GeoNext]_geoVars /\ [CsrfNext]_csrfVars
    /\ [ActivityNext]_activityVars /\ [DeliveryNext]_deliveryVars /\ [ErrorsNext]_errorVars
    /\ [LoggingNext]_loggingVars /\ [PagesNext]_pageVars /\ [PasswordNext]_verdict
<1> SUFFICES ASSUME [Next]_mcVars
             PROVE  /\ [FamiliesNext]_familyVars /\ [AnomalyNext]_anomalyVars
                    /\ [AccessNext]_accessVars /\ [LimitsNext]_limitVars /\ [GeoNext]_geoVars
                    /\ [CsrfNext]_csrfVars /\ [ActivityNext]_activityVars
                    /\ [DeliveryNext]_deliveryVars /\ [ErrorsNext]_errorVars
                    /\ [LoggingNext]_loggingVars /\ [PagesNext]_pageVars
                    /\ [PasswordNext]_verdict
  OBVIOUS
<1>1. CASE UNCHANGED mcVars
  BY <1>1 DEF mcVars, A, B, C, D
<1>2. CASE Next
  BY <1>2 DEF Next, A, B, C, D
<1> QED
  BY <1>1, <1>2

\* The module that runs the components side by side is faithful to each of them: its
\* behaviours are behaviours of every one, so that every theorem about one is about it.
THEOREM EachServiceKeepsItsSpec ==
  Spec => /\ FamiliesSpec /\ AnomalySpec /\ AccessSpec /\ LimitsSpec /\ GeoSpec /\ CsrfSpec
          /\ ActivitySpec /\ DeliverySpec /\ ErrorsSpec
          /\ LoggingSpec /\ PagesSpec /\ PasswordSpec
<1>1. Init => /\ FamiliesInit /\ AnomalyInit /\ AccessInit /\ LimitsInit /\ GeoInit /\ CsrfInit
              /\ ActivityInit /\ DeliveryInit /\ ErrorsInit
              /\ LoggingInit /\ PagesInit /\ PasswordInit
  BY DEF Init
<1> QED
  BY <1>1, OneServiceMoves, PTL
     DEF Spec, FamiliesSpec, AnomalySpec, AccessSpec, LimitsSpec, GeoSpec, CsrfSpec,
         ActivitySpec, DeliverySpec, ErrorsSpec, LoggingSpec, PagesSpec, PasswordSpec

\* Type correctness of run services: of the twelve components it takes up.
THEOREM ServiceTypesHold == Spec => []TypeOK
  BY EachServiceKeepsItsSpec, FamiliesTypes, AnomalyTypesHold, AccessTypesHold,
     LimitsTypesHold, GeoTypesHold, CsrfTypesHold, ActivityTypesHold, DeliveryTypesHold,
     ErrorTypesHold, LoggingTypesHold, PagesTypes, PasswordTypesHold, PTL DEF TypeOK
=============================================================================
