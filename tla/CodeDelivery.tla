----------------------------- MODULE CodeDelivery -----------------------------
(***************************************************************************)
(* How a one-time code reaches its user: EmailServiceAdapter hands it to    *)
(* the BullMQ queue, whose processor mails it, or in development to a       *)
(* Redis key that the viewer page lists.  The codes 1, 2, ... are issued in *)
(* this order.  A command may be executed and its answer lost; a mail may   *)
(* be sent and reported as failed; a worker may die with a job in its hands, *)
(* which BullMQ then hands out once more.                                   *)
(***************************************************************************)
EXTENDS Integers, FiniteSets

CONSTANTS Addresses,
          MaxCodes,        \* bound: codes that are issued
          MaxTries,     \* queue.email.maxAttempts
          MaxStalls        \* how often BullMQ hands out the job of a dead worker

ASSUME DeliveryAssumption ==
  MaxCodes \in Nat /\ MaxTries \in Nat \ {0} /\ MaxStalls \in Nat

VARIABLES
  development,     \* NODE_ENV = 'development'
  issued,          \* the codes issued so far
  told,            \* what the use case was told of each: "none", "ok", "error"
  job,             \* the job of each code
  devOtp,          \* dev:otp:<address>: a code, or 0
  viewPc, viewTodo, viewSeen,     \* a request of the viewer page
  mustGo           \* history: codes a "clear all" has to clear

deliveryVars == <<development, issued, told, job, devOtp, viewPc, viewTodo, viewSeen, mustGo>>
viewVars == <<viewPc, viewTodo, viewSeen, mustGo>>

Codes == 1 .. MaxCodes
NoJob == [state |-> "none", tries |-> 0, stalls |-> 0, mailed |-> FALSE]
Waiting == [NoJob EXCEPT !.state = "waiting"]

DeliveryInit ==
  /\ development \in BOOLEAN
  /\ issued = 0 /\ told = [c \in Codes |-> "none"]
  /\ job = [c \in Codes |-> NoJob]
  /\ devOtp = [a \in Addresses |-> 0]
  /\ viewPc = "idle" /\ viewTodo = {} /\ viewSeen = {} /\ mustGo = {}
-----------------------------------------------------------------------------
(* sendOtpEmail: done and answered; done, and the answer lost; not done *)

Outcomes == {<<TRUE, "ok">>, <<TRUE, "error">>, <<FALSE, "error">>}

\* Mutant: the failure is logged, and that is all.
ToldAnyway(answer) == "ok"
\* Every layer logs the failure and throws it on, as EmailServiceError at the end.
Told(answer) == answer

AddOtpEmailJob(c, done) ==
  job' = IF done THEN [job EXCEPT ![c] = Waiting] ELSE job

StoreOtp(a, c, done) ==
  devOtp' = IF done THEN [devOtp EXCEPT ![a] = c] ELSE devOtp

SendOtpEmail(a) ==
  LET c == issued + 1 IN
  /\ issued < MaxCodes /\ issued' = c
  /\ \E x \in Outcomes :
       /\ told' = [told EXCEPT ![c] = Told(x[2])]
       /\ IF development THEN StoreOtp(a, c, x[1]) /\ UNCHANGED job
                         ELSE AddOtpEmailJob(c, x[1]) /\ UNCHANGED devOtp
  /\ mustGo' = mustGo \ {devOtp[a]}
  /\ UNCHANGED <<development, viewPc, viewTodo, viewSeen>>
-----------------------------------------------------------------------------
(* BullMQ and EmailQueueProcessor *)

JobChanges(c, x) ==
  /\ job' = [job EXCEPT ![c] = x]
  /\ UNCHANGED <<development, issued, told, devOtp, viewVars>>

WorkerTakes(c) ==
  /\ job[c].state = "waiting"
  /\ JobChanges(c, [job[c] EXCEPT !.state = "active", !.tries = @ + 1])

\* Mutant: the error is logged and not thrown on, so that the job completes.
AfterErrorDone(x) == "sent"
\* Mutant: a job is given up at its first failure.
LastTryAlways(tries) == TRUE
LastTry(tries) == tries = MaxTries

\* process() throws: BullMQ tries again after a delay, or keeps the failed job.
AfterError(x) == IF LastTry(x.tries) THEN "failed" ELSE "delayed"

ProcessOtpEmail(c) ==
  /\ job[c].state = "active"
  /\ JobChanges(c, [job[c] EXCEPT !.mailed = TRUE, !.state = "sent"])
\* The mail server refuses, or takes the mail and fails to say so.
ProcessFails(c) ==
  /\ job[c].state = "active"
  /\ \E m \in {job[c].mailed, TRUE} :
       JobChanges(c, [job[c] EXCEPT !.mailed = m, !.state = AfterError(job[c])])
\* Mutant: the failed job is added to the queue anew.
DelayEndsAfresh(c) ==
  /\ job[c].state = "delayed"
  /\ JobChanges(c, Waiting)
DelayEnds(c) ==
  /\ job[c].state = "delayed"
  /\ JobChanges(c, [job[c] EXCEPT !.state = "waiting"])
\* removeOnComplete: the record goes.
JobCompletes(c) ==
  /\ job[c].state = "sent"
  /\ JobChanges(c, [job[c] EXCEPT !.state = "done"])
\* The worker dies before or after the mail; its attempt does not count.
WorkerDies(c) ==
  /\ job[c].state \in {"active", "sent"}
  /\ JobChanges(c, [job[c] EXCEPT !.stalls = @ + 1, !.tries = @ - 1,
                      !.state = IF job[c].stalls = MaxStalls THEN "failed" ELSE "waiting"])
-----------------------------------------------------------------------------
(* The viewer: KEYS, then a GET or a DEL per key *)

DevOtpExpires(a) ==
  /\ devOtp[a] # 0 /\ devOtp' = [devOtp EXCEPT ![a] = 0]
  /\ mustGo' = mustGo \ {devOtp[a]}
  /\ UNCHANGED <<development, issued, told, job, viewPc, viewTodo, viewSeen>>

StoredAddresses == {a \in Addresses : devOtp[a] # 0}

GetAllOtps ==
  /\ development /\ viewPc = "idle"
  /\ viewPc' = "list" /\ viewTodo' = StoredAddresses
  /\ UNCHANGED <<development, issued, told, job, devOtp, viewSeen, mustGo>>
\* A key that has expired meanwhile, and a GET that fails, is left out.
ListOne ==
  /\ viewPc = "list"
  /\ \E a \in viewTodo :
       /\ viewTodo' = viewTodo \ {a}
       /\ \E c \in {devOtp[a], 0} : viewSeen' = IF c = 0 THEN viewSeen ELSE viewSeen \cup {c}
  /\ UNCHANGED <<development, issued, told, job, devOtp, viewPc, mustGo>>

ClearAll ==
  /\ development /\ viewPc = "idle"
  /\ viewPc' = "clear" /\ viewTodo' = StoredAddresses
  /\ mustGo' = {devOtp[a] : a \in StoredAddresses}
  /\ UNCHANGED <<development, issued, told, job, devOtp, viewSeen>>
\* Mutant: the loop ends after the first key.
RestNone(a) == {}
Rest(a) == viewTodo \ {a}
\* A DEL that fails is swallowed.
ClearOne ==
  /\ viewPc = "clear"
  /\ \E a \in viewTodo :
       /\ viewTodo' = Rest(a)
       /\ \/ devOtp' = [devOtp EXCEPT ![a] = 0] /\ UNCHANGED mustGo
          \/ UNCHANGED devOtp /\ mustGo' = mustGo \ {devOtp[a]}
  /\ UNCHANGED <<development, issued, told, job, viewPc, viewSeen>>

ViewAnswered ==
  /\ viewPc # "idle" /\ viewTodo = {}
  /\ viewPc' = "idle" /\ viewSeen' = {} /\ mustGo' = {}
  /\ UNCHANGED <<development, issued, told, job, devOtp, viewTodo>>
-----------------------------------------------------------------------------
DeliveryStep(c) ==
  \/ WorkerTakes(c) \/ ProcessOtpEmail(c) \/ ProcessFails(c) \/ DelayEnds(c) \/ JobCompletes(c)

DeliveryNext ==
  \/ \E a \in Addresses : SendOtpEmail(a) \/ DevOtpExpires(a)
  \/ \E c \in Codes : DeliveryStep(c) \/ WorkerDies(c)
  \/ GetAllOtps \/ ListOne \/ ClearAll \/ ClearOne \/ ViewAnswered

DeliverySpec == DeliveryInit /\ [][DeliveryNext]_deliveryVars
-----------------------------------------------------------------------------
(* Properties *)

DeliveryTypeOK ==
  /\ issued \in 0 .. MaxCodes /\ told \in [Codes -> {"none", "ok", "error"}]
  /\ \A c \in Codes : /\ job[c].state \in {"none", "waiting", "active", "sent", "delayed",
                                           "failed", "done"}
                      /\ job[c].tries \in 0 .. MaxTries
                      /\ job[c].stalls \in 0 .. MaxStalls + 1
  /\ devOtp \in [Addresses -> 0 .. MaxCodes]
  /\ viewPc \in {"idle", "list", "clear"} /\ viewTodo \subseteq Addresses

\* email-queue.processor.ts:60, "Re-throw to trigger retry mechanism": a job leaves
\* the queue only when its mail has been handed to the mail server, whatever
\* failed in between; a job that never got that far is kept as failed.
CompletedMeansMailed == \A c \in Codes : job[c].state = "done" => job[c].mailed

\* A use case that is told its code is on the way is told so only if the code is in
\* the queue: outside development no code disappears between two layers.
ToldMeansQueued ==
  ~development => \A c \in Codes : told[c] = "ok" => job[c].state # "none"

\* A mail server's failures never use up a job before its last attempt, also when
\* workers have died under it.
FailedMeansTried ==
  \A c \in Codes : job[c].state = "failed" =>
    job[c].tries = MaxTries \/ job[c].stalls > MaxStalls

\* "Clear all" answers when every code that was listed is gone, except one whose
\* DEL was lost or that a newer one has replaced.
ClearedMeansGone ==
  viewPc = "clear" /\ viewTodo = {} => \A a \in Addresses : devOtp[a] \notin mustGo

\* What is known of a code's delivery at every stage is true: to the client that is
\* answered, in the queue, and in the development viewer.
DeliveryIsTruthful ==
  CompletedMeansMailed /\ ToldMeansQueued /\ FailedMeansTried /\ ClearedMeansGone

\* Every job is mailed or kept as failed in the end.
EmailJobsEnd ==
  \A c \in Codes : job[c].state = "waiting" ~> job[c].state \in {"done", "failed"}
=============================================================================
