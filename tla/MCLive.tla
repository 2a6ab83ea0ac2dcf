-------------------------------- MODULE MCLive --------------------------------
(***************************************************************************)
(* What must happen eventually, component by component (they share no       *)
(* state).  The fairness is that of the code's scheduling: every await      *)
(* settles, so a request, batch or job that has begun takes its next step;  *)
(* a worker takes the jobs that wait; time passes.  Clients, administrators *)
(* and failures owe nothing.                                                *)
(***************************************************************************)
EXTENDS AccountLifecycle, Payments, PaymentMethods, ConnectAccounts, TokenFamilies,
        LastActivity, CodeDelivery

CONSTANTS Reqs,        \* the requests, and batches, of every part
          Users, Sids, Jtis, RefreshTtl, NoUser, NoSid, NoJti,
          OtpCodes, MaxFailed, LockTime, OtpTtl, WrongCode, NoCode

VARIABLES
  part,
  allow, allowTtl, indexTtl, sessionLate, sessionPc, sessionReq, tokens, owners, gen,
  sessionStored, spent, sessionRevoked,
  otpRow, otp, otpTtl, otpLate, otpPc, otpReq, generated, otpStored, abandoned,
  announced, used, reused, closed, wiped, wrong

sessionVars == <<allow, allowTtl, indexTtl, sessionLate, sessionPc, sessionReq, tokens, owners,
                 gen, sessionStored, spent, sessionRevoked>>
otpVars == <<otpRow, otp, otpTtl, otpLate, otpPc, otpReq, generated, otpStored, abandoned,
             announced, used, reused, closed, wiped, wrong>>

Sessions == INSTANCE RefreshSessions
  WITH Faults <- FALSE, late <- sessionLate, pc <- sessionPc,
       req <- sessionReq, owner <- owners, stored <- sessionStored, revoked <- sessionRevoked
Otps == INSTANCE OtpVerification
  WITH Codes <- OtpCodes, Faults <- FALSE, row <- otpRow, late <- otpLate,
       pc <- otpPc, req <- otpReq, stored <- otpStored

A == <<accountVars, paymentVars, methodVars>>
B == <<connectVars, familyVars, activityVars>>
C == <<deliveryVars, sessionVars, otpVars>>
mcVars == <<part, A, B, C>>

Init ==
  /\ part \in {"sessions", "codes", "accounts", "payments", "methods", "connect",
               "families", "activity", "delivery"}
  /\ AccountsInit /\ PaymentsInit /\ MethodsInit /\ ConnectInit /\ FamiliesInit
  /\ ActivityInit /\ DeliveryInit /\ ~development /\ Sessions!Init /\ Otps!Init

Next ==
  /\ UNCHANGED part
  /\ \/ part = "accounts" /\ AccountsNext /\ UNCHANGED <<paymentVars, methodVars, B, C>>
     \/ part = "payments" /\ PaymentsNext /\ UNCHANGED <<accountVars, methodVars, B, C>>
     \/ part = "methods" /\ MethodsNext /\ UNCHANGED <<accountVars, paymentVars, B, C>>
     \/ part = "connect" /\ ConnectNext /\ UNCHANGED <<A, familyVars, activityVars, C>>
     \/ part = "families" /\ FamiliesNext /\ UNCHANGED <<A, connectVars, activityVars, C>>
     \/ part = "activity" /\ ActivityNext /\ UNCHANGED <<A, connectVars, familyVars, C>>
     \/ part = "delivery" /\ DeliveryNext /\ UNCHANGED <<A, B, sessionVars, otpVars>>
     \/ part = "sessions" /\ Sessions!Next /\ UNCHANGED <<A, B, deliveryVars, otpVars>>
     \/ part = "codes" /\ Otps!Next /\ UNCHANGED <<A, B, deliveryVars, sessionVars>>

Fairness ==
  /\ Sessions!Fairness /\ Otps!Fairness
  /\ \A r \in AccReqs : WF_accountVars(AccountStep(r))
  /\ \A r \in PayReqs : WF_paymentVars(PaymentProgress(r))
  /\ \A r \in SaveReqs : WF_methodVars(SaveProgress(r))
  /\ \A r \in ConnectReqs : WF_connectVars(ConnectProgress(r))
  /\ \A j \in Jobs : WF_activityVars(JobStep(j))
  /\ \A r \in FamReqs : WF_familyVars(FamilyStep(r))
  /\ \A c \in Codes : WF_deliveryVars(DeliveryStep(c))

Spec == Init /\ [][Next]_mcVars /\ Fairness
-----------------------------------------------------------------------------
AtWork(r) == sessionPc[r] # "idle" \/ otpPc[r] # "idle"

\* Every request for tokens or with a code comes to an end, the loop of logout-all
\* included (RefreshSessions and OtpVerification, RequestsFinish).
RequestsFinish == \A r \in Reqs : AtWork(r) ~> ~AtWork(r)

Operates(r) ==
  \/ r \in AccReqs /\ accPc[r] # "idle"
  \/ r \in PayReqs /\ payPc[r] # "idle"
  \/ r \in SaveReqs /\ savePc[r] # "idle"
  \/ r \in ConnectReqs /\ connPc[r] # "idle"
  \/ r \in Jobs /\ jobPc[r] # "idle"
  \/ r \in FamReqs /\ famPc[r] # "idle"

\* Every other operation of several steps answers too: a password change whatever
\* becomes of its tries, a bulk refund however many of its refunds fail, a save and
\* a bank's replacement whatever Stripe answers, a batch of last activities whatever
\* fails on the way, a rotation and a logout of all sessions; and every email job
\* (CodeDelivery.EmailJobsEnd).
OperationsEnd == EmailJobsEnd /\ \A r \in Reqs : Operates(r) ~> ~Operates(r)

\* No jti is accepted for ever (RefreshSessions.EveryJtiExpires).
EveryJtiExpires == Sessions!EveryJtiExpires

\* A lock ends, although requests that began before it may still renew it
\* (OtpVerification.LockoutEnds).
LockoutEnds == Otps!LockoutEnds
=============================================================================
