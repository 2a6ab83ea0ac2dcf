------------------------------ MODULE MCServices ------------------------------
(***************************************************************************)
(* The services around the accounts and payments, and the sessions and      *)
(* codes served one request at a time by a Redis that answers: what those   *)
(* two promise to somebody who takes their operations for atomic.  The      *)
(* components share no state, so that a behaviour of one of them at a time  *)
(* shows all there is.                                                      *)
(***************************************************************************)
EXTENDS TokenFamilies, AnomalyDetection, AccessControl, RequestLimits, GeoAccess,
        LastActivity, CodeDelivery, CsrfTokens, ErrorResponses,
        SafeLogging, Pagination, PasswordRules

CONSTANTS SerialReqs,  \* the one request at a time of the sessions and codes
          Users, Sids, Jtis, RefreshTtl, NoUser, NoSid, NoJti,
          OtpCodes, OtpMaxFailed, LockTime, OtpTtl, WrongCode, NoCode

\* Sessions and codes: one request at a time, limits that are positive, nulls that are
\* nobody's identifier.
ASSUME SerialAssumption ==
  /\ \A q, r \in SerialReqs : q = r
  /\ RefreshTtl \in Nat \ {0}
  /\ NoUser \notin Users /\ NoSid \notin Sids /\ NoJti \notin Jtis
  /\ OtpMaxFailed \in Nat \ {0} /\ LockTime \in Nat \ {0} /\ OtpTtl \in Nat \ {0}
  /\ NoCode \notin OtpCodes /\ WrongCode \notin OtpCodes /\ NoCode # WrongCode

VARIABLES
  part,
  allow, allowTtl, indexTtl, sessionLate, sessionPc, sessionReq, tokens, owners, gen,
  sessionStored, spent, sessionRevoked,
  otpRow, otp, otpTtl, otpLate, otpPc, otpReq, generated, otpStored, abandoned,
  announced, used, reused, closed, wiped, wrong

sessionVars == <<allow, allowTtl, indexTtl, sessionLate, sessionPc, sessionReq, tokens, owners,
                 gen, sessionStored, spent, sessionRevoked>>
otpVars == <<otpRow, otp, otpTtl, otpLate, otpPc, otpReq, generated, otpStored, abandoned,
             announced, used, reused, closed, wiped, wrong>>

Sessions == INSTANCE RefreshSessions
  WITH Reqs <- SerialReqs, Faults <- FALSE, late <- sessionLate, pc <- sessionPc,
       req <- sessionReq, owner <- owners, stored <- sessionStored, revoked <- sessionRevoked
Otps == INSTANCE OtpVerification
  WITH Reqs <- SerialReqs, Codes <- OtpCodes, MaxFailed <- OtpMaxFailed, Faults <- FALSE,
       row <- otpRow, late <- otpLate, pc <- otpPc, req <- otpReq, stored <- otpStored

A == <<familyVars, anomalyVars, accessVars>>
B == <<limitVars, geoVars, csrfVars>>
C == <<activityVars, deliveryVars, errorVars>>
D == <<loggingVars, pageVars, verdict>>
E == <<sessionVars, otpVars>>
mcVars == <<part, A, B, C, D, E>>

Devs == {<<"a", "f">>, <<"b", "unknown">>}
OneCountry == {CHOOSE c \in Countries : TRUE}
Cfgs == {{}, OneCountry}

PageCfg(default, defaultLimit, min, max) ==
  [defaultPage |-> default, defaultLimit |-> defaultLimit, minLimit |-> min, maxLimit |-> max]
PageCfgs == {PageCfg(NoNumber, NoNumber, NoNumber, NoNumber), PageCfg(NoNumber, 2, 0, 2),
             PageCfg(2, -1, 2, 1)}
AskedHalves == {-1, 0, 1, 2, 3, 4, 8, NoNumber}

\* Values: texts, objects without objects in them, and one level around these.
Of(step, v) == {[at |-> <<step>> \o x.at, says |-> x.says] : x \in v}
Texts == {{[at |-> <<>>, says |-> says]} : says \in {"null", "plain", "address"}}
FlatObjects == UNION {{{[at |-> <<k>>, says |-> f[k]] : k \in fields} :
                         f \in [fields -> {"null", "plain", "address"}]} :
                      fields \in SUBSET {"secret", "personal", "other"}}
NestedPayloads ==
  Texts \cup FlatObjects \cup {Of("item", v) : v \in Texts \cup FlatObjects}
    \cup {Of("other", v) \cup {[at |-> <<"personal">>, says |-> "address"]} : v \in FlatObjects}
    \cup {Of(k, v) : k \in {"secret", "personal"}, v \in FlatObjects}
SomeResponses == {{[at |-> <<>>, says |-> "address"]},
                  {[at |-> <<"other", "secret">>, says |-> "plain"]}}
FlatDetails ==
  FlatObjects \cup {Of("item", v) : v \in Texts}
    \cup {Of(step, {[at |-> <<"secret">>, says |-> "plain"], [at |-> <<"personal">>, says |-> "address"]}) :
            step \in {"item", "error"}}
UntoldObjects == {{}, {[at |-> <<"other">>, says |-> "address"]},
                  {[at |-> <<"secret">>, says |-> "plain"], [at |-> <<"personal">>, says |-> "address"]}}

Passwords4 == UNION {[1 .. n -> PasswordLetters] : n \in 0 .. 4} \cup {<<"a", "B", "1", "!", "a">>}
Common2 == {<<"a", "b", "1">>, <<"1", "a">>}
Switched == {{}, SwitchedRules} \cup {{r} : r \in SwitchedRules}
              \cup {SwitchedRules \ {r} : r \in SwitchedRules}
Envs == {[r \in SwitchedRules |-> IF r \in switched THEN value ELSE "unset"] :
           switched \in Switched, value \in {"true", "false", "empty"}}

Init ==
  /\ part \in {"families", "anomaly", "access", "limits", "geo", "activity", "delivery",
               "csrf", "errors", "logging", "pages", "passwords", "sessions", "codes"}
  /\ FamiliesInit /\ AnomalyInit /\ AccessInit /\ LimitsInit /\ GeoInit
  /\ ActivityInit /\ DeliveryInit /\ CsrfInit /\ ErrorsInit
  /\ LoggingInit /\ PagesInit /\ PasswordInit /\ Sessions!Init /\ Otps!Init
  /\ part # "delivery" => ~development

Next ==
  /\ UNCHANGED part
  /\ \/ part = "families" /\ FamiliesNext /\ UNCHANGED <<anomalyVars, accessVars, B, C, D, E>>
     \/ part = "anomaly" /\ AnomalyNext /\ UNCHANGED <<familyVars, accessVars, B, C, D, E>>
     \/ part = "access" /\ AccessNext /\ UNCHANGED <<familyVars, anomalyVars, B, C, D, E>>
     \/ part = "limits" /\ LimitsNext /\ UNCHANGED <<geoVars, csrfVars, A, C, D, E>>
     \/ part = "geo" /\ GeoNext /\ UNCHANGED <<limitVars, csrfVars, A, C, D, E>>
     \/ part = "csrf" /\ CsrfNext /\ UNCHANGED <<limitVars, geoVars, A, C, D, E>>
     \/ part = "activity" /\ ActivityNext /\ UNCHANGED <<deliveryVars, errorVars, A, B, D, E>>
     \/ part = "delivery" /\ DeliveryNext /\ UNCHANGED <<activityVars, errorVars, A, B, D, E>>
     \/ part = "errors" /\ ErrorsNext /\ UNCHANGED <<activityVars, deliveryVars, A, B, D, E>>
     \/ part = "logging" /\ LoggingNext /\ UNCHANGED <<pageVars, verdict, A, B, C, E>>
     \/ part = "pages" /\ PagesNext /\ UNCHANGED <<loggingVars, verdict, A, B, C, E>>
     \/ part = "passwords" /\ PasswordNext /\ UNCHANGED <<loggingVars, pageVars, A, B, C, E>>
     \/ part = "sessions" /\ Sessions!Next /\ UNCHANGED <<otpVars, A, B, C, D>>
     \/ part = "codes" /\ Otps!Next /\ UNCHANGED <<sessionVars, A, B, C, D>>

Spec == Init /\ [][Next]_mcVars

TypeOK ==
  /\ FamiliesTypeOK /\ AnomalyTypeOK /\ AccessTypeOK /\ LimitsTypeOK /\ GeoTypeOK
  /\ ActivityTypeOK /\ DeliveryTypeOK /\ CsrfTypeOK /\ ErrorsTypeOK
  /\ LoggingTypeOK /\ PagesTypeOK /\ PasswordTypeOK
-----------------------------------------------------------------------------
\* Served one at a time, every request does what the specification that takes it for
\* one step says.  Sessions: the atomic store (SessionStore.AtomicSpec).  Codes: the
\* attempt limiter (AttemptLimiter.Spec); no code is redeemed twice, none is deleted
\* but by its own redemption or expiry, no more wrong codes are answered than the
\* limit before the account is locked, no registration takes a verification back, and
\* no request ends a lock before its time.  Two requests at a time break each of these.
SerialPromises ==
  /\ Sessions!AtomicStorePromise
  /\ Otps!LimiterPromise
  /\ [][/\ Otps!CodesAreOneTime' /\ Otps!AnnouncedCodesSurvive'
        /\ Otps!WrongCodesAreLimited']_otpVars
  /\ Otps!VerifiedStaysVerified /\ Otps!LockRunsItsTime
=============================================================================
