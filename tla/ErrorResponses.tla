--------------------------- MODULE ErrorResponses ---------------------------
(***************************************************************************)
(* What becomes of an error: the Stripe adapters translate what the SDK     *)
(* throws, the global exception filter turns what is thrown into a          *)
(* response.  One request at a time; its handler may already have sent a    *)
(* response, sending may fail, and what is thrown may be no error at all.   *)
(* A message is modelled by what the code looks for in it: "denied" is one  *)
(* of the phrases that tell a refusal, "permission" the bare word.          *)
(***************************************************************************)
EXTENDS Integers

VARIABLES
  errPc,
  errReq,      \* the request: kind of context, the URL's endpoint, what happened
  thrown,      \* the exception on its way
  response     \* the response, and how often somebody has written one

errorVars == <<errPc, errReq, thrown, response>>

Endpoints == {"auth", "change-password", "other"}
Messages == {"denied", "permission", "account", "other"}
IsAuthEndpoint(url) == url \in {"auth", "change-password"}

\* DomainError: code and status of each subclass.
DomainStatus ==
  [ACCOUNT_LOCKED |-> 401, CACHE_ERROR |-> 503, EMAIL_ALREADY_EXISTS |-> 409,
   EMAIL_SERVICE_ERROR |-> 500, INVALID_CREDENTIALS |-> 401, INVALID_OTP |-> 401,
   USER_NOT_FOUND |-> 404, USER_NOT_VERIFIED |-> 403]

Exception(class, code, status, says) ==
  [class |-> class, code |-> code, status |-> status, says |-> says]
DomainErrors == {Exception("domain", c, DomainStatus[c], "other") : c \in DOMAIN DomainStatus}
PrismaErrors == {Exception("prisma", c, 0, "other") :
                   c \in {"init", "validation", "P2002", "P2025", "P2003", "P2034"}}
\* Thrown by guards, pipes and controllers.
HttpErrors == {Exception("http", "none", s, "other") : s \in {400, 401, 403, 404, 429}}
\* Thrown by anything else; "nothing" is throw undefined or throw null.
OtherErrors == {Exception("error", "none", 0, "other"), Exception("nothing", "none", 0, "other")}

NoException == Exception("none", "none", 0, "other")
NoResponse == [there |-> TRUE, sent |-> FALSE, status |-> 0, body |-> "none",
               detail |-> "none", writes |-> 0]
NoErrReq == [http |-> TRUE, url |-> "other", from |-> "app", asked |-> NoException, jsonFailed |-> FALSE,
             sendFailed |-> FALSE, genuine |-> FALSE]

ErrorsInit ==
  /\ errPc = "idle" /\ errReq = NoErrReq /\ thrown = NoException /\ response = NoResponse
-----------------------------------------------------------------------------
(* The handler: it may have answered, then it throws *)

\* What the SDK throws, as far as the adapters look at it.
StripeErrors ==
  {Exception(c, k, 0, s) : c \in {"StripeInvalidRequestError", "StripeCardError",
                                  "StripePermissionError", "StripeAPIError"},
                           k \in {"none", "permission_denied", "resource_missing"}, s \in Messages}

HandlerThrows(http, url, there, answered) ==
  \E e \in DomainErrors \cup PrismaErrors \cup HttpErrors \cup OtherErrors :
    /\ errReq' = [NoErrReq EXCEPT !.http = http, !.url = url, !.asked = e]
    /\ thrown' = e
    /\ response' = [NoResponse EXCEPT !.there = there, !.sent = answered,
                      !.status = IF answered THEN 200 ELSE 0, !.writes = IF answered THEN 1 ELSE 0]
    /\ errPc' = "filter"

StripeThrows ==
  \E from \in {"payment", "connect", "connect-update"}, e \in StripeErrors :
    /\ errReq' = [NoErrReq EXCEPT !.from = from, !.asked = e]
    /\ thrown' = e /\ response' = NoResponse
    /\ errPc' = IF from = "payment" THEN "payment" ELSE "connect"

\* RawBodyMiddleware: the path must begin with /stripe/webhook, and a body that the
\* framework has already parsed cannot be read again; then it goes on without.
CapturesRawBody(versioned, json) == ~versioned /\ ~json

\* verifyWebhookSignature: constructEvent throws for what Stripe has not signed.
WebhookVerifies(raw, signed) == raw /\ signed

\* handleWebhook.  Stripe signs what it sends, and sends JSON; the service's routes
\* have the version in front unless API_VERSIONING_ENABLED is false.
HandleWebhook ==
  \E versioned, json, signed, secret \in BOOLEAN :
    LET received == secret /\ WebhookVerifies(CapturesRawBody(versioned, json), signed) IN
    /\ errReq' = [NoErrReq EXCEPT !.from = "webhook", !.genuine = json /\ signed /\ secret]
    /\ IF received
       THEN /\ response' = [NoResponse EXCEPT !.sent = TRUE, !.status = 200, !.writes = 1]
            /\ errPc' = "done" /\ UNCHANGED thrown
       ELSE /\ thrown' = Exception("error", "none", 0, "other")
            /\ errPc' = "filter" /\ UNCHANGED response

\* The payment adapter: every class it makes is a plain Error.
HandlePaymentError ==
  /\ errPc = "payment"
  /\ thrown' = Exception("error", thrown.code, 0, thrown.says)
  /\ errPc' = "filter" /\ UNCHANGED <<errReq, response>>

\* Mutant: only the codes are looked at, not the message.
IsPermissionDeniedByCode(e) == e.code = "permission_denied" \/ e.class = "StripePermissionError"
IsPermissionDenied(e) ==
  \/ e.code = "permission_denied" \/ e.says = "denied" \/ e.class = "StripePermissionError"
  \/ e.class = "StripeInvalidRequestError" /\ e.says = "permission"

\* The connect adapter; the message is kept, and what can be found in it.  The
\* exceptions of the framework have neither code nor type.
ConnectError(e) ==
  IF IsPermissionDenied(e) THEN Exception("http", "none", 403, e.says)
  ELSE IF e.class = "StripeInvalidRequestError" THEN Exception("http", "none", 400, e.says)
  ELSE IF e.code = "resource_missing" /\ e.says = "account" THEN Exception("http", "none", 404, e.says)
  ELSE Exception("error", e.code, 0, e.says)

\* An update fails inside createExternalBankAccount, whose catch has already
\* translated the error: its own catch translates the translation.
HandleConnectError ==
  /\ errPc = "connect"
  /\ thrown' = ConnectError(thrown)
  /\ errPc' = IF errReq.from = "connect-update" THEN "again" ELSE "filter"
  /\ UNCHANGED <<errReq, response>>
UpdateRewraps ==
  /\ errPc = "again"
  /\ thrown' = ConnectError(thrown)
  /\ errPc' = "filter" /\ UNCHANGED <<errReq, response>>
-----------------------------------------------------------------------------
(* ProblemDetailsFilter *)

\* A second write of the headers throws and changes nothing.
Sent(status, body, detail) ==
  IF response.sent THEN [response EXCEPT !.writes = @ + 1]
  ELSE [response EXCEPT !.sent = TRUE, !.status = status, !.body = body, !.detail = detail,
                        !.writes = @ + 1]

\* Mutant: that the response may have been sent before is forgotten.
WritableIfThere == response.there
\* No response object, or headers already sent: nothing is written.
Writable == response.there /\ ~(errReq.http /\ response.sent)

Filter ==
  /\ errPc = "filter"
  /\ errPc' = IF ~Writable THEN "done"
              ELSE IF thrown.class = "domain" THEN "domain"
              ELSE IF thrown.class = "nothing" THEN "failed" ELSE "general"
  /\ UNCHANGED <<errReq, thrown, response>>

PrismaStatus(code) ==
  [init |-> 503, validation |-> 400, P2002 |-> 409, P2025 |-> 404, P2003 |-> 400,
   P2034 |-> 500][code]
HttpStatusOf(e) ==
  IF e.class = "prisma" THEN PrismaStatus(e.code)
  ELSE IF e.class = "http" THEN e.status ELSE 500

Body(http, url) ==
  IF ~http THEN "errors" ELSE IF IsAuthEndpoint(url) THEN "auth" ELSE "problem"

DomainDetail(e, url) ==
  IF url = "change-password" /\ e.code = "INVALID_CREDENTIALS" THEN "Failed to change password"
                                                               ELSE e.code
HandleDomainError ==
  /\ errPc = "domain"
  /\ response' = IF response.sent THEN response
                 ELSE Sent(thrown.status, Body(errReq.http, errReq.url),
                           IF errReq.http /\ IsAuthEndpoint(errReq.url)
                             THEN DomainDetail(thrown, errReq.url) ELSE thrown.code)
  /\ errPc' = "done" /\ UNCHANGED <<errReq, thrown>>

\* Mutant: the failure is logged like that of any other response.
NextAfterJsonGivesUp(http, url) == "done"
NextAfterJson(http, url) == IF http /\ IsAuthEndpoint(url) THEN "send" ELSE "done"

\* response.json() throws: only auth endpoints have a second way.
JsonFails ==
  /\ errPc \in {"domain", "general", "failed"}
  /\ errPc' = IF errPc = "domain" THEN NextAfterJson(errReq.http, errReq.url) ELSE "done"
  /\ errReq' = [errReq EXCEPT !.jsonFailed = TRUE]
  /\ UNCHANGED <<thrown, response>>
FallbackSend ==
  /\ errPc = "send"
  /\ response' = Sent(thrown.status, "auth", DomainDetail(thrown, errReq.url))
  /\ errPc' = "done" /\ UNCHANGED <<errReq, thrown>>
\* send() throws as well, or there is none: it is logged, and nothing is sent.
SendFails ==
  /\ errPc = "send"
  /\ errReq' = [errReq EXCEPT !.sendFailed = TRUE]
  /\ errPc' = "done" /\ UNCHANGED <<thrown, response>>

HandleException ==
  /\ errPc = "general"
  /\ response' = Sent(HttpStatusOf(thrown), Body(errReq.http, errReq.url), thrown.code)
  /\ errPc' = "done" /\ UNCHANGED <<errReq, thrown>>

\* (exception as any).stack of null or undefined throws within the filter.
FilterFailed ==
  /\ errPc = "failed"
  /\ response' = IF response.sent THEN response ELSE Sent(500, "auth", "unexpected")
  /\ errPc' = "done" /\ UNCHANGED <<errReq, thrown>>

Answered ==
  /\ errPc = "done" /\ errPc' = "idle"
  /\ errReq' = NoErrReq /\ thrown' = NoException /\ response' = NoResponse
-----------------------------------------------------------------------------
ErrorsNext ==
  \/ /\ errPc = "idle"
     /\ \/ StripeThrows \/ HandleWebhook
        \/ \E http, there, answered \in BOOLEAN, url \in Endpoints :
             HandlerThrows(http, url, there, answered)
  \/ HandlePaymentError \/ HandleConnectError \/ UpdateRewraps
  \/ Filter \/ HandleDomainError \/ JsonFails \/ FallbackSend \/ SendFails \/ HandleException
  \/ FilterFailed \/ Answered

\* The errors of one request after the other.
ErrorsSpec == ErrorsInit /\ [][ErrorsNext]_errorVars
-----------------------------------------------------------------------------
(* Properties *)

ErrorsTypeOK ==
  /\ errPc \in {"idle", "payment", "connect", "again", "filter", "domain", "general",
                "send", "failed", "done"}
  /\ response.status \in Nat /\ response.writes \in 0 .. 2

\* problem-details.filter.ts:56: an HTTP request is answered at most once, even if
\* its handler throws after it has sent the response.
AnsweredAtMostOnce == errReq.http => response.writes <= 1

\* problem-details.filter.ts:206, "CRITICAL: Ensure response is sent": a domain
\* error at an auth endpoint is answered even when response.json() throws, unless
\* send() throws too; what was thrown and is no error at all is answered anywhere,
\* json() permitting.
CriticalErrorsAreAnswered ==
  /\ errPc = "done" /\ errReq.http /\ response.there
  /\ \/ thrown.class = "nothing" /\ ~errReq.jsonFailed
     \/ thrown.class = "domain" /\ IsAuthEndpoint(errReq.url) /\ ~errReq.sendFailed
  => response.sent

\* Stripe refuses for lack of permission, in whatever way it tells it.
Refused(e) ==
  \/ e.code = "permission_denied" \/ e.class = "StripePermissionError"
  \/ e.says \in {"denied", "permission"}

\* stripe.api-descriptions.ts:770, "Will return 403 Forbidden": a refusal whose message
\* says so reaches the client of a Connect operation as 403, also through the update,
\* which translates the error twice and has only the message to tell it by the second
\* time; and nothing but a refusal is told as 403.  A refusal told by its code, its
\* type, or the bare word in an invalid request is 403 of one translation, but 500
\* of two: the property leaves it out.
PermissionIsForbidden ==
  /\ errPc = "done" /\ response.sent /\ errReq.from \in {"connect", "connect-update"}
  => /\ errReq.asked.says = "denied" => response.status = 403
     /\ response.status = 403 => Refused(errReq.asked)

\* What is thrown is answered, once, and with the status that its cause deserves.
ErrorsAreAnswered == AnsweredAtMostOnce /\ CriticalErrorsAreAnswered /\ PermissionIsForbidden

\* README.md:506, "Handle Stripe webhook events ... Signature verified": an event that
\* Stripe has signed is received, once the secret is configured.
GenuineEventsAreReceived == errPc = "done" /\ errReq.genuine /\ response.sent => response.status = 200
=============================================================================
