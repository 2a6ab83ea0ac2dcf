------------------------------- MODULE Payments -------------------------------
(***************************************************************************)
(* Payment intents and refunds.  The service keeps nothing of its own: all *)
(* state is at Stripe, reached by one remote call per await.  Requests of  *)
(* several clients interleave between the calls; Stripe itself refuses     *)
(* what an intent's status or balance does not allow.                      *)
(*                                                                         *)
(* A call may be executed and its answer lost (the SDK then throws and the *)
(* request ends in an error); a call that is refused, or fails on its way, *)
(* changes nothing.  No idempotency key is sent: a client that repeats a   *)
(* request makes a new call.                                               *)
(*                                                                         *)
(* Amounts of requests are in mills, amounts at Stripe in cents (Money).   *)
(***************************************************************************)
EXTENDS Money, FiniteSets

CONSTANTS Intents, PayReqs,
          ChargeMills,     \* amounts clients ask payment intents for
          RefundMills,     \* amounts clients ask refunds for
          MinCharge,       \* Stripe's least amount of an intent, in cents
          MaxRefunds,      \* bound: refunds of one intent
          PageLimit,       \* refunds Stripe returns in one page of a list
          NoReq

ASSUME PaymentAssumption ==
  /\ ChargeMills \subseteq Int /\ RefundMills \subseteq Int
  /\ MinCharge \in Nat \ {0} /\ MaxRefunds \in Nat /\ PageLimit \in Nat \ {0}
  /\ NoReq \notin PayReqs

VARIABLES
  intent,          \* the payment intents at Stripe
  refunds,         \* their refunds, oldest first
  payPc, payReq,   \* requests of more than one call, and their locals
  captureAsked,    \* history: intents some client asked to capture
  report           \* history: the last refund summary that was answered

paymentVars == <<intent, refunds, payPc, payReq, captureAsked, report>>

Statuses == {"none", "requires_payment_method", "requires_confirmation",
             "requires_action", "requires_capture", "canceled", "succeeded"}
Confirmable == {"requires_payment_method", "requires_confirmation", "requires_action"}
Cancelable == Confirmable \cup {"requires_capture"}

NoIntent == [status |-> "none", asked |-> 0, amount |-> 0, received |-> 0, capture |-> "manual"]
IdleReq == [todo |-> <<>>, asked |-> 0, results |-> <<>>, errors |-> <<>>,
            intent |-> NoReq, captured |-> 0]

PaymentsInit ==
  /\ intent = [i \in Intents |-> NoIntent]
  /\ refunds = [i \in Intents |-> <<>>]
  /\ payPc = [r \in PayReqs |-> "idle"]
  /\ payReq = [r \in PayReqs |-> IdleReq]
  /\ captureAsked = {}
  /\ report = [intent |-> NoReq, remaining |-> 0, full |-> FALSE]
-----------------------------------------------------------------------------
(* Conversions *)

ChargeCents(mills) == Rounded(mills)

\* Mutant: the fraction is cut off.
RefundCentsCut(mills) == IF mills \in {NoAmount, 0} THEN NoAmount ELSE mills \div 10
\* A refund amount that is absent, or zero, is not converted.
RefundCents(mills) == IF mills \in {NoAmount, 0} THEN NoAmount ELSE Rounded(mills)

\* What the adapter puts into the call: a falsy amount is left out of it.
RefundParams(cents) == IF cents = 0 THEN NoAmount ELSE cents
-----------------------------------------------------------------------------
(* Stripe *)

Amounts(rs) == [k \in DOMAIN rs |-> rs[k].amount]
Kept(rs) == [k \in DOMAIN rs |-> IF rs[k].failed THEN 0 ELSE rs[k].amount]
Refunded(i) == SumOf(Kept(refunds[i]))
Remaining(i) == intent[i].received - Refunded(i)

\* Stripe's own checks of a refund.
Refundable(i, cents) ==
  /\ intent[i].status = "succeeded"
  /\ Len(refunds[i]) < MaxRefunds
  /\ IF cents = NoAmount THEN Remaining(i) > 0 ELSE cents \in 1 .. Remaining(i)

NewRefund(i, cents, mills, r) ==
  [amount |-> IF cents = NoAmount THEN Remaining(i) ELSE cents,
   asked |-> mills, by |-> r, failed |-> FALSE]

StripeRefund(i, cents, mills, r) ==
  /\ Refundable(i, cents)
  /\ refunds' = [refunds EXCEPT ![i] = Append(@, NewRefund(i, cents, mills, r))]

\* list with a limit: the newest ones.
Page(i) == SubSeq(refunds[i], Len(refunds[i]) - PageLimit + 1, Len(refunds[i]))
ListedRefunds(i) == IF Len(refunds[i]) <= PageLimit THEN refunds[i] ELSE Page(i)

\* The customer completes an authentication step in the browser.
CustomerAuthenticates(i) ==
  /\ intent[i].status = "requires_action"
  /\ \E s \in {"requires_capture", "requires_payment_method"} :
       intent' = [intent EXCEPT ![i].status = s]
  /\ UNCHANGED <<refunds, payPc, payReq, captureAsked, report>>

\* A pending refund fails later: its amount is available again.
RefundFails(i) ==
  /\ \E k \in DOMAIN refunds[i] :
       /\ ~refunds[i][k].failed
       /\ refunds' = [refunds EXCEPT ![i][k].failed = TRUE]
  /\ UNCHANGED <<intent, payPc, payReq, captureAsked, report>>
-----------------------------------------------------------------------------
(* Requests of one call.  Executed and answered, or executed and the answer  *)
(* lost: the state at Stripe is the same.                                    *)

\* Mutant: the default of the API.
CaptureAutomatic == "automatic"
CaptureMethod == "manual"

StripeCreate(i, cents, mills, withMethod) ==
  /\ intent[i].status = "none" /\ cents >= MinCharge
  /\ intent' = [intent EXCEPT ![i] =
       [status |-> IF withMethod THEN "requires_confirmation" ELSE "requires_payment_method",
        asked |-> mills, amount |-> cents, received |-> 0, capture |-> CaptureMethod]]

CreatePaymentIntentUseCase(i, mills, withMethod) == StripeCreate(i, ChargeCents(mills), mills, withMethod)

CreatePaymentIntent(i) ==
  /\ \E mills \in ChargeMills, withMethod \in BOOLEAN :
       CreatePaymentIntentUseCase(i, mills, withMethod)
  /\ UNCHANGED <<refunds, payPc, payReq, captureAsked, report>>

\* With a manual capture the amount is only set aside.
Authorized(x) ==
  IF x.capture = "manual" THEN [x EXCEPT !.status = "requires_capture"]
                          ELSE [x EXCEPT !.status = "succeeded", !.received = x.amount]

\* An authentication may be asked for, or the card refused.  The adapter answers
\* these with an error, although the intent has already moved.
StripeConfirm(i) ==
  /\ intent[i].status \in Confirmable
  /\ \/ intent' = [intent EXCEPT ![i] = Authorized(@)]
     \/ \E s \in {"requires_action", "requires_payment_method"} :
          intent' = [intent EXCEPT ![i].status = s]

ConfirmPaymentIntent(i) ==
  /\ StripeConfirm(i)
  /\ UNCHANGED <<refunds, payPc, payReq, captureAsked, report>>

StripeCapture(i) ==
  /\ intent[i].status = "requires_capture"
  /\ intent' = [intent EXCEPT ![i].status = "succeeded", ![i].received = intent[i].amount]

CapturePayment(i) ==
  /\ StripeCapture(i)
  /\ captureAsked' = captureAsked \cup {i}
  /\ UNCHANGED <<refunds, payPc, payReq, report>>

StripeCancel(i) ==
  /\ intent[i].status \in Cancelable
  /\ intent' = [intent EXCEPT ![i].status = "canceled"]

CancelPayment(i) ==
  /\ StripeCancel(i)
  /\ UNCHANGED <<refunds, payPc, payReq, captureAsked, report>>

\* The adapter's refundPayment, also the body of the bulk refund's loop.
AdapterRefund(i, cents, mills, r) == StripeRefund(i, RefundParams(cents), mills, r)

RefundPaymentUseCase(i, mills) == AdapterRefund(i, RefundCents(mills), mills, NoReq)

RefundPayment(i) ==
  /\ \E mills \in RefundMills \cup {NoAmount} : RefundPaymentUseCase(i, mills)
  /\ UNCHANGED <<intent, payPc, payReq, captureAsked, report>>
-----------------------------------------------------------------------------
(* The bulk refund: one call after the other, errors collected *)

\* Clients may name an intent twice.
BulkLists == [1 .. 2 -> Intents]

BulkRefund(r) ==
  /\ payPc[r] = "idle"
  /\ \E ids \in BulkLists :
       payReq' = [payReq EXCEPT ![r].todo = ids, ![r].asked = Len(ids)]
  /\ payPc' = [payPc EXCEPT ![r] = "bulk"]
  /\ UNCHANGED <<intent, refunds, captureAsked, report>>

BulkSucceeds(r) ==
  LET i == Head(payReq[r].todo) IN
  /\ AdapterRefund(i, NoAmount, NoAmount, r)
  /\ payReq' = [payReq EXCEPT ![r].todo = Tail(@),
       ![r].results = Append(@, [intent |-> i, amount |-> NewRefund(i, NoAmount, NoAmount, r).amount])]

\* Mutant: the loop ends with the first error.
BulkErrsStops(r) ==
  /\ UNCHANGED refunds
  /\ payReq' = [payReq EXCEPT ![r].todo = <<>>, ![r].errors = Append(@, Head(payReq[r].todo))]

\* Refused, or executed without an answer.
BulkErrs(r) ==
  LET i == Head(payReq[r].todo) IN
  /\ UNCHANGED refunds \/ AdapterRefund(i, NoAmount, NoAmount, r)
  /\ payReq' = [payReq EXCEPT ![r].todo = Tail(@), ![r].errors = Append(@, i)]

BulkStep(r) ==
  /\ payPc[r] = "bulk" /\ payReq[r].todo # <<>>
  /\ BulkSucceeds(r) \/ BulkErrs(r)
  /\ UNCHANGED <<intent, payPc, captureAsked, report>>

\* The answer; whose refund it was is forgotten.
BulkAnswer(r) ==
  /\ payPc[r] = "bulk" /\ payReq[r].todo = <<>>
  /\ payPc' = [payPc EXCEPT ![r] = "idle"]
  /\ payReq' = [payReq EXCEPT ![r] = IdleReq]
  /\ refunds' = [i \in Intents |-> [k \in DOMAIN refunds[i] |->
       IF refunds[i][k].by = r THEN [refunds[i][k] EXCEPT !.by = NoReq] ELSE refunds[i][k]]]
  /\ UNCHANGED <<intent, captureAsked, report>>
-----------------------------------------------------------------------------
(* The status report: the intent first, its refunds and charges afterwards *)

GetPaymentIntentStatus(r, i) ==
  /\ payPc[r] = "idle" /\ intent[i].status # "none"
  /\ payPc' = [payPc EXCEPT ![r] = "status"]
  /\ payReq' = [payReq EXCEPT ![r].intent = i, ![r].captured = intent[i].received]
  /\ UNCHANGED <<intent, refunds, captureAsked, report>>

\* Mutant: the oldest refund is missed.
RefundSummaryShort(i, captured) ==
  LET total == SumOf(Amounts(IF refunds[i] = <<>> THEN <<>> ELSE Tail(refunds[i]))) IN
  [intent |-> i, remaining |-> IF captured > total THEN captured - total ELSE 0,
   full |-> captured > 0 /\ total >= captured]

\* refunds.reduce adds up all that is listed, failed ones too.
RefundSummary(i, captured) ==
  LET total == SumOf(Amounts(ListedRefunds(i))) IN
  [intent |-> i,
   remaining |-> IF captured > total THEN captured - total ELSE 0,
   full |-> captured > 0 /\ total >= captured]
StatusAnswer(r) ==
  /\ payPc[r] = "status"
  /\ report' = RefundSummary(payReq[r].intent, payReq[r].captured)
  /\ payPc' = [payPc EXCEPT ![r] = "idle"]
  /\ payReq' = [payReq EXCEPT ![r] = IdleReq]
  /\ UNCHANGED <<intent, refunds, captureAsked>>
-----------------------------------------------------------------------------
PaymentProgress(r) == BulkStep(r) \/ BulkAnswer(r) \/ StatusAnswer(r)

PaymentsNext ==
  \/ \E i \in Intents :
       \/ CreatePaymentIntent(i) \/ ConfirmPaymentIntent(i) \/ CustomerAuthenticates(i)
       \/ CapturePayment(i) \/ CancelPayment(i) \/ RefundPayment(i) \/ RefundFails(i)
  \/ \E r \in PayReqs :
       \/ BulkRefund(r) \/ BulkStep(r) \/ BulkAnswer(r) \/ StatusAnswer(r)
       \/ \E i \in Intents : GetPaymentIntentStatus(r, i)

PaymentsSpec == PaymentsInit /\ [][PaymentsNext]_paymentVars
-----------------------------------------------------------------------------
(* Properties *)

PaymentsTypeOK ==
  /\ intent \in [Intents -> [status : Statuses, asked : Int, amount : Nat, received : Nat,
                             capture : {"manual", "automatic"}]]
  /\ \A i \in Intents : \A k \in DOMAIN refunds[i] : refunds[i][k].amount \in Nat \ {0}
  /\ payPc \in [PayReqs -> {"idle", "bulk", "status"}]
  /\ captureAsked \subseteq Intents

\* stripe.api-descriptions.ts: a payment is authorised, not charged, until some
\* client calls "Capture Payment"; no order of the other operations charges it.
NoChargeWithoutCapture == \A i \in Intents : intent[i].received > 0 => i \in captureAsked

\* A payment is for the amount that was asked, and a refund with an amount gives
\* back that amount, to the cent: never a part of it and never the whole payment.
\* Amounts that round to no cent at all are the subject of FullRefundOnlyWhenOmitted.
AmountsAreExact ==
  \A i \in Intents :
    /\ intent[i].status # "none" => IsExact(intent[i].amount, intent[i].asked)
    /\ \A k \in DOMAIN refunds[i] :
         LET x == refunds[i][k] IN
         x.asked # NoAmount /\ x.asked >= 5 => IsExact(x.amount, x.asked)

\* refund-payment.dto.ts:19: the full refund is for requests without an amount.
FullRefundOnlyWhenOmitted ==
  \A i \in Intents : \A k \in DOMAIN refunds[i] :
    LET x == refunds[i][k] IN
    x.asked # NoAmount => IsExact(x.amount, x.asked)

\* A bulk refund accounts for every id it was given, and every refund it made is
\* in its answer: as a result, or as an error if its answer was lost.
BulkAccountsForAll ==
  \A r \in PayReqs : payPc[r] = "bulk" =>
    LET q == payReq[r] IN
    /\ Len(q.todo) + Len(q.results) + Len(q.errors) = q.asked
    /\ \A i \in Intents :
         LET made == Cardinality({k \in DOMAIN refunds[i] : refunds[i][k].by = r})
             told == Cardinality({k \in DOMAIN q.results : q.results[k].intent = i})
             unsure == Cardinality({k \in DOMAIN q.errors : q.errors[k] = i})
         IN made \in told .. told + unsure

\* The summary of refunds never promises more than Stripe would still refund,
\* whatever happens between its calls, as long as the refunds fit one page; and
\* it calls a payment fully refunded only if nothing is left or a refund failed.
StatusIsConservative ==
  [][report' # report =>
       LET i == report'.intent IN
       Len(refunds[i]) <= PageLimit =>
         /\ report'.remaining <= Remaining(i)
         /\ report'.full => \/ Remaining(i) = 0
                            \/ \E k \in DOMAIN refunds[i] : refunds[i][k].failed]_paymentVars
=============================================================================
