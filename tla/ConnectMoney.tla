----------------------------- MODULE ConnectMoney -----------------------------
(***************************************************************************)
(* The way of the money: top-up -> platform balance -> transfer -> balance  *)
(* of a connected account -> payout -> bank.  Every operation is one call,  *)
(* executed or refused by Stripe; a lost answer leaves the same state.      *)
(***************************************************************************)
EXTENDS Money, FiniteSets

CONSTANTS Sellers,            \* connected accounts
          MoveMills,          \* amounts clients ask to move
          MaxPayouts,         \* bound: payouts ever created
          MaxCents,           \* bound: cents ever topped up
          ListLimits,         \* limits clients give to lists, NoAmount for none
          DefaultLimit,       \* the limit when there is none
          Platform

ASSUME ConnectMoneyAssumption ==
  /\ MoveMills \subseteq Int /\ MaxPayouts \in Nat /\ MaxCents \in Nat
  /\ ListLimits \subseteq Nat \cup {NoAmount} /\ DefaultLimit \in Nat \ {0}
  /\ Platform \notin Sellers

VARIABLES
  funds,          \* balances of the platform and of the accounts, in cents
  toppedUp,       \* history: cents ever topped up
  earned,         \* history: cents transferred to each account
  payouts,        \* payouts ever created, by their number
  inexact,        \* history: movements of another amount than was asked
  unfound,        \* history: payouts clients wanted to cancel and Stripe did not find
  statement       \* history: the last list of payouts that was answered

moneyVars == <<funds, toppedUp, earned, payouts, inexact, unfound, statement>>

Holders == Sellers \cup {Platform}
NoStatement == [holder |-> Platform, rows |-> {}, left |-> 0]

MoneyInit ==
  /\ funds = [h \in Holders |-> 0]
  /\ toppedUp = 0 /\ earned = [a \in Sellers |-> 0]
  /\ payouts = <<>> /\ inexact = {} /\ unfound = {}
  /\ statement = NoStatement

\* The history of one movement.
Moved(kind, cents, mills) ==
  inexact' = IF IsExact(cents, mills) THEN inexact ELSE inexact \cup {kind}
-----------------------------------------------------------------------------
(* Top-ups and transfers.  The top-up is converted by the adapter, the         *)
(* transfer by the service, the payout by its use case.                        *)

\* Mutant: the fraction is cut off.
TransferCentsCut(mills) == mills \div 10

TopupCents(mills) == Rounded(mills)
TransferCents(mills) == Rounded(mills)
PayoutCents(mills) == Rounded(mills)

StripeTopup(cents) ==
  /\ cents > 0 /\ toppedUp + cents <= MaxCents
  /\ funds' = [funds EXCEPT ![Platform] = @ + cents]
  /\ toppedUp' = toppedUp + cents

CreateTopup ==
  /\ \E mills \in MoveMills :
       StripeTopup(TopupCents(mills)) /\ Moved("topup", TopupCents(mills), mills)
  /\ UNCHANGED <<earned, payouts, unfound, statement>>

StripeTransfer(a, cents) ==
  /\ cents \in 1 .. funds[Platform]
  /\ funds' = [funds EXCEPT ![Platform] = @ - cents, ![a] = @ + cents]
  /\ earned' = [earned EXCEPT ![a] = @ + cents]

CreateTransfer(a) ==
  /\ \E mills \in MoveMills :
       StripeTransfer(a, TransferCents(mills)) /\ Moved("transfer", TransferCents(mills), mills)
  /\ UNCHANGED <<toppedUp, payouts, unfound, statement>>
-----------------------------------------------------------------------------
(* Payouts *)

Payout(holder, payee, cents) ==
  [holder |-> holder, payee |-> payee, cents |-> cents, status |-> "pending"]

StripePayout(holder, payee, cents) ==
  /\ cents \in 1 .. funds[holder] /\ Len(payouts) < MaxPayouts
  /\ payouts' = Append(payouts, Payout(holder, payee, cents))
  /\ funds' = [funds EXCEPT ![holder] = @ - cents]

\* Mutant: without the stripeAccount option the platform pays.
PayoutFromPlatform(a, cents) == StripePayout(Platform, a, cents)
\* In the name of the connected account.
PayoutFromSeller(a, cents) == StripePayout(a, a, cents)

CreatePayout(a) ==
  /\ \E mills \in MoveMills :
       PayoutFromSeller(a, PayoutCents(mills)) /\ Moved("payout", PayoutCents(mills), mills)
  /\ UNCHANGED <<toppedUp, earned, unfound, statement>>

\* Outside: the platform's own automatic payout.
AutomaticPayout ==
  /\ \E cents \in 1 .. funds[Platform] : StripePayout(Platform, Platform, cents)
  /\ UNCHANGED <<toppedUp, earned, inexact, unfound, statement>>

SetStatus(n, status) == payouts' = [payouts EXCEPT ![n].status = status]
GiveBack(n) == funds' = [funds EXCEPT ![payouts[n].holder] = @ + payouts[n].cents]

\* Outside: the bank takes the payout or refuses it.
PayoutSettles(n) ==
  /\ payouts[n].status = "pending"
  /\ \/ SetStatus(n, "paid") /\ UNCHANGED funds
     \/ SetStatus(n, "failed") /\ GiveBack(n)
  /\ UNCHANGED <<toppedUp, earned, inexact, unfound, statement>>

\* payouts.cancel(id) without the stripeAccount option: Stripe looks among the
\* platform's own payouts.
StripeCancelPayout(n) ==
  IF payouts[n].holder = Platform
  THEN SetStatus(n, "canceled") /\ GiveBack(n) /\ UNCHANGED unfound
  ELSE unfound' = unfound \cup {n} /\ UNCHANGED <<payouts, funds>>

CancelPayout(n) ==
  /\ payouts[n].status = "pending" /\ StripeCancelPayout(n)
  /\ UNCHANGED <<toppedUp, earned, inexact, statement>>
-----------------------------------------------------------------------------
(* Reading *)

PayoutsOf(a) == {n \in DOMAIN payouts : payouts[n].holder = a}
Newest(ns, limit) == {n \in ns : Cardinality({m \in ns : m > n}) < limit}

\* Mutant: a limit of zero is taken as it stands.
LimitAsGiven(limit) == IF limit = NoAmount THEN DefaultLimit ELSE limit
\* limit ? parseInt(limit) : undefined, then limit || 10
ListLimit(limit) == IF limit \in {NoAmount, 0} THEN DefaultLimit ELSE limit

AdapterListPayouts(a, limit) == Newest(PayoutsOf(a), ListLimit(limit))
AdapterBalance(a) == funds[a]

\* The statement of an account: its payouts, by their numbers, and its balance.
ReadStatement(a) ==
  /\ \E limit \in ListLimits :
       statement' = [holder |-> a, rows |-> AdapterListPayouts(a, limit),
                     left |-> AdapterBalance(a)]
  /\ UNCHANGED <<funds, toppedUp, earned, payouts, inexact, unfound>>

\* One payout, looked up in the name of the account: Stripe finds it among the
\* account's own.
AdapterPayoutStatus(a, number) == {n \in PayoutsOf(a) : n = number}
GetPayoutStatus(a) ==
  /\ \E n \in DOMAIN payouts :
       LET answer == AdapterPayoutStatus(a, n) IN
       /\ answer # {}
       /\ statement' = [holder |-> a, rows |-> answer, left |-> 0]
  /\ UNCHANGED <<funds, toppedUp, earned, payouts, inexact, unfound>>
-----------------------------------------------------------------------------
MoneyNext ==
  \/ CreateTopup \/ AutomaticPayout
  \/ \E a \in Sellers :
       CreateTransfer(a) \/ CreatePayout(a) \/ ReadStatement(a) \/ GetPayoutStatus(a)
  \/ \E n \in DOMAIN payouts : PayoutSettles(n) \/ CancelPayout(n)

MoneySpec == MoneyInit /\ [][MoneyNext]_moneyVars
-----------------------------------------------------------------------------
(* Properties *)

Out(p) == p.status \in {"pending", "paid"}
Shares(ps, a) == [n \in DOMAIN ps |-> IF ps[n].payee = a /\ Out(ps[n]) THEN ps[n].cents ELSE 0]
PaidTo(a) == SumOf(Shares(payouts, a))

MoneyTypeOK ==
  /\ funds \in [Holders -> Nat] /\ earned \in [Sellers -> Nat]
  /\ \A n \in DOMAIN payouts :
       payouts[n].holder \in Holders /\ payouts[n].cents \in Nat \ {0}

\* Every movement is of the amount that was asked, converted once on its way
\* through controller, service, use case and adapter.
MovementsAreExact == inexact = {}

\* A seller's bank receives what was transferred to the seller and no more, however
\* transfers, payouts, their failures and cancellations follow each other.
SellersGetWhatTheyEarned ==
  \A a \in Sellers : earned[a] = funds[a] + PaidTo(a)

\* A list of payouts is empty only for a seller who has had none.
StatementShowsPayouts ==
  statement' # statement /\ statement'.rows = {} => PayoutsOf(statement'.holder) = {}

\* Sellers are paid what they have earned, from amounts that are exact, and are shown it.
SellersArePaid ==
  [][MovementsAreExact' /\ SellersGetWhatTheyEarned' /\ StatementShowsPayouts]_moneyVars

\* stripe.api-descriptions.ts:758 "Cancel a payout": a payout that is still
\* pending can be cancelled by its number.  The code does not keep it: the call names
\* no connected account, and payouts belong to one.
PayoutsCanBeCanceled == unfound = {}
=============================================================================
