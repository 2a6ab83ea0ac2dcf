---------------------------- MODULE PaymentMethods ----------------------------
(***************************************************************************)
(* Customers at Stripe and their saved payment methods.  Saving a method is *)
(* two remote calls, attach and update; requests of several clients,        *)
(* Stripe's dashboard and Stripe.js interleave between them.  A call may be *)
(* executed and its answer lost; one that fails on its way changes nothing. *)
(***************************************************************************)
EXTENDS Integers, FiniteSets, FiniteSetsExt

CONSTANTS Customers,      \* numbers: identifiers in the order of creation
          Methods, Emails, SaveReqs, NoMethod, NoCustomer, NoEmail

ASSUME MethodAssumption ==
  /\ Customers \subseteq Nat \ {0} /\ NoCustomer = 0
  /\ NoMethod \notin Methods /\ NoEmail \notin Emails

VARIABLES
  email,        \* the customers' addresses, NoEmail before they are created
  deleted,      \* customers deleted at Stripe
  setups,       \* customers with a setup intent that waits for its method
  owner,        \* the customer each method is attached to
  defaultOf,    \* invoice_settings.default_payment_method
  savePc, save, \* requests and their locals
  found         \* history: the customer clients were last given for each address

methodVars == <<email, deleted, setups, owner, defaultOf, savePc, save, found>>

\* optedOut: the client sent setAsDefault false.  troubled: an answer was lost,
\* or the customer or the method was taken away behind the request's back.
IdleSave == [method |-> NoMethod, customer |-> NoCustomer, asDefault |-> FALSE,
             optedOut |-> FALSE, troubled |-> FALSE]

MethodsInit ==
  /\ email = [c \in Customers |-> NoEmail]
  /\ deleted = {} /\ setups = {}
  /\ owner = [m \in Methods |-> NoCustomer]
  /\ defaultOf = [c \in Customers |-> NoMethod]
  /\ savePc = [r \in SaveReqs |-> "idle"]
  /\ save = [r \in SaveReqs |-> IdleSave]
  /\ found = [e \in Emails |-> NoCustomer]

Live(c) == email[c] # NoEmail /\ c \notin deleted
-----------------------------------------------------------------------------
(* Customers *)

\* create never looks for a customer with the same address.
StripeCreateCustomer(e) ==
  \E c \in Customers :
    /\ email[c] = NoEmail /\ \A d \in Customers : d < c => email[d] # NoEmail
    /\ email' = [email EXCEPT ![c] = e]
    /\ found' = [found EXCEPT ![e] = c]

CreateCustomer ==
  /\ \E e \in Emails : StripeCreateCustomer(e)
  /\ UNCHANGED <<deleted, setups, owner, defaultOf, savePc, save>>

WithAddress(e) == {c \in Customers : Live(c) /\ email[c] = e}
\* Mutant: the last one of the list.
OldestCustomer(e) == IF WithAddress(e) = {} THEN NoCustomer ELSE Min(WithAddress(e))
\* customers.list with limit 1: the newest one with that address.
CustomerIdByEmail(e) == IF WithAddress(e) = {} THEN NoCustomer ELSE Max(WithAddress(e))

GetCustomerIdByEmail(e) ==
  /\ found' = [found EXCEPT ![e] = CustomerIdByEmail(e)]
  /\ UNCHANGED <<email, deleted, setups, owner, defaultOf, savePc, save>>

StripeSetupIntent(c) == Live(c) /\ setups' = setups \cup {c}

CreateSetupIntent(c) ==
  /\ StripeSetupIntent(c)
  /\ UNCHANGED <<email, deleted, owner, defaultOf, savePc, save, found>>

\* In the browser: Stripe.js attaches the method to the setup intent's customer.
SetupIntentConfirmed(c, m) ==
  /\ c \in setups /\ Live(c) /\ owner[m] = NoCustomer
  /\ owner' = [owner EXCEPT ![m] = c]
  /\ setups' = setups \ {c}
  /\ UNCHANGED <<email, deleted, defaultOf, savePc, save, found>>

Trouble(reqs) == save' = [r \in SaveReqs |->
  IF r \in reqs /\ savePc[r] # "idle" THEN [save[r] EXCEPT !.troubled = TRUE] ELSE save[r]]

\* Outside: a detached method, or one of a deleted customer, is nobody's default.
Detach(m) ==
  /\ owner[m] # NoCustomer
  /\ owner' = [owner EXCEPT ![m] = NoCustomer]
  /\ defaultOf' = [c \in Customers |-> IF defaultOf[c] = m THEN NoMethod ELSE defaultOf[c]]
  /\ Trouble({r \in SaveReqs : save[r].method = m})
  /\ UNCHANGED <<email, deleted, setups, savePc, found>>

DeleteCustomer(c) ==
  /\ Live(c)
  /\ deleted' = deleted \cup {c}
  /\ owner' = [m \in Methods |-> IF owner[m] = c THEN NoCustomer ELSE owner[m]]
  /\ defaultOf' = [defaultOf EXCEPT ![c] = NoMethod]
  /\ Trouble({r \in SaveReqs : save[r].customer = c})
  /\ UNCHANGED <<email, setups, savePc, found>>
-----------------------------------------------------------------------------
(* Saving a method *)

\* Mutant: an absent flag counts as false.
MakesDefaultIfTrue(flag) == flag = "true"
\* setAsDefault !== false
MakesDefault(flag) == flag # "false"

SavePaymentMethod(r) ==
  /\ savePc[r] = "idle"
  /\ \E m \in Methods, c \in Customers, flag \in {"true", "false", "absent"} :
       /\ email[c] # NoEmail
       /\ save' = [save EXCEPT ![r] =
            [method |-> m, customer |-> c, asDefault |-> MakesDefault(flag),
             optedOut |-> flag = "false", troubled |-> FALSE]]
  /\ savePc' = [savePc EXCEPT ![r] = "first"]
  /\ UNCHANGED <<email, deleted, setups, owner, defaultOf, found>>

\* Stripe attaches a free method, and one that is the customer's already; and it
\* takes as default only a method of the customer.
CanAttach(m, c) == Live(c) /\ owner[m] \in {NoCustomer, c}
CanBeDefault(m, c) == Live(c) /\ owner[m] = c

AttachPaymentMethod(m, c) == CanAttach(m, c) /\ owner' = [owner EXCEPT ![m] = c]
SetDefaultPaymentMethod(c, m) == CanBeDefault(m, c) /\ defaultOf' = [defaultOf EXCEPT ![c] = m]

\* Where a call of the request leads.
GoesOn(r, pc) == savePc' = [savePc EXCEPT ![r] = pc] /\ UNCHANGED save
IsRefused(r) == savePc' = [savePc EXCEPT ![r] = "failed"] /\ UNCHANGED save
IsLost(r) == savePc' = [savePc EXCEPT ![r] = "failed"] /\ save' = [save EXCEPT ![r].troubled = TRUE]

Attach(r, at, next) ==
  LET m == save[r].method
      c == save[r].customer IN
  /\ savePc[r] = at
  /\ \/ AttachPaymentMethod(m, c) /\ (GoesOn(r, next) \/ IsLost(r))
     \/ UNCHANGED owner /\ ~CanAttach(m, c) /\ IsRefused(r)
     \/ UNCHANGED owner /\ IsLost(r)
  /\ UNCHANGED <<email, deleted, setups, defaultOf, found>>

SetDefault(r, at, next) ==
  LET m == save[r].method
      c == save[r].customer IN
  /\ savePc[r] = at
  /\ \/ SetDefaultPaymentMethod(c, m) /\ (GoesOn(r, next) \/ IsLost(r))
     \/ UNCHANGED defaultOf /\ ~CanBeDefault(m, c) /\ IsRefused(r)
     \/ UNCHANGED defaultOf /\ IsLost(r)
  /\ UNCHANGED <<email, deleted, setups, owner, found>>

SaveAnswer(r) ==
  /\ savePc[r] \in {"done", "failed"}
  /\ savePc' = [savePc EXCEPT ![r] = "idle"]
  /\ save' = [save EXCEPT ![r] = IdleSave]
  /\ UNCHANGED <<email, deleted, setups, owner, defaultOf, found>>

\* getDefaultPaymentMethod: the customer, then the card of its default, which is
\* shown even if it has been replaced or detached meanwhile.
GetDefaultPaymentMethod(r) ==
  /\ savePc[r] = "idle"
  /\ \E c \in Customers :
       /\ Live(c) /\ defaultOf[c] # NoMethod
       /\ save' = [save EXCEPT ![r].customer = c, ![r].method = defaultOf[c]]
  /\ savePc' = [savePc EXCEPT ![r] = "card"]
  /\ UNCHANGED <<email, deleted, setups, owner, defaultOf, found>>
ShowCard(r) ==
  /\ savePc[r] = "card"
  /\ savePc' = [savePc EXCEPT ![r] = "idle"]
  /\ save' = [save EXCEPT ![r] = IdleSave]
  /\ UNCHANGED <<email, deleted, setups, owner, defaultOf, found>>

\* Mutant: the two calls in the other order.
SaveUseCaseSwapped(r) ==
  IF save[r].asDefault
  THEN SetDefault(r, "first", "second") \/ Attach(r, "second", "done")
  ELSE Attach(r, "first", "done")

\* attach, then the update if the method is to be the default.
SaveUseCase(r) ==
  \/ Attach(r, "first", IF save[r].asDefault THEN "second" ELSE "done")
  \/ SetDefault(r, "second", "done")
-----------------------------------------------------------------------------
SaveProgress(r) == SaveUseCase(r) \/ SaveAnswer(r) \/ ShowCard(r)

MethodsNext ==
  \/ CreateCustomer
  \/ \E e \in Emails : GetCustomerIdByEmail(e)
  \/ \E c \in Customers : CreateSetupIntent(c) \/ DeleteCustomer(c)
  \/ \E c \in Customers, m \in Methods : SetupIntentConfirmed(c, m)
  \/ \E m \in Methods : Detach(m)
  \/ \E r \in SaveReqs : \/ SavePaymentMethod(r) \/ SaveUseCase(r) \/ SaveAnswer(r)
                        \/ GetDefaultPaymentMethod(r) \/ ShowCard(r)

MethodsSpec == MethodsInit /\ [][MethodsNext]_methodVars
-----------------------------------------------------------------------------
(* Properties *)

MethodsTypeOK ==
  /\ email \in [Customers -> Emails \cup {NoEmail}]
  /\ owner \in [Methods -> Customers \cup {NoCustomer}]
  /\ defaultOf \in [Customers -> Methods \cup {NoMethod}]
  /\ savePc \in [SaveReqs -> {"idle", "first", "second", "done", "failed", "card"}]

\* Saving a method that is free or the customer's own fails only if an answer is
\* lost or somebody takes the method or the customer away: the order of the two
\* calls never makes Stripe refuse the second.
SavesFailForACause ==
  [][\A r \in SaveReqs : savePc'[r] = "failed" /\ savePc[r] # "failed" =>
       \/ save'[r].troubled \/ ~Live(save[r].customer)
       \/ owner[save[r].method] \notin {NoCustomer, save[r].customer}]_methodVars

\* A save that is answered with success has attached the method and, unless the
\* client declined, made it the default; if it declined, the default is as it was.
SavedMeansSaved ==
  [][\A r \in SaveReqs : savePc'[r] = "done" /\ savePc[r] # "done" =>
       LET m == save[r].method
           c == save[r].customer IN
       /\ owner'[m] = c
       /\ IF save[r].optedOut THEN defaultOf' = defaultOf ELSE defaultOf'[c] = m]_methodVars

\* Clients that look a customer up before they create one may create two with the
\* same address.  No lookup goes back behind a customer that a client has found or
\* created, unless that one is deleted: who creates a customer also finds it.
LookupsMoveForward ==
  [][\A e \in Emails : found'[e] < found[e] => found[e] \in deleted]_methodVars

\* What the client of save-payment-method is told is what happened.
SavesAreTruthful == SavesFailForACause /\ SavedMeansSaved
=============================================================================
