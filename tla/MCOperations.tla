----------------------------- MODULE MCOperations -----------------------------
(***************************************************************************)
(* The account operations and the four Stripe components side by side:      *)
(* they share no state, so that a behaviour of one of them at a time shows  *)
(* all there is.                                                            *)
(***************************************************************************)
EXTENDS AccountLifecycle, Payments, PaymentMethods, ConnectAccounts, ConnectMoney

VARIABLE part

mcVars == <<part, accountVars, paymentVars, methodVars, connectVars, moneyVars>>

Init ==
  /\ part \in {"accounts", "payments", "methods", "connect", "money"}
  /\ AccountsInit /\ PaymentsInit /\ MethodsInit /\ ConnectInit /\ MoneyInit

Next ==
  /\ UNCHANGED part
  /\ \/ /\ part = "accounts" /\ AccountsNext
        /\ UNCHANGED <<paymentVars, methodVars, connectVars, moneyVars>>
     \/ /\ part = "payments" /\ PaymentsNext
        /\ UNCHANGED <<accountVars, methodVars, connectVars, moneyVars>>
     \/ /\ part = "methods" /\ MethodsNext
        /\ UNCHANGED <<accountVars, paymentVars, connectVars, moneyVars>>
     \/ /\ part = "connect" /\ ConnectNext
        /\ UNCHANGED <<accountVars, paymentVars, methodVars, moneyVars>>
     \/ /\ part = "money" /\ MoneyNext
        /\ UNCHANGED <<accountVars, paymentVars, methodVars, connectVars>>

Spec == Init /\ [][Next]_mcVars

TypeOK ==
  /\ AccountsTypeOK /\ PaymentsTypeOK /\ MethodsTypeOK /\ ConnectTypeOK /\ MoneyTypeOK
=============================================================================
