--------------------------- MODULE ConnectAccounts ---------------------------
(***************************************************************************)
(* Connected accounts: their onboarding and their bank accounts.  All state *)
(* is at Stripe; a request that makes several calls interleaves with the    *)
(* others between them.  A call may be executed and its answer lost; one    *)
(* that is refused, or lost on its way, changes nothing at Stripe.          *)
(***************************************************************************)
EXTENDS Integers

CONSTANTS Accounts, ConnectReqs,
          MaxBanks,           \* bound: bank accounts ever created
          NoAccount

ASSUME ConnectAssumption ==
  MaxBanks \in Nat /\ NoAccount \notin Accounts

VARIABLES
  account,        \* the connected accounts: type and whether they are complete
  banks,          \* their bank accounts; identifiers are numbers, never reused
  lastBank,       \* the last identifier given away
  unbanked,       \* history: accounts whose banks someone deleted directly
  connPc, conn,   \* requests of several calls and their locals
  profile         \* history: the last answer of getConnectAccount

connectVars ==
  <<account, banks, lastBank, unbanked, connPc, conn, profile>>

\* Where the two URLs of a link come from: the request, or else the environment
\* (STRIPE_CONNECT_REFRESH_URL and STRIPE_CONNECT_RETURN_URL), or nowhere.
Urls == [refresh : {"request", "env", "nowhere"}, back : {"request", "env", "nowhere"}]
NoUrls == [refresh |-> "nowhere", back |-> "nowhere"]

IdleConn == [account |-> NoAccount, old |-> 0, urls |-> NoUrls]
NoProfile == [needs |-> FALSE, link |-> FALSE, urls |-> NoUrls, message |-> FALSE]

ConnectInit ==
  /\ account = [a \in Accounts |-> [type |-> "none", complete |-> FALSE]]
  /\ banks = [a \in Accounts |-> {}]
  /\ lastBank = 0 /\ unbanked = {}
  /\ connPc = [r \in ConnectReqs |-> "idle"]
  /\ conn = [r \in ConnectReqs |-> IdleConn]
  /\ profile = NoProfile
-----------------------------------------------------------------------------
(* Accounts and their onboarding *)

\* STRIPE_CONNECT_ACCOUNT_TYPE: anything but "custom" means Express.
ConnectAccountType(configured) == IF configured = "custom" THEN "custom" ELSE "express"

CreateConnectAccount(a) ==
  /\ account[a].type = "none"
  /\ \E configured \in {"custom", "express", "unset"} :
       account' = [account EXCEPT ![a].type = ConnectAccountType(configured)]
  /\ UNCHANGED <<banks, lastBank, unbanked, connPc, conn, profile>>

\* Outside: Stripe completes an account, or asks for more.
Onboarded(a) ==
  /\ account[a].type # "none"
  /\ account' = [account EXCEPT ![a].complete = ~@]
  /\ UNCHANGED <<banks, lastBank, unbanked, connPc, conn, profile>>

\* Mutant: those of the request alone count.
LinkUrlsOfRequest(urls) == urls.refresh = "request" /\ urls.back = "request"
\* refreshUrl || env, returnUrl || env
LinkUrls(urls) == urls.refresh # "nowhere" /\ urls.back # "nowhere"

\* The account is asked for what it may do so far.
NeedsOnboarding(a) == ~account[a].complete

\* getConnectAccount: the account, then a link if it is incomplete.
GetConnectAccount(r) ==
  /\ connPc[r] = "idle"
  /\ \E a \in Accounts, urls \in Urls :
       /\ account[a].type # "none"
       /\ LET needs == NeedsOnboarding(a) IN
          IF needs /\ LinkUrls(urls)
          THEN /\ connPc' = [connPc EXCEPT ![r] = "link"]
               /\ conn' = [conn EXCEPT ![r].account = a, ![r].urls = urls]
               /\ UNCHANGED profile
          ELSE /\ profile' = [needs |-> needs, link |-> FALSE, urls |-> urls, message |-> needs]
               /\ UNCHANGED <<connPc, conn>>
  /\ UNCHANGED <<account, banks, lastBank, unbanked>>

\* The endpoint for a link alone: without the URLs it is a bad request, and an
\* account that needs no onboarding gets its link too.
RequestAccountLink(r) ==
  /\ connPc[r] = "idle"
  /\ \E a \in Accounts, urls \in Urls :
       /\ account[a].type # "none" /\ LinkUrls(urls)
       /\ conn' = [conn EXCEPT ![r].account = a, ![r].urls = urls]
  /\ connPc' = [connPc EXCEPT ![r] = "link only"]
  /\ UNCHANGED <<account, banks, lastBank, unbanked, profile>>

Done(r) ==
  /\ connPc' = [connPc EXCEPT ![r] = "idle"]
  /\ conn' = [conn EXCEPT ![r] = IdleConn]

\* The call of the link answers, or fails and the whole request with it.
CreateAccountLink(r) ==
  /\ connPc[r] \in {"link", "link only"} /\ Done(r)
  /\ \/ /\ connPc[r] = "link"
        /\ profile' = [needs |-> TRUE, link |-> TRUE, urls |-> conn[r].urls, message |-> FALSE]
     \/ UNCHANGED profile
  /\ UNCHANGED <<account, banks, lastBank, unbanked>>
-----------------------------------------------------------------------------
(* Bank accounts.  Express accounts have theirs from Stripe's own pages, and   *)
(* Stripe refuses these calls for them.                                        *)

StripeCreateBank(a) ==
  /\ account[a].type = "custom" /\ lastBank < MaxBanks
  /\ lastBank' = lastBank + 1
  /\ banks' = [banks EXCEPT ![a] = @ \cup {lastBank'}]

CreateExternalBankAccount(a) ==
  /\ StripeCreateBank(a)
  /\ UNCHANGED <<account, unbanked, connPc, conn, profile>>

OnboardingAddsBank(a) ==
  /\ account[a].type = "express" /\ banks[a] = {} /\ lastBank < MaxBanks
  /\ lastBank' = lastBank + 1
  /\ banks' = [banks EXCEPT ![a] = {lastBank'}]
  /\ UNCHANGED <<account, unbanked, connPc, conn, profile>>

CanDeleteBank(a, b) == account[a].type = "custom" /\ b \in banks[a]

StripeDeleteBank(a, b) ==
  CanDeleteBank(a, b) /\ banks' = [banks EXCEPT ![a] = @ \ {b}]

\* Clients name a bank account they have once been shown by a list.
EverListed == 1 .. lastBank

DeleteExternalAccount(a) ==
  /\ \E b \in EverListed : StripeDeleteBank(a, b)
  /\ unbanked' = unbanked \cup {a}
  /\ UNCHANGED <<account, lastBank, connPc, conn, profile>>

\* updateExternalBankAccount: the client names the bank to replace.
UpdateBankAccount(r) ==
  /\ connPc[r] = "idle"
  /\ \E a \in Accounts, b \in EverListed :
       conn' = [conn EXCEPT ![r].account = a, ![r].old = b]
  /\ connPc' = [connPc EXCEPT ![r] = "create"]
  /\ UNCHANGED <<account, banks, lastBank, unbanked, profile>>

\* The new bank exists: its answer arrives or is lost.  A create that is refused
\* ends the request.
UpdateCreates(r, at, next) ==
  LET a == conn[r].account IN
  /\ connPc[r] = at
  /\ \/ /\ StripeCreateBank(a)
        /\ \/ connPc' = [connPc EXCEPT ![r] = next] /\ UNCHANGED conn
           \/ Done(r)
     \/ UNCHANGED <<banks, lastBank>> /\ Done(r)
  /\ UNCHANGED <<account, unbanked, profile>>

\* A delete that fails is logged and forgotten: the request succeeds.
UpdateDeletes(r, at, next) ==
  LET a == conn[r].account IN
  /\ connPc[r] = at
  /\ StripeDeleteBank(a, conn[r].old) \/ UNCHANGED banks
  /\ connPc' = [connPc EXCEPT ![r] = next]
  /\ conn' = [conn EXCEPT ![r] = IF next = "idle" THEN IdleConn ELSE @]
  /\ UNCHANGED <<account, lastBank, unbanked, profile>>

\* Mutant: the old bank goes first.
UpdateSwapped(r) == UpdateDeletes(r, "create", "delete") \/ UpdateCreates(r, "delete", "idle")

UpdateExternalBankAccount(r) ==
  UpdateCreates(r, "create", "delete") \/ UpdateDeletes(r, "delete", "idle")
ConnectProgress(r) == CreateAccountLink(r) \/ UpdateExternalBankAccount(r)

ConnectNext ==
  \/ \E a \in Accounts :
       \/ CreateConnectAccount(a) \/ Onboarded(a) \/ OnboardingAddsBank(a)
       \/ CreateExternalBankAccount(a) \/ DeleteExternalAccount(a)
  \/ \E r \in ConnectReqs :
       \/ GetConnectAccount(r) \/ RequestAccountLink(r) \/ CreateAccountLink(r)
       \/ UpdateBankAccount(r) \/ UpdateExternalBankAccount(r)

ConnectSpec == ConnectInit /\ [][ConnectNext]_connectVars
-----------------------------------------------------------------------------
(* Properties *)

ConnectTypeOK ==
  /\ account \in [Accounts -> [type : {"none", "express", "custom"}, complete : BOOLEAN]]
  /\ banks \in [Accounts -> SUBSET (1 .. lastBank)]
  /\ connPc \in [ConnectReqs -> {"idle", "link", "link only", "create", "delete"}]

\* Replacing bank accounts never leaves a seller without one, however many
\* replacements run at once and whichever of their calls fail: an account that
\* had a bank has one until somebody deletes one outright.
UpdateKeepsABank ==
  \A a \in Accounts : banks[a] # {} /\ banks'[a] = {} => a \in unbanked'

\* A seller who is not ready is sent on: the answer has a link whenever the
\* request or the environment has the URLs, and says what is missing otherwise.
SellersGetTheirLink ==
  profile.needs =>
    /\ profile.link <=> "nowhere" \notin {profile.urls.refresh, profile.urls.back}
    /\ profile.message <=> ~profile.link

\* A seller keeps a way to be paid, and finds the way to become ready for it.
SellersAreServed == [][UpdateKeepsABank /\ SellersGetTheirLink']_connectVars
=============================================================================
