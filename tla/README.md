# A formal model of stripe-nestjs

TLA+ modules, TLC runs and TLAPS proofs for the NestJS service in `src/` (the
repository): accounts with JWT refresh sessions and one-time codes, the services
around them, and a Stripe integration, over PostgreSQL (Prisma), Redis (ioredis), a
BullMQ email queue and Stripe's API.  Paths below are relative to `src/src/` unless
they start with `documents/`, `README.md` or `.env.example`.

    tlasany M.tla                                       parse
    tlc -workers 2 -config MCServices.cfg MCServices    one run
    tlapm RefreshSessionsProofs.tla                     proofs

`PROJECT.json` lists the runs, the mutants (plausible bugs in the code, at least one
for every property, each of which TLC finds), the source lines of every definition,
the hazards and the findings.

## 1. Inventory

The service is stateless between requests; every instance of it works on the same
PostgreSQL rows, Redis keys, queue and Stripe account.  A request is a chain of
awaits, and at each of them other requests, of this or another instance, go on.
Nothing locks: what is atomic is one Redis command, one SQL statement, one
transaction (READ COMMITTED, `prisma.uow.ts`) or one call of Stripe's API.  A Redis
command that fails is turned by `redis.service.ts` into null, an empty list, nothing
at all or an exception, according to the command; one that times out may still be
executed.  A call of Stripe may be executed and its answer lost.

| Component | State | What is hard | Correct when | Module |
|---|---|---|---|---|
| Refresh-token sessions | Redis `auth:session:<sid>:jti`, `auth:user:<id>:session:<sid>`, both with TTL | GET-then-SET, a loop of DELs over a listing, two TTLs, timeouts | a replaced jti never returns; a closed session stays closed; tokens are backed | RefreshSessions |
| One-time codes, attempt limit, registration | Redis `otp:<email>`; `failedOtpAttempts`, `accountLockedUntil`, `verified` | compare and delete far apart; counts from stale rows; whole-row writes | one use; a limit on wrong codes; locks that hold and end | OtpVerification |
| Registration, sign-in, password reset and change, OAuth sign-in, unit of work | the users row | checks on rows read long before the write; transactions that commit after they were given up | passwords count only if they are the account's; acknowledged changes are made; a verification is undone only by a registration that found the address free | AccountLifecycle |
| Stripe payments | payment intents, refunds, customers, methods, at Stripe | sequences of calls that fail half-way; amounts in cents | no charge without capture; exact amounts; answers that tell what happened | Payments, PaymentMethods |
| Stripe Connect | connected accounts, banks, balances, payouts, at Stripe | replacement of a bank in two calls; money in steps | sellers keep a bank, and are paid what they earned | ConnectAccounts, ConnectMoney |
| Token rotation with families | Redis `token:family:`, `token:grace:` | races of rotations and revocations, late SETs, lost DELs, expiry of the mark | no false alarm and no rotation after revocation, but where writes have met; a limit that is kept up to the requests past its check | TokenFamilies |
| Anomaly detection | login history, counters, reputation | weights against thresholds; counters of racing requests | usual logins pass; one signal never blocks | AnomalyDetection, AccessControl |
| IP and country lists | Redis sets | a list rebuilt member by member while guards read it | blocked is refused; a start ends with its configuration | AccessControl, GeoAccess |
| Rate limiter, flood guard | counters and block keys with TTL | INCR and EXPIRE are two commands; crashes between | who exceeds is blocked; counts end | RequestLimits |
| Last-activity tracking | Redis `trackLastActivity:<id>`; `lastActivityAt` | set between the batch's GET and DEL; overlapping batches | no activity is lost without one of the known causes | LastActivity |
| Email queue, development viewer | BullMQ jobs, `dev:otp:` keys | workers that die; attempts; clearing while storing | every job is mailed or kept as failed; nobody is told otherwise | CodeDelivery |
| CSRF tokens | Redis `csrf:<id>` | a SET that arrives after the revocation | a revoked token is not accepted | CsrfTokens |
| Error mapping, raw body and webhook | the response | errors translated twice; failures while answering | answered once, with the right status | ErrorResponses |
| Logging and PII masking | none | nested and unnamed fields, Errors, messages without a text; optional and null arguments | no address or secret in an entry, no details lost, but where the code does not mask | SafeLogging |
| Pagination, password rules | none | fractions, off-by-one; switches read as texts | readers see all, once; common passwords refused | Pagination, PasswordRules |
| Access-token guard, configuration, bootstrap, headers, versioning, URL checks, health, API texts | none | - | - | not modelled |

Interaction.  Guards, pipes and filters surround a controller; a controller calls one
use case; a use case calls services, and services the adapters of Redis, Prisma,
BullMQ and Stripe.  Components meet in shared state only: the users row (codes,
account lifecycle, last activity), the Redis keys of a session (sessions, families),
the reputation of an address (anomaly detection writes it, the IP guard reads the
blocklist), a code (issued by OtpVerification, carried by CodeDelivery).  The Redis
keys of different components have different prefixes, so that the components can be
composed side by side.

## 2. How the modules fit together

One module per component.  Its constants are the sets of requests, users, jtis,
codes ... and its limits, with a named assumption about them; its variables are the
shared state and, per request, the await the request is suspended at and its locals;
one action per stretch of code between two awaits.  Variables marked *history* are
read by properties only.  A `...Proofs` module EXTENDS the component, or the few
components, that its theorems are about.

    SessionStore    <-  RefreshSessions   <- RefreshSessionsProofs, MCRefreshSessions
    AttemptLimiter  <-  OtpVerification   <- OtpVerificationProofs, MCOtpVerification
    Money           <-  Payments, ConnectMoney
    AccountLifecycle, Payments, PaymentMethods, ConnectAccounts, ConnectMoney
                                          <- MCOperations
    TokenFamilies, AnomalyDetection, AccessControl, RequestLimits, GeoAccess,
      LastActivity, CodeDelivery, CsrfTokens, ErrorResponses, SafeLogging, Pagination,
      PasswordRules, and RefreshSessions, OtpVerification    <- MCServices
    AccountLifecycle, Payments, PaymentMethods, ConnectAccounts, TokenFamilies,
      LastActivity, CodeDelivery, RefreshSessions, OtpVerification   <- MCLive

    AccountLifecycle                      <- AccountLifecycleProofs
    MCOperations, AccountLifecycleProofs  <- StripeProofs
    TokenFamilies                         <- TokenFamiliesProofs
    RequestLimits, AccessControl, GeoAccess, CsrfTokens      <- AccessProofs
    MCServices, TokenFamiliesProofs, AccessProofs            <- ServicesProofs
    MCServices, RefreshSessionsProofs, OtpVerificationProofs <- SerialProofs

`SessionStore` and `AttemptLimiter` are abstract specifications; the arrow is a
refinement (`INSTANCE ... WITH`), checked and proved.

The MC modules of several components put them side by side: a variable `part`, chosen
initially, says which one moves.  The components named in one MC module share no state
(the Redis prefixes and the columns they write are different), so an interleaving of
two of them shows nothing that each does not show alone; with `part` TLC does not
multiply their state spaces, and it is proved that such a module has no behaviour that
its components have not (`EachPartKeepsItsSpec`, `EachServiceKeepsItsSpec`).  Where code of two components meets in one piece of state
it is in one module: the blocklist in AccessControl, the users row in
AccountLifecycle (registration with its whole-row write is an operation of it,
verification a step), the row and the code in OtpVerification.

## 3. The runs

| Run | Module | What it asks | Instance |
|---|---|---|---|
| `sessions_safety` | MCRefreshSessions | Do spent jtis stay spent, are tokens backed, do cleanly revoked sessions stay closed, is `SessionStore!Spec` implemented, with lost and late commands and racing requests? | 2 users, 1 session, 3 jtis, 2 requests, TTL 1, faults |
| `otp_faults` | MCOtpVerification | Does the inductive invariant hold, were emailed codes stored, with repeated transactions and lost or late commands? | 1 code, 2 requests, limit 2 |
| `otp_races` | MCOtpVerification | Is a redeemed code gone, do lock and count agree, under all races? | 3 codes, 2 requests, limit 2, lock 2 |
| `operations` | MCOperations | Do racing account operations and Stripe operations keep passwords, money and bank accounts right? | 2 requests each; 1 intent, 2 refunds; 2 customers, 1 address; 4 banks; 2 sellers, 2 payouts |
| `services` | MCServices | What do the services around keep up under crashes, failures and races; and what do sessions and codes promise served one request at a time? | 1-3 requests, jobs or instances each |
| `live` | MCLive | Does everything that begins end? | 1-2 requests each, no Redis faults in sessions, codes and families |
| `sessions_single_use` | MCRefreshSessions | finding 1 | 2 requests |
| `sessions_logout` | MCRefreshSessions | finding 2 | 2 requests |
| `full_refund` | MCOperations | finding 3 | as `operations` |
| `forget` | MCOperations | finding 4 | as `operations` |
| `webhook` | MCServices | finding 5 | as `services` |
| `rules` | MCServices | finding 6 | as `services` |

The runs of MCOperations, MCServices and MCLive allow a behaviour to stop
(`CHECK_DEADLOCK FALSE`): a part comes to a halt when its bounds are used up (the last jti generated, the last code
issued), and nothing need ever be asked of the service.

Bounds.  Two requests suffice for every race that was found: each is between one
request that holds a stale value and one that changes it; three would only delay.

- *Sessions and codes.*  Jtis and codes bound how many sign-ins, rotations and
  registrations a behaviour has.  Three jtis let two refreshes of one token race and
  leave a write late that arrives after both.  `MaxFailed` 2 is the least limit at
  which an update is lost without a lock.  With faults one code is enough; the proofs
  cover more.  TTL 1 lets every key expire at any moment; TTL 2 keeps clocks apart
  where the serial promises are about them.
- *Accounts.*  Two requests, two passwords and `MaxRetries` 2: one try that is given
  up and commits late, between the others.  The code's 3 tries are in `live`.
- *Stripe.*  `RefundMills` {0, 4, 10, 16} are the amounts that mean no amount, round
  to nothing, need no rounding and round up; two refunds per intent let one fail and
  another follow.  `MaxBanks` 4 lets two replacements run twice.  `MaxCents` 3 is more
  than one top-up, so that payouts of both sellers can be outstanding.
- *Families.*  Two requests at once.  In `services` one session, three requests one
  after the other or together, and one mishap: a write that is left on its way, a
  lost answer, a crash or an expiry.  `MaxRotations` 1 reaches the limit and lets two
  requests pass its check together.  `live` has two sessions for the loop of the
  logout of all.  More mishaps and requests are the proofs' matter.
- *Counters.*  Limits of 1 are exceeded by two requests at a time and by one after
  the other; `MaxSeen` 3 is one more than both together.
- *Lists, pages, words.*  Two countries, of which none or one is configured; lists of
  0 to 7 records with pages of 1 to 3, in halves; all words of up to 4 letters, of
  every class, with every switch alone on, alone off, and all.

## 4. Refresh-token sessions

`RefreshSessions.tla`.  Requests `Reqs` are concurrent HTTP requests of any number
of instances; `pc[r]` is the await a request is suspended at, `req[r]` its locals.

| State | Code |
|---|---|
| `allow[s]`, `allowTtl[s]` | `auth:session:<sid>:jti` and its EX |
| `indexTtl[u][s]` | `auth:user:<u>:session:<s>`; 0 when absent |
| `late` | writes whose Promise.race timer fired first, still in the client's queue |
| `tokens` | refresh tokens in clients' hands |
| `owner`, `gen`, `stored`, `spent`, `revoked` | history only; no guard of an action of the code reads them |

A sign-in is `SignIn` → `OpenSession` (SET allowlist) → `TrackSession` (SET index)
→ `MintTokens`; a refresh is `PresentToken` → `GuardAccepts` (GET in the strategy)
→ `LookupUser` → `RotateMatches` (GET) → `RotateSet` (SET) → `MintTokens`; a
logout-all is `LogoutAll` → `ListAndBegin` (KEYS) → (`RevokeSession` →
`UntrackSession`) per session.  `IssueUnboundTokens` is the token issue of
verify-otp and of the OAuth sign-in.  With `Faults`, `RequestFails`,
`SetWithoutReply`, `DelGivenUp`, `LateArrives`, `LateIsLost` follow
`redis.service.ts`: `get` answers null, `keys` answers [], `del` gives up silently,
`set` throws; and what was given up may still be executed, once or twice.

`SessionStore.tla` is the client's view: one current jti per session, and spent
ones.  `AtomicSpec` is what the comment above `rotateIfMatches` says (compare and
replace in one step); `Spec` is the weaker promise that survives races and faults.
`sessions_safety` checks `SpentNeverAccepted`, `IssuedTokensAreBacked`,
`CleanRevocationIsFinal`, the inductive `IInv` and the refinement of `Spec`;
`SerialPromises` of `services` the refinement of `AtomicSpec` with one request at a
time.

## 5. One-time codes

`OtpVerification.tla` is one account: its row, its Redis key, and requests that
register, resend, sign in with MFA and verify.

| State | Code |
|---|---|
| `row` | `verified`, `failedOtpAttempts` (`failed`), `accountLockedUntil` (`lock`, in minutes left) of the users row |
| `otp`, `otpTtl` | `otp:<email>` and its EX |
| `req[r].row` | the row a request has read and still uses |
| `late` | SETs and DELs given up by `redis.service.ts` or by the timer of `storeOtp` |
| the rest | history |

Abstractions: a code is generated at most once (six random digits); counts above
`MaxFailed` are `MaxFailed`, the code only compares with `>=`; a lock is the
number of whole minutes left, and a row held by a request runs down with the clock
as the timestamp in it does.  `SignInMfa` begins where the code was generated: the
reads before it (password, `verified`) touch nothing of this component.
`RegisterFind` and `RegisterWrite` are the two statements of the registration's
transaction, which READ COMMITTED does not isolate from each other; they use the
row even when it is of another request's making.

`AttemptLimiter.tla` is the promise: so many wrong codes, then a lock that runs
its time.  The component implements it only when requests are served one at a time
(`SerialPromises`, with limit 3, lock 2 and TTL 2, along with one use of a code,
announced codes that survive, verification that is kept); what survives races is in
`otp_races`, what survives faults in `otp_faults`.

## 6. Accounts

`AccountLifecycle.tla`: the users row of one address under registration, sign-in,
OAuth sign-in, forget-password and change-password.

| State | Code |
|---|---|
| `row` | the columns the use cases read or write: exists, soft-deleted, password (a hash is the password), verified, source of login |
| `accPc`, `accReq` | a request's await; what it was given, the row it has read, its tries |
| `late` | transactions whose timer in `prisma.uow.ts` has fired and that still run |
| `since` | history, since a request began: the passwords of the row; whether an OAuth sign-in had an account all along; whether a registration had none, or none verified, at some time |

Every statement is a step: find, the update of `lastActivityAt`, the reset's flag,
`createUser` (`CreateLooks`, then `SaveNewUser` or `UpdateWholeRow` with the row it
has read), `logoutPin`.  A password change checks the old password; a registration
goes on when it finds nobody, or somebody who is not verified (`FindForRegister`), and
hashes the password.  Either then runs its transaction in the loop of
`withTransaction`: a registration finds the address again, deleted rows too
(`RegisterFinds`), and writes the whole row, unverified; `TxCommits`, `TxErrs` (tried
again), `TxGivenUp` (the timer; `LateCommit` or `LateAborts` follow at any time),
`TxRefused` (P2002 and its like, not tried again); `Exhausted` counts the tries.
`AccountFails` ends a request at any database error.  Verification by a code and the
removal of the account are a step each.  A sign-in stops where it hands over to
RefreshSessions or OtpVerification.

`PasswordsAreChecked` is the strongest that holds: a password that was changed while
a sign-in was under way still passes, since the row was read before.
`AcknowledgedChangeHolds` includes that the last of the tries is answered by an error.
`AccountsAreKept` names who may undo what a verified account has, and it has to name
them: the row a registration writes is decided on a check several awaits old, so one
that found the address free un-verifies, and gives its own password to, an account
that was verified meanwhile, even after its timer gave it up.  Everybody else is held
to the account: OAuth sign-ins verify and never un-verify, and write password and
source only for an address that was without an account at some time since they began;
changes need the old password.

## 7. Stripe

The service keeps no state of Stripe's, so the state is what Stripe keeps; its
operations refuse as Stripe's API does (external definitions in `PROJECT.json`).  A
call may be executed and its answer lost, which a request of several calls sees as a
failure.  Amounts are in mills at the clients and in cents at Stripe (`Money.tla`);
every conversion is where the code has it (use case, service or adapter).  Refunds of an
intent and payouts are lists in the order Stripe made them, which is the order its list
calls answer in.

| Module | State | Actions | Properties |
|---|---|---|---|
| `Payments` | intents, refunds, requests | create, confirm, authenticate, capture, cancel, refund, the loop of the bulk refund, the status report in two steps | no charge without capture; exact amounts; a bulk accounts for every id and every refund; a report never promises more than is left |
| `PaymentMethods` | customers, methods, defaults, setup intents | look up, create, delete, attach + make default (either use case), detach, show the card | a save that succeeds has saved, one that fails has a cause; lookups move forward |
| `ConnectAccounts` | accounts, their banks | create, onboarding, link, add, delete, replace a bank (create + delete) | a replacement never leaves a seller without a bank; sellers get their link |
| `ConnectMoney` | balances, payouts | top-up, transfer, payout, settle, cancel, list, status | sellers are paid what they earned, exactly; a list is empty only if there is nothing |

## 8. The services

| Module | Code | What an action is | Faults |
|---|---|---|---|
| `TokenFamilies` | `token-rotation.service.ts` | one Redis command of any of the rotations and logouts of all under way | each command, writes that arrive late or twice, lost DELs, crashes, expiry of each key |
| `AnomalyDetection` | scores of `anomaly-detection.service.ts` | one command of an analysis; hours pass | expiry of the window |
| `AccessControl` | its counters and blocks, `ip-control.service.ts`, its guard | one command of recording, blocking, unblocking, checking | expiry of counters and reasons |
| `GeoAccess` | `geolocation.service.ts`, its guard | one command of a start, of an administrator, of the guard | starts broken off, reads that fail, lost DELs |
| `RequestLimits` | `rate-limiter.ts`, `ddos-protection.guard.ts` | one command (the limiter's MULTI is one) | each command, crashes between two |
| `LastActivity` | `last-activity-track.service.ts`, its interceptor, sign-in's write | SETs nobody waits for, the batch's list, GET, find, write, DEL | each, overlapping batches |
| `CodeDelivery` | email queue and processor, email adapter, development viewer | add, take, mail, fail, delay, complete; list and clear | lost answers, workers that die, stalled jobs |
| `CsrfTokens` | `csrf.guard.ts` | get, revoke, read in the guard | SETs that fail or come late, lost DELs |
| `ErrorResponses` | `problem-details.filter.ts`, the adapters' translation, `raw-body.middleware.ts`, webhook | one hand-over of the exception | handlers that have answered, `json()` and then `send()` that throw, thrown non-errors |
| `SafeLogging` | `logger.service.ts`, `pii-masker.service.ts`, `logging.interceptor.ts` | one call | - |
| `Pagination` | `pagination.ts` | a reader asks for the next page | - |
| `PasswordRules` | `password-validation.service.ts`, `auth.config.ts` | one word against one environment | - |

TokenFamilies, AnomalyDetection and CsrfTokens are of services or guards that the
repository has, but no route uses; nothing is assumed about callers they do not have.
`TokensAreJudged` and `RevokedStaysRevoked` say what racing rotations leave of that
service's promises.  A token is taken for stolen only after its grace period has begun,
unless a GET and a SET of the allowlist key have seen different jtis (`clashed`), in which
case one of two genuine clients is the thief; the count exceeds `MAX_ROTATIONS` by the
requests that passed its check together, `MaxRotations - 1 + |FamReqs|`, unless an update
of the record was lost.  A revocation holds twice: by the deleted jti, unless a SET was
on its way; and by the mark in the record, unless the record has been without the mark
since (`bare`), so a DEL that was lost does no harm by itself.
`ErrorsAreAnswered` promises 403 for refusals whose message says so in a phrase: an
invalid request with the bare word "permission" is 403 of the first translation and, its
type gone, 500 of the second.
`FailuresCloseTheDoor` relates the two services that share the blocklist.
`SafeLogging` has a value of any depth as the set of its leaves, each with the path of
field names to it and what it says: the code's recursion over a value is a map over its
leaves.  The message of a call is a text, an object with a text for a message, an object
without one (`untold`), or one whose message is an object (`nested`): the last two are
written by `JSON.stringify`, and `NothingKnownIsShown` says what of addresses and secrets
remains readable there, and in Errors and nested fields of details, which the logger
leaves as they are.  A null third argument of `warn` and `error` takes the place of the
details; `DetailsAreWritten` has it as its one exception.

## 9. Fairness

`live` asks weak fairness of the steps that continue a request, a batch, a job or a
rotation that has begun, per request, and of `Tick` of the sessions and codes.  Node's
event loop settles every await: Redis calls by their 5 s timers, database calls by
Prisma's timeouts, Stripe calls by the SDK's, with an answer or an exception; so
nothing is left for ever at a step it can take.  BullMQ's worker takes waiting jobs,
returns delayed ones when their delay ends, and gives up a job that stalls too often.
Time passes.  Nothing is asked of clients and administrators (no request need ever
begin), of failures, of late commits or of expiries.  Sessions, codes and families
have no faults in this run: with faults an await settles all the same, by a step that
ends the request.

## 10. Proofs

Every safety property that a passing run checks is also a theorem, listed in
`PROJECT.json`; so is the type correctness of every component.  Constants are arbitrary
(sets of any size, any limits; faults or none where a module leaves that open), under the
named assumptions of each module: limits are numbers, positive where the code needs it;
null values are not members; the values that a run enumerates have the shapes the
program can meet (passwords of these letters, customers numbered as Stripe creates
them); in MCServices, sessions and codes are served one request at a time.  Every
component has the same layout: lemmas about the operators, one lemma per action or kind
of step, a lemma that joins them, and the theorems as consequences of one inductive
invariant.

*RefreshSessionsProofs.*  "A spent jti is never accepted" is not inductive: one must
know where a jti can be whose SET has yet to happen.  `IInv` adds that it belongs to
one request or one late write only, and is in no token yet (`UnissuedJtisAreUnique`),
while a spent jti is in a token (`SpentIsIssued`); hence no SET, however late, can
write a spent one.  `CleanlyRevokedIsQuiet` does the same for revoked sessions.
`ImplementsStore` proves the refinement of `SessionStore!Spec`: every action is a
`Replace`, a `Drop`, or a stutter, using the invariant for the spent sets.
`SerialSessionsAreAtomic` proves that of `AtomicSpec` for one request and no faults: the
SET then meets what the GET has seen, or an expired key (`SetsMeetWhatWasRead`), and is a
`Rotate` or a `Renew`; that of a sign-in meets nothing, because a jti is generated only
for a session somebody has opened (`SessionsAreOpened`).

*OtpVerificationProofs.*  `CodesInOrder` says how far a code has come at each step
(generated, stored, presented), `StoredOnce` that a code whose SET is pending was
never stored and is pending in one request only, and that a SET left behind is of
an abandoned code: so a redeemed code comes back only if its SET was abandoned.
`LockedMeansExhausted` covers the row and every copy of it, which is what makes the
stale write of a registration harmless for it.  `SerialCodesKeepTheirPromises` is about
one request and no faults: the copy of the row is then the row, run down by the same
clock (`KnowsTheRow`), the key is that of the code presented, or expired
(`KnowsTheCode`), and `RedeemedCodeIsGone` has no exception left.

*SerialProofs.*  `SerialPromisesHold`: these two theorems for the sessions and the codes
of MCServices, by showing that its instances are those the theorems speak of.

*AccountLifecycleProofs.*  What a request knows of the row it has read: `Sound(r)` says
that the present password, and the one it has read, are among those of the row since it
began, that what it has checked was one of them, that a change at `changed` has been in
the row, and that only OAuth sign-ins create rows.  Every write of every other request,
and every late commit, goes through `WriteRow`, which keeps the history of all requests:
hence a lemma for what moves and one for all that does not.  `AccountsAreAlwaysKept`
needs in addition that a transaction, also one that commits late, is of a registration
that found the address free or of a change that knew the password (`RunsAsEntitled`,
`LateOK`), and what an OAuth sign-in has seen of the row (`KeepsCount`).

*StripeProofs.*  Payments: `PayInv` adds to "received only if capture was asked" that
every intent has manual capture, which is why no confirmation charges it; for amounts
that every refund in a list is of an exact amount; for the bulk refund that its marks are
its own; for the report what it has read.  Sums over lists of any length are the last
value of a function over the places of the list; what they do when the list grows or one
place of it changes is proved by induction over the places, from the least number that
would be outside.  So are `BalancesHold` (what an intent gave back is covered) and
`SellersArePaid` (balance and payouts add up to what was transferred).  Saved cards: a
save that has attached its method finds it attached, or knows of trouble; customers are
created in the order of their identifiers.  Connected accounts: a replacement about to
delete the old bank has a younger one beside it.

*TokenFamiliesProofs.*  `FamInv` says what each request and each write on its way can
rely on (`Right`, `RightWrite`): a token handed out is the last jti its session's key
had, or graced, or the key was written blindly (`Accounted`), and a SET on its way, late
or not, replaces a graced one.  A session is shut for good because nothing that could
write its key is on its way (`ShutIsFinal`), and no rotation that began after a
revocation passes the check of a marked record.  `RoomIsLeft`: the count of a family and
the requests past its check fit under one bound, which is what the limit amounts to.

*AccessProofs.*  Limits: a request above a limit has blocked, or is on its way to
(`FloodsAreDealtWith`), or the counter is excused; the guard's count has a TTL or the
first request of the window is about to set it (`WindowsEnd`).  Blocklist: an address
with too many failures is blocked, pardoned, or about to be blocked by one that recorded
them.  Countries: a clean start has loaded what it has gone through so far.  CSRF: a SET
that is late is of a token nobody has.

*ServicesProofs.*  Last activity: what each batch holds as long as no cause of a loss
has occurred (`NoCause`): its DEL is harmless once it has written the newest activity.
Delivery: for each state of a job what has been told and mailed (`JobsAreTruthful`), and
what "clear all" still has in hand (`ViewClears`).  Pages: what has been shown is the
interval of records from the first page's offset to the end of the present page; the
arithmetic of products is in lemmas.  Passwords: the answer is the first rule that is on
and broken.  Errors: where an exception is says what it is and who has answered.
Logging: a leaf is masked at the first known field of its path, or in its text; what is
out of the masker's reach begins with an Error or an unknown field.
`ServiceTypesHold` joins the types of the twelve components.

Only model-checked: liveness (run `live`), which is out of the provers' reach, and the
violations below.

## 11. Findings

Statements of the repository's own texts that the code does not keep, each a run
that ends in a counterexample (`PROJECT.json` quotes text and line).

1. Refresh tokens are not single-use: `rotateIfMatches` is a GET, then a SET.
2. A refresh under way during logout-all re-opens the session.
3. A refund of an amount that is 0, or rounds to no cent, refunds everything.
4. Forget-password never sends a code: its own flag is read back as false.
5. No webhook event is received: the raw body is not captured for the route's path.
6. Password rules that the environment sets to `false` stay on.

The modules state more such promises that fail, without a run of their own.  Add the
name to a cfg to see the trace.

- RefreshSessions, two requests: `LiveSessionsAreIndexed` (a refresh renews the
  allowlist key but not the index key, so that logout-all no longer finds the
  session).  `IssueUnboundTokens`: refresh tokens of verify-otp and of the OAuth
  sign-in carry no sid and no jti, so the refresh guard rejects them, while
  `documents/logics_md/jti_refresh_flow.md` attaches a jti to every one.
- OtpVerification, two requests: `CodesAreOneTime` (two verifications read the code
  before either deletes it), `WrongCodesAreLimited` (counts from stale rows),
  `AnnouncedCodesSurvive` (the DEL after a verification deletes a newer code),
  `LockRunsItsTime` (null is written over a lock).
- ConnectMoney: `PayoutsCanBeCanceled` (the call names no connected account).
- AccessControl: `TemporaryBlocksEnd` (what expires is the reason, not the block).
- GeoAccess: `OnlyConfiguredPass` (every start empties the list first).

Others fail in the cases that a property names as its exceptions, where its comment
quotes the promise: verified accounts stay verified (AccountLifecycle, but for
registrations; OtpVerification, `VerifiedStaysVerified`, two requests); the limit and the
grace period of TokenFamilies, with two rotations at once; "Will return 403 Forbidden" of
the update of a bank account (ErrorResponses); "masks PII in all log calls" (SafeLogging).

## 12. Not modelled

Access-token guard (a signature and an expiry); the outbound URL checks, which nothing
calls; contents of tokens; bcrypt; the
wording of answers, alerts and logs; `verbose` and `debug`, which log like `info`;
headers of the rate limiter, versioning, helmet and CORS; configuration loading,
bootstrap, health checks, Swagger and API texts, the URL in a log entry (written as it
is), DTOs and their decorators (their
rules are those of PasswordRules and the amounts above); the page of HTML of the
development viewer; the lookup of an address's country over HTTP, whose result is an
input; cursor pagination, which only copies its arguments; currencies without cents;
registration's names; the stack in a log entry (written as it is); finders of the user
repository that nothing calls.  These have no state of the program's own or no branch
that a property could be about.  Connection management of `redis.service.ts` is
abstracted to whether a command is answered.
