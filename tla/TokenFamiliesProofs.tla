------------------------- MODULE TokenFamiliesProofs -------------------------
(***************************************************************************)
(* What TokenFamilies promises, for any number of requests, sessions,      *)
(* failures and late writes, and for any limit.  None of it is inductive   *)
(* alone; FamInv says what the requests and the writes on their way know:  *)
(*   - a token that was handed out is the last one of its session's        *)
(*     allowlist key, or graced, or its session's jti was written blindly  *)
(*     (Accounted), and a SET on its way replaces a graced one;            *)
(*   - the count of a family and the requests past its check have room     *)
(*     under one bound (RoomIsLeft);                                       *)
(*   - a session shut has no jti and no SET on its way (ShutIsFinal), and  *)
(*     no rotation begun after a revocation passes the check of a record   *)
(*     that is marked (part of Right).                                      *)
(***************************************************************************)
EXTENDS TokenFamilies, FiniteSetTheorems, FunctionTheorems, TLAPS

FamRecord == [count : Int, revoked : BOOLEAN]
Past == {"store", "compare", "set", "count", "counted"}
Rotating == {"check", "grace", "family", "create"} \cup Past
Causes == {"none", "reuse", "limit", "all"}
FamRequest ==
  [sid : FamSids \cup {"none"}, jti : Nat, seen : Nat, new : Nat, fam : FamRecord,
   cause : Causes, todo : SUBSET FamSids, after : SUBSET FamSids]
FamWrites ==
  [key : {"family", "grace", "set", "del", "unindex"}, sid : FamSids, seen : Nat, jti : Nat,
   old : FamRecord, fam : FamRecord]

FamKeyTypes ==
  /\ allowed \in [FamSids -> Nat] /\ grace \in [FamSids -> Nat]
  /\ family \in [FamSids -> FamRecord]
  /\ indexed \subseteq FamSids
  /\ famLate \subseteq FamWrites
FamReqTypes ==
  famPc \in [FamReqs -> FamSteps] /\ famReq \in [FamReqs -> FamRequest]
FamHistTypes ==
  /\ lastJti \in Nat /\ held \subseteq FamSids \X Nat
  /\ latest \in [FamSids -> Nat]
  /\ ended \subseteq FamSids /\ shut \subseteq FamSids

FamTypes == FamKeyTypes /\ FamReqTypes /\ FamHistTypes

Judged(s, j) == <<s, j>> \in graced \/ <<"allowed", s>> \in clashed
Accounted(s, j) == j = latest[s] \/ Judged(s, j)

\* What a request at step p, with the locals q, can rely on.
Right(p, q) ==
  /\ p # "idle" => q.sid \in FamSids
  /\ p \in Rotating => <<q.sid, q.jti>> \in held /\ q.cause = "none"
  /\ p \in Rotating \ {"check"} => q.seen # 0
  /\ p = "grace" \/ q.cause = "reuse" => Judged(q.sid, q.jti)
  /\ q.cause # "all" => q.todo = {}
  /\ p \in {"compare", "set"} => <<q.sid, q.seen>> \in graced
  /\ p \in {"count", "counted"} => Accounted(q.sid, q.new)
  /\ p \in Rotating => q.after \subseteq ended
  /\ p \in Past /\ q.sid \in q.after => q.sid \in bare
RequestsAreRight == \A r \in FamReqs : Right(famPc[r], famReq[r])

\* What a write that is on its way replaces; what one left there does no harm to.
RightWrite(w) == w.key = "set" => <<w.sid, w.seen>> \in graced
WritesAreRight ==
  \A w \in famLate : RightWrite(w) /\ (w.key = "family" => <<"family", w.sid>> \in clashed)

KeysAreRight ==
  /\ \A s \in FamSids : allowed[s] \in {0, latest[s]}
  /\ \A t \in held : Accounted(t[1], t[2])
  /\ \A s \in ended : family[s].revoked \/ s \in bare

ShutIsFinal == \A s \in shut : allowed[s] = 0 /\ ~SetOnItsWay(s)

\* The requests that are past the check of the family of s.
PastCheck(s) == {r \in FamReqs : famPc[r] \in Past /\ famReq[r].sid = s}
RoomIsLeft ==
  \A s \in FamSids : <<"family", s>> \notin clashed =>
    family[s].count + Cardinality(PastCheck(s)) <= MaxRotations - 1 + Cardinality(FamReqs)

FamInv ==
  /\ FamTypes /\ RequestsAreRight /\ WritesAreRight /\ KeysAreRight
  /\ ShutIsFinal /\ RoomIsLeft
-----------------------------------------------------------------------------
(* Requests and the writes they send *)

LEMMA FirstJtiIsTyped ==
  /\ FirstJti \in [FamSids -> Nat]
  /\ Cardinality(FamSids) \in Nat
<1> DEFINE n == Cardinality(FamSids)
<1>1. IsFiniteSet(FamSids)
  BY FamilyAssumption DEF FamilyAssumption
<1>2. n \in Nat /\ ExistsBijection(1 .. n, FamSids)
  BY <1>1, FS_CardinalityType
<1>3. ExistsBijection(FamSids, 1 .. n)
  BY <1>2, Fun_ExistsBijSymmetric
<1>4. \E f \in [FamSids -> 1 .. n] : \A s, t \in FamSids : f[s] = f[t] => s = t
  BY <1>3 DEF ExistsBijection, Bijection, Injection, IsInjective
<1> HIDE DEF n
<1>5. FirstJti \in [FamSids -> 1 .. n]
  BY <1>4 DEF FirstJti, n
<1>6. \A k \in 1 .. n : k \in Nat
  BY <1>2
<1> QED
  BY <1>2, <1>5, <1>6 DEF n

LEMMA Requests ==
  ASSUME NEW q \in FamRequest
  PROVE  /\ q.sid \in FamSids \cup {"none"} /\ q.jti \in Nat /\ q.seen \in Nat /\ q.new \in Nat
         /\ q.fam \in FamRecord /\ q.cause \in Causes /\ q.todo \subseteq FamSids
         /\ q.after \subseteq FamSids
  BY DEF FamRequest

LEMMA RecordFacts ==
  /\ NoFamily \in FamRecord /\ NoFamily.count = -1 /\ ~NoFamily.revoked
  /\ [count |-> 0, revoked |-> FALSE] \in FamRecord
  /\ \A f \in FamRecord :
       /\ f.count \in Int /\ f.revoked \in BOOLEAN
       /\ [f EXCEPT !.count = @ + 1] \in FamRecord
       /\ [f EXCEPT !.count = @ + 1].count = f.count + 1
       /\ [f EXCEPT !.revoked = TRUE] \in FamRecord
       /\ [f EXCEPT !.revoked = TRUE].count = f.count
<1>1. /\ NoFamily \in FamRecord /\ NoFamily.count = -1 /\ ~NoFamily.revoked
      /\ [count |-> 0, revoked |-> FALSE] \in FamRecord
  BY DEF NoFamily, FamRecord
<1>2. \A f \in FamRecord : f.count \in Int /\ f.revoked \in BOOLEAN
  BY DEF FamRecord
<1>3. \A f \in FamRecord : /\ [f EXCEPT !.count = @ + 1] \in FamRecord
                           /\ [f EXCEPT !.count = @ + 1].count = f.count + 1
  BY DEF FamRecord
<1>4. \A f \in FamRecord : /\ [f EXCEPT !.revoked = TRUE] \in FamRecord
                           /\ [f EXCEPT !.revoked = TRUE].count = f.count
  BY DEF FamRecord
<1> QED
  BY <1>1, <1>2, <1>3, <1>4

LEMMA IdleRequest ==
  /\ FamIdle \in FamRequest
  /\ FamIdle.cause = "none" /\ FamIdle.todo = {}
  BY RecordFacts DEF FamIdle, FamRequest, Causes

\* The write a request sends, by the step it is in.
LEMMA Writes ==
  ASSUME NEW key \in {"family", "grace", "set", "del", "unindex"}, NEW q \in FamRequest,
         q.sid \in FamSids, NEW j \in Nat, NEW f \in FamRecord
  PROVE  LET w == FamWrite(key, q, j, f) IN
         /\ w \in FamWrites /\ w.key = key /\ w.sid = q.sid /\ w.seen = q.seen
         /\ w.jti = j /\ w.old = q.fam /\ w.fam = f
  BY Requests DEF FamWrite, FamWrites

Sends(r, w) ==
  LET q == famReq[r] IN
  /\ w \in FamWrites /\ w.sid = q.sid /\ w.seen = q.seen /\ w.old = q.fam
  /\ w.key = "family" <=> famPc[r] \in {"create", "counted", "revoked"}
  /\ famPc[r] = "create" => w.fam.count = 0 /\ ~w.fam.revoked
  /\ famPc[r] = "counted" => w.fam.count = q.fam.count + 1
  /\ famPc[r] = "revoked" => w.fam.count = q.fam.count
  /\ w.key = "grace" <=> famPc[r] = "store"
  /\ w.key = "set" <=> famPc[r] = "set"
  /\ w.key = "set" => w.jti = q.new
  /\ w.key = "del" <=> famPc[r] = "del"
  /\ w.key = "unindex" <=> famPc[r] = "unindex"

LEMMA Commands ==
  ASSUME FamReqTypes, RequestsAreRight, NEW r \in FamReqs, famPc[r] \in FamSets \cup FamDels
  PROVE  Sends(r, FamCommand(r))
<1> DEFINE q == famReq[r]
<1>1. q \in FamRequest /\ q.sid \in FamSids
  BY DEF FamReqTypes, RequestsAreRight, Right, FamSets, FamDels
<1>2. q.jti \in Nat /\ q.new \in Nat /\ q.fam \in FamRecord
  BY <1>1, Requests
<1>3. CASE famPc[r] = "create"
  <2>1. FamCommand(r) = FamWrite("family", q, 0, [count |-> 0, revoked |-> FALSE])
    BY <1>3 DEF FamCommand
  <2>2. [count |-> 0, revoked |-> FALSE] \in FamRecord
    BY <1>2, RecordFacts
  <2>3. /\ FamCommand(r) \in FamWrites /\ FamCommand(r).key = "family"
        /\ FamCommand(r).sid = q.sid /\ FamCommand(r).seen = q.seen
        /\ FamCommand(r).jti = 0 /\ FamCommand(r).old = q.fam
        /\ FamCommand(r).fam = [count |-> 0, revoked |-> FALSE]
    BY <1>1, <1>2, <2>1, <2>2, Writes
  <2> QED
    BY <1>2, <1>3, <2>3, RecordFacts DEF Sends
<1>4. CASE famPc[r] = "counted"
  <2>1. FamCommand(r) = FamWrite("family", q, 0, [q.fam EXCEPT !.count = @ + 1])
    BY <1>4 DEF FamCommand
  <2>2. [q.fam EXCEPT !.count = @ + 1] \in FamRecord
    BY <1>2, RecordFacts
  <2>3. /\ FamCommand(r) \in FamWrites /\ FamCommand(r).key = "family"
        /\ FamCommand(r).sid = q.sid /\ FamCommand(r).seen = q.seen
        /\ FamCommand(r).jti = 0 /\ FamCommand(r).old = q.fam
        /\ FamCommand(r).fam = [q.fam EXCEPT !.count = @ + 1]
    BY <1>1, <1>2, <2>1, <2>2, Writes
  <2> QED
    BY <1>2, <1>4, <2>3, RecordFacts DEF Sends
<1>5. CASE famPc[r] = "revoked"
  <2>1. FamCommand(r) = FamWrite("family", q, 0, [q.fam EXCEPT !.revoked = TRUE])
    BY <1>5 DEF FamCommand
  <2>2. [q.fam EXCEPT !.revoked = TRUE] \in FamRecord
    BY <1>2, RecordFacts
  <2>3. /\ FamCommand(r) \in FamWrites /\ FamCommand(r).key = "family"
        /\ FamCommand(r).sid = q.sid /\ FamCommand(r).seen = q.seen
        /\ FamCommand(r).jti = 0 /\ FamCommand(r).old = q.fam
        /\ FamCommand(r).fam = [q.fam EXCEPT !.revoked = TRUE]
    BY <1>1, <1>2, <2>1, <2>2, Writes
  <2> QED
    BY <1>2, <1>5, <2>3, RecordFacts DEF Sends
<1>6. CASE famPc[r] = "store"
  <2>1. FamCommand(r) = FamWrite("grace", q, q.jti, NoFamily)
    BY <1>6 DEF FamCommand
  <2>2. NoFamily \in FamRecord
    BY <1>2, RecordFacts
  <2>3. /\ FamCommand(r) \in FamWrites /\ FamCommand(r).key = "grace"
        /\ FamCommand(r).sid = q.sid /\ FamCommand(r).seen = q.seen
        /\ FamCommand(r).jti = q.jti /\ FamCommand(r).old = q.fam
        /\ FamCommand(r).fam = NoFamily
    BY <1>1, <1>2, <2>1, <2>2, Writes
  <2> QED
    BY <1>2, <1>6, <2>3, RecordFacts DEF Sends
<1>7. CASE famPc[r] = "set"
  <2>1. FamCommand(r) = FamWrite("set", q, q.new, NoFamily)
    BY <1>7 DEF FamCommand
  <2>2. NoFamily \in FamRecord
    BY <1>2, RecordFacts
  <2>3. /\ FamCommand(r) \in FamWrites /\ FamCommand(r).key = "set"
        /\ FamCommand(r).sid = q.sid /\ FamCommand(r).seen = q.seen
        /\ FamCommand(r).jti = q.new /\ FamCommand(r).old = q.fam
        /\ FamCommand(r).fam = NoFamily
    BY <1>1, <1>2, <2>1, <2>2, Writes
  <2> QED
    BY <1>2, <1>7, <2>3, RecordFacts DEF Sends
<1>8. CASE famPc[r] = "del"
  <2>1. FamCommand(r) = FamWrite("del", q, 0, NoFamily)
    BY <1>8 DEF FamCommand
  <2>2. NoFamily \in FamRecord
    BY <1>2, RecordFacts
  <2>3. /\ FamCommand(r) \in FamWrites /\ FamCommand(r).key = "del"
        /\ FamCommand(r).sid = q.sid /\ FamCommand(r).seen = q.seen
        /\ FamCommand(r).jti = 0 /\ FamCommand(r).old = q.fam
        /\ FamCommand(r).fam = NoFamily
    BY <1>1, <1>2, <2>1, <2>2, Writes
  <2> QED
    BY <1>2, <1>8, <2>3, RecordFacts DEF Sends
<1>9. CASE famPc[r] = "unindex"
  <2>1. FamCommand(r) = FamWrite("unindex", q, 0, NoFamily)
    BY <1>9 DEF FamCommand
  <2>2. NoFamily \in FamRecord
    BY <1>2, RecordFacts
  <2>3. /\ FamCommand(r) \in FamWrites /\ FamCommand(r).key = "unindex"
        /\ FamCommand(r).sid = q.sid /\ FamCommand(r).seen = q.seen
        /\ FamCommand(r).jti = 0 /\ FamCommand(r).old = q.fam
        /\ FamCommand(r).fam = NoFamily
    BY <1>1, <1>2, <2>1, <2>2, Writes
  <2> QED
    BY <1>2, <1>9, <2>3, RecordFacts DEF Sends
<1> QED
  BY <1>3, <1>4, <1>5, <1>6, <1>7, <1>8, <1>9 DEF FamSets, FamDels
-----------------------------------------------------------------------------
(* How a request moves on *)

\* Request r goes to step p with the locals q; the others stay where they are.
Moves(r, p, q) ==
  famPc' = [famPc EXCEPT ![r] = p] /\ famReq' = [famReq EXCEPT ![r] = q]
Stays == UNCHANGED <<famPc, famReq>>

LEMMA RequestSeen ==
  ASSUME NEW q \in FamRequest, NEW j \in Nat
  PROVE  LET p == [q EXCEPT !.seen = j] IN
         /\ p \in FamRequest /\ p.seen = j
         /\ p.sid = q.sid /\ p.jti = q.jti /\ p.new = q.new /\ p.fam = q.fam
         /\ p.cause = q.cause /\ p.todo = q.todo /\ p.after = q.after
  BY DEF FamRequest
LEMMA RequestNew ==
  ASSUME NEW q \in FamRequest, NEW j \in Nat
  PROVE  LET p == [q EXCEPT !.new = j] IN
         /\ p \in FamRequest /\ p.new = j
         /\ p.sid = q.sid /\ p.jti = q.jti /\ p.seen = q.seen /\ p.fam = q.fam
         /\ p.cause = q.cause /\ p.todo = q.todo /\ p.after = q.after
  BY DEF FamRequest
LEMMA RequestFam ==
  ASSUME NEW q \in FamRequest, NEW f \in FamRecord
  PROVE  LET p == [q EXCEPT !.fam = f] IN
         /\ p \in FamRequest /\ p.fam = f
         /\ p.sid = q.sid /\ p.jti = q.jti /\ p.seen = q.seen /\ p.new = q.new
         /\ p.cause = q.cause /\ p.todo = q.todo /\ p.after = q.after
  BY DEF FamRequest
LEMMA RequestCause ==
  ASSUME NEW q \in FamRequest, NEW c \in Causes
  PROVE  LET p == [q EXCEPT !.cause = c] IN
         /\ p \in FamRequest /\ p.cause = c
         /\ p.sid = q.sid /\ p.jti = q.jti /\ p.seen = q.seen /\ p.new = q.new
         /\ p.fam = q.fam /\ p.todo = q.todo /\ p.after = q.after
  BY DEF FamRequest
LEMMA RequestGoesOn ==
  ASSUME NEW q \in FamRequest, NEW t \in FamSids
  PROVE  LET p == [q EXCEPT !.sid = t, !.todo = Others(@, t)] IN
         p \in FamRequest /\ p.cause = q.cause /\ p.sid = t
  BY DEF FamRequest, Others
LEMMA RevocationBegins ==
  ASSUME NEW s \in FamSids, NEW r \in SUBSET FamSids
  PROVE  LET q == [FamIdle EXCEPT !.sid = s, !.todo = r, !.cause = "all"] IN
         q \in FamRequest /\ q.cause = "all" /\ q.sid = s /\ q.todo = r
  BY IdleRequest DEF FamRequest, Causes

LEMMA MoveTypes ==
  ASSUME FamReqTypes, NEW r \in FamReqs, NEW p \in FamSteps, NEW q \in FamRequest,
         Moves(r, p, q)
  PROVE  /\ FamReqTypes' /\ famPc'[r] = p /\ famReq'[r] = q
         /\ \A x \in FamReqs \ {r} : famPc'[x] = famPc[x] /\ famReq'[x] = famReq[x]
  BY DEF FamReqTypes, Moves
-----------------------------------------------------------------------------
(* What a write does *)

\* Histories grow, and what was accounted for stays so.
Grows ==
  /\ held \subseteq held' /\ graced \subseteq graced' /\ clashed \subseteq clashed'
  /\ ended \subseteq ended' /\ bare \subseteq bare'
  /\ \A s \in FamSids, j \in Nat : Accounted(s, j) => Accounted(s, j)'

LEMMA RightStays ==
  ASSUME Grows, NEW p, NEW q \in FamRequest, Right(p, q)
  PROVE  Right(p, q)'
<1>1. Judged(q.sid, q.jti) => Judged(q.sid, q.jti)'
  BY DEF Grows, Judged
<1>2. p \in {"count", "counted"} => Accounted(q.sid, q.new)'
  BY Requests DEF Right, Grows
<1> QED
  BY <1>1, <1>2 DEF Right, Grows

LEMMA MovesRight ==
  ASSUME FamReqTypes, RequestsAreRight, Grows, NEW r \in FamReqs, NEW p \in FamSteps,
         NEW q \in FamRequest, Moves(r, p, q), Right(p, q)'
  PROVE  FamReqTypes' /\ RequestsAreRight'
<1>1. FamReqTypes' /\ famPc'[r] = p /\ famReq'[r] = q
  BY MoveTypes
<1>2. \A x \in FamReqs \ {r} : famPc'[x] = famPc[x] /\ famReq'[x] = famReq[x]
  BY MoveTypes
<1>3. ASSUME NEW x \in FamReqs \ {r}
      PROVE  Right(famPc[x], famReq[x])'
  <2>2. PICK p1 \in FamSteps, q1 \in FamRequest :
          p1 = famPc[x] /\ q1 = famReq[x] /\ Right(p1, q1)
    BY DEF FamReqTypes, RequestsAreRight
  <2>3. Right(p1, q1)'
    BY <2>2, RightStays
  <2>4. famPc'[x] = p1 /\ famReq'[x] = q1
    BY <1>2, <2>2
  <2> QED
    BY <2>3, <2>4 DEF Right
<1>4. Right(famPc[r], famReq[r])'
  BY <1>1 DEF Right
<1> QED
  BY <1>1, <1>3, <1>4 DEF RequestsAreRight

LEMMA ExecuteEffects ==
  ASSUME FamTypes, KeysAreRight, NEW w \in FamWrites, RightWrite(w), FamExecute(w),
         held \subseteq held'
  PROVE  /\ allowed' \in [FamSids -> Nat] /\ grace' \in [FamSids -> Nat]
         /\ family' \in [FamSids -> FamRecord] /\ indexed' \subseteq FamSids
         /\ latest' \in [FamSids -> Nat] /\ ended' = ended /\ shut' \subseteq FamSids
         /\ Grows
         /\ \A s \in FamSids : allowed'[s] \in {0, latest'[s]}
         /\ \A s \in ended' : family'[s].revoked \/ s \in bare'
<1> USE DEF FamTypes, FamKeyTypes, FamHistTypes, KeysAreRight, Grows, Accounted, Judged, famHist
<1>0. w.sid \in FamSids /\ w.jti \in Nat /\ w.fam \in FamRecord
  BY DEF FamWrites
<1>1. CASE ExecuteFamily(w)
  BY <1>0, <1>1 DEF ExecuteFamily, SeesBare
<1>2. CASE ExecuteGrace(w)
  BY <1>0, <1>2 DEF ExecuteGrace, Stored
<1>3. CASE ExecuteSet(w)
  <2>1. /\ allowed' = [allowed EXCEPT ![w.sid] = w.jti] /\ latest' = [latest EXCEPT ![w.sid] = w.jti]
        /\ latest[w.sid] \notin {w.seen, w.jti} => <<"allowed", w.sid>> \in clashed'
        /\ clashed \subseteq clashed' /\ <<w.sid, w.seen>> \in graced
        /\ UNCHANGED <<family, grace, indexed, graced, ended, shut, bare>>
    BY <1>3 DEF ExecuteSet, RightWrite
  <2>2. ASSUME NEW s \in FamSids, NEW j \in Nat, Accounted(s, j)
        PROVE  Accounted(s, j)'
    BY <1>0, <2>1, <2>2
  <2> QED
    BY <1>0, <2>1, <2>2
<1>4. CASE ExecuteDel(w)
  BY <1>0, <1>4 DEF ExecuteDel, DropAllowed
<1>5. CASE ExecuteUnindex(w)
  BY <1>0, <1>5 DEF ExecuteUnindex
<1> QED
  BY <1>1, <1>2, <1>3, <1>4, <1>5 DEF FamExecute

\* The steps that write: a command of a request, or a write that was left.
LEMMA HandOutGrows ==
  ASSUME NEW r, HandOut(r)
  PROVE  held \subseteq held' /\ held' = held \cup {<<famReq[r].sid, famReq[r].new>>}
         /\ Moves(r, "idle", FamIdle)
  BY DEF HandOut, FamEnds, FamGoto, Moves

\* A write left on its way does no harm, and changes nothing else.
LEMMA LeftWrites ==
  ASSUME FamTypes, WritesAreRight, NEW w \in FamWrites, RightWrite(w), LeftOnItsWay(w),
         graced \subseteq graced'
  PROVE  /\ famLate' \subseteq FamWrites /\ WritesAreRight' /\ clashed \subseteq clashed'
         /\ famLate' \subseteq famLate \cup {w}
  BY DEF FamTypes, FamKeyTypes, WritesAreRight, RightWrite, LeftOnItsWay

Basic == FamTypes /\ RequestsAreRight /\ WritesAreRight /\ KeysAreRight

\* What is held stays accounted for: nothing is handed out, or by a request that has
\* replaced the jti.
HeldGrows(r) ==
  \/ held' = held
  \/ HandOut(r) /\ famPc[r] \in {"count", "counted"}

LEMMA HeldIsRight ==
  ASSUME Basic, NEW r \in FamReqs, HeldGrows(r)
  PROVE  /\ held \subseteq held' /\ held' \subseteq FamSids \X Nat
         /\ \A t \in held' : Accounted(t[1], t[2])
<1>1. CASE held' = held
  BY <1>1 DEF Basic, FamTypes, FamHistTypes, KeysAreRight
<1>2. CASE HandOut(r) /\ famPc[r] \in {"count", "counted"}
  <2>1. held' = held \cup {<<famReq[r].sid, famReq[r].new>>}
    BY <1>2, HandOutGrows
  <2>2. famReq[r].sid \in FamSids /\ famReq[r].new \in Nat
        /\ Accounted(famReq[r].sid, famReq[r].new)
    BY <1>2, Requests DEF Basic, FamTypes, FamReqTypes, RequestsAreRight, Right
  <2> QED
    BY <2>1, <2>2 DEF Basic, FamTypes, FamHistTypes, KeysAreRight
<1> QED
  BY <1>1, <1>2 DEF HeldGrows

\* Steps of one request that write nothing.
LEMMA QuietStep ==
  ASSUME Basic, NEW r \in FamReqs, NEW p \in FamSteps, NEW q \in FamRequest, Moves(r, p, q),
         UNCHANGED <<famKeys, famLate, famHist, lastJti>>, HeldGrows(r),
         Grows => Right(p, q)'
  PROVE  Basic' /\ Grows
<1>1. /\ held \subseteq held' /\ held' \subseteq FamSids \X Nat
      /\ \A t \in held' : Accounted(t[1], t[2])
  BY HeldIsRight
<1>2. Grows
  BY <1>1 DEF Grows, famHist, Accounted, Judged
<1>3. FamReqTypes' /\ RequestsAreRight'
  BY <1>2, MovesRight DEF Basic, FamTypes
<1>4. FamKeyTypes' /\ FamHistTypes'
  BY <1>1 DEF Basic, FamTypes, FamKeyTypes, FamHistTypes, famKeys, famHist
<1>5. WritesAreRight'
  BY DEF Basic, WritesAreRight, RightWrite, famHist
<1>6. KeysAreRight'
  BY <1>1 DEF Basic, KeysAreRight, Accounted, Judged, famKeys, famHist
<1> QED
  BY <1>2, <1>3, <1>4, <1>5, <1>6 DEF Basic, FamTypes

\* Steps of one request that execute its command, or leave that where it is.
LEMMA WritingStep ==
  ASSUME Basic, NEW r \in FamReqs, NEW p \in FamSteps, NEW q \in FamRequest, Moves(r, p, q),
         famPc[r] \in FamSets \cup FamDels, FamExecute(FamCommand(r)),
         UNCHANGED famLate, lastJti' \in Nat, HeldGrows(r),
         Grows => Right(p, q)'
  PROVE  Basic' /\ Grows
<1> DEFINE w == FamCommand(r)
<1>1. Sends(r, w)
  BY Commands DEF Basic, FamTypes
<1>2. w \in FamWrites /\ RightWrite(w)
  BY <1>1 DEF Sends, RightWrite, Basic, RequestsAreRight, Right
<1>3. /\ held \subseteq held' /\ held' \subseteq FamSids \X Nat
      /\ \A t \in held' : Accounted(t[1], t[2])
  BY HeldIsRight
<1> HIDE DEF w
<1>4. FamExecute(w)
  BY DEF w
<1>5. /\ allowed' \in [FamSids -> Nat] /\ grace' \in [FamSids -> Nat]
      /\ family' \in [FamSids -> FamRecord] /\ indexed' \subseteq FamSids
      /\ latest' \in [FamSids -> Nat] /\ ended' = ended /\ shut' \subseteq FamSids
      /\ Grows
      /\ \A s \in FamSids : allowed'[s] \in {0, latest'[s]}
      /\ \A s \in ended' : family'[s].revoked \/ s \in bare'
  BY <1>2, <1>3, <1>4, ExecuteEffects DEF Basic
<1>6. FamReqTypes' /\ RequestsAreRight'
  BY <1>5, MovesRight DEF Basic, FamTypes
<1>7. FamKeyTypes' /\ FamHistTypes'
  BY <1>3, <1>5 DEF Basic, FamTypes, FamKeyTypes, FamHistTypes
<1>8. WritesAreRight'
  BY <1>5 DEF Basic, WritesAreRight, RightWrite, Grows
<1>9. \A t \in held' : Accounted(t[1], t[2])'
  BY <1>3, <1>5 DEF Grows
<1>10. KeysAreRight'
  BY <1>5, <1>9 DEF KeysAreRight
<1> QED
  BY <1>5, <1>6, <1>7, <1>8, <1>10 DEF Basic, FamTypes
-----------------------------------------------------------------------------
(* Every step keeps the basic part *)

LEMMA FamInit == FamiliesInit => FamInv
<1> SUFFICES ASSUME FamiliesInit PROVE FamInv
  OBVIOUS
<1> USE DEF FamiliesInit
<1>1. FamTypes
  <2>1. FamKeyTypes
    BY FirstJtiIsTyped, RecordFacts DEF FamKeyTypes
  <2>2. FamReqTypes
    BY IdleRequest DEF FamReqTypes, FamSteps
  <2>3. FamHistTypes
    BY FirstJtiIsTyped DEF FamHistTypes
  <2> QED
    BY <2>1, <2>2, <2>3 DEF FamTypes
<1>2. RequestsAreRight
  <2> SUFFICES ASSUME NEW r \in FamReqs PROVE Right("idle", FamIdle)
    BY DEF RequestsAreRight
  <2> QED
    BY IdleRequest DEF Right, Rotating, Past
<1>3. WritesAreRight
  BY DEF WritesAreRight
<1>4. KeysAreRight
  BY FirstJtiIsTyped DEF KeysAreRight, Accounted
<1>5. ShutIsFinal
  BY DEF ShutIsFinal
<1>6. RoomIsLeft
  <2> SUFFICES ASSUME NEW s \in FamSids
               PROVE  family[s].count + Cardinality(PastCheck(s))
                        <= MaxRotations - 1 + Cardinality(FamReqs)
    BY DEF RoomIsLeft
  <2>1. PastCheck(s) = {}
    BY DEF PastCheck, Past
  <2>2. Cardinality(PastCheck(s)) = 0
    BY <2>1, FS_EmptySet
  <2>3. Cardinality(FamReqs) \in Nat /\ MaxRotations \in Nat \ {0}
    BY FamilyAssumption, FS_CardinalityType DEF FamilyAssumption
  <2>4. family[s].count = -1
    BY RecordFacts
  <2> QED
    BY <2>2, <2>3, <2>4
<1> QED
  BY <1>1, <1>2, <1>3, <1>4, <1>5, <1>6 DEF FamInv

\* The steps of a rotation that write nothing.
LEMMA RotateTokenStep ==
  ASSUME Basic, NEW r \in FamReqs, RotateToken(r)
  PROVE  Basic' /\ Grows
<1>1. PICK t \in held : famReq' = [famReq EXCEPT ![r] =
                    [FamIdle EXCEPT !.sid = t[1], !.jti = t[2], !.after = ended]]
  BY DEF RotateToken
<1>2. PICK s \in FamSids, j \in Nat : s = t[1] /\ j = t[2] /\ <<s, j>> \in held
  BY DEF Basic, FamTypes, FamHistTypes
<1>3. PICK a \in SUBSET FamSids : a = ended
  BY DEF Basic, FamTypes, FamHistTypes
<1> DEFINE q == [FamIdle EXCEPT !.sid = s, !.jti = j, !.after = a]
<1>4. q \in FamRequest /\ q.cause = "none" /\ q.sid = s /\ q.jti = j /\ q.todo = {} /\ q.after = a
  BY IdleRequest DEF FamRequest
<1>5. [FamIdle EXCEPT !.sid = t[1], !.jti = t[2], !.after = ended] = q
  BY <1>2, <1>3, Zenon
<1> HIDE DEF q
<1>6. Moves(r, "check", q)
  BY <1>1, <1>5 DEF RotateToken, FamGoto, Moves
<1>7. Grows => Right("check", q)'
  BY <1>2, <1>3, <1>4 DEF Right, Rotating, Past, Grows
<1>8. UNCHANGED <<famKeys, famLate, famHist, lastJti>> /\ HeldGrows(r) /\ "check" \in FamSteps
  BY DEF RotateToken, HeldGrows, FamSteps
<1> QED
  BY <1>4, <1>6, <1>7, <1>8, QuietStep

LEMMA RevokeAllStep ==
  ASSUME Basic, NEW r \in FamReqs, RevokeAllUserSessions(r)
  PROVE  Basic' /\ Grows
<1>1. PICK t \in indexed : famReq' = [famReq EXCEPT ![r] =
                    [FamIdle EXCEPT !.sid = t, !.todo = indexed \ {t}, !.cause = "all"]]
  BY DEF RevokeAllUserSessions
<1>2. PICK s \in FamSids, todo \in SUBSET FamSids : s = t /\ todo = indexed \ {t}
  BY DEF Basic, FamTypes, FamKeyTypes
<1> DEFINE q == [FamIdle EXCEPT !.sid = s, !.todo = todo, !.cause = "all"]
<1>3. q \in FamRequest /\ q.cause = "all" /\ q.sid = s
  BY RevocationBegins
<1>4. famReq' = [famReq EXCEPT ![r] = q]
  BY <1>1, <1>2
<1> HIDE DEF q
<1>5. Moves(r, "revoke", q)
  BY <1>4 DEF RevokeAllUserSessions, FamGoto, Moves
<1>6. Right("revoke", q)'
  BY <1>3 DEF Right, Rotating, Past
<1>7. UNCHANGED <<famKeys, famLate, famHist, lastJti>> /\ HeldGrows(r) /\ "revoke" \in FamSteps
  BY DEF RevokeAllUserSessions, HeldGrows, FamSteps
<1> QED
  BY <1>3, <1>5, <1>6, <1>7, QuietStep

LEMMA Ends ==
  ASSUME NEW r \in FamReqs, FamEnds(r)
  PROVE  /\ Moves(r, "idle", FamIdle) /\ "idle" \in FamSteps /\ FamIdle \in FamRequest
         /\ Right("idle", FamIdle)'
  BY IdleRequest DEF FamEnds, FamGoto, Moves, FamSteps, Right, Rotating, Past

\* A request that goes on with the locals it has.
LEMMA GoesOn ==
  ASSUME FamReqTypes, NEW r \in FamReqs, NEW p \in FamSteps, FamGoto(r, p), UNCHANGED famReq
  PROVE  Moves(r, p, famReq[r])
  BY DEF FamReqTypes, FamGoto, Moves

LEMMA BecomesRevocation ==
  ASSUME Basic, NEW r \in FamReqs, NEW cause \in {"reuse", "limit"}, FamRevokes(r, cause),
         UNCHANGED <<famKeys, famLate, famHist, lastJti, held>>, famPc[r] \in {"grace", "family"},
         cause = "reuse" => famPc[r] = "grace"
  PROVE  Basic' /\ Grows
<1>1. PICK q \in FamRequest : q = famReq[r] /\ Right(famPc[r], q)
  BY DEF Basic, FamTypes, FamReqTypes, RequestsAreRight
<1> DEFINE p == [q EXCEPT !.cause = cause]
<1>2. cause \in Causes
  BY DEF Causes
<1>3. /\ p \in FamRequest /\ p.cause = cause
      /\ p.sid = q.sid /\ p.jti = q.jti /\ p.todo = q.todo
  BY <1>1, <1>2, RequestCause
<1>4. famReq' = [famReq EXCEPT ![r] = p]
  BY <1>1 DEF FamRevokes, Basic, FamTypes, FamReqTypes
<1> HIDE DEF p
<1>5. Moves(r, "revoke", p) /\ HeldGrows(r) /\ "revoke" \in FamSteps
  BY <1>4 DEF FamRevokes, FamGoto, Moves, HeldGrows, FamSteps
<1>6. Judged(q.sid, q.jti) => Judged(q.sid, q.jti)'
  BY DEF Judged, famHist
<1>7. Right("revoke", p)'
  BY <1>1, <1>3, <1>6 DEF Right, Rotating, Past
<1> QED
  BY <1>3, <1>5, <1>7, QuietStep

LEMMA CheckJtiStep ==
  ASSUME Basic, NEW r \in FamReqs, CheckJti(r)
  PROVE  Basic' /\ Grows
<1>1. UNCHANGED <<famKeys, famLate, famHist, lastJti>> /\ HeldGrows(r) /\ famPc[r] = "check"
  BY DEF CheckJti, HeldGrows
<1>2. PICK q \in FamRequest : q = famReq[r] /\ Right("check", q)
  BY <1>1 DEF Basic, FamTypes, FamReqTypes, RequestsAreRight
<1>3. q.sid \in FamSids /\ q.jti \in Nat /\ <<q.sid, q.jti>> \in held
  BY <1>2, Requests DEF Right, Rotating
<1>4. CASE FamEnds(r)
  BY <1>1, <1>4, Ends, QuietStep
<1>5. CASE ~FamEnds(r)
  <2>1. PICK now \in {allowed[q.sid], 0} :
          /\ now # 0
          /\ FamGoto(r, IF now = q.jti THEN "family" ELSE "grace")
          /\ famReq' = [famReq EXCEPT ![r].seen = now]
    BY <1>2, <1>5 DEF CheckJti
  <2>2. PICK n \in Nat : n = now /\ n = allowed[q.sid] /\ n # 0 /\ n = latest[q.sid]
    BY <1>3, <2>1 DEF Basic, FamTypes, FamKeyTypes, KeysAreRight
  <2> DEFINE p == [q EXCEPT !.seen = n]
  <2>3. /\ p \in FamRequest /\ p.seen = n
        /\ p.sid = q.sid /\ p.jti = q.jti /\ p.new = q.new /\ p.fam = q.fam
        /\ p.cause = q.cause /\ p.todo = q.todo /\ p.after = q.after
    BY RequestSeen
  <2>4. famReq' = [famReq EXCEPT ![r] = p]
    BY <1>2, <2>1, <2>2 DEF Basic, FamTypes, FamReqTypes
  <2> HIDE DEF p
  <2>5. Accounted(q.sid, q.jti)
    BY <1>3 DEF Basic, KeysAreRight
  <2>6. CASE n = q.jti
    <3>1. Moves(r, "family", p) /\ "family" \in FamSteps
      BY <2>1, <2>2, <2>4, <2>6 DEF FamGoto, Moves, FamSteps
    <3>2. Grows => Right("family", p)'
      BY <1>2, <1>3, <2>2, <2>3 DEF Right, Rotating, Past, Grows
    <3> QED
      BY <1>1, <2>3, <3>1, <3>2, QuietStep
  <2>7. CASE n # q.jti
    <3>1. Moves(r, "grace", p) /\ "grace" \in FamSteps
      BY <2>1, <2>2, <2>4, <2>7 DEF FamGoto, Moves, FamSteps
    <3>2. Judged(q.sid, q.jti)
      BY <2>2, <2>5, <2>7 DEF Accounted
    <3>3. Judged(q.sid, q.jti)'
      BY <1>1, <3>2 DEF Judged, famHist
    <3>4. Grows => Right("grace", p)'
      BY <1>2, <1>3, <2>2, <2>3, <3>3 DEF Right, Rotating, Past, Grows
    <3> QED
      BY <1>1, <2>3, <3>1, <3>4, QuietStep
  <2> QED
    BY <2>6, <2>7
<1> QED
  BY <1>4, <1>5

LEMMA CheckGraceStep ==
  ASSUME Basic, NEW r \in FamReqs, CheckGracePeriod(r)
  PROVE  Basic' /\ Grows
<1>1. UNCHANGED <<famKeys, famLate, famHist, lastJti>> /\ held' = held /\ famPc[r] = "grace"
  BY DEF CheckGracePeriod
<1>2. CASE FamRevokes(r, "reuse")
  BY <1>1, <1>2, BecomesRevocation
<1>3. CASE FamGoto(r, "family") /\ UNCHANGED famReq
  <2>1. PICK q \in FamRequest : q = famReq[r] /\ Right("grace", q)
    BY <1>1 DEF Basic, FamTypes, FamReqTypes, RequestsAreRight
  <2>2. "family" \in FamSteps /\ HeldGrows(r)
    BY <1>1 DEF FamSteps, HeldGrows
  <2>3. Moves(r, "family", q)
    BY <1>3, <2>1, <2>2, GoesOn DEF Basic, FamTypes
  <2>4. Grows => Right("grace", q)'
    BY <2>1, RightStays
  <2>5. Grows => Right("family", q)'
    BY <2>4 DEF Right, Rotating, Past
  <2> QED
    BY <1>1, <2>2, <2>3, <2>5, QuietStep
<1> QED
  BY <1>2, <1>3 DEF CheckGracePeriod

LEMMA CheckFamilyStep ==
  ASSUME Basic, NEW r \in FamReqs, CheckFamily(r)
  PROVE  Basic' /\ Grows
<1>1. /\ UNCHANGED <<famKeys, famLate, famHist, lastJti>> /\ held' = held /\ HeldGrows(r)
      /\ famPc[r] = "family"
  BY DEF CheckFamily, HeldGrows
<1>2. PICK q \in FamRequest : q = famReq[r] /\ Right("family", q)
  BY <1>1 DEF Basic, FamTypes, FamReqTypes, RequestsAreRight
<1>3. PICK f \in {family[q.sid], NoFamily} :
        \/ f = NoFamily /\ FamGoto(r, "create") /\ UNCHANGED famReq
        \/ TooMany(f) /\ FamRevokes(r, "limit")
        \/ ~TooMany(f) /\ f.revoked /\ FamEnds(r)
        \/ f # NoFamily /\ ~TooMany(f) /\ ~f.revoked /\ FamGoto(r, "store") /\ UNCHANGED famReq
  BY <1>2 DEF CheckFamily
<1>4. CASE f = NoFamily /\ FamGoto(r, "create") /\ UNCHANGED famReq
  <2>1. "create" \in FamSteps
    BY DEF FamSteps
  <2>2. Moves(r, "create", q)
    BY <1>2, <1>4, <2>1, GoesOn DEF Basic, FamTypes
  <2>3. Grows => Right("family", q)'
    BY <1>2, RightStays
  <2>4. Grows => Right("create", q)'
    BY <2>3 DEF Right, Rotating, Past
  <2> QED
    BY <1>1, <2>1, <2>2, <2>4, QuietStep
<1>5. CASE TooMany(f) /\ FamRevokes(r, "limit")
  BY <1>1, <1>5, BecomesRevocation
<1>6. CASE FamEnds(r)
  BY <1>1, <1>6, Ends, QuietStep
<1>7. CASE f # NoFamily /\ ~f.revoked /\ FamGoto(r, "store") /\ UNCHANGED famReq
  <2>1. "store" \in FamSteps
    BY DEF FamSteps
  <2>2. Moves(r, "store", q)
    BY <1>2, <1>7, <2>1, GoesOn DEF Basic, FamTypes
  <2>3. Grows => Right("family", q)'
    BY <1>2, RightStays
  <2>4. q.sid \in q.after => q.sid \in bare
    BY <1>2, <1>3, <1>7 DEF Right, Rotating, Basic, KeysAreRight
  <2>5. Grows => Right("store", q)'
    BY <2>3, <2>4 DEF Right, Rotating, Past, Grows
  <2> QED
    BY <1>1, <2>1, <2>2, <2>5, QuietStep
<1> QED
  BY <1>3, <1>4, <1>5, <1>6, <1>7

LEMMA RotateCompareStep ==
  ASSUME Basic, NEW r \in FamReqs, RotateCompare(r)
  PROVE  Basic' /\ Grows
<1>1. UNCHANGED <<famKeys, famLate, famHist, lastJti>> /\ HeldGrows(r) /\ famPc[r] = "compare"
  BY DEF RotateCompare, HeldGrows
<1>2. CASE FamEnds(r)
  BY <1>1, <1>2, Ends, QuietStep
<1>3. CASE FamGoto(r, "set") /\ UNCHANGED famReq
  <2>1. PICK q \in FamRequest : q = famReq[r] /\ Right("compare", q)
    BY <1>1 DEF Basic, FamTypes, FamReqTypes, RequestsAreRight
  <2>2. "set" \in FamSteps
    BY DEF FamSteps
  <2>3. Moves(r, "set", q)
    BY <1>3, <2>1, <2>2, GoesOn DEF Basic, FamTypes
  <2>4. Grows => Right("compare", q)'
    BY <2>1, RightStays
  <2>5. Grows => Right("set", q)'
    BY <2>4 DEF Right, Rotating, Past
  <2> QED
    BY <1>1, <2>2, <2>3, <2>5, QuietStep
<1> QED
  BY <1>2, <1>3 DEF RotateCompare

\* Reading the record before it is written: what was read is kept.
LEMMA ReadsRecord ==
  ASSUME Basic, NEW r \in FamReqs, NEW p \in FamSteps,
         NEW f \in {family[famReq[r].sid], NoFamily}, famReq[r].sid \in FamSids,
         FamGoto(r, p), famReq' = [famReq EXCEPT ![r].fam = f],
         UNCHANGED <<famKeys, famLate, famHist, lastJti, held>>,
         \/ p = "counted" /\ famPc[r] = "count"
         \/ p \in {"revoked", "del"} /\ famPc[r] = "revoke"
  PROVE  Basic' /\ Grows
<1>1. PICK q \in FamRequest : q = famReq[r] /\ Right(famPc[r], q)
  BY DEF Basic, FamTypes, FamReqTypes, RequestsAreRight
<1>2. PICK g \in FamRecord : g = f
  BY RecordFacts DEF Basic, FamTypes, FamKeyTypes
<1> DEFINE q1 == [q EXCEPT !.fam = g]
<1>3. /\ q1 \in FamRequest /\ q1.fam = g
      /\ q1.sid = q.sid /\ q1.jti = q.jti /\ q1.seen = q.seen /\ q1.new = q.new
      /\ q1.cause = q.cause /\ q1.todo = q.todo /\ q1.after = q.after
  BY RequestFam
<1>4. famReq' = [famReq EXCEPT ![r] = q1]
  BY <1>1, <1>2 DEF Basic, FamTypes, FamReqTypes
<1> HIDE DEF q1
<1>5. Moves(r, p, q1) /\ HeldGrows(r)
  BY <1>4 DEF FamGoto, Moves, HeldGrows
<1>6. ASSUME Grows PROVE Right(p, q1)'
  <2>1. PICK p0 \in FamSteps : p0 = famPc[r]
    BY DEF Basic, FamTypes, FamReqTypes
  <2>2. Right(p0, q)'
    BY <1>1, <1>6, <2>1, RightStays
  <2>3. CASE p = "counted" /\ p0 = "count"
    BY <1>3, <2>2, <2>3 DEF Right, Rotating, Past, Judged, Accounted
  <2>4. CASE p \in {"revoked", "del"} /\ p0 = "revoke"
    BY <1>3, <2>2, <2>4 DEF Right, Rotating, Past, Judged
  <2> QED
    BY <2>1, <2>3, <2>4
<1> QED
  BY <1>3, <1>5, <1>6, QuietStep

LEMMA ReadForUpdateStep ==
  ASSUME Basic, NEW r \in FamReqs, ReadForUpdate(r)
  PROVE  Basic' /\ Grows
<1>1. UNCHANGED <<famKeys, famLate, famHist, lastJti>> /\ famPc[r] = "count"
  BY DEF ReadForUpdate
<1>2. PICK f \in {family[famReq[r].sid], NoFamily} :
        \/ HandOut(r)
        \/ /\ FamGoto(r, "counted")
           /\ famReq' = [famReq EXCEPT ![r].fam = f] /\ UNCHANGED held
  BY DEF ReadForUpdate
<1>3. CASE HandOut(r)
  <2>1. HeldGrows(r)
    BY <1>1, <1>3 DEF HeldGrows
  <2>2. Moves(r, "idle", FamIdle) /\ FamEnds(r)
    BY <1>3 DEF HandOut, FamEnds, FamGoto, Moves
  <2> QED
    BY <1>1, <2>1, <2>2, Ends, QuietStep
<1>4. CASE /\ FamGoto(r, "counted")
           /\ famReq' = [famReq EXCEPT ![r].fam = f] /\ UNCHANGED held
  <2>1. famReq[r].sid \in FamSids
    BY <1>1 DEF Basic, RequestsAreRight, Right
  <2>p. PICK p \in {"counted"} : FamGoto(r, p)
    BY <1>4
  <2>q. p \in FamSteps
    BY DEF FamSteps
  <2>r. p = "counted" /\ famPc[r] = "count"
    BY <1>1
  <2>s. famReq' = [famReq EXCEPT ![r].fam = f]
    BY <1>4
  <2>2. UNCHANGED <<famKeys, famLate, famHist, lastJti, held>>
    BY <1>1, <1>4
  <2> QED
    BY <2>1, <2>p, <2>q, <2>r, <2>s, <2>2, ReadsRecord
<1> QED
  BY <1>2, <1>3, <1>4

LEMMA ReadForRevokeStep ==
  ASSUME Basic, NEW r \in FamReqs, ReadForRevoke(r)
  PROVE  Basic' /\ Grows
<1>1. UNCHANGED <<famKeys, famLate, famHist, lastJti, held>> /\ famPc[r] = "revoke"
  BY DEF ReadForRevoke
<1>2. PICK f \in {family[famReq[r].sid], NoFamily} :
        /\ famReq' = [famReq EXCEPT ![r].fam = f]
        /\ FamGoto(r, IF f = NoFamily THEN "del" ELSE "revoked")
  BY DEF ReadForRevoke
<1>3. famReq[r].sid \in FamSids
  BY <1>1 DEF Basic, RequestsAreRight, Right
<1>4. PICK p \in {"del", "revoked"} : FamGoto(r, p)
  BY <1>2
<1>5. p \in FamSteps
  BY DEF FamSteps
<1> QED
  BY <1>1, <1>2, <1>3, <1>4, <1>5, ReadsRecord

\* The steps of a request that write.
LEMMA CreateStep ==
  ASSUME Basic, NEW r \in FamReqs, CreateTokenFamily(r)
  PROVE  Basic' /\ Grows
<1>1. /\ famPc[r] = "create" /\ FamExecute(FamCommand(r)) /\ FamGoto(r, "store")
      /\ UNCHANGED <<famLate, famReq, lastJti, held>>
  BY DEF CreateTokenFamily
<1>2. /\ "store" \in FamSteps /\ famPc[r] \in FamSets \cup FamDels /\ HeldGrows(r)
      /\ lastJti' \in Nat
  BY <1>1 DEF FamSteps, FamSets, HeldGrows, Basic, FamTypes, FamHistTypes
<1>3. PICK q \in FamRequest : q = famReq[r] /\ Right("create", q)
  BY <1>1 DEF Basic, FamTypes, FamReqTypes, RequestsAreRight
<1>4. Moves(r, "store", q)
  BY <1>1, <1>2, <1>3, GoesOn DEF Basic, FamTypes
<1>5. Sends(r, FamCommand(r))
  BY <1>2, Commands DEF Basic, FamTypes
<1>6. q.sid \in ended => q.sid \in bare'
  <2>1. PICK w \in FamWrites : w = FamCommand(r)
    BY <1>5 DEF Sends
  <2>2. w.key = "family" /\ w.sid = q.sid /\ ~w.fam.revoked /\ q.sid \in FamSids
    BY <1>1, <1>3, <1>5, <2>1 DEF Sends, Right
  <2>3. ExecuteFamily(w)
    BY <1>1, <2>1, <2>2 DEF FamExecute, ExecuteGrace, ExecuteSet, ExecuteDel, ExecuteUnindex
  <2>4. family' = [family EXCEPT ![w.sid] = w.fam] /\ ended' = ended /\ SeesBare
    BY <2>3 DEF ExecuteFamily
  <2>5. ~family'[q.sid].revoked
    BY <2>2, <2>4 DEF Basic, FamTypes, FamKeyTypes
  <2> QED
    BY <2>4, <2>5 DEF SeesBare
<1>7. ASSUME Grows PROVE Right("store", q)'
  <2>1. Right("create", q)'
    BY <1>3, <1>7, RightStays
  <2>2. q.after \subseteq ended
    BY <1>3 DEF Right, Rotating
  <2> QED
    BY <1>6, <2>1, <2>2 DEF Right, Rotating, Past
<1> QED
  BY <1>1, <1>2, <1>4, <1>7, WritingStep

LEMMA StoreStep ==
  ASSUME Basic, NEW r \in FamReqs, StoreInGracePeriod(r)
  PROVE  Basic' /\ Grows
<1>1. /\ famPc[r] = "store" /\ FamExecute(FamCommand(r)) /\ FamGoto(r, "compare")
      /\ lastJti' = lastJti + 1 /\ famReq' = [famReq EXCEPT ![r].new = lastJti + 1]
      /\ UNCHANGED <<famLate, held>>
  BY DEF StoreInGracePeriod
<1>2. /\ "compare" \in FamSteps /\ famPc[r] \in FamSets \cup FamDels /\ HeldGrows(r)
      /\ lastJti' \in Nat
  BY <1>1 DEF FamSteps, FamSets, HeldGrows, Basic, FamTypes, FamHistTypes
<1>3. PICK q \in FamRequest : q = famReq[r] /\ Right("store", q)
  BY <1>1 DEF Basic, FamTypes, FamReqTypes, RequestsAreRight
<1>4. PICK n \in Nat : n = lastJti + 1
  BY DEF Basic, FamTypes, FamHistTypes
<1> DEFINE p == [q EXCEPT !.new = n]
<1>5. /\ p \in FamRequest /\ p.sid = q.sid /\ p.jti = q.jti /\ p.seen = q.seen
      /\ p.cause = q.cause /\ p.todo = q.todo /\ p.after = q.after
  BY RequestNew
<1>6. famReq' = [famReq EXCEPT ![r] = p]
  BY <1>1, <1>3, <1>4 DEF Basic, FamTypes, FamReqTypes
<1> HIDE DEF p
<1>7. Moves(r, "compare", p)
  BY <1>1, <1>6 DEF Moves, FamGoto
<1>8. <<q.sid, q.seen>> \in graced'
  <2>1. PICK w : w = FamCommand(r)
    OBVIOUS
  <2>2. /\ FamCommand(r) = FamWrite("grace", famReq[r], famReq[r].jti, NoFamily)
        /\ NoFamily \in FamRecord /\ q.sid \in FamSids /\ q.jti \in Nat
    BY <1>1, <1>3, Requests, RecordFacts DEF FamCommand, Right
  <2>3. FamCommand(r) = FamWrite("grace", q, q.jti, NoFamily)
    BY <1>3, <2>2
  <2>4. w.key = "grace" /\ w.sid = q.sid /\ w.seen = q.seen /\ w.jti = q.jti
    BY <2>1, <2>2, <2>3, Writes
  <2>5. ExecuteGrace(w)
    BY <1>1, <2>1, <2>4 DEF FamExecute, ExecuteFamily, ExecuteSet, ExecuteDel, ExecuteUnindex
  <2>6. /\ grace'[q.sid] = q.jti
        /\ graced' = graced \cup {<<w.sid, grace'[w.sid]>>}
                            \cup {<<w.sid, w.seen>> : x \in {w.seen} \ {w.jti}}
    BY <2>2, <2>4, <2>5 DEF ExecuteGrace, Stored, Basic, FamTypes, FamKeyTypes
  <2> QED
    BY <2>4, <2>6
<1>9. ASSUME Grows PROVE Right("compare", p)'
  <2>1. Right("store", q)'
    BY <1>3, <1>9, RightStays
  <2> QED
    BY <1>5, <1>8, <2>1 DEF Right, Rotating, Past
<1> QED
  BY <1>1, <1>2, <1>5, <1>7, <1>9, WritingStep

LEMMA ReplaceStep ==
  ASSUME Basic, NEW r \in FamReqs, RotateReplace(r)
  PROVE  Basic' /\ Grows
<1>1. /\ famPc[r] = "set" /\ FamExecute(FamCommand(r)) /\ FamGoto(r, "count")
      /\ UNCHANGED <<famLate, famReq, lastJti, held>>
  BY DEF RotateReplace
<1>2. /\ "count" \in FamSteps /\ famPc[r] \in FamSets \cup FamDels /\ HeldGrows(r)
      /\ lastJti' \in Nat
  BY <1>1 DEF FamSteps, FamSets, HeldGrows, Basic, FamTypes, FamHistTypes
<1>3. PICK q \in FamRequest : q = famReq[r] /\ Right("set", q)
  BY <1>1 DEF Basic, FamTypes, FamReqTypes, RequestsAreRight
<1>4. Moves(r, "count", q)
  BY <1>1, <1>2, <1>3, GoesOn DEF Basic, FamTypes
<1>5. latest'[q.sid] = q.new
  <2>1. Sends(r, FamCommand(r))
    BY <1>2, Commands DEF Basic, FamTypes
  <2>2. PICK w \in FamWrites : w = FamCommand(r)
    BY <2>1 DEF Sends
  <2>3. w.key = "set" /\ w.sid = q.sid /\ w.jti = q.new /\ q.sid \in FamSids
    BY <1>1, <1>3, <2>1, <2>2 DEF Sends, Right
  <2>4. ExecuteSet(w)
    BY <1>1, <2>2, <2>3 DEF FamExecute, ExecuteFamily, ExecuteGrace, ExecuteDel, ExecuteUnindex
  <2> QED
    BY <2>3, <2>4 DEF ExecuteSet, Basic, FamTypes, FamHistTypes
<1>6. ASSUME Grows PROVE Right("count", q)'
  <2>1. Right("set", q)'
    BY <1>3, <1>6, RightStays
  <2> QED
    BY <1>5, <2>1 DEF Right, Rotating, Past, Accounted
<1> QED
  BY <1>1, <1>2, <1>4, <1>6, WritingStep

LEMMA UpdateStep ==
  ASSUME Basic, NEW r \in FamReqs, UpdateTokenFamily(r)
  PROVE  Basic' /\ Grows
<1>1. /\ famPc[r] = "counted" /\ FamExecute(FamCommand(r)) /\ HandOut(r)
      /\ UNCHANGED <<famLate, lastJti>>
  BY DEF UpdateTokenFamily
<1>2. famPc[r] \in FamSets \cup FamDels /\ HeldGrows(r) /\ lastJti' \in Nat
  BY <1>1 DEF FamSets, HeldGrows, Basic, FamTypes, FamHistTypes
<1>3. FamEnds(r)
  BY <1>1 DEF HandOut
<1> QED
  BY <1>1, <1>2, <1>3, Ends, WritingStep

LEMMA RevokeStep ==
  ASSUME Basic, NEW r \in FamReqs, RevokeTokenFamily(r) \/ RevokeFamilySession(r)
  PROVE  Basic' /\ Grows
<1>1. PICK p0 \in {"revoked", "del"}, p \in {"del", "unindex"} :
        /\ famPc[r] = p0 /\ FamExecute(FamCommand(r)) /\ FamGoto(r, p)
        /\ UNCHANGED <<famLate, famReq, lastJti, held>>
  BY DEF RevokeTokenFamily, RevokeFamilySession
<1>2. /\ p \in FamSteps /\ famPc[r] \in FamSets \cup FamDels /\ HeldGrows(r)
      /\ lastJti' \in Nat
  BY <1>1 DEF FamSteps, FamSets, FamDels, HeldGrows, Basic, FamTypes, FamHistTypes
<1>3. PICK q \in FamRequest : q = famReq[r] /\ Right(p0, q)
  BY <1>1 DEF Basic, FamTypes, FamReqTypes, RequestsAreRight
<1>4. Moves(r, p, q)
  BY <1>1, <1>2, <1>3, GoesOn DEF Basic, FamTypes
<1>5. ASSUME Grows PROVE Right(p, q)'
  <2>1. Right(p0, q)'
    BY <1>3, <1>5, RightStays
  <2> QED
    BY <2>1 DEF Right, Rotating, Past
<1> QED
  BY <1>1, <1>2, <1>4, <1>5, WritingStep

\* The loop goes on, or ends.
LEMMA LoopGoesOn ==
  ASSUME FamReqTypes, RequestsAreRight, NEW r \in FamReqs, famPc[r] = "unindex", NextOfAll(r)
  PROVE  \E p \in {"idle", "revoke"}, q \in FamRequest : Moves(r, p, q) /\ Right(p, q)'
<1>1. CASE FamEnds(r)
  BY <1>1, Ends
<1>2. CASE ~FamEnds(r)
  <2>1. PICK t \in famReq[r].todo :
          /\ famReq' = [famReq EXCEPT ![r].sid = t, ![r].todo = Others(@, t)]
          /\ FamGoto(r, "revoke")
    BY <1>2 DEF NextOfAll
  <2>2. PICK q \in FamRequest : q = famReq[r] /\ q.cause = "all" /\ t \in q.todo
    BY <2>1 DEF FamReqTypes, RequestsAreRight, Right
  <2>3. t \in FamSids
    BY <2>2, Requests
  <2> DEFINE p == [q EXCEPT !.sid = t, !.todo = Others(@, t)]
  <2>4. p \in FamRequest /\ p.cause = q.cause /\ p.sid = t
    BY <2>3, RequestGoesOn
  <2>5. famReq' = [famReq EXCEPT ![r] = p]
    BY <2>1, <2>2 DEF FamReqTypes
  <2> HIDE DEF p
  <2>6. Moves(r, "revoke", p)
    BY <2>1, <2>5 DEF FamGoto, Moves
  <2>7. Right("revoke", p)'
    BY <2>2, <2>3, <2>4 DEF Right, Rotating, Past
  <2> QED
    BY <2>4, <2>6, <2>7
<1> QED
  BY <1>1, <1>2

\* Steps of one request that leave the keys of the session where they are.
LEMMA LeavingStep ==
  ASSUME Basic, NEW r \in FamReqs, NEW p \in FamSteps, NEW q \in FamRequest, Moves(r, p, q),
         Right(p, q)', UNCHANGED <<allowed, family, grace, held, lastJti, latest, graced, shut>>,
         indexed' \subseteq indexed, famLate' \subseteq FamWrites, WritesAreRight',
         clashed \subseteq clashed', ended \subseteq ended', ended' \subseteq FamSids, SeesBare
  PROVE  Basic' /\ Grows
<1>1. Grows
  BY DEF Grows, Accounted, Judged, SeesBare
<1>2. FamReqTypes' /\ RequestsAreRight'
  BY <1>1, MovesRight DEF Basic, FamTypes
<1>3. FamKeyTypes' /\ FamHistTypes'
  BY DEF Basic, FamTypes, FamKeyTypes, FamHistTypes
<1>4. \A t \in held' : Accounted(t[1], t[2])'
  BY DEF Basic, KeysAreRight, Accounted, Judged
<1>5. KeysAreRight'
  BY <1>4 DEF Basic, KeysAreRight, SeesBare
<1> QED
  BY <1>1, <1>2, <1>3, <1>5 DEF Basic, FamTypes

LEMMA RemoveStep ==
  ASSUME Basic, NEW r \in FamReqs, RemoveFamilySession(r)
  PROVE  Basic' /\ Grows
<1>1. /\ famPc[r] = "unindex" /\ NextOfAll(r) /\ SeesBare
      /\ indexed' = indexed \ {famReq[r].sid} /\ ended' = ended \cup {famReq[r].sid}
      /\ UNCHANGED <<allowed, family, grace, famLate, lastJti, held, latest, graced, clashed, shut>>
  BY DEF RemoveFamilySession
<1>2. PICK p \in {"idle", "revoke"}, q \in FamRequest : Moves(r, p, q) /\ Right(p, q)'
  BY <1>1, LoopGoesOn DEF Basic, FamTypes
<1>3. p \in FamSteps /\ famReq[r].sid \in FamSids
  BY <1>1 DEF FamSteps, Basic, RequestsAreRight, Right
<1>4. ended' \subseteq FamSids /\ famLate' \subseteq FamWrites
  BY <1>1, <1>3 DEF Basic, FamTypes, FamHistTypes, FamKeyTypes
<1>5. WritesAreRight'
  BY <1>1 DEF Basic, WritesAreRight, RightWrite
<1> QED
  BY <1>1, <1>2, <1>3, <1>4, <1>5, LeavingStep

\* What a request that leaves a write leaves.
LEMMA LeavesWrite ==
  ASSUME Basic, NEW r \in FamReqs, famPc[r] \in FamSets \cup FamDels,
         LeftOnItsWay(FamCommand(r)), graced' = graced
  PROVE  /\ famLate' \subseteq FamWrites /\ WritesAreRight' /\ clashed \subseteq clashed'
         /\ famLate' \subseteq famLate \cup {FamCommand(r)}
<1>1. Sends(r, FamCommand(r))
  BY Commands DEF Basic, FamTypes
<1>2. PICK w \in FamWrites : w = FamCommand(r) /\ Sends(r, w)
  BY <1>1 DEF Sends
<1>3. RightWrite(w)
  BY <1>2 DEF Sends, RightWrite, Basic, RequestsAreRight, Right
<1>4. LeftOnItsWay(w)
  BY <1>2
<1> QED
  BY <1>2, <1>3, <1>4, LeftWrites DEF Basic

LEMMA BareIsSeen ==
  ASSUME Basic, UNCHANGED <<family, ended, bare>>
  PROVE  SeesBare
  BY DEF Basic, KeysAreRight, SeesBare

LEMMA FailsStep ==
  ASSUME Basic, NEW r \in FamReqs, FamilyFails(r)
  PROVE  Basic' /\ Grows
<1>1. /\ FamEnds(r)
      /\ UNCHANGED <<famKeys, lastJti, held, latest, graced, ended, shut, bare>>
      /\ \/ famPc[r] \in FamSets \cup FamDels /\ LeftOnItsWay(FamCommand(r))
         \/ UNCHANGED <<famLate, clashed>>
  BY DEF FamilyFails
<1>2. famLate' \subseteq FamWrites /\ WritesAreRight' /\ clashed \subseteq clashed'
  <2>1. CASE UNCHANGED <<famLate, clashed>>
    BY <1>1, <2>1 DEF Basic, FamTypes, FamKeyTypes, WritesAreRight, RightWrite
  <2> QED
    BY <1>1, <2>1, LeavesWrite
<1>3. SeesBare
  BY <1>1, BareIsSeen DEF famKeys
<1>4. ended' \subseteq FamSids /\ indexed' \subseteq indexed
  BY <1>1 DEF Basic, FamTypes, FamHistTypes, famKeys
<1>5. UNCHANGED <<allowed, family, grace, held, lastJti, latest, graced, shut, ended>>
  BY <1>1 DEF famKeys
<1> QED
  BY <1>1, <1>2, <1>3, <1>4, <1>5, Ends, LeavingStep

LEMMA DelGivenUpStep ==
  ASSUME Basic, NEW r \in FamReqs, FamDelGivenUp(r)
  PROVE  Basic' /\ Grows
<1>1. /\ famPc[r] \in FamSets \cup FamDels /\ LeftOnItsWay(FamCommand(r)) /\ SeesBare
      /\ UNCHANGED <<famKeys, lastJti, held, latest, graced, shut>>
  BY DEF FamDelGivenUp
<1>2. famLate' \subseteq FamWrites /\ WritesAreRight' /\ clashed \subseteq clashed'
  BY <1>1, LeavesWrite
<1>3. /\ UNCHANGED <<allowed, family, grace, held, lastJti, latest, graced, shut>>
      /\ indexed' \subseteq indexed
  BY <1>1 DEF famKeys
<1>4. CASE famPc[r] = "del" /\ FamGoto(r, "unindex") /\ UNCHANGED <<famReq, ended>>
  <2>1. PICK q \in FamRequest : q = famReq[r] /\ Right("del", q)
    BY <1>4 DEF Basic, FamTypes, FamReqTypes, RequestsAreRight
  <2>2. "unindex" \in FamSteps
    BY DEF FamSteps
  <2>3. Moves(r, "unindex", q)
    BY <1>4, <2>1, <2>2, GoesOn DEF Basic, FamTypes
  <2>4. Right("unindex", q)'
    BY <1>2, <1>3, <2>1 DEF Right, Rotating, Past, Judged
  <2>5. ended \subseteq ended' /\ ended' \subseteq FamSids
    BY <1>4 DEF Basic, FamTypes, FamHistTypes
  <2> QED
    BY <1>1, <1>2, <1>3, <2>2, <2>3, <2>4, <2>5, LeavingStep
<1>5. CASE famPc[r] = "unindex" /\ NextOfAll(r) /\ ended' = ended \cup {famReq[r].sid}
  <2>1. PICK p \in {"idle", "revoke"}, q \in FamRequest : Moves(r, p, q) /\ Right(p, q)'
    BY <1>5, LoopGoesOn DEF Basic, FamTypes
  <2>2. p \in FamSteps /\ famReq[r].sid \in FamSids
    BY <1>5 DEF FamSteps, Basic, RequestsAreRight, Right
  <2>3. ended \subseteq ended' /\ ended' \subseteq FamSids
    BY <1>5, <2>2 DEF Basic, FamTypes, FamHistTypes
  <2> QED
    BY <1>1, <1>2, <1>3, <2>1, <2>2, <2>3, LeavingStep
<1> QED
  BY <1>4, <1>5 DEF FamDelGivenUp

\* Steps in which no request moves.
LEMMA OtherStep ==
  ASSUME Basic, Stays, Grows, FamKeyTypes', FamHistTypes', WritesAreRight', KeysAreRight'
  PROVE  Basic'
<1>1. FamReqTypes'
  BY DEF Basic, FamTypes, FamReqTypes, Stays
<1>2. ASSUME NEW r \in FamReqs PROVE Right(famPc[r], famReq[r])'
  <2>1. PICK p \in FamSteps, q \in FamRequest : p = famPc[r] /\ q = famReq[r] /\ Right(p, q)
    BY DEF Basic, FamTypes, FamReqTypes, RequestsAreRight
  <2>2. Right(p, q)'
    BY <2>1, RightStays
  <2> QED
    BY <2>1, <2>2 DEF Right, Stays
<1> QED
  BY <1>1, <1>2 DEF Basic, FamTypes, RequestsAreRight

LEMMA ReplyLostStep ==
  ASSUME Basic, NEW r \in FamReqs, FamReplyLost(r)
  PROVE  Basic' /\ Grows
<1>1. /\ famPc[r] \in FamSets \cup FamDels /\ LeftOnItsWay(FamCommand(r)) /\ Stays
      /\ UNCHANGED <<famKeys, lastJti, held, latest, graced, ended, shut, bare>>
  BY DEF FamReplyLost, Stays
<1>2. famLate' \subseteq FamWrites /\ WritesAreRight' /\ clashed \subseteq clashed'
  BY <1>1, LeavesWrite
<1>3. Grows
  BY <1>1, <1>2 DEF Grows, Accounted, Judged
<1>4. FamKeyTypes' /\ FamHistTypes'
  BY <1>1, <1>2 DEF Basic, FamTypes, FamKeyTypes, FamHistTypes, famKeys
<1>5. \A t \in held' : Accounted(t[1], t[2])'
  BY <1>1, <1>2 DEF Basic, KeysAreRight, Accounted, Judged
<1>6. KeysAreRight'
  BY <1>1, <1>5 DEF Basic, KeysAreRight, famKeys
<1> QED
  BY <1>1, <1>2, <1>3, <1>4, <1>6, OtherStep

LEMMA LateArrivesStep ==
  ASSUME Basic, NEW w \in famLate, FamLateArrives(w)
  PROVE  Basic' /\ Grows
<1>1. /\ famLate' \subseteq famLate /\ FamExecute(w) /\ Stays
      /\ UNCHANGED <<lastJti, held>>
  BY DEF FamLateArrives, Stays
<1>2. PICK w1 \in FamWrites : w1 = w /\ RightWrite(w1)
  BY DEF Basic, FamTypes, FamKeyTypes, WritesAreRight
<1>3. FamExecute(w1)
  BY <1>1, <1>2
<1>4. /\ allowed' \in [FamSids -> Nat] /\ grace' \in [FamSids -> Nat]
      /\ family' \in [FamSids -> FamRecord] /\ indexed' \subseteq FamSids
      /\ latest' \in [FamSids -> Nat] /\ ended' = ended /\ shut' \subseteq FamSids
      /\ Grows
      /\ \A s \in FamSids : allowed'[s] \in {0, latest'[s]}
      /\ \A s \in ended' : family'[s].revoked \/ s \in bare'
  BY <1>1, <1>2, <1>3, ExecuteEffects DEF Basic
<1>5. FamKeyTypes' /\ FamHistTypes'
  BY <1>1, <1>4 DEF Basic, FamTypes, FamKeyTypes, FamHistTypes
<1>6. WritesAreRight'
  BY <1>1, <1>4 DEF Basic, WritesAreRight, RightWrite, Grows
<1>7. \A t \in held' : Accounted(t[1], t[2])'
  BY <1>1, <1>4 DEF Grows, Basic, FamTypes, FamHistTypes, KeysAreRight
<1>8. KeysAreRight'
  BY <1>4, <1>7 DEF KeysAreRight
<1> QED
  BY <1>1, <1>4, <1>5, <1>6, <1>8, OtherStep

LEMMA ExpiryStep ==
  ASSUME Basic, NEW s \in FamSids, GraceEnds(s) \/ FamilyExpires(s) \/ JtiRunsOut(s)
  PROVE  Basic' /\ Grows
<1>1. /\ Stays
      /\ UNCHANGED <<indexed, famLate, lastJti, held, latest, graced, clashed, ended, shut>>
  BY DEF GraceEnds, FamilyExpires, JtiRunsOut, Stays, famHist
<1>2. SeesBare
  <2>1. CASE FamilyExpires(s)
    BY <2>1 DEF FamilyExpires
  <2>2. CASE GraceEnds(s) \/ JtiRunsOut(s)
    <3>1. UNCHANGED <<family, ended, bare>>
      BY <2>2 DEF GraceEnds, JtiRunsOut, famHist
    <3> QED
      BY <3>1, BareIsSeen
  <2> QED
    BY <2>1, <2>2
<1>3. Grows
  BY <1>1, <1>2 DEF Grows, Accounted, Judged, SeesBare
<1>4. /\ allowed' \in [FamSids -> Nat] /\ grace' \in [FamSids -> Nat]
      /\ family' \in [FamSids -> FamRecord]
      /\ \A t \in FamSids : allowed'[t] \in {0, latest[t]}
  BY RecordFacts DEF Basic, FamTypes, FamKeyTypes, KeysAreRight,
                 GraceEnds, FamilyExpires, JtiRunsOut
<1>5. FamKeyTypes' /\ FamHistTypes'
  BY <1>1, <1>4 DEF Basic, FamTypes, FamKeyTypes, FamHistTypes
<1>6. WritesAreRight'
  BY <1>1 DEF Basic, WritesAreRight, RightWrite
<1>7. \A t \in held' : Accounted(t[1], t[2])'
  BY <1>1 DEF Basic, KeysAreRight, Accounted, Judged
<1>8. KeysAreRight'
  BY <1>1, <1>2, <1>4, <1>7 DEF KeysAreRight, SeesBare
<1> QED
  BY <1>1, <1>3, <1>5, <1>6, <1>8, OtherStep

LEMMA BasicStep ==
  ASSUME Basic, FamiliesNext
  PROVE  Basic' /\ Grows
<1>1. ASSUME NEW r \in FamReqs, FamilyStep(r)
      PROVE  Basic' /\ Grows
  BY <1>1, CheckJtiStep, CheckGraceStep, CheckFamilyStep, CreateStep, StoreStep,
     RotateCompareStep, ReplaceStep, ReadForUpdateStep, UpdateStep, ReadForRevokeStep,
     RevokeStep, RemoveStep DEF FamilyStep
<1>2. ASSUME NEW r \in FamReqs, RotateToken(r) \/ RevokeAllUserSessions(r) \/ FamilyFails(r)
                                \/ FamDelGivenUp(r) \/ FamReplyLost(r)
      PROVE  Basic' /\ Grows
  BY <1>2, RotateTokenStep, RevokeAllStep, FailsStep, DelGivenUpStep, ReplyLostStep
<1>3. ASSUME NEW w \in famLate, FamLateArrives(w)
      PROVE  Basic' /\ Grows
  BY <1>3, LateArrivesStep
<1>4. ASSUME NEW s \in FamSids, GraceEnds(s) \/ FamilyExpires(s) \/ JtiRunsOut(s)
      PROVE  Basic' /\ Grows
  BY <1>4, ExpiryStep
<1> QED
  BY <1>1, <1>2, <1>3, <1>4 DEF FamiliesNext
-----------------------------------------------------------------------------
(* Sessions that are shut *)

RequestActs(r) ==
  \/ RotateToken(r) \/ RevokeAllUserSessions(r) \/ FamilyStep(r)
  \/ FamilyFails(r) \/ FamDelGivenUp(r) \/ FamReplyLost(r)

\* A step of one request, by the step it goes to.
Goes(r, p) ==
  /\ famPc' = [famPc EXCEPT ![r] = p]
  /\ \A x \in FamReqs \ {r} : famReq'[x] = famReq[x]

LEMMA Going ==
  ASSUME FamReqTypes, NEW r \in FamReqs, RequestActs(r)
  PROVE  \/ RotateCompare(r) /\ Goes(r, "set") /\ UNCHANGED famReq
         \/ CheckFamily(r) /\ Goes(r, "store") /\ UNCHANGED famReq
         \/ CreateTokenFamily(r) /\ Goes(r, "store") /\ UNCHANGED famReq
         \/ /\ famPc[r] \in Past /\ famReq'[r].sid = famReq[r].sid
            /\ \E p \in Past \ {"store", "set"} : Goes(r, p)
         \/ \E p \in FamSteps \ Past : Goes(r, p)
         \/ Stays
<1> USE DEF FamReqTypes, FamGoto, FamEnds, Goes
<1>1. CASE FamilyFails(r) \/ FamReplyLost(r)
  BY <1>1 DEF FamilyFails, FamReplyLost, Stays, FamSteps, Past
<1>2. CASE FamDelGivenUp(r) \/ RemoveFamilySession(r)
  BY <1>2 DEF FamDelGivenUp, RemoveFamilySession, NextOfAll, FamSteps, Past
<1>3. CASE RotateToken(r) \/ RevokeAllUserSessions(r)
  BY <1>3 DEF RotateToken, RevokeAllUserSessions, FamSteps, Past
<1>4. CASE CheckJti(r)
  <2>1. PICK p \in {"idle", "family", "grace"} : FamGoto(r, p)
    BY <1>4 DEF CheckJti
  <2>2. \A x \in FamReqs \ {r} : famReq'[x] = famReq[x]
    BY <1>4 DEF CheckJti
  <2> QED
    BY <2>1, <2>2 DEF FamSteps, Past
<1>5. CASE CheckGracePeriod(r)
  BY <1>5 DEF CheckGracePeriod, FamRevokes, FamSteps, Past
<1>6. CASE CheckFamily(r)
  BY <1>6 DEF CheckFamily, FamRevokes, FamSteps, Past
<1>7. CASE CreateTokenFamily(r)
  BY <1>7 DEF CreateTokenFamily
<1>8. CASE StoreInGracePeriod(r) \/ RotateReplace(r)
  <2>1. /\ famPc[r] \in Past /\ famReq'[r].sid = famReq[r].sid
        /\ \A x \in FamReqs \ {r} : famReq'[x] = famReq[x]
    <3>1. PICK q \in FamRequest : q = famReq[r]
      OBVIOUS
    <3>2. CASE RotateReplace(r)
      BY <3>2 DEF RotateReplace, Past
    <3>3. CASE StoreInGracePeriod(r)
      BY <3>1, <3>3 DEF StoreInGracePeriod, Past, FamRequest
    <3> QED
      BY <1>8, <3>2, <3>3
  <2>2. PICK p \in Past \ {"store", "set"} : FamGoto(r, p)
    BY <1>8 DEF StoreInGracePeriod, RotateReplace, Past
  <2> QED
    BY <2>1, <2>2
<1>9. CASE RotateCompare(r)
  BY <1>9 DEF RotateCompare, FamSteps, Past
<1>10. CASE ReadForUpdate(r) \/ UpdateTokenFamily(r)
  <2>1. CASE HandOut(r)
    BY <2>1 DEF HandOut, FamSteps, Past
  <2>2. CASE ~HandOut(r)
    <3>1. PICK f \in {family[famReq[r].sid], NoFamily} :
            famReq' = [famReq EXCEPT ![r].fam = f]
      BY <1>10, <2>2 DEF ReadForUpdate, UpdateTokenFamily
    <3>2. famPc[r] \in Past /\ FamGoto(r, "counted")
      BY <1>10, <2>2 DEF ReadForUpdate, UpdateTokenFamily, Past
    <3>3. PICK q \in FamRequest : q = famReq[r]
      OBVIOUS
    <3>4. /\ famReq'[r].sid = famReq[r].sid
          /\ \A x \in FamReqs \ {r} : famReq'[x] = famReq[x]
      BY <3>1, <3>3 DEF FamRequest
    <3>5. PICK p \in Past \ {"store", "set"} : p = "counted"
      BY DEF Past
    <3>6. Goes(r, p)
      BY <3>2, <3>4, <3>5
    <3> QED
      BY <3>2, <3>4, <3>6
  <2> QED
    BY <2>1, <2>2
<1>11. CASE ReadForRevoke(r)
  <2>1. PICK p \in {"del", "revoked"} : FamGoto(r, p)
    BY <1>11 DEF ReadForRevoke
  <2>2. \A x \in FamReqs \ {r} : famReq'[x] = famReq[x]
    BY <1>11 DEF ReadForRevoke
  <2> QED
    BY <2>1, <2>2 DEF FamSteps, Past
<1>12. CASE RevokeTokenFamily(r) \/ RevokeFamilySession(r)
  BY <1>12 DEF RevokeTokenFamily, RevokeFamilySession, FamSteps, Past
<1> QED
  BY <1>1, <1>2, <1>3, <1>4, <1>5, <1>6, <1>7, <1>8, <1>9, <1>10, <1>11, <1>12
     DEF RequestActs, FamilyStep

\* Commands are executed for the request that waits for them, or late.
LEMMA WhoWrites ==
  ASSUME FamiliesNext
  PROVE  \/ UNCHANGED <<allowed, family, shut>>
         \/ \E s \in FamSids : JtiRunsOut(s) \/ FamilyExpires(s)
         \/ \E r \in FamReqs : /\ RequestActs(r) /\ famPc[r] \in FamSets \cup FamDels
                               /\ FamExecute(FamCommand(r)) /\ UNCHANGED famLate
         \/ \E w \in famLate : FamLateArrives(w)
<1>1. ASSUME NEW r \in FamReqs, FamilyStep(r)
      PROVE  \/ UNCHANGED <<allowed, family, shut>>
             \/ /\ famPc[r] \in FamSets \cup FamDels
                /\ FamExecute(FamCommand(r)) /\ UNCHANGED famLate
  <2>1. CASE CheckJti(r) \/ CheckGracePeriod(r) \/ CheckFamily(r) \/ RotateCompare(r)
             \/ ReadForUpdate(r) \/ ReadForRevoke(r) \/ RemoveFamilySession(r)
    BY <2>1 DEF CheckJti, CheckGracePeriod, CheckFamily, RotateCompare, ReadForUpdate,
                ReadForRevoke, RemoveFamilySession, famKeys, famHist
  <2>2. CASE CreateTokenFamily(r) \/ StoreInGracePeriod(r) \/ RotateReplace(r)
             \/ UpdateTokenFamily(r) \/ RevokeTokenFamily(r) \/ RevokeFamilySession(r)
    BY <2>2 DEF CreateTokenFamily, StoreInGracePeriod, RotateReplace, UpdateTokenFamily,
                RevokeTokenFamily, RevokeFamilySession, FamSets, FamDels
  <2> QED
    BY <1>1, <2>1, <2>2 DEF FamilyStep
<1>2. ASSUME NEW r \in FamReqs, RotateToken(r) \/ RevokeAllUserSessions(r) \/ FamilyFails(r)
                                \/ FamDelGivenUp(r) \/ FamReplyLost(r)
      PROVE  UNCHANGED <<allowed, family, shut>>
  BY <1>2 DEF RotateToken, RevokeAllUserSessions, FamilyFails, FamDelGivenUp, FamReplyLost,
              famKeys, famHist
<1>3. \A s \in FamSids : GraceEnds(s) => UNCHANGED <<allowed, family, shut>>
  BY DEF GraceEnds, famHist
<1> QED
  BY <1>1, <1>2, <1>3 DEF FamiliesNext, RequestActs

\* Writes that are left were those of a request.
LEMMA WhoLeaves ==
  ASSUME FamiliesNext, NEW w \in famLate', w \notin famLate
  PROVE  \E r \in FamReqs : famPc[r] \in FamSets \cup FamDels /\ w = FamCommand(r)
<1>1. ASSUME NEW r \in FamReqs, FamilyStep(r)
      PROVE  famLate' = famLate
  BY <1>1 DEF FamilyStep, CheckJti, CheckGracePeriod, CheckFamily, RotateCompare, ReadForUpdate,
              ReadForRevoke, RemoveFamilySession, CreateTokenFamily, StoreInGracePeriod,
              RotateReplace, UpdateTokenFamily, RevokeTokenFamily, RevokeFamilySession
<1>2. ASSUME NEW r \in FamReqs, RotateToken(r) \/ RevokeAllUserSessions(r)
      PROVE  famLate' = famLate
  BY <1>2 DEF RotateToken, RevokeAllUserSessions
<1>3. ASSUME NEW r \in FamReqs, FamilyFails(r) \/ FamDelGivenUp(r) \/ FamReplyLost(r)
      PROVE  \/ famLate' = famLate
             \/ famPc[r] \in FamSets \cup FamDels /\ famLate' = famLate \cup {FamCommand(r)}
  BY <1>3 DEF FamilyFails, FamDelGivenUp, FamReplyLost, LeftOnItsWay
<1>4. \A x \in famLate : FamLateArrives(x) => famLate' \subseteq famLate
  BY DEF FamLateArrives
<1>5. \A s \in FamSids : GraceEnds(s) \/ FamilyExpires(s) \/ JtiRunsOut(s) => famLate' = famLate
  BY DEF GraceEnds, FamilyExpires, JtiRunsOut
<1> QED
  BY <1>1, <1>2, <1>3, <1>4, <1>5 DEF FamiliesNext

LEMMA CommandSets ==
  ASSUME Basic, NEW r \in FamReqs, famPc[r] \in FamSets \cup FamDels,
         NEW w, w = FamCommand(r), w.key = "set"
  PROVE  SetOnItsWay(w.sid)
  BY Commands DEF Basic, FamTypes, Sends, SetOnItsWay

\* A SET of a session's jti gets on its way only where the jti is there.
LEMMA SetsBegin ==
  ASSUME Basic, FamiliesNext, NEW s \in FamSids, ~SetOnItsWay(s), SetOnItsWay(s)'
  PROVE  allowed[s] # 0 /\ shut' = shut
<1>1. ASSUME NEW w \in famLate', w.key = "set", w.sid = s
      PROVE  FALSE
  <2>1. CASE w \in famLate
    BY <1>1, <2>1 DEF SetOnItsWay
  <2>2. CASE w \notin famLate
    <3>1. PICK r \in FamReqs : famPc[r] \in FamSets \cup FamDels /\ w = FamCommand(r)
      BY <2>2, WhoLeaves
    <3> QED
      BY <1>1, <3>1, CommandSets
  <2> QED
    BY <2>1, <2>2
<1>2. PICK x \in FamReqs : famPc'[x] = "set" /\ famReq'[x].sid = s
  BY <1>1 DEF SetOnItsWay
<1>3. ~(famPc[x] = "set" /\ famReq[x].sid = s)
  BY DEF SetOnItsWay
<1>4. PICK r \in FamReqs : RequestActs(r)
  <2>1. CASE \E w \in famLate : FamLateArrives(w)
    BY <1>2, <1>3, <2>1 DEF FamLateArrives
  <2>2. CASE \E t \in FamSids : GraceEnds(t) \/ FamilyExpires(t) \/ JtiRunsOut(t)
    BY <1>2, <1>3, <2>2 DEF GraceEnds, FamilyExpires, JtiRunsOut
  <2> QED
    BY <2>1, <2>2 DEF FamiliesNext, RequestActs
<1>5. /\ ~Stays
      /\ \A p : Goes(r, p) => x = r /\ p = "set"
  BY <1>2, <1>3 DEF Goes, Stays, Basic, FamTypes, FamReqTypes
<1>6. RotateCompare(r) /\ x = r /\ UNCHANGED famReq
  BY <1>4, <1>5, Going DEF Basic, FamTypes, Past
<1>7. famReq[r].sid = s /\ famReq[r].seen # 0 /\ famPc[r] = "compare" /\ famPc'[r] = "set"
  BY <1>2, <1>6 DEF RotateCompare, Basic, RequestsAreRight, Right, Rotating, Past
<1>8. allowed[s] = famReq[r].seen
  BY <1>6, <1>7 DEF RotateCompare, FamEnds, FamGoto, Answers, Basic, FamTypes, FamReqTypes
<1> QED
  BY <1>6, <1>7, <1>8 DEF RotateCompare, famHist

LEMMA ShutStep ==
  ASSUME Basic, ShutIsFinal, FamiliesNext
  PROVE  ShutIsFinal'
<1>1. ASSUME NEW w \in FamWrites, FamExecute(w), w.key = "set" => SetOnItsWay(w.sid),
             NEW s \in shut'
      PROVE  allowed'[s] = 0 /\ ~SetOnItsWay(s)
  <2>1. /\ allowed \in [FamSids -> Nat] /\ shut \subseteq FamSids /\ w.sid \in FamSids
        /\ s \in shut => allowed[s] = 0 /\ ~SetOnItsWay(s)
    BY DEF Basic, FamTypes, FamKeyTypes, FamHistTypes, FamWrites, ShutIsFinal
  <2>2. CASE ExecuteSet(w)
    BY <1>1, <2>1, <2>2 DEF ExecuteSet
  <2>3. CASE ExecuteDel(w)
    BY <2>1, <2>3 DEF ExecuteDel, DropAllowed
  <2>4. CASE ExecuteFamily(w) \/ ExecuteGrace(w) \/ ExecuteUnindex(w)
    BY <2>1, <2>4 DEF ExecuteFamily, ExecuteGrace, ExecuteUnindex, famHist
  <2> QED
    BY <1>1, <2>2, <2>3, <2>4 DEF FamExecute
<1>2. ASSUME NEW s \in shut'
      PROVE  allowed'[s] = 0 /\ ~SetOnItsWay(s)
  <2>1. CASE UNCHANGED <<allowed, family, shut>>
    BY <1>2, <2>1 DEF ShutIsFinal
  <2>2. CASE \E t \in FamSids : JtiRunsOut(t) \/ FamilyExpires(t)
    BY <1>2, <2>2 DEF ShutIsFinal, JtiRunsOut, FamilyExpires, famHist,
                      Basic, FamTypes, FamKeyTypes, FamHistTypes
  <2>3. CASE \E r \in FamReqs : /\ RequestActs(r) /\ famPc[r] \in FamSets \cup FamDels
                                /\ FamExecute(FamCommand(r)) /\ UNCHANGED famLate
    <3>1. PICK r \in FamReqs : /\ famPc[r] \in FamSets \cup FamDels
                               /\ FamExecute(FamCommand(r))
      BY <2>3
    <3>2. Sends(r, FamCommand(r))
      BY <3>1, Commands DEF Basic, FamTypes
    <3>3. PICK w \in FamWrites : w = FamCommand(r)
      BY <3>2 DEF Sends
    <3>4. FamExecute(w) /\ (w.key = "set" => SetOnItsWay(w.sid))
      BY <3>1, <3>3, CommandSets
    <3> QED
      BY <1>1, <1>2, <3>4
  <2>4. CASE \E w \in famLate : FamLateArrives(w)
    <3>1. PICK w \in FamWrites : w \in famLate /\ FamExecute(w)
      BY <2>4 DEF FamLateArrives, Basic, FamTypes, FamKeyTypes
    <3>2. w.key = "set" => SetOnItsWay(w.sid)
      BY <3>1 DEF SetOnItsWay
    <3> QED
      BY <1>1, <1>2, <3>1, <3>2
  <2> QED
    BY <2>1, <2>2, <2>3, <2>4, WhoWrites
<1>3. ASSUME NEW s \in shut', SetOnItsWay(s)'
      PROVE  FALSE
  <2>1. ~SetOnItsWay(s) /\ shut' \subseteq FamSids
    BY <1>2, <1>3, BasicStep DEF Basic, FamTypes, FamHistTypes
  <2>2. allowed[s] # 0 /\ shut' = shut
    BY <1>3, <2>1, SetsBegin
  <2> QED
    BY <1>3, <2>2 DEF ShutIsFinal
<1> QED
  BY <1>2, <1>3 DEF ShutIsFinal
-----------------------------------------------------------------------------
(* Room under the limit *)

\* What a write does to the record of a session that nobody wrote blindly.
LEMMA FamilyWrites ==
  ASSUME Basic, NEW w \in FamWrites, FamExecute(w), NEW s \in FamSids,
         <<"family", s>> \notin clashed'
  PROVE  \/ family'[s] = family[s]
         \/ w.key = "family" /\ w.sid = s /\ family[s] = w.old /\ family'[s] = w.fam
<1>1. w.sid \in FamSids /\ family \in [FamSids -> FamRecord]
  BY DEF FamWrites, Basic, FamTypes, FamKeyTypes
<1>2. CASE ExecuteFamily(w)
  BY <1>1, <1>2 DEF ExecuteFamily
<1>3. CASE ExecuteGrace(w) \/ ExecuteSet(w) \/ ExecuteDel(w) \/ ExecuteUnindex(w)
  BY <1>3 DEF ExecuteGrace, ExecuteSet, ExecuteDel, ExecuteUnindex
<1> QED
  BY <1>2, <1>3 DEF FamExecute

Low(s) == family'[s].count <= MaxRotations - 1

LEMMA CountSteps ==
  ASSUME Basic, FamiliesNext, NEW s \in FamSids, <<"family", s>> \notin clashed'
  PROVE  \/ Low(s)
         \/ family'[s].count = family[s].count
         \/ \E r \in FamReqs : /\ famPc[r] = "counted" /\ famReq[r].sid = s /\ RequestActs(r)
                               /\ FamExecute(FamCommand(r))
                               /\ family'[s].count = family[s].count + 1
<1>0. MaxRotations \in Nat \ {0}
  BY FamilyAssumption DEF FamilyAssumption
<1>1. CASE UNCHANGED <<allowed, family, shut>>
  BY <1>1
<1>2. CASE \E t \in FamSids : JtiRunsOut(t) \/ FamilyExpires(t)
  BY <1>0, <1>2, RecordFacts DEF JtiRunsOut, FamilyExpires, Low, Basic, FamTypes, FamKeyTypes
<1>3. CASE \E r \in FamReqs : /\ RequestActs(r) /\ famPc[r] \in FamSets \cup FamDels
                              /\ FamExecute(FamCommand(r)) /\ UNCHANGED famLate
  <2>1. PICK r \in FamReqs : /\ RequestActs(r) /\ famPc[r] \in FamSets \cup FamDels
                             /\ FamExecute(FamCommand(r))
    BY <1>3
  <2>2. Sends(r, FamCommand(r))
    BY <2>1, Commands DEF Basic, FamTypes
  <2>3. PICK w \in FamWrites : w = FamCommand(r) /\ Sends(r, w)
    BY <2>2 DEF Sends
  <2>4. CASE family'[s] = family[s]
    BY <2>4
  <2>5. CASE w.key = "family" /\ w.sid = s /\ family[s] = w.old /\ family'[s] = w.fam
    <3>1. /\ famPc[r] \in {"create", "counted", "revoked"} /\ w.old = famReq[r].fam
          /\ famReq[r].sid = s
      BY <2>3, <2>5 DEF Sends
    <3>2. CASE famPc[r] = "create"
      <4>1. w.fam.count = 0
        BY <2>3, <3>2 DEF Sends
      <4> QED
        BY <1>0, <2>5, <4>1 DEF Low
    <3>3. CASE famPc[r] = "counted"
      <4>1. w.fam.count = w.old.count + 1
        BY <2>3, <3>1, <3>3 DEF Sends
      <4> QED
        BY <2>1, <2>5, <3>1, <3>3, <4>1
    <3>4. CASE famPc[r] = "revoked"
      <4>1. w.fam.count = w.old.count
        BY <2>3, <3>1, <3>4 DEF Sends
      <4> QED
        BY <2>5, <4>1
    <3> QED
      BY <3>1, <3>2, <3>3, <3>4
  <2> QED
    BY <2>1, <2>3, <2>4, <2>5, FamilyWrites
<1>4. CASE \E w \in famLate : FamLateArrives(w)
  <2>1. PICK w \in FamWrites : /\ FamExecute(w)
                               /\ w.key = "family" => <<"family", w.sid>> \in clashed
    BY <1>4 DEF FamLateArrives, Basic, FamTypes, FamKeyTypes, WritesAreRight
  <2>2. <<"family", s>> \notin clashed
    BY BasicStep DEF Grows
  <2> QED
    BY <2>1, <2>2, FamilyWrites
<1> QED
  BY <1>1, <1>2, <1>3, <1>4, WhoWrites

\* Who is past the check was so before, or has just passed it.
LEMMA PassesCheck ==
  ASSUME Basic, NEW r \in FamReqs, RequestActs(r), NEW s \in FamSids
  PROVE  \/ Low(s)
         \/ /\ PastCheck(s)' \subseteq PastCheck(s)
            /\ famPc'[r] = "idle" => PastCheck(s)' \subseteq PastCheck(s) \ {r}
<1> USE DEF PastCheck
<1>0. MaxRotations \in Nat \ {0} /\ famPc \in [FamReqs -> FamSteps] /\ "idle" \notin Past
  BY FamilyAssumption DEF FamilyAssumption, Basic, FamTypes, FamReqTypes, Past
<1>1. CASE RotateCompare(r) /\ Goes(r, "set") /\ UNCHANGED famReq
  BY <1>0, <1>1 DEF RotateCompare, Goes, Past
<1>2. CASE CheckFamily(r) /\ Goes(r, "store") /\ UNCHANGED famReq
  <2>1. CASE famReq[r].sid = s
    <3>1. PICK f \in {family[s], NoFamily} : f # NoFamily /\ ~TooMany(f) /\ family'[s] = family[s]
      BY <1>0, <1>2, <2>1 DEF CheckFamily, FamGoto, FamEnds, FamRevokes, Goes, famKeys
    <3>2. family[s].count \in Int
      BY RecordFacts DEF Basic, FamTypes, FamKeyTypes
    <3> QED
      BY <1>0, <3>1, <3>2 DEF Low, TooMany
  <2>2. CASE famReq[r].sid # s
    BY <1>0, <1>2, <2>2 DEF Goes
  <2> QED
    BY <2>1, <2>2
<1>3. CASE CreateTokenFamily(r) /\ Goes(r, "store") /\ UNCHANGED famReq
  <2>1. CASE famReq[r].sid = s
    <3>1. famPc[r] = "create" /\ famPc[r] \in FamSets \cup FamDels /\ FamExecute(FamCommand(r))
      BY <1>3 DEF CreateTokenFamily, FamSets
    <3>2. Sends(r, FamCommand(r))
      BY <3>1, Commands DEF Basic, FamTypes
    <3>3. PICK w \in FamWrites : /\ FamExecute(w) /\ w.key = "family" /\ w.sid = s
                                 /\ w.fam.count = 0
      BY <2>1, <3>1, <3>2 DEF Sends
    <3>4. family' = [family EXCEPT ![s] = w.fam]
      BY <3>3 DEF FamExecute, ExecuteFamily, ExecuteGrace, ExecuteSet, ExecuteDel, ExecuteUnindex
    <3> QED
      BY <1>0, <3>3, <3>4 DEF Low, Basic, FamTypes, FamKeyTypes
  <2>2. CASE famReq[r].sid # s
    BY <1>0, <1>3, <2>2 DEF Goes
  <2> QED
    BY <2>1, <2>2
<1>4. CASE /\ famPc[r] \in Past /\ famReq'[r].sid = famReq[r].sid
           /\ \E p \in Past \ {"store", "set"} : Goes(r, p)
  BY <1>0, <1>4 DEF Goes
<1>5. CASE \E p \in FamSteps \ Past : Goes(r, p)
  BY <1>0, <1>5 DEF Goes
<1>6. CASE Stays
  BY <1>0, <1>6 DEF Stays
<1> QED
  BY <1>1, <1>2, <1>3, <1>4, <1>5, <1>6, Going DEF Basic, FamTypes

LEMMA RoomStep ==
  ASSUME Basic, RoomIsLeft, FamiliesNext
  PROVE  RoomIsLeft'
<1> SUFFICES ASSUME NEW s \in FamSids, <<"family", s>> \notin clashed'
             PROVE  family'[s].count + Cardinality(PastCheck(s)')
                      <= MaxRotations - 1 + Cardinality(FamReqs)
  BY DEF RoomIsLeft
<1>1. /\ MaxRotations \in Nat \ {0} /\ IsFiniteSet(FamReqs) /\ Cardinality(FamReqs) \in Nat
      /\ PastCheck(s) \subseteq FamReqs /\ PastCheck(s)' \subseteq FamReqs
  BY FamilyAssumption, FS_CardinalityType DEF FamilyAssumption, PastCheck
<1>2. PICK old \in SUBSET FamReqs, new \in SUBSET FamReqs : old = PastCheck(s) /\ new = PastCheck(s)'
  BY <1>1
<1>3. /\ IsFiniteSet(old) /\ Cardinality(old) \in Nat
      /\ Cardinality(new) \in Nat /\ Cardinality(new) <= Cardinality(FamReqs)
  BY <1>1, FS_Subset, FS_CardinalityType
<1>4. Basic' /\ Grows
  BY BasicStep
<1>5. family[s].count \in Int /\ family'[s].count \in Int
  BY <1>4, RecordFacts DEF Basic, FamTypes, FamKeyTypes
<1>6. family[s].count + Cardinality(old) <= MaxRotations - 1 + Cardinality(FamReqs)
  BY <1>2, <1>4 DEF RoomIsLeft, Grows
<1>7. CASE Low(s)
  BY <1>1, <1>2, <1>3, <1>5, <1>7 DEF Low
<1>8. ASSUME ~Low(s)
      PROVE  new \subseteq old
  <2>1. CASE \E r \in FamReqs : RequestActs(r)
    BY <1>2, <1>8, <2>1, PassesCheck
  <2>2. CASE \E w \in famLate : FamLateArrives(w)
    BY <1>2, <2>2 DEF FamLateArrives, PastCheck
  <2>3. CASE \E t \in FamSids : GraceEnds(t) \/ FamilyExpires(t) \/ JtiRunsOut(t)
    BY <1>2, <2>3 DEF GraceEnds, FamilyExpires, JtiRunsOut, PastCheck
  <2> QED
    BY <2>1, <2>2, <2>3 DEF FamiliesNext, RequestActs
<1>9. ASSUME ~Low(s), family'[s].count = family[s].count
      PROVE  family'[s].count + Cardinality(new) <= MaxRotations - 1 + Cardinality(FamReqs)
  <2>1. Cardinality(new) <= Cardinality(old)
    BY <1>3, <1>8, <1>9, FS_Subset
  <2> QED
    BY <1>1, <1>3, <1>5, <1>6, <1>9, <2>1
<1>10. ASSUME ~Low(s), NEW r \in FamReqs, famPc[r] = "counted", famReq[r].sid = s, RequestActs(r),
              family'[s].count = family[s].count + 1
       PROVE  family'[s].count + Cardinality(new) <= MaxRotations - 1 + Cardinality(FamReqs)
  <2>1. r \in old
    BY <1>2, <1>10 DEF PastCheck, Past
  <2>2. CASE famPc'[r] = "idle"
    <3>1. new \subseteq old \ {r}
      BY <1>2, <1>10, <2>2, PassesCheck
    <3>2. /\ IsFiniteSet(old \ {r}) /\ Cardinality(old \ {r}) = Cardinality(old) - 1
      BY <1>3, <2>1, FS_RemoveElement
    <3>3. Cardinality(new) <= Cardinality(old) - 1
      BY <3>1, <3>2, FS_Subset
    <3> QED
      BY <1>1, <1>3, <1>5, <1>6, <1>10, <3>3
  <2>3. CASE famPc'[r] # "idle"
    <3>1. FamilyStep(r) => UpdateTokenFamily(r)
      BY <1>10 DEF FamilyStep, CheckJti, CheckGracePeriod, CheckFamily, CreateTokenFamily,
                   StoreInGracePeriod, RotateCompare, RotateReplace, ReadForUpdate,
                   ReadForRevoke, RevokeTokenFamily, RevokeFamilySession, RemoveFamilySession
    <3>2. ~RotateToken(r) /\ ~RevokeAllUserSessions(r) /\ ~FamDelGivenUp(r)
      BY <1>10 DEF RotateToken, RevokeAllUserSessions, FamDelGivenUp, FamDels
    <3>3. ~UpdateTokenFamily(r) /\ ~FamilyFails(r)
      BY <2>3 DEF UpdateTokenFamily, FamilyFails, HandOut, FamEnds, FamGoto,
                  Basic, FamTypes, FamReqTypes
    <3>4. family' = family
      BY <1>10, <3>1, <3>2, <3>3 DEF RequestActs, FamReplyLost, famKeys
    <3> QED
      BY <1>5, <1>10, <3>4
  <2> QED
    BY <2>2, <2>3
<1> QED
  BY <1>2, <1>7, <1>9, <1>10, CountSteps
-----------------------------------------------------------------------------
LEMMA FamInvStep == FamInv /\ [FamiliesNext]_familyVars => FamInv'
<1> SUFFICES ASSUME FamInv, [FamiliesNext]_familyVars PROVE FamInv'
  OBVIOUS
<1> DEFINE Parts == Basic /\ ShutIsFinal /\ RoomIsLeft
<1>1. FamInv <=> Parts
  BY DEF FamInv, Basic
<1>2. (FamInv <=> Parts)'
  BY DEF FamInv, Basic
<1>3. CASE FamiliesNext
  <2>1. Basic' /\ ShutIsFinal' /\ RoomIsLeft'
    BY <1>1, <1>3, BasicStep, ShutStep, RoomStep
  <2> QED
    BY <1>2, <2>1
<1>4. CASE UNCHANGED familyVars
  <2>1. Basic'
    BY <1>1, <1>4 DEF familyVars, famKeys, famHist, Basic, FamTypes, FamKeyTypes, FamReqTypes,
                      FamHistTypes, RequestsAreRight, Right, WritesAreRight, RightWrite,
                      KeysAreRight, Accounted, Judged
  <2>2. ShutIsFinal'
    BY <1>1, <1>4 DEF familyVars, famKeys, famHist, ShutIsFinal, SetOnItsWay
  <2>3. RoomIsLeft'
    BY <1>1, <1>4 DEF familyVars, famKeys, famHist, RoomIsLeft, PastCheck
  <2> QED
    BY <1>2, <2>1, <2>2, <2>3
<1> QED
  BY <1>3, <1>4

THEOREM FamInvariant == FamiliesSpec => []FamInv
  BY FamInit, FamInvStep, PTL DEF FamiliesSpec

\* Types, and with them that no record the code writes is of another shape.
THEOREM FamiliesTypes == FamiliesSpec => []FamiliesTypeOK
<1>1. FamInv => FamiliesTypeOK
  BY DEF FamInv, FamTypes, FamKeyTypes, FamReqTypes, FamHistTypes, FamiliesTypeOK, FamRecord
<1> QED
  BY <1>1, FamInvariant, PTL

\* With any number of rotations and revocations at once, failing, repeated and late
\* writes: a client is taken for a thief only when its token was graced (or its jti
\* written blindly), and a family exceeds the limit by no more than the requests that
\* were past the check together (token-rotation.service.ts, rotateToken).
THEOREM TokensAreJudgedRightly == FamiliesSpec => []TokensAreJudged
<1>1. FamInv => GraceComesFirst
  BY DEF FamInv, FamTypes, FamReqTypes, RequestsAreRight, Right, Judged, GraceComesFirst
<1>2. FamInv => RotationsAreLimited
  <2> SUFFICES ASSUME FamInv, NEW s \in FamSids, <<"family", s>> \notin clashed
               PROVE  family[s].count <= MaxRotations - 1 + Cardinality(FamReqs)
    BY DEF RotationsAreLimited
  <2>1. Cardinality(FamReqs) \in Nat /\ MaxRotations \in Nat \ {0}
    BY FamilyAssumption, FS_CardinalityType DEF FamilyAssumption
  <2>2. PastCheck(s) \subseteq FamReqs /\ IsFiniteSet(FamReqs)
    BY FamilyAssumption DEF FamilyAssumption, PastCheck
  <2>3. PICK past \in SUBSET FamReqs : past = PastCheck(s)
    BY <2>2
  <2>4. Cardinality(past) \in Nat
    BY <2>2, FS_Subset, FS_CardinalityType
  <2>5. family[s].count \in Int
    BY RecordFacts DEF FamInv, FamTypes, FamKeyTypes
  <2>6. family[s].count + Cardinality(past) <= MaxRotations - 1 + Cardinality(FamReqs)
    BY <2>3 DEF FamInv, RoomIsLeft
  <2> QED
    BY <2>1, <2>4, <2>5, <2>6
<1>3. FamInv => TokensAreJudged
  BY <1>1, <1>2 DEF TokensAreJudged
<1> QED
  BY <1>3, FamInvariant, PTL

\* Tokens are handed out by a request that has replaced the jti.
LEMMA WhoHandsOut ==
  ASSUME FamInv, FamiliesNext, NEW r \in FamReqs, HandsOut(r)
  PROVE  famPc[r] \in {"count", "counted"}
<1>1. ASSUME NEW x \in FamReqs, RequestActs(x)
      PROVE  held' = held \/ (HandOut(x) /\ famPc[x] \in {"count", "counted"})
  <2>1. CASE RotateToken(x) \/ RevokeAllUserSessions(x) \/ FamilyFails(x) \/ FamDelGivenUp(x)
             \/ FamReplyLost(x)
    BY <2>1 DEF RotateToken, RevokeAllUserSessions, FamilyFails, FamDelGivenUp, FamReplyLost
  <2>2. CASE FamilyStep(x)
    BY <2>2 DEF FamilyStep, CheckJti, CheckGracePeriod, CheckFamily, RotateCompare,
                ReadForUpdate, ReadForRevoke, RemoveFamilySession, CreateTokenFamily,
                StoreInGracePeriod, RotateReplace, UpdateTokenFamily, RevokeTokenFamily,
                RevokeFamilySession
  <2> QED
    BY <1>1, <2>1, <2>2 DEF RequestActs
<1>2. PICK x \in FamReqs : RequestActs(x)
  BY DEF FamiliesNext, RequestActs, HandsOut, FamLateArrives, GraceEnds, FamilyExpires, JtiRunsOut
<1>3. HandOut(x) /\ famPc[x] \in {"count", "counted"}
  BY <1>1, <1>2 DEF HandsOut
<1>4. x = r
  BY <1>3 DEF HandOut, FamEnds, FamGoto, HandsOut, FamInv, FamTypes, FamReqTypes
<1> QED
  BY <1>3, <1>4

\* Whatever rotations are under way when sessions are revoked, and whatever DEL is lost:
\* a session shut has no jti again, and a rotation begun after the revocation succeeds
\* only where the record has not borne the mark all the time
\* (token-rotation.service.ts, revokeTokenFamily and revokeAllUserSessions).
THEOREM RevocationsLast == FamiliesSpec => RevokedStaysRevoked
<1>1. FamInv /\ FamInv' /\ [FamiliesNext]_familyVars
        => [/\ \A s \in shut' : allowed'[s] = 0
            /\ \A r \in FamReqs :
                 HandsOut(r) /\ famReq[r].sid \in famReq[r].after => famReq[r].sid \in bare]_familyVars
  <2> SUFFICES ASSUME FamInv, FamInv', FamiliesNext
               PROVE  /\ \A s \in shut' : allowed'[s] = 0
                      /\ \A r \in FamReqs : HandsOut(r) /\ famReq[r].sid \in famReq[r].after
                                              => famReq[r].sid \in bare
    BY DEF familyVars
  <2>1. \A s \in shut' : allowed'[s] = 0
    BY DEF FamInv, ShutIsFinal
  <2>2. ASSUME NEW r \in FamReqs, HandsOut(r), famReq[r].sid \in famReq[r].after
        PROVE  famReq[r].sid \in bare
    <3>1. famPc[r] \in {"count", "counted"}
      BY <2>2, WhoHandsOut
    <3> QED
      BY <2>2, <3>1 DEF FamInv, RequestsAreRight, Right, Past
  <2> QED
    BY <2>1, <2>2
<1> QED
  BY <1>1, FamInvariant, PTL DEF FamiliesSpec, RevokedStaysRevoked
=============================================================================
