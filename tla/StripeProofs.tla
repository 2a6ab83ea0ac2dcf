---------------------------- MODULE StripeProofs ----------------------------
(***************************************************************************)
(* The Stripe components: numbers and sums first, then a section each for   *)
(* payments, saved cards, connected accounts and the money of sellers, and  *)
(* last the specification that runs them all side by side.                  *)
(***************************************************************************)
EXTENDS MCOperations, AccountLifecycleProofs, FiniteSetTheorems, SequenceTheorems,
        WellFoundedInduction, TLAPS
-----------------------------------------------------------------------------
(***************************************************************************)
(* Numbers and sums.  A sum is the last value of a function over the places *)
(* of a list; that there is such a function, and what it does when the list *)
(* grows or one place of it changes, follows by induction over the places:  *)
(* a set of numbers with 0 in it and each successor is all of Nat, because  *)
(* otherwise there is a least number outside.                               *)
(***************************************************************************)
LEMMA LeastNumber ==
  ASSUME NEW T, T \subseteq Nat, T # {}
  PROVE  \E x \in T : \A y \in T : ~(y < x)
<1> DEFINE R == {ss \in Nat \X Nat : ss[1] < ss[2]}
<1>1. IsWellFoundedOn(R, Nat)
  BY NatLessThanWellFounded DEF OpToRel
<1>2. \E x \in T : \A y \in T : <<y, x>> \notin R
  <2> HIDE DEF R
  <2> QED
    BY <1>1, WFMin
<1> QED
  BY <1>2

\* Induction, for sets of numbers.
LEMMA NumbersInduce ==
  ASSUME NEW T, 0 \in T, \A n \in Nat : n \in T => n + 1 \in T
  PROVE  \A n \in Nat : n \in T
<1> SUFFICES ASSUME Nat \ T # {} PROVE FALSE
  OBVIOUS
<1>1. PICK x \in Nat \ T : \A y \in Nat \ T : ~(y < x)
  BY LeastNumber
<1>2. x # 0 /\ x - 1 \in Nat /\ x - 1 < x /\ (x - 1) + 1 = x
  BY <1>1
<1>3. x - 1 \in T
  BY <1>1, <1>2
<1> QED
  BY <1>1, <1>2, <1>3

(* Sums *)

\* The sums of the first amounts.
Sums(g, s, n) == g = [k \in 0 .. n |-> IF k = 0 THEN 0 ELSE g[k - 1] + s[k]]

LEMMA SumsExist == ASSUME NEW s PROVE \A n \in Nat : \E g : Sums(g, s, n)
<1> DEFINE T == {n \in Nat : \E g : Sums(g, s, n)}
<1>1. 0 \in T
  <2>1. Sums([k \in 0 .. 0 |-> 0], s, 0)
    BY DEF Sums
  <2> QED
    BY <2>1
<1>2. ASSUME NEW n \in Nat, n \in T
      PROVE  n + 1 \in T
  <2>1. PICK g : Sums(g, s, n)
    BY <1>2
  <2> DEFINE h == [k \in 0 .. n + 1 |-> IF k = n + 1 THEN g[n] + s[n + 1] ELSE g[k]]
  <2>2. \A k \in 0 .. n + 1 : h[k] = IF k = 0 THEN 0 ELSE h[k - 1] + s[k]
    <3>1. \A k \in 0 .. n : g[k] = IF k = 0 THEN 0 ELSE g[k - 1] + s[k]
      BY <2>1 DEF Sums
    <3> QED
      BY <3>1
  <2>3. Sums(h, s, n + 1)
    BY <2>2 DEF Sums
  <2> QED
    BY <2>3
<1> HIDE DEF T
<1>3. \A n \in Nat : n \in T
  BY <1>1, <1>2, NumbersInduce
<1> QED
  BY <1>3 DEF T

LEMMA SumIsLast ==
  ASSUME NEW s, Len(s) \in Nat
  PROVE  \E g : Sums(g, s, Len(s)) /\ SumOf(s) = g[Len(s)]
<1> DEFINE up == CHOOSE g : Sums(g, s, Len(s))
<1>1. Sums(up, s, Len(s))
  <2>1. \E g : Sums(g, s, Len(s))
    BY SumsExist
  <2> QED
    BY <2>1
<1>2. SumOf(s) = up[Len(s)]
  BY Zenon DEF SumOf, Sums
<1> QED
  BY <1>1, <1>2

\* The same, for lists of integers: every prefix has its sum.
LEMMA SumsOfList ==
  ASSUME NEW s \in Seq(Int)
  PROVE  \E g : /\ SumOf(s) = g[Len(s)] /\ g[0] = 0
                /\ \A k \in 0 .. Len(s) : g[k] \in Int
                /\ \A k \in 1 .. Len(s) : g[k] = g[k - 1] + s[k]
<1>1. Len(s) \in Nat /\ \A k \in 1 .. Len(s) : s[k] \in Int
  OBVIOUS
<1>2. PICK g : Sums(g, s, Len(s)) /\ SumOf(s) = g[Len(s)]
  BY <1>1, SumIsLast
<1>3. g[0] = 0 /\ \A k \in 1 .. Len(s) : g[k] = g[k - 1] + s[k]
  <2> DEFINE n == Len(s)
  <2>1. \A k \in 0 .. n : g[k] = IF k = 0 THEN 0 ELSE g[k - 1] + s[k]
    BY <1>2 DEF Sums
  <2>2. n \in Nat
    BY <1>1
  <2> HIDE DEF n
  <2>3. 0 \in 0 .. n /\ \A k \in 1 .. n : k \in 0 .. n /\ k # 0
    BY <2>2
  <2>4. g[0] = 0 /\ \A k \in 1 .. n : g[k] = g[k - 1] + s[k]
    BY <2>1, <2>3
  <2> QED
    BY <2>4 DEF n
<1> DEFINE T == {n \in Nat : n <= Len(s) => g[n] \in Int}
<1>4. 0 \in T /\ \A n \in Nat : n \in T => n + 1 \in T
  BY <1>1, <1>3
<1> HIDE DEF T
<1>5. \A n \in Nat : n \in T
  BY <1>4, NumbersInduce
<1> QED
  BY <1>2, <1>3, <1>5 DEF T

LEMMA SumIsInt == ASSUME NEW s \in Seq(Int) PROVE SumOf(s) \in Int
<1>1. Len(s) \in Nat
  OBVIOUS
<1> QED
  BY <1>1, SumsOfList

\* Of two lists of one length, the one that is nowhere larger has no larger sum.
LEMMA SumsCompare ==
  ASSUME NEW s \in Seq(Int), NEW t \in Seq(Int), Len(s) = Len(t),
         \A k \in 1 .. Len(s) : s[k] <= t[k]
  PROVE  SumOf(s) <= SumOf(t)
<1>1. Len(s) \in Nat /\ \A k \in 1 .. Len(s) : s[k] \in Int /\ t[k] \in Int
  OBVIOUS
<1>2. PICK g : /\ SumOf(s) = g[Len(s)] /\ g[0] = 0
               /\ \A k \in 0 .. Len(s) : g[k] \in Int
               /\ \A k \in 1 .. Len(s) : g[k] = g[k - 1] + s[k]
  BY SumsOfList
<1>3. PICK h : /\ SumOf(t) = h[Len(t)] /\ h[0] = 0
               /\ \A k \in 0 .. Len(t) : h[k] \in Int
               /\ \A k \in 1 .. Len(t) : h[k] = h[k - 1] + t[k]
  BY SumsOfList
<1> DEFINE T == {n \in Nat : n <= Len(s) => g[n] <= h[n]}
<1>4. 0 \in T
  BY <1>2, <1>3
<1>5. ASSUME NEW n \in Nat, n \in T PROVE n + 1 \in T
  <2> SUFFICES ASSUME n + 1 <= Len(s) PROVE g[n + 1] <= h[n + 1]
    OBVIOUS
  <2>1. n + 1 \in 1 .. Len(s) /\ n \in 0 .. Len(s) /\ (n + 1) - 1 = n /\ g[n] <= h[n]
    BY <1>1, <1>5
  <2> HIDE DEF T
  <2>2. /\ g[n + 1] = g[n] + s[n + 1] /\ h[n + 1] = h[n] + t[n + 1]
        /\ g[n] \in Int /\ h[n] \in Int /\ s[n + 1] \in Int /\ t[n + 1] \in Int
    BY <1>1, <1>2, <1>3, <2>1
  <2> QED
    BY <2>1, <2>2
<1> HIDE DEF T
<1>6. \A n \in Nat : n \in T
  BY <1>4, <1>5, NumbersInduce
<1> QED
  BY <1>1, <1>2, <1>3, <1>6 DEF T

\* One amount changes.
LEMMA SumChanges ==
  ASSUME NEW s \in Seq(Int), NEW t \in Seq(Int), Len(s) = Len(t), NEW i \in 1 .. Len(s),
         \A k \in 1 .. Len(s) : k # i => s[k] = t[k]
  PROVE  SumOf(t) = SumOf(s) + t[i] - s[i]
<1>1. Len(s) \in Nat /\ \A k \in 1 .. Len(s) : s[k] \in Int /\ t[k] \in Int
  OBVIOUS
<1>2. PICK g : /\ SumOf(s) = g[Len(s)] /\ g[0] = 0
               /\ \A k \in 0 .. Len(s) : g[k] \in Int
               /\ \A k \in 1 .. Len(s) : g[k] = g[k - 1] + s[k]
  BY SumsOfList
<1>3. PICK h : /\ SumOf(t) = h[Len(t)] /\ h[0] = 0
               /\ \A k \in 0 .. Len(t) : h[k] \in Int
               /\ \A k \in 1 .. Len(t) : h[k] = h[k - 1] + t[k]
  BY SumsOfList
<1> DEFINE T == {n \in Nat : n <= Len(s) => h[n] = IF n < i THEN g[n] ELSE g[n] + t[i] - s[i]}
<1>4. 0 \in T
  BY <1>2, <1>3
<1>5. ASSUME NEW n \in Nat, n \in T PROVE n + 1 \in T
  <2> SUFFICES ASSUME n + 1 <= Len(s)
               PROVE  h[n + 1] = IF n + 1 < i THEN g[n + 1] ELSE g[n + 1] + t[i] - s[i]
    OBVIOUS
  <2>1. /\ n + 1 \in 1 .. Len(s) /\ n \in 0 .. Len(s) /\ (n + 1) - 1 = n
        /\ h[n] = IF n < i THEN g[n] ELSE g[n] + t[i] - s[i]
    BY <1>1, <1>5
  <2> HIDE DEF T
  <2>2. /\ g[n + 1] = g[n] + s[n + 1] /\ h[n + 1] = h[n] + t[n + 1]
        /\ g[n] \in Int /\ h[n] \in Int /\ s[n + 1] \in Int /\ t[n + 1] \in Int
    BY <1>1, <1>2, <1>3, <2>1
  <2>3. s[i] \in Int /\ t[i] \in Int /\ i \in Int
    BY <1>1
  <2>4. n + 1 # i => s[n + 1] = t[n + 1]
    BY <2>1
  <2>5. CASE n + 1 < i
    <3>1. h[n] = g[n] /\ s[n + 1] = t[n + 1]
      BY <2>1, <2>3, <2>4, <2>5
    <3> QED
      BY <2>2, <2>5, <3>1
  <2>6. CASE n + 1 = i
    <3>1. h[n] = g[n]
      BY <2>1, <2>6
    <3> QED
      BY <2>2, <2>3, <2>6, <3>1
  <2>7. CASE n + 1 > i
    <3>1. h[n] = g[n] + t[i] - s[i] /\ s[n + 1] = t[n + 1]
      BY <2>1, <2>3, <2>4, <2>7
    <3>2. ~(n + 1 < i)
      BY <2>3, <2>7
    <3>3. (g[n] + t[i] - s[i]) + s[n + 1] = (g[n] + s[n + 1]) + t[i] - s[i]
      <4>1. \A a, b, c, d \in Int : (a + b - c) + d = (a + d) + b - c
        OBVIOUS
      <4> QED
        BY <2>2, <2>3, <4>1
    <3>4. h[n + 1] = g[n + 1] + t[i] - s[i]
      BY <2>2, <3>1, <3>3
    <3> QED
      BY <3>2, <3>4
  <2> QED
    BY <2>3, <2>5, <2>6, <2>7
<1> HIDE DEF T
<1>6. \A n \in Nat : n \in T
  BY <1>4, <1>5, NumbersInduce
<1>7. Len(s) \in T /\ i <= Len(s)
  BY <1>1, <1>6
<1> QED
  BY <1>1, <1>2, <1>3, <1>7 DEF T

\* One amount more.
LEMMA SumGrows ==
  ASSUME NEW s \in Seq(Int), NEW t \in Seq(Int), Len(t) = Len(s) + 1,
         \A k \in 1 .. Len(s) : s[k] = t[k]
  PROVE  SumOf(t) = SumOf(s) + t[Len(t)]
<1>1. Len(s) \in Nat /\ \A k \in 1 .. Len(s) : s[k] \in Int /\ t[k] \in Int
  OBVIOUS
<1>2. PICK g : /\ SumOf(s) = g[Len(s)] /\ g[0] = 0
               /\ \A k \in 0 .. Len(s) : g[k] \in Int
               /\ \A k \in 1 .. Len(s) : g[k] = g[k - 1] + s[k]
  BY SumsOfList
<1>3. PICK h : /\ SumOf(t) = h[Len(t)] /\ h[0] = 0
               /\ \A k \in 0 .. Len(t) : h[k] \in Int
               /\ \A k \in 1 .. Len(t) : h[k] = h[k - 1] + t[k]
  BY SumsOfList
<1> DEFINE T == {n \in Nat : n <= Len(s) => h[n] = g[n]}
<1>4. 0 \in T
  BY <1>2, <1>3
<1>5. ASSUME NEW n \in Nat, n \in T PROVE n + 1 \in T
  <2> SUFFICES ASSUME n + 1 <= Len(s)
               PROVE  h[n + 1] = g[n + 1]
    OBVIOUS
  <2>1. n + 1 \in 1 .. Len(s) /\ (n + 1) - 1 = n /\ h[n] = g[n] /\ n + 1 \in 1 .. Len(t)
    BY <1>1, <1>5
  <2> HIDE DEF T
  <2> QED
    BY <1>1, <1>2, <1>3, <2>1
<1> HIDE DEF T
<1>6. \A n \in Nat : n \in T
  BY <1>4, <1>5, NumbersInduce
<1>7. Len(s) \in T /\ Len(t) \in 1 .. Len(t) /\ Len(t) - 1 = Len(s)
  BY <1>1, <1>6
<1> QED
  BY <1>1, <1>2, <1>3, <1>7 DEF T

\* A bounded set of numbers has a greatest one.
LEMMA GreatestNumber ==
  ASSUME NEW T, T \subseteq Nat, T # {}, NEW n \in Nat, \A x \in T : x <= n
  PROVE  Max(T) \in T /\ \A y \in T : y <= Max(T)
<1> DEFINE U == {k \in Nat : n - k \in T}
<1>1. \A y \in T : n - y \in U
  <2>1. \A y \in T : y \in Nat /\ y <= n
    OBVIOUS
  <2>2. \A y \in T : n - y \in Nat /\ n - (n - y) = y
    BY <2>1
  <2> QED
    BY <2>2
<1>2. U \subseteq Nat /\ U # {}
  BY <1>1
<1>3. PICK u \in U : \A v \in U : ~(v < u)
  <2> HIDE DEF U
  <2> QED
    BY <1>2, LeastNumber
<1>4. u \in Nat /\ n - u \in T
  OBVIOUS
<1>5. ASSUME NEW y \in T
      PROVE  y <= n - u
  <2>1. ~(n - y < u)
    BY <1>1, <1>3
  <2>2. y \in Nat
    OBVIOUS
  <2> HIDE DEF U
  <2> QED
    BY <1>4, <2>1, <2>2
<1> HIDE DEF U
<1>6. \E x \in T : \A y \in T : y <= x
  BY <1>4, <1>5
<1> QED
  BY <1>6 DEF Max

LEMMA FunctionIsList ==
  ASSUME NEW S, NEW n \in Nat, NEW f \in [1 .. n -> S]
  PROVE  f \in Seq(S) /\ Len(f) = n /\ DOMAIN f = 1 .. n
<1>1. f \in Seq(S)
  BY SeqDef
<1> QED
  BY <1>1

LEMMA RoundedIsExact ==
  ASSUME NEW m \in Int
  PROVE  /\ Rounded(m) \in Int /\ IsExact(Rounded(m), m)
         /\ m >= 5 => Rounded(m) >= 1
  BY DEF Rounded, IsExact
-----------------------------------------------------------------------------
(***************************************************************************)
(* Payments.  No order of the operations charges a payment that nobody has  *)
(* asked to capture, no conversion loses a cent, Stripe never gives back    *)
(* more than it received, a bulk request accounts for all it was given and  *)
(* a report promises no more than is left: for any number of intents,       *)
(* requests and refunds, and any amounts.                                   *)
(***************************************************************************)
IntentRecord == [status : Statuses, asked : Int, amount : Nat, received : Nat, capture : {"manual"}]
RefundRecord == [amount : Nat \ {0}, asked : Int \cup {NoAmount}, by : PayReqs \cup {NoReq},
                 failed : BOOLEAN]
PayRequest == [todo : Seq(Intents), asked : Nat, results : Seq([intent : Intents, amount : Nat]),
               errors : Seq(Intents), intent : Intents \cup {NoReq}, captured : Nat]

\* An intent of this service is captured by hand, and what it received was asked for.
GoodIntent(i, x, asked) ==
  /\ x \in IntentRecord
  /\ x.status # "none" => IsExact(x.amount, x.asked)
  /\ x.received > 0 => x.status = "succeeded" /\ i \in asked
IntentsAreSound ==
  /\ intent = [i \in Intents |-> intent[i]] /\ captureAsked \subseteq Intents
  /\ \A i \in Intents : GoodIntent(i, intent[i], captureAsked)

GoodRefund(x) ==
  x \in RefundRecord /\ (x.asked # NoAmount /\ x.asked >= 5 => IsExact(x.amount, x.asked))
RefundsAreSound ==
  /\ refunds \in [Intents -> Seq(RefundRecord)]
  /\ \A i \in Intents : \A k \in DOMAIN refunds[i] : GoodRefund(refunds[i][k])

\* Stripe never gives back more than it has received.
BalancesHold == \A i \in Intents : Refunded(i) <= intent[i].received

\* A report has read what the intent has received, or had not received yet; and the
\* refunds of a bulk request are marked as long as it runs.
RequestsAreSound ==
  /\ payPc \in [PayReqs -> {"idle", "bulk", "status"}] /\ payReq \in [PayReqs -> PayRequest]
  /\ \A r \in PayReqs : payPc[r] = "idle" => payReq[r] = IdleReq
ReportsAreSound ==
  \A r \in PayReqs : payPc[r] = "status" =>
    /\ payReq[r].intent \in Intents
    /\ payReq[r].captured \in {0, intent[payReq[r].intent].received}
MarksAreSound ==
  \A r \in PayReqs : payPc[r] # "bulk" =>
    \A i \in Intents : \A k \in DOMAIN refunds[i] : refunds[i][k].by # r

PayInv ==
  /\ IntentsAreSound /\ RefundsAreSound /\ BalancesHold /\ RequestsAreSound
  /\ ReportsAreSound /\ MarksAreSound /\ BulkAccountsForAll

-----------------------------------------------------------------------------
(* Conversions *)

\* A refund with an amount of a cent at least reaches Stripe with that amount.
LEMMA RefundIsExact ==
  ASSUME NEW m \in RefundMills \cup {NoAmount}
  PROVE  LET cents == RefundParams(RefundCents(m)) IN
         /\ m \in Int \cup {NoAmount} /\ cents \in Int \cup {NoAmount}
         /\ m # NoAmount /\ m >= 5 => cents # NoAmount /\ IsExact(cents, m)
<1>1. m \in Int \cup {NoAmount} /\ NoAmount \notin Int
  BY PaymentAssumption, MoneyAssumption DEF PaymentAssumption, MoneyAssumption
<1> QED
  BY <1>1, RoundedIsExact DEF RefundCents, RefundParams
-----------------------------------------------------------------------------
(* Lists and numbers of their elements *)

LEMMA SumsAreOfLists ==
  ASSUME NEW rs \in Seq(RefundRecord)
  PROVE  /\ Kept(rs) \in Seq(Int) /\ Amounts(rs) \in Seq(Int)
         /\ Len(Kept(rs)) = Len(rs) /\ Len(Amounts(rs)) = Len(rs)
         /\ Len(rs) \in Nat /\ DOMAIN rs = 1 .. Len(rs)
         /\ \A k \in 1 .. Len(rs) :
              /\ rs[k] \in RefundRecord
              /\ Kept(rs)[k] = (IF rs[k].failed THEN 0 ELSE rs[k].amount)
              /\ Amounts(rs)[k] = rs[k].amount
<1>1. /\ Len(rs) \in Nat /\ DOMAIN rs = 1 .. Len(rs)
      /\ \A k \in 1 .. Len(rs) : rs[k] \in RefundRecord /\ rs[k].amount \in Int
  <2>1. Len(rs) \in Nat /\ DOMAIN rs = 1 .. Len(rs) /\ \A k \in 1 .. Len(rs) : rs[k] \in RefundRecord
    OBVIOUS
  <2>2. \A x \in RefundRecord : x.amount \in Int
    BY DEF RefundRecord
  <2> QED
    BY <2>1, <2>2
<1>2. Kept(rs) \in [1 .. Len(rs) -> Int] /\ Amounts(rs) \in [1 .. Len(rs) -> Int]
  BY <1>1 DEF Kept, Amounts
<1>3. \A k \in 1 .. Len(rs) :
        /\ Kept(rs)[k] = (IF rs[k].failed THEN 0 ELSE rs[k].amount)
        /\ Amounts(rs)[k] = rs[k].amount
  BY <1>1 DEF Kept, Amounts
<1> QED
  BY <1>1, <1>2, <1>3, FunctionIsList

LEMMA NumbersAreFinite ==
  ASSUME NEW n \in Nat, NEW K, K \subseteq 1 .. n
  PROVE  IsFiniteSet(K) /\ Cardinality(K) \in Nat
<1>1. IsFiniteSet(1 .. n)
  BY FS_Interval
<1>2. IsFiniteSet(K)
  BY <1>1, FS_Subset, Zenon
<1> QED
  BY <1>2, FS_CardinalityType

LEMMA OneMore ==
  ASSUME NEW n \in Nat, NEW K, K \subseteq 1 .. n
  PROVE  Cardinality(K \cup {n + 1}) = Cardinality(K) + 1
<1>1. IsFiniteSet(K)
  BY NumbersAreFinite
<1>2. n + 1 \notin K
  OBVIOUS
<1> QED
  BY <1>1, <1>2, FS_AddElement

\* The refunds of a list that belong to a request, its results and errors for an intent.
Marked(rs, r) == {k \in DOMAIN rs : rs[k].by = r}
ResultsFor(s, i) == {k \in DOMAIN s : s[k].intent = i}
ErrorsFor(s, i) == {k \in DOMAIN s : s[k] = i}

LEMMA MarkedGrow ==
  ASSUME NEW s \in Seq(RefundRecord), NEW x \in RefundRecord, NEW r
  PROVE  /\ Cardinality(Marked(s, r)) \in Nat
         /\ Cardinality(Marked(Append(s, x), r))
              = Cardinality(Marked(s, r)) + (IF x.by = r THEN 1 ELSE 0)
<1> DEFINE n == Len(s)
           t == Append(s, x)
<1>1. /\ n \in Nat /\ DOMAIN s = 1 .. n /\ DOMAIN t = 1 .. n + 1
      /\ \A k \in 1 .. n : t[k] = s[k]
      /\ t[n + 1] = x
  BY AppendProperties
<1> HIDE DEF n, t
<1>2. Marked(s, r) \subseteq 1 .. n
  BY <1>1 DEF Marked
<1>3. Marked(t, r) = IF x.by = r THEN Marked(s, r) \cup {n + 1} ELSE Marked(s, r)
  BY <1>1 DEF Marked
<1>4. CASE x.by = r
  <2>1. /\ Cardinality(Marked(s, r)) \in Nat
        /\ Cardinality(Marked(t, r)) = Cardinality(Marked(s, r)) + (IF x.by = r THEN 1 ELSE 0)
    BY <1>1, <1>2, <1>3, <1>4, OneMore, NumbersAreFinite
  <2> QED
    BY <2>1 DEF t
<1>5. CASE x.by # r
  <2>1. /\ Cardinality(Marked(s, r)) \in Nat
        /\ Cardinality(Marked(t, r)) = Cardinality(Marked(s, r)) + (IF x.by = r THEN 1 ELSE 0)
    BY <1>1, <1>2, <1>3, <1>5, NumbersAreFinite
  <2> QED
    BY <2>1 DEF t
<1> QED
  BY <1>4, <1>5

LEMMA ResultsGrow ==
  ASSUME NEW s \in Seq([intent : Intents, amount : Nat]), NEW x \in [intent : Intents, amount : Nat],
         NEW i
  PROVE  /\ Cardinality(ResultsFor(s, i)) \in Nat
         /\ Cardinality(ResultsFor(Append(s, x), i))
              = Cardinality(ResultsFor(s, i)) + (IF x.intent = i THEN 1 ELSE 0)
<1> DEFINE n == Len(s)
           t == Append(s, x)
           K == ResultsFor(s, i)
           L == ResultsFor(t, i)
<1>1. /\ n \in Nat /\ DOMAIN s = 1 .. n /\ DOMAIN t = 1 .. n + 1
      /\ \A k \in 1 .. n : t[k] = s[k]
      /\ t[n + 1] = x
  BY AppendProperties
<1> HIDE DEF n, t
<1>2. K \subseteq 1 .. n
  BY <1>1 DEF ResultsFor
<1>3. L = IF x.intent = i THEN K \cup {n + 1} ELSE K
  BY <1>1 DEF ResultsFor
<1> HIDE DEF K, L
<1>4. CASE x.intent = i
  <2>1. Cardinality(K) \in Nat /\ Cardinality(L) = Cardinality(K) + (IF x.intent = i THEN 1 ELSE 0)
    BY <1>1, <1>2, <1>3, <1>4, OneMore, NumbersAreFinite
  <2> QED
    BY <2>1 DEF t, K, L
<1>5. CASE x.intent # i
  <2>1. Cardinality(K) \in Nat
    BY <1>1, <1>2, NumbersAreFinite
  <2>2. L = K
    BY <1>3, <1>5
  <2>3. Cardinality(K) \in Nat /\ Cardinality(L) = Cardinality(K) + (IF x.intent = i THEN 1 ELSE 0)
    BY <2>1, <2>2, <1>5
  <2> QED
    BY <2>3 DEF t, K, L
<1> QED
  BY <1>4, <1>5

LEMMA ErrorsGrow ==
  ASSUME NEW s \in Seq(Intents), NEW x \in Intents, NEW i
  PROVE  /\ Cardinality(ErrorsFor(s, i)) \in Nat
         /\ Cardinality(ErrorsFor(Append(s, x), i))
              = Cardinality(ErrorsFor(s, i)) + (IF x = i THEN 1 ELSE 0)
<1> DEFINE n == Len(s)
           t == Append(s, x)
           K == ErrorsFor(s, i)
           L == ErrorsFor(t, i)
<1>1. /\ n \in Nat /\ DOMAIN s = 1 .. n /\ DOMAIN t = 1 .. n + 1
      /\ \A k \in 1 .. n : t[k] = s[k]
      /\ t[n + 1] = x
  BY AppendProperties
<1> HIDE DEF n, t
<1>2. K \subseteq 1 .. n
  BY <1>1 DEF ErrorsFor
<1>3. L = IF x = i THEN K \cup {n + 1} ELSE K
  BY <1>1 DEF ErrorsFor
<1> HIDE DEF K, L
<1>4. CASE x = i
  <2>1. Cardinality(K) \in Nat /\ Cardinality(L) = Cardinality(K) + (IF x = i THEN 1 ELSE 0)
    BY <1>1, <1>2, <1>3, <1>4, OneMore, NumbersAreFinite
  <2> QED
    BY <2>1 DEF t, K, L
<1>5. CASE x # i
  <2>1. Cardinality(K) \in Nat
    BY <1>1, <1>2, NumbersAreFinite
  <2>2. L = K
    BY <1>3, <1>5
  <2>3. Cardinality(K) \in Nat /\ Cardinality(L) = Cardinality(K) + (IF x = i THEN 1 ELSE 0)
    BY <2>1, <2>2, <1>5
  <2> QED
    BY <2>3 DEF t, K, L
<1> QED
  BY <1>4, <1>5
-----------------------------------------------------------------------------
(* The invariant of a bulk request, and what leaves it as it is *)

Counted(q) == Len(q.todo) + Len(q.results) + Len(q.errors) = q.asked
Matches(made, told, unsure) == made \in told .. told + unsure
Told(q, r, lists) ==
  /\ Counted(q)
  /\ \A i \in Intents : Matches(Cardinality(Marked(lists[i], r)),
                              Cardinality(ResultsFor(q.results, i)),
                              Cardinality(ErrorsFor(q.errors, i)))

LEMMA BulkIsTold ==
  /\ BulkAccountsForAll <=> \A r \in PayReqs : payPc[r] = "bulk" => Told(payReq[r], r, refunds)
  /\ BulkAccountsForAll' <=> \A r \in PayReqs : payPc'[r] = "bulk" => Told(payReq'[r], r, refunds')
  BY DEF BulkAccountsForAll, Told, Marked, Counted, Matches, ResultsFor, ErrorsFor

\* The marks of other requests do not matter.
LEMMA ToldByOwnMarks ==
  ASSUME NEW q, NEW r, NEW lists, NEW others, Told(q, r, lists),
         \A i \in Intents : Cardinality(Marked(others[i], r)) = Cardinality(Marked(lists[i], r))
  PROVE  Told(q, r, others)
  BY DEF Told

LEMMA NothingMoves ==
  ASSUME PayInv, UNCHANGED <<intent, refunds, captureAsked, payPc, payReq>>
  PROVE  PayInv'
<1>1. IntentsAreSound' /\ RefundsAreSound' /\ ReportsAreSound' /\ MarksAreSound'
  BY DEF PayInv, IntentsAreSound, RefundsAreSound, ReportsAreSound, MarksAreSound
<1>2. RequestsAreSound'
  BY DEF PayInv, RequestsAreSound
<1>3. BalancesHold'
  BY DEF PayInv, BalancesHold, Refunded
<1>4. BulkAccountsForAll'
  BY BulkIsTold DEF PayInv
<1> QED
  BY <1>1, <1>2, <1>3, <1>4 DEF PayInv
-----------------------------------------------------------------------------
(* Intents *)

\* A step of one intent, which receives once.
LEMMA IntentKeeps ==
  ASSUME PayInv, NEW i \in Intents, NEW x, UNCHANGED <<refunds, payPc, payReq>>,
         intent' = [intent EXCEPT ![i] = x], captureAsked' \in {captureAsked, captureAsked \cup {i}},
         GoodIntent(i, x, captureAsked'),
         intent[i].received \in {0, x.received}
  PROVE  PayInv'
<1>1. \A j \in Intents : intent'[j] = IF j = i THEN x ELSE intent[j]
  BY DEF PayInv, IntentsAreSound
<1>2. intent' = [j \in Intents |-> intent'[j]]
  BY DEF PayInv, IntentsAreSound
<1>3. \A j \in Intents : GoodIntent(j, intent'[j], captureAsked')
  <2> SUFFICES ASSUME NEW j \in Intents, j # i PROVE GoodIntent(j, intent'[j], captureAsked')
    BY <1>1
  <2>1. GoodIntent(j, intent[j], captureAsked) /\ intent'[j] = intent[j]
    BY <1>1 DEF PayInv, IntentsAreSound
  <2> QED
    BY <2>1 DEF GoodIntent
<1>4. IntentsAreSound'
  BY <1>2, <1>3 DEF PayInv, IntentsAreSound
<1>5. \A j \in Intents : /\ intent[j].received \in Nat /\ intent'[j].received \in Nat
                         /\ intent[j].received \in {0, intent'[j].received}
  <2> SUFFICES ASSUME NEW j \in Intents
               PROVE  /\ intent[j].received \in Nat /\ intent'[j].received \in Nat
                      /\ intent[j].received \in {0, intent'[j].received}
    OBVIOUS
  <2>1. GoodIntent(j, intent[j], captureAsked) /\ GoodIntent(j, intent'[j], captureAsked')
    BY <1>3 DEF PayInv, IntentsAreSound
  <2>2. intent[j].received \in Nat /\ intent'[j].received \in Nat
    BY <2>1 DEF GoodIntent, IntentRecord
  <2> QED
    BY <1>1, <2>2
<1>6. BalancesHold'
  <2> SUFFICES ASSUME NEW j \in Intents PROVE Refunded(j)' <= intent'[j].received
    BY DEF BalancesHold
  <2>1. Refunded(j)' = Refunded(j)
    BY DEF Refunded
  <2>2. Refunded(j) \in Int
    BY SumsAreOfLists, SumIsInt DEF PayInv, RefundsAreSound, Refunded
  <2>3. Refunded(j) <= intent[j].received
    BY DEF PayInv, BalancesHold
  <2> QED
    BY <1>5, <2>1, <2>2, <2>3
<1>7. ReportsAreSound'
  <2> SUFFICES ASSUME NEW r \in PayReqs, payPc'[r] = "status"
               PROVE  /\ payReq'[r].intent \in Intents
                      /\ payReq'[r].captured \in {0, intent'[payReq'[r].intent].received}
    BY DEF ReportsAreSound
  <2>1. /\ payReq[r].intent \in Intents
        /\ payReq[r].captured \in {0, intent[payReq[r].intent].received}
    BY DEF PayInv, ReportsAreSound
  <2> QED
    BY <1>5, <2>1
<1>8. RefundsAreSound' /\ MarksAreSound' /\ RequestsAreSound'
  BY DEF PayInv, RefundsAreSound, MarksAreSound, RequestsAreSound
<1>9. BulkAccountsForAll'
  BY BulkIsTold DEF PayInv
<1> QED
  BY <1>4, <1>6, <1>7, <1>8, <1>9 DEF PayInv

LEMMA CreateInv ==
  ASSUME PayInv, NEW i \in Intents, CreatePaymentIntent(i)
  PROVE  PayInv'
<1>1. PICK m \in ChargeMills, b \in BOOLEAN : StripeCreate(i, ChargeCents(m), m, b)
  BY DEF CreatePaymentIntent, CreatePaymentIntentUseCase
<1> DEFINE x == [status |-> IF b THEN "requires_confirmation" ELSE "requires_payment_method",
                 asked |-> m, amount |-> ChargeCents(m), received |-> 0, capture |-> CaptureMethod]
<1>2. /\ intent' = [intent EXCEPT ![i] = x] /\ UNCHANGED <<refunds, captureAsked, payPc, payReq>>
      /\ intent[i].status = "none" /\ ChargeCents(m) >= MinCharge
  BY <1>1 DEF StripeCreate, CreatePaymentIntent
<1>3. m \in Int /\ ChargeCents(m) \in Int /\ IsExact(ChargeCents(m), m) /\ MinCharge \in Nat
  BY PaymentAssumption, RoundedIsExact DEF ChargeCents, PaymentAssumption
<1>4. ChargeCents(m) \in Nat
  BY <1>2, <1>3
<1>5. x \in IntentRecord /\ IsExact(x.amount, x.asked) /\ ~(x.received > 0)
  BY <1>3, <1>4 DEF Statuses, CaptureMethod, IntentRecord
<1>6. GoodIntent(i, intent[i], captureAsked)
  BY DEF PayInv, IntentsAreSound
<1>7. intent[i].received = 0
  BY <1>2, <1>6 DEF GoodIntent, IntentRecord
<1> HIDE DEF x
<1>8. GoodIntent(i, x, captureAsked')
  BY <1>5 DEF GoodIntent
<1> QED
  BY <1>2, <1>7, <1>8, IntentKeeps

\* Only a status moves: nothing is received.
LEMMA StatusMoves ==
  ASSUME PayInv, NEW i \in Intents, NEW s \in Statuses, intent[i].status \notin {"none", "succeeded"},
         intent' = [intent EXCEPT ![i].status = s], UNCHANGED <<refunds, captureAsked, payPc, payReq>>
  PROVE  PayInv'
<1> DEFINE x == [intent[i] EXCEPT !.status = s]
<1>1. intent' = [intent EXCEPT ![i] = x]
  BY DEF PayInv, IntentsAreSound
<1>2. GoodIntent(i, intent[i], captureAsked)
  BY DEF PayInv, IntentsAreSound
<1>3. /\ x \in IntentRecord /\ IsExact(x.amount, x.asked)
      /\ x.received = intent[i].received /\ ~(intent[i].received > 0)
  BY <1>2 DEF GoodIntent, IntentRecord
<1> HIDE DEF x
<1>4. GoodIntent(i, x, captureAsked')
  BY <1>3 DEF GoodIntent
<1> QED
  BY <1>1, <1>3, <1>4, IntentKeeps

LEMMA ConfirmInv ==
  ASSUME PayInv, NEW i \in Intents, ConfirmPaymentIntent(i)
  PROVE  PayInv'
<1>1. /\ intent[i].status \notin {"none", "succeeded"}
      /\ UNCHANGED <<refunds, captureAsked, payPc, payReq>>
  BY DEF ConfirmPaymentIntent, StripeConfirm, Confirmable
<1>2. PICK s \in {"requires_capture", "requires_action", "requires_payment_method"} :
        intent' = [intent EXCEPT ![i].status = s]
  <2>1. intent[i].capture = "manual"
    BY DEF PayInv, IntentsAreSound, GoodIntent, IntentRecord
  <2>2. Authorized(intent[i]) = [intent[i] EXCEPT !.status = "requires_capture"]
    BY <2>1 DEF Authorized
  <2> QED
    BY <2>2 DEF ConfirmPaymentIntent, StripeConfirm, PayInv, IntentsAreSound
<1> QED
  BY <1>1, <1>2, StatusMoves DEF Statuses

LEMMA CaptureInv ==
  ASSUME PayInv, NEW i \in Intents, CapturePayment(i)
  PROVE  PayInv'
<1> DEFINE x == [intent[i] EXCEPT !.status = "succeeded", !.received = intent[i].amount]
<1>1. intent' = [intent EXCEPT ![i] = x] /\ UNCHANGED <<refunds, payPc, payReq>>
  BY DEF CapturePayment, StripeCapture, PayInv, IntentsAreSound
<1>2. captureAsked' = captureAsked \cup {i} /\ intent[i].status = "requires_capture"
  BY DEF CapturePayment, StripeCapture
<1>3. GoodIntent(i, intent[i], captureAsked)
  BY DEF PayInv, IntentsAreSound
<1>4. /\ x \in IntentRecord /\ IsExact(x.amount, x.asked) /\ x.status = "succeeded"
      /\ intent[i].received = 0
  <2>1. /\ intent[i] \in IntentRecord /\ IsExact(intent[i].amount, intent[i].asked)
        /\ ~(intent[i].received > 0)
    BY <1>2, <1>3 DEF GoodIntent
  <2>2. intent[i].received = 0
    BY <2>1 DEF IntentRecord
  <2>3. x \in IntentRecord /\ x.status = "succeeded"
    BY <2>1 DEF IntentRecord, Statuses
  <2>4. x.amount = intent[i].amount /\ x.asked = intent[i].asked
    BY <2>1 DEF IntentRecord
  <2> HIDE DEF x
  <2> QED
    BY <2>1, <2>2, <2>3, <2>4
<1> HIDE DEF x
<1>5. GoodIntent(i, x, captureAsked')
  BY <1>2, <1>4 DEF GoodIntent
<1> QED
  BY <1>1, <1>2, <1>4, <1>5, IntentKeeps

LEMMA MovesInv ==
  ASSUME PayInv, NEW i \in Intents, CustomerAuthenticates(i) \/ CancelPayment(i)
  PROVE  PayInv'
<1>1. /\ intent[i].status \notin {"none", "succeeded"}
      /\ UNCHANGED <<refunds, captureAsked, payPc, payReq>>
      /\ \E s \in Statuses : intent' = [intent EXCEPT ![i].status = s]
  BY DEF CustomerAuthenticates, CancelPayment, StripeCancel, Cancelable, Confirmable, Statuses
<1> QED
  BY <1>1, StatusMoves
-----------------------------------------------------------------------------
(* Refunds *)

\* The list of one intent grows by a refund of this request.
OneMarkMore(i, by) ==
  /\ \A j \in Intents, r \in PayReqs :
       /\ Cardinality(Marked(refunds[j], r)) \in Nat
       /\ Cardinality(Marked(refunds'[j], r))
            = Cardinality(Marked(refunds[j], r)) + (IF j = i /\ by = r THEN 1 ELSE 0)
  /\ \A j \in Intents : \A k \in DOMAIN refunds'[j] :
       \/ refunds'[j][k].by = by
       \/ k \in DOMAIN refunds[j] /\ refunds'[j][k].by = refunds[j][k].by

LEMMA RefundGrows ==
  ASSUME PayInv, NEW i \in Intents, NEW x, GoodRefund(x), ~x.failed, x.amount <= Remaining(i),
         refunds' = [refunds EXCEPT ![i] = Append(refunds[i], x)], UNCHANGED <<intent, captureAsked>>
  PROVE  IntentsAreSound' /\ RefundsAreSound' /\ BalancesHold' /\ OneMarkMore(i, x.by)
<1> DEFINE s == refunds[i]
           t == Append(s, x)
<1>1. x \in RefundRecord /\ s \in Seq(RefundRecord)
  BY DEF PayInv, RefundsAreSound, GoodRefund
<1>2. /\ t \in Seq(RefundRecord) /\ Len(t) = Len(s) + 1 /\ Len(s) \in Nat
      /\ DOMAIN s = 1 .. Len(s) /\ DOMAIN t = 1 .. Len(s) + 1
      /\ \A k \in 1 .. Len(s) : t[k] = s[k]
      /\ t[Len(s) + 1] = x
  BY <1>1, AppendProperties
<1>3. /\ \A j \in Intents : refunds'[j] = IF j = i THEN t ELSE refunds[j]
      /\ refunds' \in [Intents -> Seq(RefundRecord)]
  BY <1>2 DEF PayInv, RefundsAreSound
<1> HIDE DEF t
<1>4. IntentsAreSound'
  BY DEF PayInv, IntentsAreSound
<1>5. RefundsAreSound'
  <2>1. \A k \in DOMAIN t : GoodRefund(t[k])
    <3>1. \A k \in 1 .. Len(s) : GoodRefund(s[k])
      BY <1>2 DEF PayInv, RefundsAreSound
    <3> HIDE DEF s
    <3> QED
      BY <1>2, <3>1
  <2> QED
    BY <1>3, <2>1 DEF PayInv, RefundsAreSound
<1>6. BalancesHold'
  <2>1. Kept(s) \in Seq(Int) /\ Kept(t) \in Seq(Int) /\ Len(Kept(t)) = Len(Kept(s)) + 1
    BY <1>1, <1>2, SumsAreOfLists
  <2>2. \A k \in 1 .. Len(Kept(s)) : Kept(s)[k] = Kept(t)[k]
    <3>1. /\ \A k \in 1 .. Len(s) : Kept(s)[k] = (IF s[k].failed THEN 0 ELSE s[k].amount)
          /\ \A k \in 1 .. Len(t) : Kept(t)[k] = (IF t[k].failed THEN 0 ELSE t[k].amount)
          /\ Len(Kept(s)) = Len(s)
      BY <1>1, <1>2, SumsAreOfLists
    <3> HIDE DEF s
    <3> QED
      BY <1>2, <3>1
  <2>3. Kept(t)[Len(Kept(t))] = x.amount
    <3>1. /\ Len(Kept(t)) = Len(t) /\ Len(t) \in 1 .. Len(t)
          /\ \A k \in 1 .. Len(t) : Kept(t)[k] = (IF t[k].failed THEN 0 ELSE t[k].amount)
      BY <1>2, SumsAreOfLists
    <3> HIDE DEF s
    <3> QED
      BY <1>2, <3>1
  <2>4. SumOf(Kept(t)) = SumOf(Kept(s)) + x.amount
    BY <2>1, <2>2, <2>3, SumGrows
  <2>5. /\ SumOf(Kept(s)) \in Int /\ x.amount \in Int /\ intent[i].received \in Int
        /\ x.amount <= intent[i].received - SumOf(Kept(s))
    <3>1. GoodIntent(i, intent[i], captureAsked)
      BY DEF PayInv, IntentsAreSound
    <3>2. x.amount \in Int /\ intent[i].received \in Int
      BY <1>1, <3>1 DEF RefundRecord, GoodIntent, IntentRecord
    <3> QED
      BY <2>1, <3>2, SumIsInt DEF Remaining, Refunded
  <2>6. SumOf(Kept(t)) <= intent[i].received
    BY <2>4, <2>5
  <2> HIDE DEF s
  <2> QED
    BY <1>3, <2>6 DEF PayInv, BalancesHold, Refunded
<1>7. ASSUME NEW j \in Intents, NEW r \in PayReqs
      PROVE  /\ Cardinality(Marked(refunds[j], r)) \in Nat
             /\ Cardinality(Marked(refunds'[j], r))
                  = Cardinality(Marked(refunds[j], r)) + (IF j = i /\ x.by = r THEN 1 ELSE 0)
  <2>1. CASE j = i
    BY <1>1, <1>3, <2>1, MarkedGrow DEF t
  <2>2. CASE j # i
    <3>1. refunds[j] \in Seq(RefundRecord) /\ refunds'[j] = refunds[j]
      BY <1>3, <2>2 DEF PayInv, RefundsAreSound
    <3>2. Cardinality(Marked(refunds[j], r)) \in Nat
      BY <1>1, <3>1, MarkedGrow
    <3> QED
      BY <2>2, <3>1, <3>2
  <2> QED
    BY <2>1, <2>2
<1>8. ASSUME NEW j \in Intents, NEW k \in DOMAIN refunds'[j]
      PROVE  \/ refunds'[j][k].by = x.by
             \/ k \in DOMAIN refunds[j] /\ refunds'[j][k].by = refunds[j][k].by
  <2>1. CASE j = i
    <3>1. k \in DOMAIN t /\ refunds'[j] = t /\ refunds[j] = s
      BY <1>3, <2>1
    <3> HIDE DEF s
    <3> QED
      BY <1>2, <3>1
  <2>2. CASE j # i
    BY <1>3, <2>2
  <2> QED
    BY <2>1, <2>2
<1>9. OneMarkMore(i, x.by)
  BY <1>7, <1>8 DEF OneMarkMore
<1> QED
  BY <1>4, <1>5, <1>6, <1>9

\* What Stripe grants is within what is left.
LEMMA StripeGrants ==
  ASSUME PayInv, NEW i \in Intents, NEW c \in Int \cup {NoAmount}, NEW m \in Int \cup {NoAmount},
         NEW r \in PayReqs \cup {NoReq}, StripeRefund(i, c, m, r),
         m # NoAmount /\ m >= 5 => c # NoAmount /\ IsExact(c, m)
  PROVE  LET x == NewRefund(i, c, m, r) IN
         /\ GoodRefund(x) /\ x.by = r /\ ~x.failed /\ x.amount <= Remaining(i)
         /\ refunds' = [refunds EXCEPT ![i] = Append(refunds[i], x)]
<1>1. Remaining(i) \in Int
  <2>1. GoodIntent(i, intent[i], captureAsked) /\ refunds[i] \in Seq(RefundRecord)
    BY DEF PayInv, IntentsAreSound, RefundsAreSound
  <2>2. intent[i].received \in Int /\ Refunded(i) \in Int
    BY <2>1, SumsAreOfLists, SumIsInt DEF GoodIntent, IntentRecord, Refunded
  <2> QED
    BY <2>2 DEF Remaining
<1> DEFINE a == IF c = NoAmount THEN Remaining(i) ELSE c
           x == NewRefund(i, c, m, r)
<1>2. a \in Nat \ {0} /\ a <= Remaining(i)
  BY <1>1 DEF StripeRefund, Refundable
<1>3. m # NoAmount /\ m >= 5 => IsExact(a, m)
  OBVIOUS
<1>4. x = [amount |-> a, asked |-> m, by |-> r, failed |-> FALSE]
  BY DEF NewRefund
<1> HIDE DEF a
<1>5. x \in RefundRecord /\ x.amount = a /\ x.asked = m /\ x.by = r /\ x.failed = FALSE
  BY <1>2, <1>4 DEF RefundRecord
<1>6. refunds' = [refunds EXCEPT ![i] = Append(refunds[i], x)]
  BY DEF StripeRefund, PayInv, RefundsAreSound
<1> HIDE DEF x
<1>7. GoodRefund(x) /\ x.by = r /\ ~x.failed /\ x.amount <= Remaining(i)
  BY <1>2, <1>3, <1>5 DEF GoodRefund
<1> QED
  BY <1>6, <1>7 DEF x

LEMMA StripeGrantsAll ==
  ASSUME PayInv, NEW i \in Intents, NEW r \in PayReqs, StripeRefund(i, NoAmount, NoAmount, r)
  PROVE  LET x == NewRefund(i, NoAmount, NoAmount, r) IN
         /\ GoodRefund(x) /\ x.by = r /\ ~x.failed /\ x.amount <= Remaining(i)
         /\ refunds' = [refunds EXCEPT ![i] = Append(refunds[i], x)]
<1>1. PICK c \in Int \cup {NoAmount} : c = NoAmount
  OBVIOUS
<1>2. /\ StripeRefund(i, c, c, r) /\ r \in PayReqs \cup {NoReq}
      /\ c # NoAmount /\ c >= 5 => c # NoAmount /\ IsExact(c, c)
  BY <1>1
<1> DEFINE x == NewRefund(i, c, c, r)
<1>3. /\ GoodRefund(x) /\ x.by = r /\ ~x.failed /\ x.amount <= Remaining(i)
      /\ refunds' = [refunds EXCEPT ![i] = Append(refunds[i], x)]
  BY <1>2, StripeGrants
<1> QED
  BY <1>1, <1>3

LEMMA RefundPaymentInv ==
  ASSUME PayInv, NEW i \in Intents, RefundPayment(i)
  PROVE  PayInv'
<1>1. PICK m \in RefundMills \cup {NoAmount} :
        StripeRefund(i, RefundParams(RefundCents(m)), m, NoReq)
  BY DEF RefundPayment, RefundPaymentUseCase, AdapterRefund
<1> DEFINE c == RefundParams(RefundCents(m))
           x == NewRefund(i, c, m, NoReq)
<1>2. /\ m \in Int \cup {NoAmount} /\ c \in Int \cup {NoAmount}
      /\ m # NoAmount /\ m >= 5 => c # NoAmount /\ IsExact(c, m)
  BY RefundIsExact
<1>0. StripeRefund(i, c, m, NoReq)
  BY <1>1
<1> HIDE DEF c
<1>3. /\ GoodRefund(x) /\ x.by = NoReq /\ ~x.failed /\ x.amount <= Remaining(i)
      /\ refunds' = [refunds EXCEPT ![i] = Append(refunds[i], x)]
  BY <1>0, <1>2, StripeGrants
<1>4. UNCHANGED <<intent, captureAsked, payPc, payReq>> /\ NoReq \notin PayReqs
  BY PaymentAssumption DEF RefundPayment, PaymentAssumption
<1> HIDE DEF x
<1>5. IntentsAreSound' /\ RefundsAreSound' /\ BalancesHold' /\ OneMarkMore(i, NoReq)
  BY <1>3, <1>4, RefundGrows
<1>6. \A j \in Intents, r \in PayReqs :
        Cardinality(Marked(refunds'[j], r)) = Cardinality(Marked(refunds[j], r))
  BY <1>4, <1>5 DEF OneMarkMore
<1>7. BulkAccountsForAll'
  <2>1. \A r \in PayReqs : payPc'[r] = "bulk" => Told(payReq'[r], r, refunds')
    BY <1>4, <1>6, BulkIsTold, ToldByOwnMarks DEF PayInv
  <2> QED
    BY <2>1, BulkIsTold
<1>8. RequestsAreSound' /\ ReportsAreSound'
  BY <1>4 DEF PayInv, RequestsAreSound, ReportsAreSound
<1>9. MarksAreSound'
  BY <1>4, <1>5 DEF PayInv, MarksAreSound, OneMarkMore
<1> QED
  BY <1>5, <1>7, <1>8, <1>9 DEF PayInv

LEMMA IdleReqIsOne ==
  /\ IdleReq \in PayRequest
  /\ IdleReq.todo = <<>> /\ IdleReq.results = <<>> /\ IdleReq.errors = <<>> /\ IdleReq.asked = 0
<1>1. <<>> \in Seq(Intents) /\ <<>> \in Seq([intent : Intents, amount : Nat])
  OBVIOUS
<1> QED
  BY <1>1 DEF IdleReq, PayRequest

\* A step of one request.
LEMMA RequestMoves ==
  ASSUME PayInv, NEW r \in PayReqs, NEW s \in {"idle", "bulk", "status"}, NEW q \in PayRequest,
         s = "idle" => q = IdleReq,
         payPc' = [payPc EXCEPT ![r] = s], payReq' = [payReq EXCEPT ![r] = q]
  PROVE  /\ RequestsAreSound' /\ payPc'[r] = s /\ payReq'[r] = q
         /\ \A o \in PayReqs : o # r => payPc'[o] = payPc[o] /\ payReq'[o] = payReq[o]
  BY DEF PayInv, RequestsAreSound

\* A bulk request grows by a refund of its own, or tells of one.
LEMMA BulkMoves ==
  ASSUME PayInv, NEW r \in PayReqs, NEW q \in PayRequest, payPc[r] = "bulk", UNCHANGED payPc,
         payReq' = [payReq EXCEPT ![r] = q], IntentsAreSound', RefundsAreSound', BalancesHold',
         UNCHANGED intent, Told(q, r, refunds'),
         \A j \in Intents, o \in PayReqs : o # r =>
           Cardinality(Marked(refunds'[j], o)) = Cardinality(Marked(refunds[j], o)),
         \A j \in Intents : \A k \in DOMAIN refunds'[j] :
              \/ refunds'[j][k].by = r
              \/ k \in DOMAIN refunds[j] /\ refunds'[j][k].by = refunds[j][k].by
  PROVE  PayInv'
<1>1. payPc' = [payPc EXCEPT ![r] = "bulk"]
  BY DEF PayInv, RequestsAreSound
<1>2. /\ RequestsAreSound' /\ payPc'[r] = "bulk" /\ payReq'[r] = q
      /\ \A o \in PayReqs : o # r => payPc'[o] = payPc[o] /\ payReq'[o] = payReq[o]
  BY <1>1, RequestMoves
<1>3. ReportsAreSound'
  BY <1>2 DEF PayInv, ReportsAreSound
<1>4. MarksAreSound'
  BY <1>2 DEF PayInv, MarksAreSound
<1>5. BulkAccountsForAll'
  <2> SUFFICES ASSUME NEW o \in PayReqs, payPc'[o] = "bulk"
               PROVE  Told(payReq'[o], o, refunds')
    BY BulkIsTold
  <2>1. CASE o = r
    BY <1>2, <2>1
  <2>2. CASE o # r
    <3>1. Told(payReq[o], o, refunds) /\ payReq'[o] = payReq[o]
      BY <1>2, <2>2, BulkIsTold DEF PayInv
    <3> QED
      BY <2>2, <3>1, ToldByOwnMarks
  <2> QED
    BY <2>1, <2>2
<1> QED
  BY <1>2, <1>3, <1>4, <1>5 DEF PayInv

\* One id less to do, and one result, or one error, more.
LEMMA BulkTells ==
  ASSUME PayInv, NEW r \in PayReqs, payPc[r] = "bulk", payReq[r].todo # <<>>
  PROVE  LET p == payReq[r]
             i == Head(p.todo) IN
         /\ i \in Intents /\ p \in PayRequest /\ Told(p, r, refunds)
         /\ Tail(p.todo) \in Seq(Intents) /\ Len(p.todo) = Len(Tail(p.todo)) + 1
<1>1. payReq[r] \in PayRequest /\ Told(payReq[r], r, refunds)
  BY BulkIsTold DEF PayInv, RequestsAreSound
<1>2. payReq[r].todo \in Seq(Intents)
  BY <1>1 DEF PayRequest
<1> QED
  BY <1>1, <1>2, HeadTailProperties

LEMMA NumbersTold ==
  ASSUME NEW q \in PayRequest, NEW i
  PROVE  /\ Cardinality(ResultsFor(q.results, i)) \in Nat
         /\ Cardinality(ErrorsFor(q.errors, i)) \in Nat
<1>1. /\ Len(q.results) \in Nat /\ DOMAIN q.results = 1 .. Len(q.results)
      /\ Len(q.errors) \in Nat /\ DOMAIN q.errors = 1 .. Len(q.errors)
  BY DEF PayRequest
<1>2. /\ ResultsFor(q.results, i) \subseteq 1 .. Len(q.results)
      /\ ErrorsFor(q.errors, i) \subseteq 1 .. Len(q.errors)
  BY <1>1 DEF ResultsFor, ErrorsFor
<1> QED
  BY <1>1, <1>2, NumbersAreFinite

\* Success is told by a result.
LEMMA ResultIsTold ==
  ASSUME NEW r \in PayReqs, NEW p \in PayRequest, NEW i \in Intents, NEW a \in Nat,
         Told(p, r, refunds), OneMarkMore(i, r), Tail(p.todo) \in Seq(Intents),
         Len(p.todo) = Len(Tail(p.todo)) + 1
  PROVE  LET q == [p EXCEPT !.todo = Tail(p.todo),
                            !.results = Append(p.results, [intent |-> i, amount |-> a])] IN
         q \in PayRequest /\ Told(q, r, refunds')
<1> DEFINE y == [intent |-> i, amount |-> a]
           z == Append(p.results, y)
           q == [p EXCEPT !.todo = Tail(p.todo), !.results = z]
<1>1. /\ p.results \in Seq([intent : Intents, amount : Nat]) /\ y \in [intent : Intents, amount : Nat]
      /\ p.errors \in Seq(Intents) /\ y.intent = i /\ p.asked \in Nat
  BY DEF PayRequest
<1>2. z \in Seq([intent : Intents, amount : Nat]) /\ Len(z) = Len(p.results) + 1
  BY <1>1, AppendProperties
<1>3. \A j : /\ Cardinality(ResultsFor(p.results, j)) \in Nat
             /\ Cardinality(ResultsFor(z, j))
                  = Cardinality(ResultsFor(p.results, j))
                      + (IF y.intent = j THEN 1 ELSE 0)
  BY <1>1, ResultsGrow
<1> HIDE DEF y, z
<1>4. /\ q \in PayRequest /\ q.results = z /\ q.errors = p.errors /\ q.asked = p.asked
      /\ q.todo = Tail(p.todo)
  BY <1>2 DEF PayRequest
<1> HIDE DEF q
<1>5. Counted(q)
  <2>1. Len(p.todo) + Len(p.results) + Len(p.errors) = p.asked
    <3>1. Counted(p)
      BY DEF Told
    <3> QED
      BY <3>1 DEF Counted
  <2>2. Len(Tail(p.todo)) \in Nat /\ Len(p.results) \in Nat /\ Len(p.errors) \in Nat
    <3>1. \A S : \A t \in Seq(S) : Len(t) \in Nat
      OBVIOUS
    <3> QED
      BY <1>1, <3>1
  <2>3. \A k, m, n \in Nat : (k + 1) + m + n = k + (m + 1) + n
    OBVIOUS
  <2> DEFINE left == Len(Tail(p.todo))
             some == Len(p.results)
             errs == Len(p.errors)
  <2>4. (left + 1) + some + errs = p.asked
    BY <2>1
  <2>5. Len(q.todo) + Len(q.results) + Len(q.errors) = left + (some + 1) + errs
    BY <1>2, <1>4
  <2> HIDE DEF left, some, errs
  <2>6. Len(q.todo) + Len(q.results) + Len(q.errors) = q.asked
    BY <1>4, <2>2, <2>3, <2>4, <2>5 DEF left, some, errs
  <2> QED
    BY <2>6 DEF Counted
<1>6. ASSUME NEW j \in Intents
      PROVE  Matches(Cardinality(Marked(refunds'[j], r)),
                     Cardinality(ResultsFor(q.results, j)),
                     Cardinality(ErrorsFor(q.errors, j)))
  <2> DEFINE made == Cardinality(Marked(refunds[j], r))
             told == Cardinality(ResultsFor(p.results, j))
             unsure == Cardinality(ErrorsFor(p.errors, j))
  <2>1. made \in told .. told + unsure /\ unsure \in Nat /\ told \in Nat /\ made \in Nat
    BY <1>3, NumbersTold DEF Told, Matches, OneMarkMore
  <2>2. Cardinality(Marked(refunds'[j], r)) = made + (IF j = i THEN 1 ELSE 0)
    BY DEF OneMarkMore
  <2>3. /\ Cardinality(ResultsFor(q.results, j))
             = told + (IF i = j THEN 1 ELSE 0)
        /\ Cardinality(ErrorsFor(q.errors, j)) = unsure
    BY <1>1, <1>3, <1>4
  <2> HIDE DEF made, told, unsure
  <2> QED
    BY <2>1, <2>2, <2>3 DEF Matches
<1>7. Told(q, r, refunds')
  BY <1>5, <1>6 DEF Told
<1> QED
  BY <1>4, <1>7 DEF q, z, y

\* An error is told whether the refund was made or not.
LEMMA ErrorIsTold ==
  ASSUME NEW r \in PayReqs, NEW p \in PayRequest, NEW i \in Intents,
         Told(p, r, refunds), UNCHANGED refunds \/ OneMarkMore(i, r),
         \A j \in Intents : Cardinality(Marked(refunds[j], r)) \in Nat,
         Tail(p.todo) \in Seq(Intents), Len(p.todo) = Len(Tail(p.todo)) + 1
  PROVE  LET q == [p EXCEPT !.todo = Tail(p.todo), !.errors = Append(p.errors, i)] IN
         q \in PayRequest /\ Told(q, r, refunds')
<1> DEFINE z == Append(p.errors, i)
           q == [p EXCEPT !.todo = Tail(p.todo), !.errors = z]
<1>1. /\ p.results \in Seq([intent : Intents, amount : Nat])
      /\ p.errors \in Seq(Intents) /\ p.asked \in Nat
  BY DEF PayRequest
<1>2. z \in Seq(Intents) /\ Len(z) = Len(p.errors) + 1
  BY <1>1, AppendProperties
<1>3. \A j : /\ Cardinality(ErrorsFor(p.errors, j)) \in Nat
             /\ Cardinality(ErrorsFor(z, j))
                  = Cardinality(ErrorsFor(p.errors, j))
                      + (IF i = j THEN 1 ELSE 0)
  BY <1>1, ErrorsGrow
<1> HIDE DEF z
<1>4. /\ q \in PayRequest /\ q.results = p.results /\ q.errors = z /\ q.asked = p.asked
      /\ q.todo = Tail(p.todo)
  BY <1>2 DEF PayRequest
<1> HIDE DEF q
<1>5. Counted(q)
  <2>1. Len(p.todo) + Len(p.results) + Len(p.errors) = p.asked
    <3>1. Counted(p)
      BY DEF Told
    <3> QED
      BY <3>1 DEF Counted
  <2>2. Len(Tail(p.todo)) \in Nat /\ Len(p.results) \in Nat /\ Len(p.errors) \in Nat
    <3>1. \A S : \A t \in Seq(S) : Len(t) \in Nat
      OBVIOUS
    <3> QED
      BY <1>1, <3>1
  <2>3. \A a, b, c \in Nat : (a + 1) + b + c = a + b + (c + 1)
    OBVIOUS
  <2> DEFINE a == Len(Tail(p.todo))
             b == Len(p.results)
             c == Len(p.errors)
  <2>4. (a + 1) + b + c = p.asked
    BY <2>1
  <2>5. Len(q.todo) + Len(q.results) + Len(q.errors) = a + b + (c + 1)
    BY <1>2, <1>4
  <2> HIDE DEF a, b, c
  <2>6. Len(q.todo) + Len(q.results) + Len(q.errors) = q.asked
    BY <1>4, <2>2, <2>3, <2>4, <2>5 DEF a, b, c
  <2> QED
    BY <2>6 DEF Counted
<1>6. ASSUME NEW j \in Intents
      PROVE  Matches(Cardinality(Marked(refunds'[j], r)),
                     Cardinality(ResultsFor(q.results, j)),
                     Cardinality(ErrorsFor(q.errors, j)))
  <2> DEFINE made == Cardinality(Marked(refunds[j], r))
             more == Cardinality(Marked(refunds'[j], r))
             told == Cardinality(ResultsFor(p.results, j))
             unsure == Cardinality(ErrorsFor(p.errors, j))
  <2>1. made \in told .. told + unsure /\ unsure \in Nat /\ told \in Nat /\ made \in Nat
    BY NumbersTold DEF Told, Matches
  <2>2. more = made \/ (j = i /\ more = made + 1)
    <3>1. CASE UNCHANGED refunds
      BY <3>1
    <3>2. CASE OneMarkMore(i, r)
      <4>1. more = made + (IF j = i THEN 1 ELSE 0)
        BY <3>2 DEF OneMarkMore
      <4> HIDE DEF made, more
      <4> QED
        BY <2>1, <4>1
    <3> QED
      BY <3>1, <3>2
  <2>3. /\ Cardinality(ResultsFor(q.results, j)) = told
        /\ Cardinality(ErrorsFor(q.errors, j))
             = unsure + (IF i = j THEN 1 ELSE 0)
    BY <1>1, <1>3, <1>4
  <2> HIDE DEF made, more, told, unsure
  <2>4. /\ more \in told .. told + (unsure + (IF i = j THEN 1 ELSE 0))
    BY <2>1, <2>2
  <2> QED
    BY <2>3, <2>4 DEF more, Matches
<1>7. Told(q, r, refunds')
  BY <1>5, <1>6 DEF Told
<1> QED
  BY <1>4, <1>7 DEF q, z

LEMMA MarksAreNumbers ==
  ASSUME PayInv, NEW r
  PROVE  \A j \in Intents : Cardinality(Marked(refunds[j], r)) \in Nat
<1> SUFFICES ASSUME NEW j \in Intents PROVE Cardinality(Marked(refunds[j], r)) \in Nat
  OBVIOUS
<1>1. Len(refunds[j]) \in Nat /\ DOMAIN refunds[j] = 1 .. Len(refunds[j])
  BY DEF PayInv, RefundsAreSound
<1>2. Marked(refunds[j], r) \subseteq 1 .. Len(refunds[j])
  BY <1>1 DEF Marked
<1> QED
  BY <1>1, <1>2, NumbersAreFinite

\* A step that leaves the refunds as they are.
LEMMA RefundsRest ==
  ASSUME PayInv, UNCHANGED <<intent, captureAsked, refunds>>
  PROVE  IntentsAreSound' /\ RefundsAreSound' /\ BalancesHold'
  BY DEF PayInv, IntentsAreSound, RefundsAreSound, BalancesHold, Refunded

LEMMA BulkStepInv ==
  ASSUME PayInv, NEW r \in PayReqs, BulkStep(r)
  PROVE  PayInv'
<1> DEFINE p == payReq[r]
           i == Head(p.todo)
           x == NewRefund(i, NoAmount, NoAmount, r)
<1>1. /\ UNCHANGED <<intent, captureAsked, payPc>> /\ payPc[r] = "bulk" /\ p.todo # <<>>
  BY DEF BulkStep
<1>2. /\ i \in Intents /\ p \in PayRequest /\ Told(p, r, refunds)
      /\ Tail(p.todo) \in Seq(Intents) /\ Len(p.todo) = Len(Tail(p.todo)) + 1
  BY <1>1, BulkTells
<1>3. ASSUME AdapterRefund(i, NoAmount, NoAmount, r)
      PROVE  /\ IntentsAreSound' /\ RefundsAreSound' /\ BalancesHold' /\ OneMarkMore(i, r)
             /\ x.amount \in Nat
  <2>1. StripeRefund(i, NoAmount, NoAmount, r)
    BY <1>3, MoneyAssumption DEF AdapterRefund, RefundParams, MoneyAssumption
  <2> HIDE DEF i
  <2>2. /\ GoodRefund(x) /\ x.by = r /\ ~x.failed /\ x.amount <= Remaining(i)
        /\ refunds' = [refunds EXCEPT ![i] = Append(refunds[i], x)]
    BY <1>2, <2>1, StripeGrantsAll
  <2> HIDE DEF x
  <2>3. x.amount \in Nat
    BY <2>2 DEF GoodRefund, RefundRecord
  <2> QED
    BY <1>1, <1>2, <2>2, <2>3, RefundGrows
<1>4. ASSUME OneMarkMore(i, r) \/ UNCHANGED refunds
      PROVE  /\ \A j \in Intents, o \in PayReqs : o # r =>
                  Cardinality(Marked(refunds'[j], o)) = Cardinality(Marked(refunds[j], o))
             /\ \A j \in Intents : \A k \in DOMAIN refunds'[j] :
                  \/ refunds'[j][k].by = r
                  \/ k \in DOMAIN refunds[j] /\ refunds'[j][k].by = refunds[j][k].by
  BY <1>4 DEF OneMarkMore
<1>5. CASE BulkSucceeds(r)
  <2> DEFINE q == [p EXCEPT !.todo = Tail(p.todo),
                            !.results = Append(p.results, [intent |-> i, amount |-> x.amount])]
  <2>1. AdapterRefund(i, NoAmount, NoAmount, r) /\ payReq' = [payReq EXCEPT ![r] = q]
    BY <1>5 DEF BulkSucceeds, PayInv, RequestsAreSound
  <2>2. /\ IntentsAreSound' /\ RefundsAreSound' /\ BalancesHold' /\ OneMarkMore(i, r)
        /\ x.amount \in Nat
    BY <1>3, <2>1
  <2> HIDE DEF x, i, p
  <2>3. q \in PayRequest /\ Told(q, r, refunds')
    BY <1>2, <2>2, ResultIsTold
  <2> HIDE DEF q
  <2> QED
    BY <1>1, <1>4, <2>1, <2>2, <2>3, BulkMoves
<1>6. CASE BulkErrs(r)
  <2> DEFINE q == [p EXCEPT !.todo = Tail(p.todo), !.errors = Append(p.errors, i)]
  <2>1. /\ UNCHANGED refunds \/ AdapterRefund(i, NoAmount, NoAmount, r)
        /\ payReq' = [payReq EXCEPT ![r] = q]
    BY <1>6 DEF BulkErrs, PayInv, RequestsAreSound
  <2>2. /\ IntentsAreSound' /\ RefundsAreSound' /\ BalancesHold'
        /\ UNCHANGED refunds \/ OneMarkMore(i, r)
    BY <1>1, <1>3, <2>1, RefundsRest
  <2>3. \A j \in Intents : Cardinality(Marked(refunds[j], r)) \in Nat
    BY MarksAreNumbers
  <2> HIDE DEF x, i, p
  <2>4. q \in PayRequest /\ Told(q, r, refunds')
    BY <1>2, <2>2, <2>3, ErrorIsTold
  <2> HIDE DEF q
  <2> QED
    BY <1>1, <1>4, <2>1, <2>2, <2>4, BulkMoves
<1> QED
  BY <1>5, <1>6 DEF BulkStep

\* Refunds change in other fields than their amounts, or fail.
LEMMA RefundsChange ==
  ASSUME PayInv, UNCHANGED <<intent, captureAsked>>, refunds' = [i \in Intents |-> refunds'[i]],
         \A i \in Intents :
           /\ DOMAIN refunds'[i] = DOMAIN refunds[i]
           /\ refunds'[i] = [k \in DOMAIN refunds[i] |-> refunds'[i][k]]
           /\ \A k \in DOMAIN refunds[i] :
                /\ GoodRefund(refunds'[i][k]) /\ refunds'[i][k].amount = refunds[i][k].amount
                /\ refunds[i][k].failed => refunds'[i][k].failed
  PROVE  IntentsAreSound' /\ RefundsAreSound' /\ BalancesHold'
<1>1. IntentsAreSound'
  BY DEF PayInv, IntentsAreSound
<1>2. ASSUME NEW i \in Intents
      PROVE  refunds'[i] \in Seq(RefundRecord) /\ Len(refunds'[i]) = Len(refunds[i])
  <2>1. Len(refunds[i]) \in Nat /\ DOMAIN refunds[i] = 1 .. Len(refunds[i])
    BY DEF PayInv, RefundsAreSound
  <2>2. refunds'[i] \in [1 .. Len(refunds[i]) -> RefundRecord]
    BY <2>1 DEF GoodRefund
  <2> QED
    BY <2>1, <2>2, FunctionIsList
<1>3. RefundsAreSound'
  BY <1>2 DEF RefundsAreSound
<1>4. BalancesHold'
  <2> SUFFICES ASSUME NEW i \in Intents PROVE Refunded(i)' <= intent'[i].received
    BY DEF BalancesHold
  <2> DEFINE s == refunds[i]
             t == refunds'[i]
  <2>1. s \in Seq(RefundRecord) /\ t \in Seq(RefundRecord) /\ Len(t) = Len(s)
    BY <1>2 DEF PayInv, RefundsAreSound
  <2>2. /\ Kept(s) \in Seq(Int) /\ Kept(t) \in Seq(Int) /\ Len(Kept(t)) = Len(Kept(s))
    BY <2>1, SumsAreOfLists
  <2>3. \A k \in 1 .. Len(Kept(t)) : Kept(t)[k] <= Kept(s)[k]
    <3> SUFFICES ASSUME NEW k \in 1 .. Len(s) PROVE Kept(t)[k] <= Kept(s)[k]
      BY <2>1, SumsAreOfLists
    <3>1. /\ Kept(s)[k] = (IF s[k].failed THEN 0 ELSE s[k].amount)
          /\ Kept(t)[k] = (IF t[k].failed THEN 0 ELSE t[k].amount)
          /\ s[k] \in RefundRecord /\ t[k] \in RefundRecord /\ k \in DOMAIN s
      BY <2>1, SumsAreOfLists
    <3>2. /\ s[k].amount \in Nat /\ t[k].amount = s[k].amount
          /\ s[k].failed => t[k].failed
      BY <3>1 DEF RefundRecord
    <3> HIDE DEF s, t
    <3> QED
      BY <3>1, <3>2
  <2>4. SumOf(Kept(t)) <= SumOf(Kept(s)) /\ SumOf(Kept(t)) \in Int /\ SumOf(Kept(s)) \in Int
    BY <2>2, <2>3, SumsCompare, SumIsInt
  <2>5. SumOf(Kept(s)) <= intent[i].received /\ intent[i].received \in Int
    <3>1. GoodIntent(i, intent[i], captureAsked)
      BY DEF PayInv, IntentsAreSound
    <3> QED
      BY <3>1 DEF PayInv, BalancesHold, Refunded, GoodIntent, IntentRecord
  <2>6. Refunded(i)' = SumOf(Kept(t)) /\ intent'[i].received = intent[i].received
    BY DEF Refunded
  <2> HIDE DEF s, t
  <2> QED
    BY <2>4, <2>5, <2>6
<1> QED
  BY <1>1, <1>3, <1>4

\* The requests stay, and so do the marks of those that run.
LEMMA MarksRest ==
  ASSUME PayInv, UNCHANGED <<intent, payPc, payReq>>,
         IntentsAreSound', RefundsAreSound', BalancesHold',
         \A j \in Intents : /\ DOMAIN refunds'[j] = DOMAIN refunds[j]
                            /\ \A k \in DOMAIN refunds[j] : refunds'[j][k].by = refunds[j][k].by
  PROVE  PayInv'
<1>1. RequestsAreSound' /\ ReportsAreSound'
  BY DEF PayInv, RequestsAreSound, ReportsAreSound
<1>2. MarksAreSound'
  BY DEF PayInv, MarksAreSound
<1>3. \A j \in Intents, o \in PayReqs : Marked(refunds'[j], o) = Marked(refunds[j], o)
  BY DEF Marked
<1>4. \A o \in PayReqs : payPc'[o] = "bulk" => Told(payReq'[o], o, refunds')
  BY <1>3, BulkIsTold, ToldByOwnMarks DEF PayInv
<1>5. BulkAccountsForAll'
  BY <1>4, BulkIsTold
<1> QED
  BY <1>1, <1>2, <1>5 DEF PayInv

LEMMA RefundFailsInv ==
  ASSUME PayInv, NEW i \in Intents, RefundFails(i)
  PROVE  PayInv'
<1> DEFINE s == refunds[i]
<1>1. UNCHANGED <<intent, captureAsked, payPc, payReq>>
  BY DEF RefundFails
<1>2. PICK n \in DOMAIN s : refunds' = [refunds EXCEPT ![i][n].failed = TRUE]
  BY DEF RefundFails
<1> DEFINE y == [s[n] EXCEPT !.failed = TRUE]
           t == [s EXCEPT ![n] = y]
<1>3. refunds' = [refunds EXCEPT ![i] = t]
  BY <1>2
<1>4. \A j \in Intents : refunds[j] = [k \in DOMAIN refunds[j] |-> refunds[j][k]]
  BY DEF PayInv, RefundsAreSound
<1>5. \A k \in DOMAIN s : GoodRefund(s[k])
  BY DEF PayInv, RefundsAreSound
<1>6. GoodRefund(y) /\ y.amount = s[n].amount /\ y.by = s[n].by /\ y.failed
  <2>1. s[n] \in RefundRecord
    BY <1>5 DEF GoodRefund
  <2>2. y \in RefundRecord /\ y.amount = s[n].amount /\ y.by = s[n].by /\ y.asked = s[n].asked
    BY <2>1 DEF RefundRecord
  <2>3. y.failed
    BY <2>1 DEF RefundRecord
  <2> HIDE DEF y
  <2> QED
    BY <1>5, <2>2, <2>3 DEF GoodRefund
<1> HIDE DEF y
<1>7. /\ DOMAIN t = DOMAIN s /\ t = [k \in DOMAIN s |-> t[k]]
      /\ \A k \in DOMAIN s : t[k] = IF k = n THEN y ELSE s[k]
  BY <1>4
<1> HIDE DEF t, s
<1>8. /\ refunds' = [j \in Intents |-> refunds'[j]]
      /\ \A j \in Intents : refunds'[j] = IF j = i THEN t ELSE refunds[j]
  BY <1>3 DEF PayInv, RefundsAreSound
<1>9. \A j \in Intents :
        /\ DOMAIN refunds'[j] = DOMAIN refunds[j]
        /\ refunds'[j] = [k \in DOMAIN refunds[j] |-> refunds'[j][k]]
        /\ \A k \in DOMAIN refunds[j] :
             /\ GoodRefund(refunds'[j][k]) /\ refunds'[j][k].amount = refunds[j][k].amount
             /\ refunds[j][k].failed => refunds'[j][k].failed
             /\ refunds'[j][k].by = refunds[j][k].by
  <2> SUFFICES ASSUME NEW j \in Intents
               PROVE  /\ DOMAIN refunds'[j] = DOMAIN refunds[j]
                      /\ refunds'[j] = [k \in DOMAIN refunds[j] |-> refunds'[j][k]]
                      /\ \A k \in DOMAIN refunds[j] :
                           /\ GoodRefund(refunds'[j][k])
                           /\ refunds'[j][k].amount = refunds[j][k].amount
                           /\ refunds[j][k].failed => refunds'[j][k].failed
                           /\ refunds'[j][k].by = refunds[j][k].by
    OBVIOUS
  <2>1. CASE j = i
    <3>1. refunds'[j] = t /\ refunds[j] = s
      BY <1>8, <2>1 DEF s
    <3> QED
      BY <1>5, <1>6, <1>7, <3>1
  <2>2. CASE j # i
    <3>1. refunds'[j] = refunds[j] /\ \A k \in DOMAIN refunds[j] : GoodRefund(refunds[j][k])
      BY <1>8, <2>2 DEF PayInv, RefundsAreSound
    <3> QED
      BY <1>4, <3>1
  <2> QED
    BY <2>1, <2>2
<1>10. IntentsAreSound' /\ RefundsAreSound' /\ BalancesHold'
  BY <1>1, <1>8, <1>9, RefundsChange
<1> QED
  BY <1>1, <1>9, <1>10, MarksRest

LEMMA BulkAnswerInv ==
  ASSUME PayInv, NEW r \in PayReqs, BulkAnswer(r)
  PROVE  PayInv'
<1> DEFINE y(x) == IF x.by = r THEN [x EXCEPT !.by = NoReq] ELSE x
           t(i) == [k \in DOMAIN refunds[i] |-> y(refunds[i][k])]
<1>1. /\ refunds' = [i \in Intents |-> t(i)] /\ UNCHANGED <<intent, captureAsked>>
      /\ payPc[r] = "bulk"
      /\ payPc' = [payPc EXCEPT ![r] = "idle"] /\ payReq' = [payReq EXCEPT ![r] = IdleReq]
  BY DEF BulkAnswer
<1>2. ASSUME NEW x, GoodRefund(x)
      PROVE  /\ GoodRefund(y(x)) /\ y(x).amount = x.amount /\ (x.failed => y(x).failed)
             /\ y(x).by = IF x.by = r THEN NoReq ELSE x.by
  BY <1>2 DEF GoodRefund, RefundRecord
<1> HIDE DEF y
<1>3. \A i \in Intents : \A k \in DOMAIN refunds[i] : GoodRefund(refunds[i][k])
  BY DEF PayInv, RefundsAreSound
<1>4. /\ refunds' = [j \in Intents |-> refunds'[j]]
      /\ \A j \in Intents :
           /\ DOMAIN refunds'[j] = DOMAIN refunds[j]
           /\ refunds'[j] = [k \in DOMAIN refunds[j] |-> refunds'[j][k]]
           /\ \A k \in DOMAIN refunds[j] : refunds'[j][k] = y(refunds[j][k])
  BY <1>1
<1>5. \A j \in Intents : \A k \in DOMAIN refunds[j] :
        /\ GoodRefund(refunds'[j][k]) /\ refunds'[j][k].amount = refunds[j][k].amount
        /\ refunds[j][k].failed => refunds'[j][k].failed
        /\ refunds'[j][k].by = IF refunds[j][k].by = r THEN NoReq ELSE refunds[j][k].by
  BY <1>2, <1>3, <1>4
<1> HIDE DEF t
<1>6. IntentsAreSound' /\ RefundsAreSound' /\ BalancesHold'
  BY <1>1, <1>4, <1>5, RefundsChange
<1>7. /\ RequestsAreSound' /\ payPc'[r] = "idle" /\ payReq'[r] = IdleReq
      /\ \A o \in PayReqs : o # r => payPc'[o] = payPc[o] /\ payReq'[o] = payReq[o]
  BY <1>1, IdleReqIsOne, RequestMoves
<1>8. ReportsAreSound'
  BY <1>1, <1>7 DEF PayInv, ReportsAreSound
<1>9. NoReq \notin PayReqs
  BY PaymentAssumption DEF PaymentAssumption
<1>10. MarksAreSound'
  <2> SUFFICES ASSUME NEW o \in PayReqs, payPc'[o] # "bulk", NEW j \in Intents,
                      NEW k \in DOMAIN refunds[j]
               PROVE  refunds'[j][k].by # o
    BY <1>4 DEF MarksAreSound
  <2>1. CASE o = r
    BY <1>5, <1>9, <2>1
  <2>2. CASE o # r
    <3>1. refunds[j][k].by # o
      BY <1>7, <2>2 DEF PayInv, MarksAreSound
    <3> QED
      BY <1>5, <1>9, <3>1
  <2> QED
    BY <2>1, <2>2
<1>11. BulkAccountsForAll'
  <2> SUFFICES ASSUME NEW o \in PayReqs, payPc'[o] = "bulk"
               PROVE  Told(payReq'[o], o, refunds')
    BY BulkIsTold
  <2>1. o # r /\ Told(payReq[o], o, refunds) /\ payReq'[o] = payReq[o]
    BY <1>7, BulkIsTold DEF PayInv
  <2>2. \A j \in Intents : Marked(refunds'[j], o) = Marked(refunds[j], o)
    BY <1>4, <1>5, <1>9, <2>1 DEF Marked
  <2> QED
    BY <2>1, <2>2, ToldByOwnMarks
<1> QED
  BY <1>6, <1>7, <1>8, <1>10, <1>11 DEF PayInv
-----------------------------------------------------------------------------
(* The other steps of requests *)

LEMMA BulkRefundInv ==
  ASSUME PayInv, NEW r \in PayReqs, BulkRefund(r)
  PROVE  PayInv'
<1>1. payPc[r] = "idle" /\ payReq[r] = IdleReq
  BY DEF BulkRefund, PayInv, RequestsAreSound
<1>2. PICK ids \in BulkLists :
        payReq' = [payReq EXCEPT ![r].todo = ids, ![r].asked = Len(ids)]
  BY DEF BulkRefund
<1> DEFINE q == [IdleReq EXCEPT !.todo = ids, !.asked = Len(ids)]
<1>3. /\ payReq' = [payReq EXCEPT ![r] = q] /\ payPc' = [payPc EXCEPT ![r] = "bulk"]
      /\ UNCHANGED <<intent, refunds, captureAsked>>
  BY <1>1, <1>2 DEF BulkRefund, PayInv, RequestsAreSound
<1>4. ids \in Seq(Intents) /\ Len(ids) \in Nat
  <2>1. ids \in [1 .. 2 -> Intents]
    BY DEF BulkLists
  <2>2. 2 \in Nat
    OBVIOUS
  <2>3. ids \in Seq(Intents)
    BY <2>1, <2>2, FunctionIsList, Zenon
  <2> QED
    BY <2>3, LenProperties
<1>5. q \in PayRequest
  BY <1>4, IdleReqIsOne DEF PayRequest
<1>6. q.todo = ids /\ q.asked = Len(ids) /\ q.results = <<>> /\ q.errors = <<>>
  BY IdleReqIsOne DEF PayRequest
<1> HIDE DEF q
<1>7. /\ RequestsAreSound' /\ payPc'[r] = "bulk" /\ payReq'[r] = q
      /\ \A o \in PayReqs : o # r => payPc'[o] = payPc[o] /\ payReq'[o] = payReq[o]
  BY <1>3, <1>5, RequestMoves
<1>8. Told(q, r, refunds')
  <2>1. Counted(q)
    BY <1>4, <1>6 DEF Counted
  <2>2. ASSUME NEW j \in Intents
        PROVE  Matches(Cardinality(Marked(refunds'[j], r)), Cardinality(ResultsFor(q.results, j)),
                       Cardinality(ErrorsFor(q.errors, j)))
    <3>1. Marked(refunds'[j], r) = {} /\ ResultsFor(q.results, j) = {} /\ ErrorsFor(q.errors, j) = {}
      BY <1>1, <1>3, <1>6 DEF PayInv, MarksAreSound, Marked, ResultsFor, ErrorsFor
    <3> QED
      BY <3>1, FS_EmptySet DEF Matches
  <2> QED
    BY <2>1, <2>2 DEF Told
<1>9. IntentsAreSound' /\ RefundsAreSound' /\ BalancesHold'
  BY <1>3, RefundsRest
<1>10. ReportsAreSound' /\ MarksAreSound'
  BY <1>3, <1>7 DEF PayInv, ReportsAreSound, MarksAreSound
<1>11. BulkAccountsForAll'
  <2>1. \A o \in PayReqs : payPc'[o] = "bulk" => Told(payReq'[o], o, refunds')
    BY <1>3, <1>7, <1>8, BulkIsTold DEF PayInv
  <2> QED
    BY <2>1, BulkIsTold
<1> QED
  BY <1>7, <1>9, <1>10, <1>11 DEF PayInv

LEMMA GetStatusInv ==
  ASSUME PayInv, NEW r \in PayReqs, NEW i \in Intents, GetPaymentIntentStatus(r, i)
  PROVE  PayInv'
<1>1. payPc[r] = "idle" /\ payReq[r] = IdleReq
  BY DEF GetPaymentIntentStatus, PayInv, RequestsAreSound
<1> DEFINE q == [IdleReq EXCEPT !.intent = i, !.captured = intent[i].received]
<1>2. /\ payReq' = [payReq EXCEPT ![r] = q] /\ payPc' = [payPc EXCEPT ![r] = "status"]
      /\ UNCHANGED <<intent, refunds, captureAsked>>
  BY <1>1 DEF GetPaymentIntentStatus, PayInv, RequestsAreSound
<1>3. intent[i].received \in Nat
  <2>1. GoodIntent(i, intent[i], captureAsked)
    BY DEF PayInv, IntentsAreSound
  <2> QED
    BY <2>1 DEF GoodIntent, IntentRecord
<1>4. q \in PayRequest /\ q.intent = i /\ q.captured = intent[i].received
  BY <1>3, IdleReqIsOne DEF PayRequest
<1> HIDE DEF q
<1>5. /\ RequestsAreSound' /\ payPc'[r] = "status" /\ payReq'[r] = q
      /\ \A o \in PayReqs : o # r => payPc'[o] = payPc[o] /\ payReq'[o] = payReq[o]
  BY <1>2, <1>4, RequestMoves
<1>6. IntentsAreSound' /\ RefundsAreSound' /\ BalancesHold'
  BY <1>2, RefundsRest
<1>7. ReportsAreSound'
  BY <1>2, <1>4, <1>5 DEF PayInv, ReportsAreSound
<1>8. MarksAreSound'
  BY <1>1, <1>2, <1>5 DEF PayInv, MarksAreSound
<1>9. BulkAccountsForAll'
  <2>1. \A o \in PayReqs : payPc'[o] = "bulk" => Told(payReq'[o], o, refunds')
    BY <1>2, <1>5, BulkIsTold DEF PayInv
  <2> QED
    BY <2>1, BulkIsTold
<1> QED
  BY <1>5, <1>6, <1>7, <1>8, <1>9 DEF PayInv

LEMMA StatusAnswerInv ==
  ASSUME PayInv, NEW r \in PayReqs, StatusAnswer(r)
  PROVE  PayInv'
<1>1. /\ payPc[r] = "status" /\ UNCHANGED <<intent, refunds, captureAsked>>
      /\ payPc' = [payPc EXCEPT ![r] = "idle"] /\ payReq' = [payReq EXCEPT ![r] = IdleReq]
  BY DEF StatusAnswer
<1>2. /\ RequestsAreSound' /\ payPc'[r] = "idle" /\ payReq'[r] = IdleReq
      /\ \A o \in PayReqs : o # r => payPc'[o] = payPc[o] /\ payReq'[o] = payReq[o]
  BY <1>1, IdleReqIsOne, RequestMoves
<1>3. IntentsAreSound' /\ RefundsAreSound' /\ BalancesHold'
  BY <1>1, RefundsRest
<1>4. ReportsAreSound' /\ MarksAreSound'
  BY <1>1, <1>2 DEF PayInv, ReportsAreSound, MarksAreSound
<1>5. BulkAccountsForAll'
  <2>1. \A o \in PayReqs : payPc'[o] = "bulk" => Told(payReq'[o], o, refunds')
    BY <1>1, <1>2, BulkIsTold DEF PayInv
  <2> QED
    BY <2>1, BulkIsTold
<1> QED
  BY <1>2, <1>3, <1>4, <1>5 DEF PayInv
-----------------------------------------------------------------------------
LEMMA PayInitInv == PaymentsInit => PayInv
<1> SUFFICES ASSUME PaymentsInit PROVE PayInv
  OBVIOUS
<1>1. IntentsAreSound
  BY DEF PaymentsInit, NoIntent, IntentsAreSound, GoodIntent, IntentRecord, Statuses
<1>2. RefundsAreSound /\ MarksAreSound
  <2>1. <<>> \in Seq(RefundRecord) /\ DOMAIN <<>> = {}
    OBVIOUS
  <2>2. \A i \in Intents : refunds[i] = <<>>
    BY DEF PaymentsInit
  <2> QED
    BY <2>1, <2>2 DEF PaymentsInit, RefundsAreSound, MarksAreSound
<1>3. BalancesHold
  <2>0. <<>> \in Seq(RefundRecord) /\ Len(<<>>) = 0
    OBVIOUS
  <2>1. PICK s \in Seq(RefundRecord) : s = <<>> /\ Len(s) = 0
    BY <2>0, Zenon
  <2>2. Kept(s) \in Seq(Int) /\ Len(Kept(s)) = 0
    BY <2>1, SumsAreOfLists
  <2>3. SumOf(Kept(s)) = 0
    BY <2>2, SumsOfList
  <2> QED
    BY <2>1, <2>3 DEF PaymentsInit, NoIntent, BalancesHold, Refunded
<1>4. RequestsAreSound /\ ReportsAreSound
  BY IdleReqIsOne DEF PaymentsInit, RequestsAreSound, ReportsAreSound
<1>5. BulkAccountsForAll
  BY DEF PaymentsInit, BulkAccountsForAll
<1> QED
  BY <1>1, <1>2, <1>3, <1>4, <1>5 DEF PayInv

LEMMA PayStep == PayInv /\ [PaymentsNext]_paymentVars => PayInv'
<1> SUFFICES ASSUME PayInv, [PaymentsNext]_paymentVars
             PROVE  PayInv'
  OBVIOUS
<1>1. CASE UNCHANGED paymentVars
  BY <1>1, NothingMoves DEF paymentVars
<1>2. ASSUME NEW i \in Intents,
             \/ CreatePaymentIntent(i) \/ ConfirmPaymentIntent(i) \/ CustomerAuthenticates(i)
             \/ CapturePayment(i) \/ CancelPayment(i) \/ RefundPayment(i) \/ RefundFails(i)
      PROVE  PayInv'
  BY <1>2, CreateInv, ConfirmInv, CaptureInv, MovesInv, RefundPaymentInv, RefundFailsInv
<1>3. ASSUME NEW r \in PayReqs,
             \/ BulkRefund(r) \/ BulkStep(r) \/ BulkAnswer(r) \/ StatusAnswer(r)
             \/ \E i \in Intents : GetPaymentIntentStatus(r, i)
      PROVE  PayInv'
  BY <1>3, BulkRefundInv, BulkStepInv, BulkAnswerInv, StatusAnswerInv, GetStatusInv
<1> QED
  BY <1>1, <1>2, <1>3 DEF PaymentsNext

\* The inductive invariant, for any number of intents and requests, any amounts and
\* any number of refunds.
THEOREM PaymentsInvariant == PaymentsSpec => []PayInv
  BY PayInitInv, PayStep, PTL DEF PaymentsSpec

LEMMA PayTypes == PayInv => PaymentsTypeOK
<1> SUFFICES ASSUME PayInv PROVE PaymentsTypeOK
  OBVIOUS
<1>1. \A i \in Intents : intent[i] \in [status : Statuses, asked : Int, amount : Nat,
                                        received : Nat, capture : {"manual", "automatic"}]
  <2> SUFFICES ASSUME NEW i \in Intents
               PROVE  intent[i] \in [status : Statuses, asked : Int, amount : Nat,
                                     received : Nat, capture : {"manual", "automatic"}]
    OBVIOUS
  <2>1. intent[i] \in IntentRecord
    BY DEF PayInv, IntentsAreSound, GoodIntent
  <2> QED
    BY <2>1 DEF IntentRecord
<1>2. \A i \in Intents : \A k \in DOMAIN refunds[i] : refunds[i][k].amount \in Nat \ {0}
  BY DEF PayInv, RefundsAreSound, GoodRefund, RefundRecord
<1> QED
  BY <1>1, <1>2 DEF PayInv, IntentsAreSound, RequestsAreSound, PaymentsTypeOK

\* Type correctness: no refund of nothing, and no request in an unknown state.
THEOREM PaymentsTypesHold == PaymentsSpec => []PaymentsTypeOK
  BY PayTypes, PaymentsInvariant, PTL

\* What run operations checks of the capture mode, for any number of payments: none
\* has received anything that nobody asked to capture.
THEOREM NothingIsChargedUncaptured == PaymentsSpec => []NoChargeWithoutCapture
<1>1. PayInv => NoChargeWithoutCapture
  BY DEF PayInv, IntentsAreSound, GoodIntent, NoChargeWithoutCapture
<1> QED
  BY <1>1, PaymentsInvariant, PTL

\* What run operations checks of the conversions, for amounts of any size: a payment
\* is for what was asked, and so is a refund of a cent at least.
THEOREM AmountsAreAlwaysExact == PaymentsSpec => []AmountsAreExact
<1>1. PayInv => AmountsAreExact
  BY DEF PayInv, IntentsAreSound, RefundsAreSound, GoodIntent, GoodRefund, AmountsAreExact
<1> QED
  BY <1>1, PaymentsInvariant, PTL

\* What run operations checks of bulk refunds, for any number of them at a time, of
\* intents in common and of refunds that fail: each accounts for all ids it was given
\* and for every refund it made.
THEOREM BulkAlwaysAccountsForAll == PaymentsSpec => []BulkAccountsForAll
  BY PaymentsInvariant, PTL DEF PayInv

\* Stripe's balance, over lists of any length: what an intent gave back and did not
\* get again is never more than what it received.
THEOREM RefundsAreCovered == PaymentsSpec => []BalancesHold
  BY PaymentsInvariant, PTL DEF PayInv

\* Failed refunds are listed and not kept.
LEMMA KeptIsLess ==
  ASSUME NEW rs \in Seq(RefundRecord)
  PROVE  /\ SumOf(Kept(rs)) <= SumOf(Amounts(rs))
         /\ (\A k \in 1 .. Len(rs) : ~rs[k].failed) => SumOf(Kept(rs)) = SumOf(Amounts(rs))
<1>1. /\ Kept(rs) \in Seq(Int) /\ Amounts(rs) \in Seq(Int)
      /\ Len(Kept(rs)) = Len(Amounts(rs)) /\ Len(Kept(rs)) = Len(rs)
      /\ \A k \in 1 .. Len(rs) :
           /\ Kept(rs)[k] = (IF rs[k].failed THEN 0 ELSE rs[k].amount)
           /\ Amounts(rs)[k] = rs[k].amount
  BY SumsAreOfLists
<1>2. \A k \in 1 .. Len(Kept(rs)) : Kept(rs)[k] <= Amounts(rs)[k]
  <2> SUFFICES ASSUME NEW k \in 1 .. Len(rs)
               PROVE  Kept(rs)[k] <= Amounts(rs)[k]
    BY <1>1
  <2>1. rs[k] \in RefundRecord
    OBVIOUS
  <2>2. rs[k].amount \in Nat
    BY <2>1 DEF RefundRecord
  <2>3. /\ Kept(rs)[k] = (IF rs[k].failed THEN 0 ELSE rs[k].amount)
        /\ Amounts(rs)[k] = rs[k].amount
    BY <1>1, Zenon
  <2>4. Kept(rs)[k] \in {0, rs[k].amount}
    BY <2>3, Zenon
  <2> QED
    BY <2>2, <2>3, <2>4
<1>3. SumOf(Kept(rs)) <= SumOf(Amounts(rs))
  BY <1>1, <1>2, SumsCompare
<1>4. ASSUME \A k \in 1 .. Len(rs) : ~rs[k].failed
      PROVE  SumOf(Kept(rs)) = SumOf(Amounts(rs))
  <2>1. \A k \in 1 .. Len(rs) : Kept(rs)[k] = Amounts(rs)[k]
    BY <1>1, <1>4
  <2>2. Kept(rs) = Amounts(rs)
    BY <1>1, <2>1, SeqEqual
  <2> QED
    BY <2>2
<1> QED
  BY <1>3, <1>4

\* A report that fits one page compares what was captured when it began with all
\* refunds there are when it ends.
LEMMA AnswersAreConservative ==
  ASSUME PayInv, NEW r \in PayReqs, StatusAnswer(r), Len(refunds[report'.intent]) <= PageLimit
  PROVE  LET i == report'.intent IN
         /\ report'.remaining <= Remaining(i)
         /\ report'.full => \/ Remaining(i) = 0
                            \/ \E k \in DOMAIN refunds[i] : refunds[i][k].failed
<1> DEFINE i == payReq[r].intent
           c == payReq[r].captured
           total == SumOf(Amounts(refunds[i]))
           kept == SumOf(Kept(refunds[i]))
           got == intent[i].received
<1>1. i \in Intents /\ c \in {0, got}
  BY DEF PayInv, ReportsAreSound, StatusAnswer
<1>2. report' = RefundSummary(i, c)
  BY DEF StatusAnswer
<1>3. report'.intent = i
  BY <1>2 DEF RefundSummary
<1>4. ListedRefunds(i) = refunds[i]
  BY <1>3 DEF ListedRefunds
<1>5. /\ report'.remaining = (IF c > total THEN c - total ELSE 0)
      /\ report'.full <=> c > 0 /\ total >= c
  BY <1>2, <1>4 DEF RefundSummary
<1>6. refunds[i] \in Seq(RefundRecord)
  BY <1>1 DEF PayInv, RefundsAreSound
<1>7. /\ kept \in Int /\ total \in Int /\ kept <= total
      /\ (\A k \in DOMAIN refunds[i] : ~refunds[i][k].failed) => kept = total
  <2>1. DOMAIN refunds[i] = 1 .. Len(refunds[i])
    BY <1>6
  <2>2. Kept(refunds[i]) \in Seq(Int) /\ Amounts(refunds[i]) \in Seq(Int)
    BY <1>6, SumsAreOfLists
  <2> QED
    BY <1>6, <2>1, <2>2, KeptIsLess, SumIsInt
<1>8. got \in Nat /\ kept <= got /\ Remaining(i) = got - kept
  <2>1. GoodIntent(i, intent[i], captureAsked)
    BY <1>1 DEF PayInv, IntentsAreSound
  <2> QED
    BY <1>1, <2>1 DEF GoodIntent, IntentRecord, PayInv, BalancesHold, Remaining, Refunded
<1> HIDE DEF i, c, total, kept, got
<1>9. report'.remaining <= Remaining(i)
  BY <1>1, <1>5, <1>7, <1>8
<1>10. report'.full => Remaining(i) = 0 \/ \E k \in DOMAIN refunds[i] : refunds[i][k].failed
  BY <1>1, <1>5, <1>7, <1>8
<1> QED
  BY <1>3, <1>9, <1>10

\* What run operations checks of the status report, for refunds of any number and
\* size: it never promises more than Stripe would give back, and full means full.
THEOREM ReportsAreConservative == PaymentsSpec => StatusIsConservative
<1> DEFINE Conservative == LET i == report'.intent IN
             Len(refunds[i]) <= PageLimit =>
               /\ report'.remaining <= Remaining(i)
               /\ report'.full => \/ Remaining(i) = 0
                                  \/ \E k \in DOMAIN refunds[i] : refunds[i][k].failed
<1>1. PayInv /\ [PaymentsNext]_paymentVars => [report' # report => Conservative]_paymentVars
  <2> SUFFICES ASSUME PayInv, PaymentsNext, report' # report
               PROVE  Conservative
    BY DEF paymentVars
  <2>1. PICK r \in PayReqs : StatusAnswer(r)
    BY DEF PaymentsNext, CreatePaymentIntent, ConfirmPaymentIntent, CustomerAuthenticates,
           CapturePayment, CancelPayment, RefundPayment, RefundFails, BulkRefund, BulkStep,
           BulkAnswer, GetPaymentIntentStatus
  <2> QED
    BY <2>1, AnswersAreConservative
<1> QED
  BY <1>1, PaymentsInvariant, PTL DEF PaymentsSpec, StatusIsConservative
-----------------------------------------------------------------------------
(***************************************************************************)
(* PaymentMethods.  A save that has attached its method finds it attached,  *)
(* or knows of trouble; customers are created in the order of their         *)
(* identifiers, and a client never knows one that does not exist.           *)
(***************************************************************************)
SaveRecord == [method : Methods \cup {NoMethod}, customer : Customers \cup {NoCustomer},
               asDefault : BOOLEAN, optedOut : BOOLEAN, troubled : BOOLEAN]

MetTypes ==
  /\ MethodsTypeOK
  /\ save \in [SaveReqs -> SaveRecord]
  /\ found \in [Emails -> Customers \cup {NoCustomer}]
  /\ \A r \in SaveReqs : savePc[r] \in {"first", "second"}
                           => save[r].method \in Methods /\ save[r].customer \in Customers

SavesAreOnTheirWay ==
  \A r \in SaveReqs :
    /\ savePc[r] \in {"first", "second"} => (save[r].asDefault <=> ~save[r].optedOut)
    /\ savePc[r] = "second"
         => save[r].asDefault /\ (save[r].troubled \/ owner[save[r].method] = save[r].customer)

\* Which customers there are: those up to some number.
CustomersAreInOrder ==
  /\ \A c, d \in Customers : d < c /\ email[c] # NoEmail => email[d] # NoEmail
  /\ \E n \in Nat : \A c \in Customers : email[c] # NoEmail => c <= n
  /\ \A e \in Emails : found[e] # NoCustomer => email[found[e]] = e

MetInv == MetTypes /\ SavesAreOnTheirWay /\ CustomersAreInOrder

LEMMA MetStarts == MethodsInit => MetInv
<1> SUFFICES ASSUME MethodsInit
             PROVE  MetInv
  OBVIOUS
<1>1. IdleSave \in SaveRecord
  BY DEF IdleSave, SaveRecord
<1>2. MetTypes
  BY <1>1 DEF MethodsInit, MetTypes, MethodsTypeOK
<1>3. SavesAreOnTheirWay
  BY DEF MethodsInit, SavesAreOnTheirWay
<1>4. CustomersAreInOrder
  BY DEF MethodsInit, CustomersAreInOrder
<1> QED
  BY <1>2, <1>3, <1>4 DEF MetInv

LEMMA SaveOps ==
  ASSUME NEW q \in SaveRecord
  PROVE  /\ [q EXCEPT !.troubled = TRUE] \in SaveRecord
         /\ [q EXCEPT !.troubled = TRUE].method = q.method
         /\ [q EXCEPT !.troubled = TRUE].customer = q.customer
         /\ [q EXCEPT !.troubled = TRUE].asDefault = q.asDefault
         /\ [q EXCEPT !.troubled = TRUE].optedOut = q.optedOut
         /\ [q EXCEPT !.troubled = TRUE].troubled
  BY DEF SaveRecord

\* What the calls do to the record of a request and to those of the others.
SaveKeeps(q, p) ==
  /\ p.method = q.method /\ p.customer = q.customer
  /\ p.asDefault = q.asDefault /\ p.optedOut = q.optedOut
  /\ q.troubled => p.troubled

LEMMA TroubleKeeps ==
  ASSUME MetTypes, NEW reqs \in SUBSET SaveReqs, Trouble(reqs)
  PROVE  /\ save' \in [SaveReqs -> SaveRecord]
         /\ \A r \in SaveReqs : SaveKeeps(save[r], save'[r])
         /\ \A r \in reqs : savePc[r] # "idle" => save'[r].troubled
<1>1. \A r \in SaveReqs : save[r] \in SaveRecord
  BY DEF MetTypes
<1>2. \A r \in SaveReqs : save'[r] = IF r \in reqs /\ savePc[r] # "idle"
                                     THEN [save[r] EXCEPT !.troubled = TRUE] ELSE save[r]
  BY DEF Trouble
<1> QED
  BY <1>1, <1>2, SaveOps DEF Trouble, SaveKeeps

LEMMA IsLostKeeps ==
  ASSUME MetTypes, NEW r \in SaveReqs, IsLost(r)
  PROVE  /\ save' \in [SaveReqs -> SaveRecord]
         /\ \A x \in SaveReqs : SaveKeeps(save[x], save'[x])
         /\ save'[r].troubled
         /\ savePc' = [savePc EXCEPT ![r] = "failed"]
<1>1. \A x \in SaveReqs : save[x] \in SaveRecord
  BY DEF MetTypes
<1>2. save' = [save EXCEPT ![r] = [save[r] EXCEPT !.troubled = TRUE]]
  BY DEF IsLost, MetTypes
<1> QED
  BY <1>1, <1>2, SaveOps DEF IsLost, SaveKeeps, MetTypes

\* A step that leaves the owners alone, and the records but for trouble.
LEMMA CallKeeps ==
  ASSUME MetInv, NEW r \in SaveReqs, NEW at, NEW next \in {"second", "done"},
         Attach(r, at, next) \/ SetDefault(r, at, next), at \in {"first", "second"}
  PROVE  /\ save' \in [SaveReqs -> SaveRecord]
         /\ \A x \in SaveReqs : SaveKeeps(save[x], save'[x])
         /\ savePc' = [savePc EXCEPT ![r] = next] \/ savePc' = [savePc EXCEPT ![r] = "failed"]
         /\ UNCHANGED <<email, deleted, setups, found>>
         /\ save[r].method \in Methods /\ save[r].customer \in Customers /\ savePc[r] = at
<1>1. CASE IsLost(r)
  BY <1>1, IsLostKeeps DEF Attach, SetDefault, MetInv, MetTypes
<1>2. CASE GoesOn(r, next) \/ IsRefused(r)
  BY <1>2 DEF GoesOn, IsRefused, Attach, SetDefault, MetInv, MetTypes, SaveKeeps
<1> QED
  BY <1>1, <1>2 DEF Attach, SetDefault

LEMMA UseCaseIsACall ==
  ASSUME MetInv, NEW r \in SaveReqs, SaveUseCase(r)
  PROVE  \E at \in {"first", "second"}, next \in {"second", "done"} :
           /\ Attach(r, at, next) \/ SetDefault(r, at, next)
           /\ next = "second" => Attach(r, at, next) /\ at = "first" /\ save[r].asDefault
  BY DEF SaveUseCase

\* A bounded set of numbers that is not empty has a greatest one.
LEMMA LastOfAddress ==
  ASSUME CustomersAreInOrder, NEW e \in Emails, WithAddress(e) # {}
  PROVE  Max(WithAddress(e)) \in WithAddress(e) /\ \A y \in WithAddress(e) : y <= Max(WithAddress(e))
<1>1. WithAddress(e) \subseteq Nat
  BY MethodAssumption DEF WithAddress
<1>2. PICK n \in Nat : \A c \in Customers : email[c] # NoEmail => c <= n
  BY DEF CustomersAreInOrder
<1>3. \A c \in WithAddress(e) : c <= n
  BY <1>2 DEF WithAddress, Live
<1> HIDE DEF WithAddress
<1> QED
  BY <1>1, <1>3, GreatestNumber

LEMMA MetTypesStep ==
  ASSUME MetInv, MethodsNext
  PROVE  MetTypes'
<1> USE DEF MetTypes, MethodsTypeOK, MetInv
<1>1. CASE CreateCustomer
  BY <1>1, MethodAssumption DEF CreateCustomer, StripeCreateCustomer
<1>2. ASSUME NEW e \in Emails, GetCustomerIdByEmail(e)
      PROVE  MetTypes'
  <2>1. CustomerIdByEmail(e) \in Customers \cup {NoCustomer}
    BY LastOfAddress DEF CustomerIdByEmail, WithAddress
  <2> QED
    BY <1>2, <2>1 DEF GetCustomerIdByEmail
<1>3. ASSUME NEW c \in Customers, CreateSetupIntent(c)
      PROVE  MetTypes'
  BY <1>3 DEF CreateSetupIntent
<1>4. ASSUME NEW c \in Customers, DeleteCustomer(c)
      PROVE  MetTypes'
  <2>1. PICK reqs \in SUBSET SaveReqs : Trouble(reqs)
    BY <1>4 DEF DeleteCustomer
  <2>2. /\ save' \in [SaveReqs -> SaveRecord]
        /\ \A r \in SaveReqs : SaveKeeps(save[r], save'[r])
    BY <2>1, TroubleKeeps
  <2> QED
    BY <1>4, <2>2 DEF DeleteCustomer, SaveKeeps
<1>5. ASSUME NEW c \in Customers, NEW m \in Methods, SetupIntentConfirmed(c, m)
      PROVE  MetTypes'
  BY <1>5 DEF SetupIntentConfirmed
<1>6. ASSUME NEW m \in Methods, Detach(m)
      PROVE  MetTypes'
  <2>1. PICK reqs \in SUBSET SaveReqs : Trouble(reqs)
    BY <1>6 DEF Detach
  <2>2. /\ save' \in [SaveReqs -> SaveRecord]
        /\ \A r \in SaveReqs : SaveKeeps(save[r], save'[r])
    BY <2>1, TroubleKeeps
  <2> QED
    BY <1>6, <2>2 DEF Detach, SaveKeeps
<1>7. ASSUME NEW r \in SaveReqs, SavePaymentMethod(r)
      PROVE  MetTypes'
  BY <1>7 DEF SavePaymentMethod, SaveRecord, MakesDefault
<1>8. ASSUME NEW r \in SaveReqs, SaveUseCase(r)
      PROVE  MetTypes'
  <2>1. PICK at \in {"first", "second"}, next \in {"second", "done"} :
             Attach(r, at, next) \/ SetDefault(r, at, next)
    BY <1>8, UseCaseIsACall
  <2>2. /\ save' \in [SaveReqs -> SaveRecord]
        /\ \A x \in SaveReqs : SaveKeeps(save[x], save'[x])
        /\ savePc' = [savePc EXCEPT ![r] = next] \/ savePc' = [savePc EXCEPT ![r] = "failed"]
        /\ UNCHANGED <<email, deleted, setups, found>>
        /\ save[r].method \in Methods /\ save[r].customer \in Customers /\ savePc[r] = at
    BY <2>1, CallKeeps
  <2>3. /\ owner' \in [Methods -> Customers \cup {NoCustomer}]
        /\ defaultOf' \in [Customers -> Methods \cup {NoMethod}]
    BY <2>1, <2>2 DEF Attach, SetDefault, AttachPaymentMethod, SetDefaultPaymentMethod
  <2>4. savePc' \in [SaveReqs -> {"idle", "first", "second", "done", "failed", "card"}]
    BY <2>2
  <2>5. \A x \in SaveReqs : savePc'[x] \in {"first", "second"}
                           => savePc[x] \in {"first", "second"}
    BY <2>2
  <2> QED
    BY <2>2, <2>3, <2>4, <2>5 DEF SaveKeeps
<1>9. ASSUME NEW r \in SaveReqs, SaveAnswer(r) \/ ShowCard(r)
      PROVE  MetTypes'
  <2>1. IdleSave \in SaveRecord
    BY DEF IdleSave, SaveRecord
  <2> QED
    BY <1>9, <2>1 DEF SaveAnswer, ShowCard
<1>10. ASSUME NEW r \in SaveReqs, GetDefaultPaymentMethod(r)
       PROVE  MetTypes'
  <2>1. PICK c \in Customers :
             save' = [save EXCEPT ![r] = [save[r] EXCEPT !.customer = c, !.method = defaultOf[c]]]
    BY <1>10 DEF GetDefaultPaymentMethod
  <2>2. [save[r] EXCEPT !.customer = c, !.method = defaultOf[c]] \in SaveRecord
    BY DEF SaveRecord
  <2> QED
    BY <1>10, <2>1, <2>2 DEF GetDefaultPaymentMethod
<1> QED
  BY <1>1, <1>2, <1>3, <1>4, <1>5, <1>6, <1>7, <1>8, <1>9, <1>10 DEF MethodsNext

LEMMA SavesAreOnTheirWayStep ==
  ASSUME MetInv, MethodsNext
  PROVE  SavesAreOnTheirWay'
<1> USE DEF MetInv, SavesAreOnTheirWay
<1>1. CASE UNCHANGED <<savePc, save, owner>>
  BY <1>1
<1>4. ASSUME NEW c \in Customers, DeleteCustomer(c)
      PROVE  SavesAreOnTheirWay'
  <2>1. LET reqs == {r \in SaveReqs : save[r].customer = c} IN
        /\ \A r \in SaveReqs : SaveKeeps(save[r], save'[r])
        /\ \A r \in reqs : savePc[r] # "idle" => save'[r].troubled
    BY <1>4, TroubleKeeps DEF DeleteCustomer
  <2>2. /\ UNCHANGED savePc
        /\ owner' = [m \in Methods |-> IF owner[m] = c THEN NoCustomer ELSE owner[m]]
    BY <1>4 DEF DeleteCustomer
  <2>3. \A m \in Methods : owner'[m] = owner[m] \/ owner[m] = c
    BY <2>2
  <2> QED
    BY <2>1, <2>2, <2>3 DEF SaveKeeps, MetTypes
<1>5. ASSUME NEW c \in Customers, NEW m \in Methods, SetupIntentConfirmed(c, m)
      PROVE  SavesAreOnTheirWay'
  BY <1>5, MethodAssumption DEF SetupIntentConfirmed, MetTypes, MethodsTypeOK
<1>6. ASSUME NEW m \in Methods, Detach(m)
      PROVE  SavesAreOnTheirWay'
  <2>1. LET reqs == {r \in SaveReqs : save[r].method = m} IN
        /\ \A r \in SaveReqs : SaveKeeps(save[r], save'[r])
        /\ \A r \in reqs : savePc[r] # "idle" => save'[r].troubled
    BY <1>6, TroubleKeeps DEF Detach
  <2>2. /\ UNCHANGED savePc
        /\ owner' = [owner EXCEPT ![m] = NoCustomer]
    BY <1>6 DEF Detach
  <2>3. \A x \in Methods : owner'[x] = owner[x] \/ x = m
    BY <2>2 DEF MetTypes, MethodsTypeOK
  <2> QED
    BY <2>1, <2>2, <2>3 DEF SaveKeeps, MetTypes
<1>7. ASSUME NEW r \in SaveReqs, SavePaymentMethod(r)
      PROVE  SavesAreOnTheirWay'
  <2>1. PICK m \in Methods, c \in Customers :
             \/ save' = [save EXCEPT ![r] = [method |-> m, customer |-> c, asDefault |-> TRUE,
                                             optedOut |-> FALSE, troubled |-> FALSE]]
             \/ save' = [save EXCEPT ![r] = [method |-> m, customer |-> c, asDefault |-> FALSE,
                                             optedOut |-> TRUE, troubled |-> FALSE]]
    BY <1>7 DEF SavePaymentMethod, MakesDefault
  <2>2. UNCHANGED owner /\ savePc' = [savePc EXCEPT ![r] = "first"]
    BY <1>7 DEF SavePaymentMethod
  <2>3. \A x \in SaveReqs : x # r => save'[x] = save[x] /\ savePc'[x] = savePc[x]
    BY <2>1, <2>2 DEF MetTypes, MethodsTypeOK
  <2>4. savePc'[r] = "first"
    BY <2>2 DEF MetTypes, MethodsTypeOK
  <2>5. save'[r].asDefault <=> ~save'[r].optedOut
    BY <2>1 DEF MetTypes
  <2> QED
    BY <2>2, <2>3, <2>4, <2>5
<1>8. ASSUME NEW r \in SaveReqs, SaveUseCase(r)
      PROVE  SavesAreOnTheirWay'
  <2>1. PICK at \in {"first", "second"}, next \in {"second", "done"} :
             /\ Attach(r, at, next) \/ SetDefault(r, at, next)
             /\ next = "second" => Attach(r, at, next) /\ at = "first" /\ save[r].asDefault
    BY <1>8, UseCaseIsACall
  <2>2. /\ save' \in [SaveReqs -> SaveRecord]
        /\ \A x \in SaveReqs : SaveKeeps(save[x], save'[x])
        /\ savePc' = [savePc EXCEPT ![r] = next] \/ savePc' = [savePc EXCEPT ![r] = "failed"]
        /\ UNCHANGED <<email, deleted, setups, found>>
        /\ save[r].method \in Methods /\ save[r].customer \in Customers /\ savePc[r] = at
    BY <2>1, CallKeeps
  <2> DEFINE m == save[r].method
             c == save[r].customer
  <2>3. UNCHANGED owner \/ (owner[m] \in {NoCustomer, c} /\ owner' = [owner EXCEPT ![m] = c])
    BY <2>1 DEF Attach, SetDefault, AttachPaymentMethod, CanAttach
  <2>4. \A x \in Methods, d \in Customers : owner[x] = d => owner'[x] = d
    BY <2>2, <2>3, MethodAssumption DEF MetTypes, MethodsTypeOK
  <2>5. savePc'[r] = "second" => owner'[m] = c
    <3>1. CASE savePc'[r] = "second"
      <4>1. Attach(r, at, next) /\ savePc'[r] # "failed"
        BY <2>1, <2>2, <3>1 DEF MetTypes, MethodsTypeOK
      <4>2. owner' = [owner EXCEPT ![m] = c]
        BY <4>1 DEF Attach, AttachPaymentMethod, IsRefused, IsLost, MetTypes, MethodsTypeOK
      <4> QED
        BY <4>2, <2>2 DEF MetTypes, MethodsTypeOK
    <3> QED
      BY <3>1
  <2>6. \A x \in SaveReqs : x # r => savePc'[x] = savePc[x]
    BY <2>2 DEF MetTypes, MethodsTypeOK
  <2>7. savePc'[r] = "second" => save[r].asDefault
    BY <2>1, <2>2 DEF MetTypes, MethodsTypeOK
  <2>8. savePc'[r] \in {"second", "done", "failed"}
    BY <2>2 DEF MetTypes, MethodsTypeOK
  <2> HIDE DEF m, c
  <2>9. ASSUME NEW x \in SaveReqs
        PROVE  /\ savePc'[x] \in {"first", "second"} => (save'[x].asDefault <=> ~save'[x].optedOut)
               /\ savePc'[x] = "second" =>
                    /\ save'[x].asDefault
                    /\ save'[x].troubled \/ owner'[save'[x].method] = save'[x].customer
    <3>1. CASE x = r
      BY <2>1, <2>2, <2>5, <2>7, <2>8, <3>1 DEF SaveKeeps, m, c
    <3>2. CASE x # r
      BY <2>2, <2>4, <2>6, <3>2 DEF SaveKeeps, MetTypes
    <3> QED
      BY <3>1, <3>2
  <2> QED
    BY <2>9
<1>9. ASSUME NEW r \in SaveReqs, SaveAnswer(r) \/ ShowCard(r)
      PROVE  SavesAreOnTheirWay'
  BY <1>9 DEF SaveAnswer, ShowCard, MetTypes, MethodsTypeOK
<1>10. ASSUME NEW r \in SaveReqs, GetDefaultPaymentMethod(r)
       PROVE  SavesAreOnTheirWay'
  BY <1>10 DEF GetDefaultPaymentMethod, MetTypes, MethodsTypeOK
<1> QED
  BY <1>1, <1>4, <1>5, <1>6, <1>7, <1>8, <1>9, <1>10
     DEF MethodsNext, CreateCustomer, GetCustomerIdByEmail, CreateSetupIntent

LEMMA CustomersAreInOrderStep ==
  ASSUME MetInv, MethodsNext
  PROVE  CustomersAreInOrder'
<1>1. CASE CreateCustomer
  <2>1. PICK e \in Emails, c \in Customers :
             /\ email[c] = NoEmail /\ \A d \in Customers : d < c => email[d] # NoEmail
             /\ email' = [email EXCEPT ![c] = e]
             /\ found' = [found EXCEPT ![e] = c]
    BY <1>1 DEF CreateCustomer, StripeCreateCustomer
  <2>2. \A d \in Customers : email'[d] = IF d = c THEN e ELSE email[d]
    BY <2>1 DEF MetInv, MetTypes, MethodsTypeOK
  <2>3. e # NoEmail /\ Customers \subseteq Nat /\ c # NoCustomer
    BY MethodAssumption
  <2>4. \A b, d \in Customers : d < b /\ email'[b] # NoEmail => email'[d] # NoEmail
    BY <2>1, <2>2, <2>3 DEF MetInv, CustomersAreInOrder
  <2>5. \E n \in Nat : \A d \in Customers : email'[d] # NoEmail => d <= n
    <3>1. PICK n \in Nat : \A d \in Customers : email[d] # NoEmail => d <= n
      BY DEF MetInv, CustomersAreInOrder
    <3>2. CASE c <= n
      BY <2>2, <3>1, <3>2
    <3>3. CASE ~(c <= n)
      <4>1. \A d \in Customers : email'[d] # NoEmail => d <= c
        BY <2>2, <2>3, <3>1, <3>3
      <4> QED
        BY <2>3, <4>1
    <3> QED
      BY <3>2, <3>3
  <2>6. \A f \in Emails : found'[f] # NoCustomer => email'[found'[f]] = f
    <3>1. \A f \in Emails : found'[f] = IF f = e THEN c ELSE found[f]
      BY <2>1 DEF MetInv, MetTypes
    <3>2. \A f \in Emails : found[f] # NoCustomer =>
            found[f] \in Customers /\ email[found[f]] = f /\ f # NoEmail
      BY MethodAssumption DEF MetInv, MetTypes, CustomersAreInOrder
    <3> QED
      BY <2>1, <2>2, <3>1, <3>2
  <2> QED
    BY <2>4, <2>5, <2>6 DEF CustomersAreInOrder
<1>2. ASSUME NEW e \in Emails, GetCustomerIdByEmail(e)
      PROVE  CustomersAreInOrder'
  <2>1. \A f \in Emails : found'[f] = IF f = e THEN CustomerIdByEmail(e) ELSE found[f]
    BY <1>2 DEF GetCustomerIdByEmail, MetInv, MetTypes
  <2>2. CustomerIdByEmail(e) # NoCustomer => email[CustomerIdByEmail(e)] = e
    BY LastOfAddress DEF CustomerIdByEmail, WithAddress, MetInv
  <2> QED
    BY <1>2, <2>1, <2>2 DEF GetCustomerIdByEmail, MetInv, CustomersAreInOrder
<1>3. CASE UNCHANGED <<email, found>>
  BY <1>3 DEF MetInv, CustomersAreInOrder
<1> QED
  BY <1>1, <1>2, <1>3
     DEF MethodsNext, CreateSetupIntent, DeleteCustomer, SetupIntentConfirmed, Detach,
         SavePaymentMethod, SaveUseCase, Attach, SetDefault, SaveAnswer,
         GetDefaultPaymentMethod, ShowCard

LEMMA MetInvStep == MetInv /\ [MethodsNext]_methodVars => MetInv'
<1> SUFFICES ASSUME MetInv, [MethodsNext]_methodVars
             PROVE  MetInv'
  OBVIOUS
<1>1. CASE MethodsNext
  BY <1>1, MetTypesStep, SavesAreOnTheirWayStep, CustomersAreInOrderStep DEF MetInv
<1>2. CASE UNCHANGED methodVars
  <2>1. MetTypes'
    BY <1>2 DEF methodVars, MetInv, MetTypes, MethodsTypeOK
  <2>2. SavesAreOnTheirWay'
    BY <1>2 DEF methodVars, MetInv, SavesAreOnTheirWay
  <2>3. CustomersAreInOrder'
    BY <1>2 DEF methodVars, MetInv, CustomersAreInOrder
  <2> QED
    BY <2>1, <2>2, <2>3 DEF MetInv
<1> QED
  BY <1>1, <1>2

\* The invariant of the payment methods, for any number of customers, methods,
\* addresses and requests.
THEOREM MethodsInvariant == MethodsSpec => []MetInv
<1> QED
  BY MetStarts, MetInvStep, PTL DEF MethodsSpec

\* Type correctness of the customers and their payment methods.
THEOREM MethodsTypesHold == MethodsSpec => []MethodsTypeOK
<1>1. MetInv => MethodsTypeOK
  BY DEF MetInv, MetTypes
<1> QED
  BY <1>1, MethodsInvariant, PTL

LEMMA SaveFailsForACause ==
  ASSUME MetInv, [MethodsNext]_methodVars, NEW r \in SaveReqs,
         savePc'[r] = "failed", savePc[r] # "failed"
  PROVE  \/ save'[r].troubled \/ ~Live(save[r].customer)
         \/ owner[save[r].method] \notin {NoCustomer, save[r].customer}
<1>1. SaveUseCase(r)
  <2>1. MethodsNext /\ savePc' # savePc
    BY DEF methodVars
  <2>2. \A x \in SaveReqs : SavePaymentMethod(x) => savePc'[r] # "failed" \/ x # r
    BY DEF SavePaymentMethod, MetInv, MetTypes, MethodsTypeOK
  <2>3. \A x \in SaveReqs :
           SaveAnswer(x) \/ ShowCard(x) \/ GetDefaultPaymentMethod(x)
             => savePc'[r] \in {savePc[r], "idle", "card"}
    BY DEF SaveAnswer, ShowCard, GetDefaultPaymentMethod, MetInv, MetTypes, MethodsTypeOK
  <2>4. \A x \in SaveReqs : SavePaymentMethod(x) /\ x # r => savePc'[r] = savePc[r]
    BY DEF SavePaymentMethod, MetInv, MetTypes, MethodsTypeOK
  <2>5. \A x \in SaveReqs : SaveUseCase(x) /\ x # r => savePc'[r] = savePc[r]
    <3> SUFFICES ASSUME NEW x \in SaveReqs, SaveUseCase(x), x # r
                 PROVE  savePc'[r] = savePc[r]
      OBVIOUS
    <3>1. \E pc : savePc' = [savePc EXCEPT ![x] = pc]
      BY DEF SaveUseCase, Attach, SetDefault, GoesOn, IsRefused, IsLost
    <3> QED
      BY <3>1 DEF MetInv, MetTypes, MethodsTypeOK
  <2> QED
    BY <2>1, <2>2, <2>3, <2>4, <2>5
       DEF MethodsNext, CreateCustomer, GetCustomerIdByEmail, CreateSetupIntent,
           DeleteCustomer, SetupIntentConfirmed, Detach
<1>2. CASE IsLost(r)
  BY <1>2, IsLostKeeps DEF MetInv
<1>3. ASSUME NEW at, NEW next, next # "failed", Attach(r, at, next), ~IsLost(r)
      PROVE  ~CanAttach(save[r].method, save[r].customer)
  BY <1>3 DEF Attach, GoesOn, MetInv, MetTypes, MethodsTypeOK
<1>4. CASE SetDefault(r, "second", "done") /\ ~IsLost(r)
  <2>1. ~CanBeDefault(save[r].method, save[r].customer) /\ UNCHANGED save /\ savePc[r] = "second"
    BY <1>4 DEF SetDefault, GoesOn, IsRefused, MetInv, MetTypes, MethodsTypeOK
  <2> QED
    BY <2>1 DEF CanBeDefault, MetInv, SavesAreOnTheirWay
<1> QED
  BY <1>1, <1>2, <1>3, <1>4 DEF SaveUseCase, CanAttach

LEMMA SavedIsSaved ==
  ASSUME MetInv, [MethodsNext]_methodVars, NEW r \in SaveReqs,
         savePc'[r] = "done", savePc[r] # "done"
  PROVE  /\ owner'[save[r].method] = save[r].customer
         /\ IF save[r].optedOut THEN defaultOf' = defaultOf
            ELSE defaultOf'[save[r].customer] = save[r].method
<1>1. SaveUseCase(r)
  <2>1. MethodsNext /\ savePc' # savePc
    BY DEF methodVars
  <2>3. \A x \in SaveReqs :
           SaveAnswer(x) \/ ShowCard(x) \/ GetDefaultPaymentMethod(x) \/ SavePaymentMethod(x)
             => savePc'[r] \in {savePc[r], "idle", "card", "first"}
    BY DEF SaveAnswer, ShowCard, GetDefaultPaymentMethod, SavePaymentMethod, MetInv, MetTypes, MethodsTypeOK
  <2>5. \A x \in SaveReqs : SaveUseCase(x) /\ x # r => savePc'[r] = savePc[r]
    <3> SUFFICES ASSUME NEW x \in SaveReqs, SaveUseCase(x), x # r
                 PROVE  savePc'[r] = savePc[r]
      OBVIOUS
    <3>1. \E pc : savePc' = [savePc EXCEPT ![x] = pc]
      BY DEF SaveUseCase, Attach, SetDefault, GoesOn, IsRefused, IsLost
    <3> QED
      BY <3>1 DEF MetInv, MetTypes, MethodsTypeOK
  <2> QED
    BY <2>1, <2>3, <2>5
       DEF MethodsNext, CreateCustomer, GetCustomerIdByEmail, CreateSetupIntent,
           DeleteCustomer, SetupIntentConfirmed, Detach
<1>2. CASE Attach(r, "first", "done") /\ ~save[r].asDefault
  <2>1. /\ AttachPaymentMethod(save[r].method, save[r].customer) /\ UNCHANGED defaultOf
        /\ savePc[r] = "first"
    BY <1>2 DEF Attach, IsRefused, IsLost, MetInv, MetTypes, MethodsTypeOK
  <2>2. save[r].optedOut /\ save[r].method \in Methods
    BY <1>2, <2>1 DEF MetInv, SavesAreOnTheirWay, MetTypes, SaveRecord
  <2> QED
    BY <2>1, <2>2 DEF AttachPaymentMethod, MetInv, MetTypes, MethodsTypeOK
<1>3. CASE SetDefault(r, "second", "done")
  <2>1. /\ SetDefaultPaymentMethod(save[r].customer, save[r].method) /\ UNCHANGED owner
        /\ savePc[r] = "second"
    BY <1>3 DEF SetDefault, IsRefused, IsLost, MetInv, MetTypes, MethodsTypeOK
  <2>2. ~save[r].optedOut /\ save[r].customer \in Customers
    BY <2>1 DEF MetInv, SavesAreOnTheirWay, MetTypes
  <2> QED
    BY <2>1, <2>2 DEF SetDefaultPaymentMethod, CanBeDefault, MetInv, MetTypes, MethodsTypeOK
<1>4. ~Attach(r, "first", "second")
  BY DEF Attach, GoesOn, IsRefused, IsLost, MetInv, MetTypes, MethodsTypeOK
<1> QED
  BY <1>1, <1>2, <1>3, <1>4 DEF SaveUseCase

\* What the client of save-payment-method is told is what happened, for any number
\* of clients, of Stripe's dashboard's interventions and of lost answers.
THEOREM SavesAreAlwaysTruthful == MethodsSpec => SavesAreTruthful
<1>1. MetInv /\ [MethodsNext]_methodVars =>
        [\A r \in SaveReqs : savePc'[r] = "failed" /\ savePc[r] # "failed" =>
           \/ save'[r].troubled \/ ~Live(save[r].customer)
           \/ owner[save[r].method] \notin {NoCustomer, save[r].customer}]_methodVars
  BY SaveFailsForACause
<1>2. MetInv /\ [MethodsNext]_methodVars =>
        [\A r \in SaveReqs : savePc'[r] = "done" /\ savePc[r] # "done" =>
           LET m == save[r].method
               c == save[r].customer IN
           /\ owner'[m] = c
           /\ IF save[r].optedOut THEN defaultOf' = defaultOf ELSE defaultOf'[c] = m]_methodVars
  BY SavedIsSaved
<1> QED
  BY <1>1, <1>2, MethodsInvariant, PTL
     DEF MethodsSpec, SavesAreTruthful, SavesFailForACause, SavedMeansSaved

LEMMA LookupMovesForward ==
  ASSUME MetInv, [MethodsNext]_methodVars, NEW e \in Emails, found'[e] < found[e]
  PROVE  found[e] \in deleted
<1>1. found' # found
  <2>1. found[e] \in Customers \cup {NoCustomer}
    BY DEF MetInv, MetTypes
  <2>2. Customers \subseteq Nat /\ NoCustomer \in Nat
    BY MethodAssumption
  <2>3. found[e] \in Nat
    BY <2>1, <2>2
  <2> QED
    BY <2>3
<1>2. MethodsNext
  BY <1>1 DEF methodVars
<1>3. found[e] \in Customers \cup {NoCustomer} /\ Customers \subseteq Nat \ {0} /\ NoCustomer = 0
  BY MethodAssumption DEF MetInv, MetTypes
<1>4. CASE CreateCustomer
  <2>1. PICK f \in Emails, c \in Customers :
             /\ email[c] = NoEmail /\ \A d \in Customers : d < c => email[d] # NoEmail
             /\ found' = [found EXCEPT ![f] = c]
    BY <1>4 DEF CreateCustomer, StripeCreateCustomer
  <2>2. found'[e] = IF f = e THEN c ELSE found[e]
    BY <2>1 DEF MetInv, MetTypes
  <2>3. f = e /\ c < found[e] /\ found[e] \in Customers
    BY <1>3, <2>2
  <2>4. email[found[e]] = e /\ e # NoEmail
    BY <1>3, <2>3, MethodAssumption DEF MetInv, CustomersAreInOrder
  <2>5. email[c] # NoEmail
    BY <2>3, <2>4 DEF MetInv, CustomersAreInOrder
  <2> QED
    BY <2>1, <2>5
<1>5. ASSUME NEW f \in Emails, GetCustomerIdByEmail(f), found[e] \notin deleted
      PROVE  FALSE
  <2>1. found'[e] = IF f = e THEN CustomerIdByEmail(e) ELSE found[e]
    BY <1>5 DEF GetCustomerIdByEmail, MetInv, MetTypes
  <2>2. f = e /\ found[e] \in Customers /\ CustomerIdByEmail(e) < found[e]
    <3>1. CustomerIdByEmail(e) \in Nat
      BY <1>3, LastOfAddress DEF CustomerIdByEmail, WithAddress, MetInv
    <3> QED
      BY <1>3, <2>1, <3>1
  <2>3. found[e] \in WithAddress(e)
    BY <1>3, <1>5, <2>2, MethodAssumption DEF MetInv, CustomersAreInOrder, WithAddress, Live
  <2>4. found[e] <= CustomerIdByEmail(e) /\ CustomerIdByEmail(e) \in WithAddress(e)
    BY <2>3, LastOfAddress DEF CustomerIdByEmail, MetInv
  <2>5. CustomerIdByEmail(e) \in Nat /\ found[e] \in Nat
    BY <1>3, <2>2, <2>4 DEF WithAddress
  <2> QED
    BY <2>2, <2>4, <2>5
<1> QED
  BY <1>1, <1>2, <1>4, <1>5
     DEF MethodsNext, CreateSetupIntent, DeleteCustomer, SetupIntentConfirmed, Detach,
         SavePaymentMethod, SaveUseCase, Attach, SetDefault, SaveAnswer,
         GetDefaultPaymentMethod, ShowCard

\* No lookup of a customer goes back behind one that a client has found or created,
\* unless that one is deleted, for any number of customers with the same address.
THEOREM LookupsAlwaysMoveForward == MethodsSpec => LookupsMoveForward
<1>1. MetInv /\ [MethodsNext]_methodVars =>
        [\A e \in Emails : found'[e] < found[e] => found[e] \in deleted]_methodVars
  BY LookupMovesForward
<1> QED
  BY <1>1, MethodsInvariant, PTL DEF MethodsSpec, LookupsMoveForward
-----------------------------------------------------------------------------
(***************************************************************************)
(* ConnectAccounts.  A replacement that is about to delete the old bank has *)
(* a younger one beside it, unless someone deleted a bank outright; and a   *)
(* request that waits for its link has the link's URLs.                     *)
(***************************************************************************)
ConnRecord == [account : Accounts \cup {NoAccount}, old : Nat, urls : Urls]

ConTypes ==
  /\ ConnectTypeOK
  /\ lastBank \in Nat /\ unbanked \subseteq Accounts
  /\ conn \in [ConnectReqs -> ConnRecord]
  /\ \A r \in ConnectReqs : connPc[r] \in {"create", "delete"} =>
       conn[r].account \in Accounts /\ conn[r].old <= lastBank

ReplacementsAreSafe ==
  \A r \in ConnectReqs : connPc[r] = "delete" =>
    LET a == conn[r].account IN
    a \in unbanked \/ \E b \in banks[a] : b > conn[r].old

LinksHaveTheirUrls == \A r \in ConnectReqs : connPc[r] = "link" => LinkUrls(conn[r].urls)

ConInv == ConTypes /\ ReplacementsAreSafe /\ LinksHaveTheirUrls /\ SellersGetTheirLink

LEMMA IdleConnIsOne == IdleConn \in ConnRecord /\ NoUrls \in Urls
  BY DEF IdleConn, ConnRecord, NoUrls, Urls

LEMMA ConStarts == ConnectInit => ConInv
<1> SUFFICES ASSUME ConnectInit
             PROVE  ConInv
  OBVIOUS
<1>1. ConTypes
  BY IdleConnIsOne DEF ConnectInit, ConTypes, ConnectTypeOK
<1>2. ReplacementsAreSafe /\ LinksHaveTheirUrls
  BY DEF ConnectInit, ReplacementsAreSafe, LinksHaveTheirUrls
<1>3. SellersGetTheirLink
  BY DEF ConnectInit, NoProfile, SellersGetTheirLink
<1> QED
  BY <1>1, <1>2, <1>3 DEF ConInv

\* What a request's step leaves as it was.
OthersStay(r) ==
  \A x \in ConnectReqs : x # r => connPc'[x] = connPc[x] /\ conn'[x] = conn[x]

LEMMA DoneEnds ==
  ASSUME ConTypes, NEW r \in ConnectReqs, Done(r)
  PROVE  /\ OthersStay(r) /\ connPc'[r] = "idle"
         /\ conn' \in [ConnectReqs -> ConnRecord]
         /\ connPc' \in [ConnectReqs -> {"idle", "link", "link only", "create", "delete"}]
  BY IdleConnIsOne DEF Done, ConTypes, ConnectTypeOK, OthersStay

\* New banks get new numbers, and none goes away.
LEMMA BankIsCreated ==
  ASSUME ConTypes, NEW a \in Accounts,
         \/ StripeCreateBank(a)
         \/ banks[a] = {} /\ lastBank' = lastBank + 1 /\ banks' = [banks EXCEPT ![a] = {lastBank'}]
  PROVE  /\ lastBank' = lastBank + 1 /\ lastBank' \in banks'[a]
         /\ banks' \in [Accounts -> SUBSET (1 .. lastBank')]
         /\ \A x \in Accounts : banks[x] \subseteq banks'[x]
<1>1. lastBank' = lastBank + 1
  BY DEF StripeCreateBank
<1>2. PICK B : /\ banks' = [banks EXCEPT ![a] = B] /\ banks[a] \subseteq B
               /\ B \subseteq banks[a] \cup {lastBank'} /\ lastBank' \in B
  BY DEF StripeCreateBank, ConTypes, ConnectTypeOK
<1>3. lastBank \in Nat /\ \A x \in Accounts : banks[x] \subseteq 1 .. lastBank
  BY DEF ConTypes, ConnectTypeOK
<1>4. 1 .. lastBank \subseteq 1 .. lastBank' /\ lastBank' \in 1 .. lastBank'
  BY <1>1, <1>3
<1>5. \A x \in Accounts : banks'[x] = IF x = a THEN B ELSE banks[x]
  BY <1>2 DEF ConTypes, ConnectTypeOK
<1>6. \A x \in Accounts : banks'[x] \subseteq 1 .. lastBank' /\ banks[x] \subseteq banks'[x]
  BY <1>2, <1>3, <1>4, <1>5
<1> QED
  BY <1>1, <1>2, <1>5, <1>6 DEF ConTypes, ConnectTypeOK

\* A deleted bank is the only one that goes.
LEMMA BankIsDeleted ==
  ASSUME ConTypes, NEW a \in Accounts, NEW b, StripeDeleteBank(a, b)
  PROVE  /\ banks' \in [Accounts -> SUBSET (1 .. lastBank)]
         /\ \A x \in Accounts : x # a => banks'[x] = banks[x]
         /\ \A y \in banks[a] : y # b => y \in banks'[a]
  BY DEF StripeDeleteBank, ConTypes, ConnectTypeOK

LEMMA SellerStep ==
  ASSUME ConInv, NEW a \in Accounts,
         \/ CreateConnectAccount(a) \/ Onboarded(a) \/ OnboardingAddsBank(a)
         \/ CreateExternalBankAccount(a) \/ DeleteExternalAccount(a)
  PROVE  ConInv'
<1> USE DEF ConInv
<1>1. UNCHANGED <<connPc, conn, profile>>
  BY DEF CreateConnectAccount, Onboarded, OnboardingAddsBank, CreateExternalBankAccount,
         DeleteExternalAccount
<1>2. CASE CreateConnectAccount(a) \/ Onboarded(a)
  <2>1. account' \in [Accounts -> [type : {"none", "express", "custom"}, complete : BOOLEAN]]
    <3>1. CASE CreateConnectAccount(a)
      <4>1. PICK configured \in {"custom", "express", "unset"} :
                 account' = [account EXCEPT ![a].type = ConnectAccountType(configured)]
        BY <3>1, Zenon DEF CreateConnectAccount
      <4>2. ConnectAccountType(configured) \in {"express", "custom"}
        BY DEF ConnectAccountType
      <4> QED
        BY <4>1, <4>2 DEF ConTypes, ConnectTypeOK
    <3>2. CASE Onboarded(a)
      <4> DEFINE q == [account[a] EXCEPT !.complete = ~@]
      <4>1. account' = [account EXCEPT ![a] = q]
        BY <3>2 DEF Onboarded
      <4>2. q \in [type : {"none", "express", "custom"}, complete : BOOLEAN]
        BY DEF ConTypes, ConnectTypeOK
      <4> HIDE DEF q
      <4> QED
        BY <4>1, <4>2 DEF ConTypes, ConnectTypeOK
    <3> QED
      BY <1>2, <3>1, <3>2
  <2>2. UNCHANGED <<banks, lastBank, unbanked>>
    BY <1>2 DEF CreateConnectAccount, Onboarded
  <2>3. ConTypes'
    BY <1>1, <2>1, <2>2 DEF ConTypes, ConnectTypeOK
  <2> QED
    BY <1>1, <2>2, <2>3 DEF ReplacementsAreSafe, LinksHaveTheirUrls, SellersGetTheirLink
<1>3. CASE OnboardingAddsBank(a) \/ CreateExternalBankAccount(a)
  <2>1. /\ lastBank' = lastBank + 1 /\ lastBank' \in banks'[a]
        /\ banks' \in [Accounts -> SUBSET (1 .. lastBank')]
        /\ \A x \in Accounts : banks[x] \subseteq banks'[x]
    BY <1>3, BankIsCreated DEF OnboardingAddsBank, CreateExternalBankAccount
  <2>2. UNCHANGED <<account, unbanked>>
    BY <1>3 DEF OnboardingAddsBank, CreateExternalBankAccount
  <2>3. \A r \in ConnectReqs : conn[r].old \in Nat
    BY DEF ConTypes, ConnRecord
  <2>4. ConTypes'
    <3>1. lastBank' \in Nat /\ \A k \in Nat : k <= lastBank => k <= lastBank'
      BY <2>1 DEF ConTypes
    <3>2. ConnectTypeOK'
      BY <1>1, <2>1, <2>2 DEF ConTypes, ConnectTypeOK
    <3> QED
      BY <1>1, <2>2, <2>3, <3>1, <3>2 DEF ConTypes
  <2>5. ReplacementsAreSafe'
    BY <1>1, <2>1, <2>2 DEF ConTypes, ReplacementsAreSafe
  <2> QED
    BY <1>1, <2>4, <2>5 DEF LinksHaveTheirUrls, SellersGetTheirLink
<1>4. CASE DeleteExternalAccount(a)
  <2>1. PICK b \in EverListed : StripeDeleteBank(a, b)
    BY <1>4 DEF DeleteExternalAccount
  <2>2. unbanked' = unbanked \cup {a} /\ UNCHANGED <<account, lastBank>>
    BY <1>4 DEF DeleteExternalAccount
  <2>3. /\ banks' \in [Accounts -> SUBSET (1 .. lastBank)]
        /\ \A x \in Accounts : x # a => banks'[x] = banks[x]
    BY <2>1, BankIsDeleted
  <2>4. ConTypes'
    BY <1>1, <2>2, <2>3 DEF ConTypes, ConnectTypeOK
  <2>5. ReplacementsAreSafe'
    BY <1>1, <2>2, <2>3 DEF ConTypes, ReplacementsAreSafe
  <2> QED
    BY <1>1, <2>4, <2>5 DEF LinksHaveTheirUrls, SellersGetTheirLink
<1> QED
  BY <1>2, <1>3, <1>4

LEMMA LinkStep ==
  ASSUME ConInv, NEW r \in ConnectReqs,
         GetConnectAccount(r) \/ RequestAccountLink(r) \/ CreateAccountLink(r)
  PROVE  ConInv'
<1> USE DEF ConInv
<1>1. UNCHANGED <<account, banks, lastBank, unbanked>>
  BY DEF GetConnectAccount, RequestAccountLink, CreateAccountLink
<1>2. ASSUME NEW pc \in {"link", "link only"}, NEW a \in Accounts, NEW urls \in Urls, LinkUrls(urls),
             connPc' = [connPc EXCEPT ![r] = pc],
             conn' = [conn EXCEPT ![r] = [conn[r] EXCEPT !.account = a, !.urls = urls]],
             UNCHANGED profile
      PROVE  ConInv'
  <2> DEFINE q == [conn[r] EXCEPT !.account = a, !.urls = urls]
  <2>1. q \in ConnRecord /\ q.urls = urls
    BY DEF ConTypes, ConnRecord
  <2> HIDE DEF q
  <2>2. OthersStay(r) /\ connPc'[r] = pc /\ conn'[r] = q
    BY <1>2 DEF ConTypes, ConnectTypeOK, OthersStay, q
  <2>3. ConTypes'
    BY <1>1, <1>2, <2>1, <2>2 DEF ConTypes, ConnectTypeOK, OthersStay, q
  <2>4. ReplacementsAreSafe'
    BY <1>1, <2>2 DEF ReplacementsAreSafe, OthersStay
  <2>5. LinksHaveTheirUrls'
    BY <1>2, <2>1, <2>2 DEF LinksHaveTheirUrls, OthersStay
  <2> QED
    BY <1>2, <2>3, <2>4, <2>5 DEF SellersGetTheirLink
<1>3. CASE GetConnectAccount(r)
  <2>1. PICK a \in Accounts, urls \in Urls :
             IF NeedsOnboarding(a) /\ LinkUrls(urls)
             THEN /\ connPc' = [connPc EXCEPT ![r] = "link"]
                  /\ conn' = [conn EXCEPT ![r] = [conn[r] EXCEPT !.account = a, !.urls = urls]]
                  /\ UNCHANGED profile
             ELSE /\ profile' = [needs |-> NeedsOnboarding(a), link |-> FALSE, urls |-> urls,
                                 message |-> NeedsOnboarding(a)]
                  /\ UNCHANGED <<connPc, conn>>
    <3>1. PICK a \in Accounts, urls \in Urls :
               IF NeedsOnboarding(a) /\ LinkUrls(urls)
               THEN /\ connPc' = [connPc EXCEPT ![r] = "link"]
                    /\ conn' = [conn EXCEPT ![r].account = a, ![r].urls = urls]
                    /\ UNCHANGED profile
               ELSE /\ profile' = [needs |-> NeedsOnboarding(a), link |-> FALSE, urls |-> urls,
                                   message |-> NeedsOnboarding(a)]
                    /\ UNCHANGED <<connPc, conn>>
      BY <1>3, Zenon DEF GetConnectAccount
    <3>2. [conn EXCEPT ![r].account = a, ![r].urls = urls] =
            [conn EXCEPT ![r] = [conn[r] EXCEPT !.account = a, !.urls = urls]]
      BY DEF ConTypes
    <3> QED
      BY <3>1, <3>2, Zenon
  <2>2. CASE NeedsOnboarding(a) /\ LinkUrls(urls)
    BY <1>2, <2>1, <2>2
  <2>3. CASE ~(NeedsOnboarding(a) /\ LinkUrls(urls))
    <3>1. SellersGetTheirLink'
      <4>1. profile'.needs => NeedsOnboarding(a) /\ ~LinkUrls(urls)
        BY <2>1, <2>3
      <4>2. profile'.urls = urls /\ profile'.link = FALSE /\ profile'.message = NeedsOnboarding(a)
        BY <2>1, <2>3
      <4>3. LinkUrls(urls) <=> "nowhere" \notin {urls.refresh, urls.back}
        BY DEF LinkUrls
      <4> QED
        BY <4>1, <4>2, <4>3 DEF SellersGetTheirLink
    <3>2. ConTypes' /\ ReplacementsAreSafe' /\ LinksHaveTheirUrls'
      BY <1>1, <2>1, <2>3 DEF ConTypes, ConnectTypeOK, ReplacementsAreSafe, LinksHaveTheirUrls
    <3> QED
      BY <3>1, <3>2
  <2> QED
    BY <2>2, <2>3
<1>4. CASE RequestAccountLink(r)
  BY <1>2, <1>4 DEF RequestAccountLink, ConTypes, ConnectTypeOK
<1>5. CASE CreateAccountLink(r)
  <2>1. /\ OthersStay(r) /\ connPc'[r] = "idle"
        /\ conn' \in [ConnectReqs -> ConnRecord]
        /\ connPc' \in [ConnectReqs -> {"idle", "link", "link only", "create", "delete"}]
    BY <1>5, DoneEnds DEF CreateAccountLink
  <2>2. ConTypes' /\ ReplacementsAreSafe' /\ LinksHaveTheirUrls'
    BY <1>1, <2>1 DEF ConTypes, ConnectTypeOK, ReplacementsAreSafe, LinksHaveTheirUrls, OthersStay
  <2>3. SellersGetTheirLink'
    <3>1. CASE UNCHANGED profile
      BY <3>1 DEF SellersGetTheirLink
    <3>2. CASE ~UNCHANGED profile
      <4>1. /\ connPc[r] = "link"
            /\ profile' = [needs |-> TRUE, link |-> TRUE, urls |-> conn[r].urls, message |-> FALSE]
        BY <1>5, <3>2 DEF CreateAccountLink
      <4>2. LinkUrls(conn[r].urls)
        BY <4>1 DEF LinksHaveTheirUrls
      <4> QED
        BY <4>1, <4>2 DEF SellersGetTheirLink, LinkUrls
    <3> QED
      BY <3>1, <3>2
  <2> QED
    BY <2>2, <2>3
<1> QED
  BY <1>3, <1>4, <1>5

LEMMA BankStep ==
  ASSUME ConInv, NEW r \in ConnectReqs, UpdateBankAccount(r) \/ UpdateExternalBankAccount(r)
  PROVE  ConInv' /\ UpdateKeepsABank
<1> USE DEF ConInv
<1>1. UNCHANGED <<account, unbanked, profile>>
  BY DEF UpdateBankAccount, UpdateExternalBankAccount, UpdateCreates, UpdateDeletes
<1>2. CASE UpdateBankAccount(r)
  <2>1. PICK a \in Accounts, b \in EverListed :
             conn' = [conn EXCEPT ![r] = [conn[r] EXCEPT !.account = a, !.old = b]]
    BY <1>2 DEF UpdateBankAccount, ConTypes
  <2>2. connPc' = [connPc EXCEPT ![r] = "create"] /\ UNCHANGED <<banks, lastBank>>
    BY <1>2 DEF UpdateBankAccount
  <2>3. b \in Nat /\ b <= lastBank
    BY DEF EverListed, ConTypes
  <2> DEFINE q == [conn[r] EXCEPT !.account = a, !.old = b]
  <2>4. q \in ConnRecord /\ q.account = a /\ q.old = b
    BY <2>3 DEF ConTypes, ConnRecord
  <2>5. conn' = [conn EXCEPT ![r] = q]
    BY <2>1
  <2> HIDE DEF q
  <2>6. OthersStay(r) /\ connPc'[r] = "create" /\ conn'[r] = q
    BY <2>2, <2>5 DEF ConTypes, ConnectTypeOK, OthersStay
  <2>7. ConTypes'
    BY <1>1, <2>2, <2>3, <2>4, <2>5, <2>6 DEF ConTypes, ConnectTypeOK, OthersStay
  <2>8. ReplacementsAreSafe' /\ LinksHaveTheirUrls'
    BY <1>1, <2>2, <2>6 DEF ReplacementsAreSafe, LinksHaveTheirUrls, OthersStay
  <2> QED
    BY <1>1, <2>2, <2>7, <2>8 DEF SellersGetTheirLink, UpdateKeepsABank
<1>3. CASE UpdateCreates(r, "create", "delete")
  <2> DEFINE a == conn[r].account
  <2>1. connPc[r] = "create" /\ a \in Accounts /\ conn[r].old <= lastBank /\ conn[r].old \in Nat
    BY <1>3 DEF UpdateCreates, ConTypes, ConnRecord
  <2>2. CASE StripeCreateBank(a)
    <3>1. /\ lastBank' = lastBank + 1 /\ lastBank' \in banks'[a]
          /\ banks' \in [Accounts -> SUBSET (1 .. lastBank')]
          /\ \A x \in Accounts : banks[x] \subseteq banks'[x]
      BY <2>1, <2>2, BankIsCreated
    <3>2. /\ OthersStay(r)
          /\ connPc'[r] = "idle" \/ (connPc'[r] = "delete" /\ conn'[r] = conn[r])
          /\ conn' \in [ConnectReqs -> ConnRecord]
          /\ connPc' \in [ConnectReqs -> {"idle", "link", "link only", "create", "delete"}]
      <4>1. CASE Done(r)
        BY <4>1, DoneEnds
      <4>2. CASE ~Done(r)
        BY <1>3, <4>2 DEF UpdateCreates, OthersStay, ConTypes, ConnectTypeOK
      <4> QED
        BY <4>1, <4>2
    <3>3. \A x \in ConnectReqs : conn[x].old \in Nat
      BY DEF ConTypes, ConnRecord
    <3>4. ConTypes'
      <4>1. lastBank' \in Nat /\ \A k \in Nat : k <= lastBank => k <= lastBank'
        BY <3>1 DEF ConTypes
      <4>2. ConnectTypeOK'
        BY <1>1, <3>1, <3>2 DEF ConTypes, ConnectTypeOK
      <4>3. \A x \in ConnectReqs : connPc'[x] \in {"create", "delete"} =>
              connPc[x] \in {"create", "delete"} /\ conn'[x] = conn[x]
        BY <2>1, <3>2 DEF OthersStay
      <4> QED
        BY <1>1, <3>2, <3>3, <4>1, <4>2, <4>3 DEF ConTypes
    <3>5. ReplacementsAreSafe'
      <4>1. lastBank \in Nat /\ lastBank' > conn[r].old
        BY <2>1, <3>1 DEF ConTypes
      <4>2. \A x \in ConnectReqs : connPc[x] = "delete" => conn[x].account \in Accounts
        BY DEF ConTypes
      <4> QED
        BY <1>1, <2>1, <3>1, <3>2, <4>1, <4>2 DEF ReplacementsAreSafe, OthersStay
    <3>6. LinksHaveTheirUrls'
      BY <3>2 DEF LinksHaveTheirUrls, OthersStay
    <3>7. UpdateKeepsABank
      BY <3>1 DEF UpdateKeepsABank
    <3> QED
      BY <1>1, <3>4, <3>5, <3>6, <3>7 DEF SellersGetTheirLink
  <2>3. CASE UNCHANGED <<banks, lastBank>> /\ Done(r)
    <3>1. /\ OthersStay(r) /\ connPc'[r] = "idle"
          /\ conn' \in [ConnectReqs -> ConnRecord]
          /\ connPc' \in [ConnectReqs -> {"idle", "link", "link only", "create", "delete"}]
      BY <2>3, DoneEnds
    <3> QED
      BY <1>1, <2>3, <3>1 DEF ConTypes, ConnectTypeOK, ReplacementsAreSafe, LinksHaveTheirUrls,
                              OthersStay, SellersGetTheirLink, UpdateKeepsABank
  <2> QED
    BY <1>3, <2>2, <2>3 DEF UpdateCreates
<1>4. CASE UpdateDeletes(r, "delete", "idle")
  <2> DEFINE a == conn[r].account
             old == conn[r].old
  <2>1. connPc[r] = "delete" /\ a \in Accounts /\ old \in Nat /\ UNCHANGED lastBank
    BY <1>4 DEF UpdateDeletes, ConTypes, ConnRecord
  <2>2. Done(r)
    BY <1>4 DEF UpdateDeletes, Done
  <2>3. /\ OthersStay(r) /\ connPc'[r] = "idle"
        /\ conn' \in [ConnectReqs -> ConnRecord]
        /\ connPc' \in [ConnectReqs -> {"idle", "link", "link only", "create", "delete"}]
    BY <2>2, DoneEnds
  <2>4. /\ banks' \in [Accounts -> SUBSET (1 .. lastBank)]
        /\ \A x \in Accounts : x # a => banks'[x] = banks[x]
        /\ \A y \in banks[a] : y # old => y \in banks'[a]
    <3>1. CASE StripeDeleteBank(a, old)
      BY <2>1, <3>1, BankIsDeleted
    <3>2. CASE UNCHANGED banks
      BY <3>2 DEF ConTypes, ConnectTypeOK
    <3> QED
      BY <1>4, <3>1, <3>2 DEF UpdateDeletes
  <2>5. a \in unbanked \/ \E b \in banks[a] : b > old
    BY <2>1 DEF ReplacementsAreSafe
  <2>6. a \in unbanked \/ \E b \in banks'[a] : b > old
    BY <2>1, <2>4, <2>5
  <2>7. ConTypes'
    BY <1>1, <2>1, <2>3, <2>4 DEF ConTypes, ConnectTypeOK, OthersStay
  <2>8. ReplacementsAreSafe'
    <3> HIDE DEF a, old
    <3>1. \A x \in Accounts : banks[x] \subseteq Nat
      <4>1. 1 .. lastBank \subseteq Nat
        BY DEF ConTypes
      <4> QED
        BY <4>1 DEF ConTypes, ConnectTypeOK
    <3>2. SUFFICES ASSUME NEW x \in ConnectReqs, x # r, connPc[x] = "delete",
                          conn[x].account \notin unbanked
                   PROVE  \E b \in banks'[conn[x].account] : b > conn[x].old
      BY <1>1, <2>3 DEF ReplacementsAreSafe, OthersStay
    <3>3. conn[x].account \in Accounts /\ conn[x].old \in Nat
      BY <3>2 DEF ConTypes, ConnRecord
    <3>4. PICK b \in banks[conn[x].account] : b > conn[x].old
      BY <3>2 DEF ReplacementsAreSafe
    <3>5. CASE conn[x].account # a \/ b # old
      BY <2>4, <3>3, <3>4, <3>5
    <3>6. CASE conn[x].account = a /\ b = old
      <4>1. PICK c \in banks'[a] : c > old
        BY <2>6, <3>2, <3>6
      <4>2. c \in Nat
        BY <2>1, <2>4, <4>1
      <4> QED
        BY <2>1, <3>3, <3>4, <3>6, <4>1, <4>2
    <3> QED
      BY <3>5, <3>6
  <2>9. UpdateKeepsABank
    BY <1>1, <2>4, <2>6 DEF UpdateKeepsABank
  <2> QED
    BY <1>1, <2>3, <2>7, <2>8, <2>9 DEF LinksHaveTheirUrls, OthersStay, SellersGetTheirLink
<1> QED
  BY <1>2, <1>3, <1>4 DEF UpdateExternalBankAccount

LEMMA ConInvStep == ConInv /\ [ConnectNext]_connectVars => ConInv' /\ UpdateKeepsABank
<1> SUFFICES ASSUME ConInv, [ConnectNext]_connectVars
             PROVE  ConInv' /\ UpdateKeepsABank
  OBVIOUS
<1>1. ASSUME NEW a \in Accounts,
             \/ CreateConnectAccount(a) \/ Onboarded(a) \/ OnboardingAddsBank(a)
             \/ CreateExternalBankAccount(a) \/ DeleteExternalAccount(a)
      PROVE  ConInv' /\ UpdateKeepsABank
  <2>1. ConTypes
    BY DEF ConInv
  <2>2. CASE OnboardingAddsBank(a) \/ CreateExternalBankAccount(a)
    <3>1. \A x \in Accounts : banks[x] \subseteq banks'[x]
      BY <2>1, <2>2, BankIsCreated DEF OnboardingAddsBank, CreateExternalBankAccount
    <3> QED
      BY <1>1, <3>1, SellerStep DEF UpdateKeepsABank
  <2>3. CASE DeleteExternalAccount(a)
    <3>1. (\A x \in Accounts : x # a => banks'[x] = banks[x]) /\ a \in unbanked'
      BY <2>1, <2>3, BankIsDeleted DEF DeleteExternalAccount
    <3> QED
      BY <1>1, <3>1, SellerStep DEF UpdateKeepsABank
  <2>4. CASE CreateConnectAccount(a) \/ Onboarded(a)
    BY <1>1, <2>4, SellerStep DEF CreateConnectAccount, Onboarded, UpdateKeepsABank
  <2> QED
    BY <1>1, <2>2, <2>3, <2>4
<1>2. ASSUME NEW r \in ConnectReqs,
             GetConnectAccount(r) \/ RequestAccountLink(r) \/ CreateAccountLink(r)
      PROVE  ConInv' /\ UpdateKeepsABank
  <2>1. UNCHANGED banks
    BY <1>2 DEF GetConnectAccount, RequestAccountLink, CreateAccountLink
  <2> QED
    BY <1>2, <2>1, LinkStep DEF UpdateKeepsABank
<1>3. CASE UNCHANGED connectVars
  <2>1. ConTypes'
    BY <1>3 DEF connectVars, ConInv, ConTypes, ConnectTypeOK
  <2> QED
    BY <1>3, <2>1 DEF connectVars, ConInv, ReplacementsAreSafe, LinksHaveTheirUrls,
                      SellersGetTheirLink, UpdateKeepsABank
<1> QED
  BY <1>1, <1>2, <1>3, BankStep DEF ConnectNext

\* The invariant of the connected accounts, for any number of them, of banks and
\* of requests.
THEOREM ConnectInvariant == ConnectSpec => []ConInv
<1> QED
  BY ConStarts, ConInvStep, PTL DEF ConnectSpec

\* Type correctness of the connected accounts and their banks.
THEOREM ConnectTypesHold == ConnectSpec => []ConnectTypeOK
<1>1. ConInv => ConnectTypeOK
  BY DEF ConInv, ConTypes
<1> QED
  BY <1>1, ConnectInvariant, PTL

\* Replacing bank accounts never leaves a seller without one, however many
\* replacements run at once and whichever of their calls fail; and a seller who is
\* not ready gets a link, or is told what is missing.
THEOREM SellersAreAlwaysServed == ConnectSpec => SellersAreServed
<1>1. ConInv /\ [ConnectNext]_connectVars =>
        [UpdateKeepsABank /\ SellersGetTheirLink']_connectVars
  BY ConInvStep DEF ConInv
<1> QED
  BY <1>1, ConnectInvariant, PTL DEF ConnectSpec, SellersAreServed
-----------------------------------------------------------------------------
(***************************************************************************)
(* ConnectMoney.  The balance of a seller and what the seller was paid add  *)
(* up to what was transferred: each step changes one payout at most, and so *)
(* one amount of the sum.                                                   *)
(***************************************************************************)

PayoutStates == {"pending", "paid", "failed", "canceled"}
PayoutRecord == [holder : Holders, payee : Holders, cents : Nat \ {0}, status : PayoutStates]

\* Every holder pays into its own bank account.
GoodPayout(p) == p \in PayoutRecord /\ p.payee = p.holder
PayoutsAreSound ==
  payouts \in Seq(PayoutRecord) /\ \A n \in DOMAIN payouts : GoodPayout(payouts[n])

FundsAreSound == funds \in [Holders -> Nat] /\ earned \in [Sellers -> Nat] /\ toppedUp \in Nat

MoneyInv ==
  FundsAreSound /\ PayoutsAreSound /\ MovementsAreExact /\ SellersGetWhatTheyEarned
-----------------------------------------------------------------------------
(* What an account was paid *)

ShareOf(p, a) == IF p.payee = a /\ Out(p) THEN p.cents ELSE 0

LEMMA SharesAreAList ==
  ASSUME NEW ps \in Seq(PayoutRecord), NEW a \in Sellers
  PROVE  /\ Shares(ps, a) \in Seq(Int) /\ Len(Shares(ps, a)) = Len(ps)
         /\ \A n \in 1 .. Len(ps) : Shares(ps, a)[n] = ShareOf(ps[n], a)
<1>1. Len(ps) \in Nat /\ DOMAIN ps = 1 .. Len(ps) /\ \A n \in 1 .. Len(ps) : ps[n] \in PayoutRecord
  OBVIOUS
<1>2. \A n \in 1 .. Len(ps) : ps[n].cents \in Int
  BY <1>1 DEF PayoutRecord
<1>3. Shares(ps, a) \in [1 .. Len(ps) -> Int]
  BY <1>1, <1>2 DEF Shares
<1>4. \A n \in 1 .. Len(ps) : Shares(ps, a)[n] = ShareOf(ps[n], a)
  BY <1>1 DEF Shares, ShareOf
<1> QED
  BY <1>1, <1>3, <1>4, FunctionIsList

LEMMA PayoutIsPending ==
  ASSUME NEW h \in Holders, NEW c \in Nat \ {0}
  PROVE  GoodPayout(Payout(h, h, c)) /\ Out(Payout(h, h, c))
  BY DEF GoodPayout, Payout, PayoutRecord, PayoutStates, Out

\* A new payout counts for the one it is paid to.
LEMMA NewPayoutIsPaid ==
  ASSUME NEW ps \in Seq(PayoutRecord), NEW h \in Holders, NEW c \in Nat \ {0}, NEW a \in Sellers
  PROVE  SumOf(Shares(Append(ps, Payout(h, h, c)), a))
           = SumOf(Shares(ps, a)) + (IF h = a THEN c ELSE 0)
<1> DEFINE p == Payout(h, h, c)
           qs == Append(ps, p)
<1>1. p \in PayoutRecord /\ p.payee = h /\ p.cents = c /\ Out(p)
  BY PayoutIsPending DEF GoodPayout, Payout
<1> HIDE DEF p
<1>2. /\ qs \in Seq(PayoutRecord) /\ Len(qs) = Len(ps) + 1 /\ Len(ps) \in Nat
      /\ qs[Len(qs)] = p /\ \A n \in 1 .. Len(ps) : qs[n] = ps[n]
  BY <1>1
<1> HIDE DEF qs
<1>3. \A n \in 1 .. Len(ps) : Shares(ps, a)[n] = Shares(qs, a)[n]
  <2> SUFFICES ASSUME NEW n \in 1 .. Len(ps)
               PROVE  Shares(ps, a)[n] = Shares(qs, a)[n]
    OBVIOUS
  <2>1. n \in 1 .. Len(qs) /\ qs[n] = ps[n]
    BY <1>2
  <2>2. Shares(ps, a)[n] = ShareOf(ps[n], a) /\ Shares(qs, a)[n] = ShareOf(qs[n], a)
    BY <1>2, <2>1, SharesAreAList
  <2> QED
    BY <2>1, <2>2
<1>4. Shares(qs, a)[Len(qs)] = (IF h = a THEN c ELSE 0)
  <2>1. Len(qs) \in 1 .. Len(qs)
    BY <1>2
  <2> QED
    BY <1>1, <1>2, <2>1, SharesAreAList, Zenon DEF ShareOf
<1>5. SumOf(Shares(qs, a)) = SumOf(Shares(ps, a)) + Shares(qs, a)[Len(qs)]
  <2>1. /\ Shares(ps, a) \in Seq(Int) /\ Len(Shares(ps, a)) = Len(ps)
        /\ Shares(qs, a) \in Seq(Int) /\ Len(Shares(qs, a)) = Len(qs)
    BY <1>2, SharesAreAList
  <2> QED
    BY <1>2, <1>3, <2>1, SumGrows
<1> QED
  BY <1>4, <1>5 DEF qs, p

\* The list qs differs from ps in the status of the payout n alone.
StatusSet(ps, n, status, qs) ==
  /\ qs \in Seq(PayoutRecord) /\ Len(qs) = Len(ps) /\ n \in 1 .. Len(ps)
  /\ qs[n].holder = ps[n].holder /\ qs[n].payee = ps[n].payee /\ qs[n].cents = ps[n].cents
  /\ qs[n].status = status
  /\ \A m \in 1 .. Len(ps) : m # n => qs[m] = ps[m]

\* A payout that comes to an end counts no more, and one that is paid counts as before.
LEMMA PayoutEnds ==
  ASSUME NEW ps \in Seq(PayoutRecord), NEW n \in 1 .. Len(ps), ps[n].status = "pending",
         NEW status \in PayoutStates, NEW a \in Sellers, NEW qs, StatusSet(ps, n, status, qs)
  PROVE  /\ ps[n].payee = a /\ status \in {"failed", "canceled"} =>
              SumOf(Shares(qs, a)) = SumOf(Shares(ps, a)) - ps[n].cents
         /\ ps[n].payee # a \/ status \notin {"failed", "canceled"} =>
              SumOf(Shares(qs, a)) = SumOf(Shares(ps, a))
<1>1. ps[n] \in PayoutRecord /\ ps[n].cents \in Int /\ Out(ps[n])
  <2>1. ps[n] \in PayoutRecord
    OBVIOUS
  <2> QED
    BY <2>1 DEF PayoutRecord, Out
<1>2. Out(qs[n]) <=> status \notin {"failed", "canceled"}
  BY DEF Out, PayoutStates, StatusSet
<1>3. /\ Shares(ps, a) \in Seq(Int) /\ Len(Shares(ps, a)) = Len(ps)
      /\ Shares(qs, a) \in Seq(Int) /\ Len(Shares(qs, a)) = Len(ps)
      /\ \A m \in 1 .. Len(ps) :
           Shares(ps, a)[m] = ShareOf(ps[m], a) /\ Shares(qs, a)[m] = ShareOf(qs[m], a)
  BY SharesAreAList DEF StatusSet
<1>4. \A m \in 1 .. Len(Shares(ps, a)) : m # n => Shares(ps, a)[m] = Shares(qs, a)[m]
  BY <1>3 DEF StatusSet
<1>5. SumOf(Shares(qs, a)) = SumOf(Shares(ps, a)) + ShareOf(qs[n], a) - ShareOf(ps[n], a)
  <2>1. SumOf(Shares(qs, a)) = SumOf(Shares(ps, a)) + Shares(qs, a)[n] - Shares(ps, a)[n]
    BY <1>3, <1>4, SumChanges
  <2> QED
    BY <1>3, <2>1
<1>6. SumOf(Shares(ps, a)) \in Int
  BY <1>3, SumIsInt
<1>7. CASE ps[n].payee # a
  <2>1. ShareOf(qs[n], a) = 0 /\ ShareOf(ps[n], a) = 0
    BY <1>7 DEF ShareOf, StatusSet
  <2> QED
    BY <1>5, <1>6, <1>7, <2>1
<1>8. CASE ps[n].payee = a /\ Out(qs[n])
  <2>1. ShareOf(qs[n], a) = ps[n].cents /\ ShareOf(ps[n], a) = ps[n].cents
    BY <1>1, <1>8 DEF ShareOf, StatusSet
  <2> QED
    BY <1>1, <1>2, <1>5, <1>6, <1>8, <2>1
<1>9. CASE ps[n].payee = a /\ ~Out(qs[n])
  <2>1. ShareOf(qs[n], a) = 0 /\ ShareOf(ps[n], a) = ps[n].cents
    BY <1>1, <1>9 DEF ShareOf, StatusSet
  <2> QED
    BY <1>1, <1>2, <1>5, <1>6, <1>9, <2>1
<1> QED
  BY <1>7, <1>8, <1>9

-----------------------------------------------------------------------------
(* The steps of the money *)

LEMMA MoneyRests ==
  ASSUME MoneyInv, UNCHANGED <<funds, toppedUp, earned, payouts, inexact>>
  PROVE  MoneyInv'
<1>1. \A a \in Sellers : PaidTo(a)' = PaidTo(a)
  BY DEF PaidTo
<1> QED
  BY <1>1 DEF MoneyInv, FundsAreSound, PayoutsAreSound, MovementsAreExact, SellersGetWhatTheyEarned

\* Every movement is of a whole number of cents, those that were asked for.
LEMMA CentsAreExact ==
  ASSUME NEW m \in MoveMills
  PROVE  /\ TopupCents(m) \in Int /\ IsExact(TopupCents(m), m)
         /\ TransferCents(m) \in Int /\ IsExact(TransferCents(m), m)
         /\ PayoutCents(m) \in Int /\ IsExact(PayoutCents(m), m)
<1>1. m \in Int
  BY ConnectMoneyAssumption DEF ConnectMoneyAssumption
<1> QED
  BY <1>1, RoundedIsExact DEF TopupCents, TransferCents, PayoutCents

LEMMA TopupInv == ASSUME MoneyInv, CreateTopup PROVE MoneyInv'
<1>1. PICK m \in MoveMills : StripeTopup(TopupCents(m)) /\ Moved("topup", TopupCents(m), m)
  BY DEF CreateTopup
<1> DEFINE c == TopupCents(m)
<1>2. c \in Nat /\ funds' = [funds EXCEPT ![Platform] = @ + c] /\ toppedUp' = toppedUp + c
  BY <1>1, CentsAreExact DEF StripeTopup
<1>3. inexact' = inexact /\ UNCHANGED <<earned, payouts>>
  BY <1>1, CentsAreExact DEF Moved, CreateTopup
<1> HIDE DEF c
<1>4. FundsAreSound'
  <2>1. /\ Platform \in Holders /\ funds \in [Holders -> Nat] /\ toppedUp \in Nat
        /\ earned \in [Sellers -> Nat]
    BY DEF Holders, MoneyInv, FundsAreSound
  <2>2. funds[Platform] + c \in Nat /\ toppedUp + c \in Nat
    BY <1>2, <2>1
  <2>3. funds' \in [Holders -> Nat]
    BY <1>2, <2>1, <2>2
  <2> QED
    BY <1>2, <1>3, <2>1, <2>2, <2>3 DEF FundsAreSound
<1>5. PayoutsAreSound' /\ MovementsAreExact'
  BY <1>3 DEF MoneyInv, PayoutsAreSound, MovementsAreExact
<1>6. \A a \in Sellers : PaidTo(a)' = PaidTo(a) /\ funds'[a] = funds[a]
  BY <1>2, <1>3, ConnectMoneyAssumption
     DEF PaidTo, ConnectMoneyAssumption, MoneyInv, FundsAreSound, Holders
<1> QED
  BY <1>3, <1>4, <1>5, <1>6 DEF MoneyInv, SellersGetWhatTheyEarned

LEMMA PaidIsInt == ASSUME PayoutsAreSound, NEW a \in Sellers PROVE PaidTo(a) \in Int
  BY SharesAreAList, SumIsInt DEF PayoutsAreSound, PaidTo

LEMMA TransferInv == ASSUME MoneyInv, NEW s \in Sellers, CreateTransfer(s) PROVE MoneyInv'
<1>1. PICK m \in MoveMills : StripeTransfer(s, TransferCents(m)) /\ Moved("transfer", TransferCents(m), m)
  BY DEF CreateTransfer
<1> DEFINE c == TransferCents(m)
<1>2. /\ c \in Int /\ c \in 1 .. funds[Platform] /\ earned' = [earned EXCEPT ![s] = @ + c]
      /\ funds' = [funds EXCEPT ![Platform] = @ - c, ![s] = @ + c]
  BY <1>1, CentsAreExact DEF StripeTransfer
<1>3. inexact' = inexact /\ UNCHANGED <<toppedUp, payouts>>
  BY <1>1, CentsAreExact DEF Moved, CreateTransfer
<1> HIDE DEF c
<1>4. /\ Platform \notin Sellers /\ Platform \in Holders /\ Sellers \subseteq Holders
      /\ funds \in [Holders -> Nat] /\ earned \in [Sellers -> Nat] /\ c \in Nat
  BY <1>2, ConnectMoneyAssumption DEF ConnectMoneyAssumption, Holders, MoneyInv, FundsAreSound
<1>5. /\ funds'[Platform] = funds[Platform] - c /\ funds'[s] = funds[s] + c
      /\ earned'[s] = earned[s] + c
      /\ \A a \in Sellers : a # s => funds'[a] = funds[a] /\ earned'[a] = earned[a]
  BY <1>2, <1>4
<1>6. FundsAreSound'
  <2>1. funds[Platform] - c \in Nat /\ funds[s] + c \in Nat /\ earned[s] + c \in Nat
    BY <1>2, <1>4
  <2>2. funds' \in [Holders -> Nat] /\ earned' \in [Sellers -> Nat]
    BY <1>2, <1>4, <2>1
  <2> QED
    BY <1>3, <2>2 DEF FundsAreSound, MoneyInv
<1>7. PayoutsAreSound' /\ MovementsAreExact'
  BY <1>3 DEF MoneyInv, PayoutsAreSound, MovementsAreExact
<1>8. SellersGetWhatTheyEarned'
  <2> SUFFICES ASSUME NEW a \in Sellers
               PROVE  earned'[a] = funds'[a] + PaidTo(a)'
    BY DEF SellersGetWhatTheyEarned
  <2>1. PaidTo(a)' = PaidTo(a) /\ PaidTo(a) \in Int /\ earned[a] = funds[a] + PaidTo(a)
    BY <1>3, PaidIsInt DEF PaidTo, MoneyInv, SellersGetWhatTheyEarned
  <2>2. funds[a] \in Nat /\ earned[a] \in Nat
    BY <1>4
  <2> QED
    BY <1>4, <1>5, <2>1, <2>2
<1> QED
  BY <1>6, <1>7, <1>8 DEF MoneyInv

\* A payout takes from a balance what it pays to the same holder's bank.
LEMMA PayoutInv ==
  ASSUME MoneyInv, NEW h \in Holders, NEW c \in Int, StripePayout(h, h, c),
         UNCHANGED <<toppedUp, earned, inexact>>
  PROVE  MoneyInv'
<1>1. /\ c \in 1 .. funds[h] /\ payouts' = Append(payouts, Payout(h, h, c))
      /\ funds' = [funds EXCEPT ![h] = @ - c]
  BY DEF StripePayout
<1>2. /\ funds \in [Holders -> Nat] /\ c \in Nat \ {0} /\ Sellers \subseteq Holders
      /\ payouts \in Seq(PayoutRecord) /\ \A n \in DOMAIN payouts : GoodPayout(payouts[n])
  BY <1>1 DEF MoneyInv, FundsAreSound, PayoutsAreSound, Holders
<1>3. FundsAreSound'
  <2>1. funds[h] - c \in Nat
    BY <1>1, <1>2
  <2> QED
    BY <1>1, <1>2, <2>1 DEF FundsAreSound, MoneyInv
<1>4. PayoutsAreSound' /\ MovementsAreExact'
  <2> DEFINE p == Payout(h, h, c)
  <2>1. GoodPayout(p) /\ p \in PayoutRecord
    BY <1>2, PayoutIsPending DEF GoodPayout
  <2> HIDE DEF p
  <2>2. Append(payouts, p) \in Seq(PayoutRecord)
    BY <1>2, <2>1
  <2>3. \A n \in DOMAIN Append(payouts, p) : GoodPayout(Append(payouts, p)[n])
    BY <1>2, <2>1
  <2> QED
    BY <1>1, <2>2, <2>3 DEF p, PayoutsAreSound, MoneyInv, MovementsAreExact
<1>5. SellersGetWhatTheyEarned'
  <2> SUFFICES ASSUME NEW a \in Sellers
               PROVE  earned'[a] = funds'[a] + PaidTo(a)'
    BY DEF SellersGetWhatTheyEarned
  <2>1. /\ earned'[a] = funds[a] + PaidTo(a) /\ PaidTo(a) \in Int /\ funds[a] \in Nat
    BY <1>2, PaidIsInt DEF MoneyInv, SellersGetWhatTheyEarned
  <2>2. PaidTo(a)' = PaidTo(a) + (IF h = a THEN c ELSE 0)
    BY <1>1, <1>2, NewPayoutIsPaid DEF PaidTo
  <2>3. funds'[a] = IF h = a THEN funds[a] - c ELSE funds[a]
    BY <1>1, <1>2
  <2>4. CASE h = a
    BY <1>2, <2>1, <2>2, <2>3, <2>4
  <2>5. CASE h # a
    BY <1>2, <2>1, <2>2, <2>3, <2>5
  <2> QED
    BY <2>4, <2>5
<1> QED
  BY <1>3, <1>4, <1>5 DEF MoneyInv

\* A payout is paid, or its amount goes back to where it came from.
LEMMA PayoutEndInv ==
  ASSUME MoneyInv, NEW n \in DOMAIN payouts, payouts[n].status = "pending",
         NEW status \in {"paid", "failed", "canceled"}, SetStatus(n, status),
         \/ status = "paid" /\ UNCHANGED funds
         \/ status # "paid" /\ GiveBack(n),
         UNCHANGED <<toppedUp, earned, inexact>>
  PROVE  MoneyInv'
<1> DEFINE h == payouts[n].holder
           c == payouts[n].cents
<1>1. /\ payouts \in Seq(PayoutRecord) /\ Len(payouts) \in Nat /\ DOMAIN payouts = 1 .. Len(payouts)
      /\ \A m \in DOMAIN payouts : GoodPayout(payouts[m])
  BY DEF MoneyInv, PayoutsAreSound
<1>2. /\ h \in Holders /\ c \in Nat /\ payouts[n].payee = h /\ Sellers \subseteq Holders
      /\ status \in PayoutStates /\ funds \in [Holders -> Nat]
  <2>1. payouts[n] \in PayoutRecord /\ payouts[n].payee = h
    BY <1>1 DEF GoodPayout
  <2> QED
    BY <2>1 DEF PayoutRecord, PayoutStates, Holders, MoneyInv, FundsAreSound
<1>3. /\ payouts' \in Seq(PayoutRecord) /\ Len(payouts') = Len(payouts)
      /\ \A m \in 1 .. Len(payouts) : payouts'[m].holder = payouts[m].holder
                                      /\ payouts'[m].payee = payouts[m].payee
      /\ StatusSet(payouts, n, status, payouts')
  <2> DEFINE p == [payouts[n] EXCEPT !.status = status]
  <2>1. payouts' = [payouts EXCEPT ![n] = p]
    BY DEF SetStatus
  <2>2. p \in PayoutRecord /\ p.holder = payouts[n].holder /\ p.payee = payouts[n].payee
    BY <1>1, <1>2 DEF GoodPayout, PayoutRecord
  <2>3. p.cents = payouts[n].cents /\ p.status = status
    BY <1>1 DEF GoodPayout, PayoutRecord
  <2> HIDE DEF p
  <2>4. /\ payouts' \in Seq(PayoutRecord) /\ Len(payouts') = Len(payouts) /\ n \in 1 .. Len(payouts)
        /\ payouts'[n] = p /\ \A m \in 1 .. Len(payouts) : m # n => payouts'[m] = payouts[m]
    BY <1>1, <2>1, <2>2
  <2> QED
    BY <2>2, <2>3, <2>4 DEF StatusSet
<1>4. funds' = IF status = "paid" THEN funds ELSE [funds EXCEPT ![h] = @ + c]
  BY DEF GiveBack
<1>8. ASSUME NEW a \in Sellers
      PROVE  /\ h = a /\ status # "paid" => PaidTo(a)' = PaidTo(a) - c
             /\ h # a \/ status = "paid" => PaidTo(a)' = PaidTo(a)
  <2>1. n \in 1 .. Len(payouts) /\ payouts[n].status = "pending"
    BY <1>1
  <2>3. /\ payouts[n].payee = a /\ status \in {"failed", "canceled"} =>
             SumOf(Shares(payouts', a)) = SumOf(Shares(payouts, a)) - payouts[n].cents
        /\ payouts[n].payee # a \/ status \notin {"failed", "canceled"} =>
             SumOf(Shares(payouts', a)) = SumOf(Shares(payouts, a))
    BY <1>1, <1>2, <1>3, <2>1, PayoutEnds
  <2> QED
    BY <1>2, <2>3 DEF PaidTo
<1> HIDE DEF h, c
<1>5. FundsAreSound'
  <2>1. funds[h] + c \in Nat
    BY <1>2
  <2>2. funds' \in [Holders -> Nat]
    BY <1>2, <1>4, <2>1
  <2> QED
    BY <2>2 DEF FundsAreSound, MoneyInv
<1>6. PayoutsAreSound' /\ MovementsAreExact'
  <2>1. \A m \in DOMAIN payouts' : GoodPayout(payouts'[m])
    <3> SUFFICES ASSUME NEW m \in 1 .. Len(payouts)
                 PROVE  GoodPayout(payouts'[m])
      BY <1>3
    <3>1. payouts'[m] \in PayoutRecord
      BY <1>1, <1>3
    <3>2. payouts[m].payee = payouts[m].holder
      BY <1>1 DEF GoodPayout
    <3> QED
      BY <1>3, <3>1, <3>2 DEF GoodPayout
  <2> QED
    BY <1>3, <2>1 DEF PayoutsAreSound, MoneyInv, MovementsAreExact
<1>7. SellersGetWhatTheyEarned'
  <2> SUFFICES ASSUME NEW a \in Sellers
               PROVE  earned'[a] = funds'[a] + PaidTo(a)'
    BY DEF SellersGetWhatTheyEarned
  <2>1. /\ earned'[a] = funds[a] + PaidTo(a) /\ PaidTo(a) \in Int /\ funds[a] \in Nat
    BY <1>2, PaidIsInt DEF MoneyInv, SellersGetWhatTheyEarned
  <2>2. /\ h = a /\ status # "paid" => PaidTo(a)' = PaidTo(a) - c
        /\ h # a \/ status = "paid" => PaidTo(a)' = PaidTo(a)
    BY <1>8
  <2>3. CASE h = a /\ status # "paid"
    <3>1. funds'[a] = funds[a] + c /\ PaidTo(a)' = PaidTo(a) - c
      BY <1>2, <1>4, <2>2, <2>3
    <3> QED
      BY <1>2, <2>1, <3>1
  <2>4. CASE h # a \/ status = "paid"
    <3>1. funds'[a] = funds[a] /\ PaidTo(a)' = PaidTo(a)
      BY <1>2, <1>4, <2>1, <2>2, <2>4
    <3> QED
      BY <2>1, <3>1
  <2> QED
    BY <2>3, <2>4
<1> QED
  BY <1>5, <1>6, <1>7 DEF MoneyInv

LEMMA MoneyStarts == MoneyInit => MoneyInv
<1> SUFFICES ASSUME MoneyInit PROVE MoneyInv
  OBVIOUS
<1>1. FundsAreSound /\ MovementsAreExact
  BY DEF MoneyInit, FundsAreSound, MovementsAreExact
<1>2. payouts \in Seq(PayoutRecord) /\ payouts = <<>> /\ Len(payouts) = 0
  <2>1. <<>> \in Seq(PayoutRecord) /\ Len(<<>>) = 0
    OBVIOUS
  <2> QED
    BY <2>1, Zenon DEF MoneyInit
<1>3. PayoutsAreSound
  BY <1>2 DEF PayoutsAreSound
<1>4. \A a \in Sellers : PaidTo(a) = 0
  <2> SUFFICES ASSUME NEW a \in Sellers PROVE PaidTo(a) = 0
    OBVIOUS
  <2>1. Shares(payouts, a) \in Seq(Int) /\ Len(Shares(payouts, a)) = 0
    BY <1>2, SharesAreAList
  <2> QED
    BY <2>1, SumsOfList DEF PaidTo
<1>5. \A a \in Sellers : earned[a] = 0 /\ funds[a] = 0
  BY DEF MoneyInit, Holders
<1> QED
  BY <1>1, <1>3, <1>4, <1>5 DEF MoneyInv, SellersGetWhatTheyEarned

LEMMA MoneyStep == ASSUME MoneyInv, [MoneyNext]_moneyVars PROVE MoneyInv'
<1>1. CASE UNCHANGED moneyVars
  BY <1>1, MoneyRests DEF moneyVars
<1>2. CASE CreateTopup
  BY <1>2, TopupInv
<1>3. CASE AutomaticPayout
  <2>1. PICK c \in 1 .. funds[Platform] : StripePayout(Platform, Platform, c)
    BY <1>3 DEF AutomaticPayout
  <2> QED
    BY <1>3, <2>1, PayoutInv DEF AutomaticPayout, Holders
<1>4. ASSUME NEW a \in Sellers, CreateTransfer(a) PROVE MoneyInv'
  BY <1>4, TransferInv
<1>5. ASSUME NEW a \in Sellers, CreatePayout(a) PROVE MoneyInv'
  <2>1. PICK m \in MoveMills :
          PayoutFromSeller(a, PayoutCents(m)) /\ Moved("payout", PayoutCents(m), m)
    BY <1>5 DEF CreatePayout
  <2>2. PayoutCents(m) \in Int /\ inexact' = inexact
    BY <2>1, CentsAreExact DEF Moved
  <2> QED
    BY <1>5, <2>1, <2>2, PayoutInv DEF CreatePayout, PayoutFromSeller, Holders
<1>6. ASSUME NEW a \in Sellers, ReadStatement(a) \/ GetPayoutStatus(a) PROVE MoneyInv'
  BY <1>6, MoneyRests DEF ReadStatement, GetPayoutStatus
<1>7. ASSUME NEW n \in DOMAIN payouts, PayoutSettles(n) PROVE MoneyInv'
  <2>1. CASE SetStatus(n, "paid") /\ UNCHANGED funds
    BY <1>7, <2>1, PayoutEndInv DEF PayoutSettles
  <2>2. CASE SetStatus(n, "failed") /\ GiveBack(n)
    BY <1>7, <2>2, PayoutEndInv DEF PayoutSettles
  <2> QED
    BY <1>7, <2>1, <2>2 DEF PayoutSettles
<1>8. ASSUME NEW n \in DOMAIN payouts, CancelPayout(n) PROVE MoneyInv'
  <2>1. CASE payouts[n].holder = Platform
    BY <1>8, <2>1, PayoutEndInv DEF CancelPayout, StripeCancelPayout
  <2>2. CASE payouts[n].holder # Platform
    BY <1>8, <2>2, MoneyRests DEF CancelPayout, StripeCancelPayout
  <2> QED
    BY <2>1, <2>2
<1> QED
  BY <1>1, <1>2, <1>3, <1>4, <1>5, <1>6, <1>7, <1>8 DEF MoneyNext

\* The inductive invariant, for any number of sellers, of payouts and of amounts.
THEOREM MoneyInvariant == MoneySpec => []MoneyInv
  BY MoneyStarts, MoneyStep, PTL DEF MoneySpec

LEMMA MoneyTypes == MoneyInv => MoneyTypeOK
<1> SUFFICES ASSUME MoneyInv PROVE MoneyTypeOK
  OBVIOUS
<1>1. ASSUME NEW n \in DOMAIN payouts
      PROVE  payouts[n].holder \in Holders /\ payouts[n].cents \in Nat \ {0}
  <2>1. payouts[n] \in PayoutRecord
    BY DEF MoneyInv, PayoutsAreSound, GoodPayout
  <2> QED
    BY <2>1 DEF PayoutRecord
<1> QED
  BY <1>1 DEF MoneyInv, FundsAreSound, MoneyTypeOK

\* Type correctness: no balance is ever below zero.
THEOREM MoneyTypesHold == MoneySpec => []MoneyTypeOK
  BY MoneyTypes, MoneyInvariant, PTL

\* A list of one payout at least shows the newest.
LEMMA NewestIsShown ==
  ASSUME PayoutsAreSound, NEW a \in Holders, NEW limit \in Nat \ {0}, Newest(PayoutsOf(a), limit) = {}
  PROVE  PayoutsOf(a) = {}
<1> DEFINE ns == PayoutsOf(a)
<1>1. ns \subseteq 1 .. Len(payouts) /\ Len(payouts) \in Nat
  BY DEF PayoutsOf, PayoutsAreSound
<1> HIDE DEF ns
<1> SUFFICES ASSUME ns # {} PROVE FALSE
  BY DEF ns
<1>2. ns \subseteq Nat /\ \A m \in ns : m <= Len(payouts)
  BY <1>1
<1>3. PICK k \in ns : \A m \in ns : m <= k
  BY <1>1, <1>2, GreatestNumber
<1>4. {m \in ns : m > k} = {}
  <2>1. \A m \in ns : m \in Nat /\ k \in Nat /\ m <= k
    BY <1>2, <1>3
  <2>2. \A m \in ns : ~(m > k)
    BY <2>1
  <2> QED
    BY <2>2
<1>5. Cardinality({m \in ns : m > k}) = 0
  BY <1>4, FS_EmptySet
<1>6. k \in Newest(ns, limit)
  BY <1>3, <1>5 DEF Newest
<1> QED
  BY <1>6 DEF ns

\* What run operations checks of the sellers' money, for any number of accounts,
\* movements and amounts: balances and payouts add up to what was earned, to the cent,
\* and a list without rows means that there was no payout.
THEOREM SellersAreAlwaysPaid == MoneySpec => SellersArePaid
<1>1. MoneyInv /\ [MoneyNext]_moneyVars =>
        [MovementsAreExact' /\ SellersGetWhatTheyEarned' /\ StatementShowsPayouts]_moneyVars
  <2> SUFFICES ASSUME MoneyInv, MoneyNext
               PROVE  MovementsAreExact' /\ SellersGetWhatTheyEarned' /\ StatementShowsPayouts
    OBVIOUS
  <2>1. MovementsAreExact' /\ SellersGetWhatTheyEarned'
    BY MoneyStep DEF MoneyInv
  <2>2. ASSUME NEW a \in Sellers, ReadStatement(a) PROVE StatementShowsPayouts
    <3>1. PICK limit \in ListLimits :
            statement' = [holder |-> a, rows |-> AdapterListPayouts(a, limit),
                          left |-> AdapterBalance(a)]
      BY <2>2 DEF ReadStatement
    <3>2. ListLimit(limit) \in Nat \ {0}
      BY ConnectMoneyAssumption DEF ConnectMoneyAssumption, ListLimit
    <3>3. statement'.holder = a /\ statement'.rows = Newest(PayoutsOf(a), ListLimit(limit))
      BY <3>1 DEF AdapterListPayouts
    <3>4. a \in Holders
      BY DEF Holders
    <3> QED
      BY <3>2, <3>3, <3>4, NewestIsShown DEF StatementShowsPayouts, MoneyInv
  <2>3. ASSUME NEW a \in Sellers, GetPayoutStatus(a) PROVE StatementShowsPayouts
    BY <2>3 DEF GetPayoutStatus, StatementShowsPayouts
  <2>4. ASSUME statement' = statement PROVE StatementShowsPayouts
    BY <2>4 DEF StatementShowsPayouts
  <2> QED
    BY <2>1, <2>2, <2>3, <2>4
       DEF MoneyNext, CreateTopup, AutomaticPayout, CreateTransfer, CreatePayout,
           PayoutSettles, CancelPayout
<1> QED
  BY <1>1, MoneyInvariant, PTL DEF MoneySpec, SellersArePaid
-----------------------------------------------------------------------------
(* The components side by side *)

LEMMA OnePartMoves ==
  [Next]_mcVars =>
    /\ [AccountsNext]_accountVars /\ [PaymentsNext]_paymentVars /\ [MethodsNext]_methodVars
    /\ [ConnectNext]_connectVars /\ [MoneyNext]_moneyVars
<1> SUFFICES ASSUME [Next]_mcVars
             PROVE  /\ [AccountsNext]_accountVars /\ [PaymentsNext]_paymentVars
                    /\ [MethodsNext]_methodVars /\ [ConnectNext]_connectVars /\ [MoneyNext]_moneyVars
  OBVIOUS
<1>1. CASE UNCHANGED mcVars
  BY <1>1 DEF mcVars
<1>2. CASE Next
  BY <1>2 DEF Next
<1> QED
  BY <1>1, <1>2

\* The module that runs the components side by side is faithful to each of them: its
\* behaviours are behaviours of every one, so that every theorem about one is about it.
THEOREM EachPartKeepsItsSpec ==
  Spec => AccountsSpec /\ PaymentsSpec /\ MethodsSpec /\ ConnectSpec /\ MoneySpec
<1>1. Init => AccountsInit /\ PaymentsInit /\ MethodsInit /\ ConnectInit /\ MoneyInit
  BY DEF Init
<1> QED
  BY <1>1, OnePartMoves, PTL
     DEF Spec, AccountsSpec, PaymentsSpec, MethodsSpec, ConnectSpec, MoneySpec

\* Type correctness of run operations: of the accounts and of the four Stripe components.
THEOREM TypesHold == Spec => []TypeOK
  BY EachPartKeepsItsSpec, AccountTypesHold, PaymentsTypesHold, MethodsTypesHold,
     ConnectTypesHold, MoneyTypesHold, PTL DEF TypeOK
=============================================================================
