-------------------------- MODULE FairRotationProofs --------------------------
(* What the drain loop of the pool promises its producers, for any number of *)
(* producers, any number of items and whichever items find a runner.         *)
EXTENDS FairRotation, FairQueueProofs, FiniteSetTheorems

-----------------------------------------------------------------------------
(* The order of service                                                      *)

(* k is served before j.                                                     *)
Before(s, k, j) == \E a, b \in DOMAIN s : a < b /\ s[a] = k /\ s[b] = j

(* Who stands before whom when a key joins at either end or leaves.          *)
LEMMA BeforeAppend ==
    ASSUME NEW S, NEW s \in Seq(S), NEW x \in S, NEW k, NEW j, Before(Append(s, x), k, j)
    PROVE  Before(s, k, j) \/ (j = x /\ Member(s, k))
<1>1. /\ DOMAIN s = 1 .. Len(s) /\ Len(s) \in Nat
      /\ DOMAIN Append(s, x) = 1 .. Len(s) + 1
      /\ \A i \in 1 .. Len(s) : Append(s, x)[i] = s[i]
      /\ Append(s, x)[Len(s) + 1] = x
    BY AppendProperties, LenProperties
<1> QED
    BY <1>1 DEF Before, Member

LEMMA BeforePrepend ==
    ASSUME NEW S, NEW s \in Seq(S), NEW x \in S, NEW k, NEW j, Before(<< x >> \o s, k, j)
    PROVE  Before(s, k, j) \/ (k = x /\ Member(s, j))
<1> DEFINE p == << x >> \o s
<1>1. /\ << x >> \in Seq(S) /\ Len(<< x >>) = 1 /\ << x >>[1] = x
      /\ DOMAIN s = 1 .. Len(s) /\ Len(s) \in Nat
    BY LenProperties
<1>2. /\ p \in Seq(S) /\ Len(p) = Len(s) + 1
      /\ p[1] = x /\ \A i \in 2 .. Len(s) + 1 : p[i] = s[i - 1]
    BY <1>1, ConcatProperties
<1>3. DOMAIN p = 1 .. Len(s) + 1
    BY <1>2, LenProperties
<1> HIDE DEF p
<1>4. PICK a \in DOMAIN p, b \in DOMAIN p : a < b /\ p[a] = k /\ p[b] = j
    BY DEF Before, p
<1>5. b - 1 \in DOMAIN s /\ s[b - 1] = j
    BY <1>1, <1>2, <1>3, <1>4
<1>6. a # 1 => a - 1 \in DOMAIN s /\ s[a - 1] = k /\ a - 1 < b - 1
    BY <1>1, <1>2, <1>3, <1>4
<1> QED
    BY <1>2, <1>4, <1>5, <1>6 DEF Before, Member

LEMMA BeforeTail ==
    ASSUME NEW S, NEW s \in Seq(S), s # << >>, NEW k, NEW j, Before(Tail(s), k, j)
    PROVE  Before(s, k, j)
<1>1. /\ Len(s) \in Nat \ {0} /\ DOMAIN s = 1 .. Len(s) /\ DOMAIN Tail(s) = 1 .. Len(s) - 1
      /\ \A i \in 1 .. Len(s) - 1 : Tail(s)[i] = s[i + 1]
    BY EmptySeq, LenProperties, HeadTailProperties
<1>2. PICK a \in DOMAIN Tail(s), b \in DOMAIN Tail(s) : a < b /\ Tail(s)[a] = k /\ Tail(s)[b] = j
    BY DEF Before
<1>3. /\ a + 1 \in DOMAIN s /\ b + 1 \in DOMAIN s /\ a + 1 < b + 1
      /\ s[a + 1] = k /\ s[b + 1] = j
    BY <1>1, <1>2
<1> QED
    BY <1>3 DEF Before

LEMMA BeforeWithout ==
    ASSUME NEW S, NEW s \in Seq(S), NEW x \in S, NEW k, NEW j, Before(WithoutKey(s, x), k, j)
    PROVE  Before(s, k, j)
<1> DEFINE w == WithoutKey(s, x)
<1>1. CASE ~Member(s, x)
    BY <1>1 DEF WithoutKey
<1>2. CASE Member(s, x)
    <2>1. PICK i \in DOMAIN s : \A n \in 1 .. Len(s) - 1 : w[n] = IF n < i THEN s[n] ELSE s[n + 1]
        BY <1>2, WithoutKeyPlaces
    <2>2. w \in Seq(S) /\ Len(w) = Len(s) - 1
        BY <1>2, WithoutKeyPlaces
    <2>3. /\ DOMAIN s = 1 .. Len(s) /\ Len(s) \in Nat /\ i \in 1 .. Len(s)
          /\ DOMAIN w = 1 .. Len(s) - 1
        BY <2>2, LenProperties
    <2> DEFINE at(n) == IF n < i THEN n ELSE n + 1
    <2> HIDE DEF w
    <2>4. \A n \in DOMAIN w : at(n) \in DOMAIN s /\ w[n] = s[at(n)]
        BY <2>1, <2>3
    <2>5. PICK a \in DOMAIN w, b \in DOMAIN w : a < b /\ w[a] = k /\ w[b] = j
        BY DEF Before, w
    <2>6. at(a) < at(b)
        BY <2>3, <2>5
    <2> QED
        BY <2>4, <2>5, <2>6 DEF Before
<1> QED
    BY <1>1, <1>2

(* The head of the rotation is before every other key in it.                 *)
LEMMA BeforeOthers ==
    ASSUME NEW S, NEW s \in Seq(S), s # << >>, NEW j, Member(s, j), j # Head(s)
    PROVE  Before(s, Head(s), j)
<1>1. Len(s) \in Nat \ {0} /\ DOMAIN s = 1 .. Len(s) /\ Head(s) = s[1]
    BY EmptySeq, LenProperties
<1> QED
    BY <1>1 DEF Before, Member

(* A shift leaves the served key before nobody, and puts nobody else before  *)
(* a key it was not before.                                                  *)
LEMMA BeforeShift ==
    ASSUME NEW Keys, NEW Items, NEW p \in QueueType(Keys, Items),
           RotationExact(p), ~Exhausted(p), NEW k, NEW j, Before(ShiftRest(p).order, k, j)
    PROVE  k # NextKey(p) /\ (j # NextKey(p) => Before(p.order, k, j))
<1> DEFINE h == Head(p.order)
           others == Tail(p.order)
<1>1. /\ p.order \in Seq(Keys) /\ p.order # << >> /\ h \in Keys
      /\ others \in Seq(Keys) /\ ~Member(others, h)
    BY TailMembers DEF QueueType, Exhausted, RotationExact
<1>2. NextKey(p) = h /\ ShiftRest(p).order \in {others, Append(others, h)}
    BY DEF NextKey, ShiftRest
<1>3. Before(others, k, j) => Before(p.order, k, j)
    BY <1>1, BeforeTail
<1>4. Before(others, k, j) => Member(others, k)
    BY DEF Before, Member
<1> HIDE DEF h, others
<1>5. Before(others, k, j) \/ (j = h /\ Member(others, k))
    BY <1>1, <1>2, BeforeAppend
<1> QED
    BY <1>1, <1>2, <1>3, <1>4, <1>5

(* Putting an item back puts its key first and nobody else before a key it   *)
(* was not before.                                                           *)
LEMMA BeforeUnshift ==
    ASSUME NEW Keys, NEW Items, NEW p \in QueueType(Keys, Items), RotationExact(p),
           NEW x \in Keys, NEW k, NEW j, Before(UnshiftOrder(p, x), k, j)
    PROVE  k = x \/ (j # x /\ Before(p.order, k, j))
<1> DEFINE w == WithoutKey(p.order, x)
<1>1. p.order \in Seq(Keys) /\ w \in Seq(Keys) /\ ~Member(w, x)
    BY WithoutKeyMembers DEF QueueType, RotationExact
<1>2. Before(w, k, j) => Before(p.order, k, j)
    BY <1>1, BeforeWithout
<1>3. Before(w, k, j) => Member(w, j)
    BY DEF Before, Member
<1> HIDE DEF w
<1>4. Before(w, k, j) \/ k = x
    BY <1>1, BeforePrepend DEF UnshiftOrder, w
<1> QED
    BY <1>1, <1>2, <1>3, <1>4

-----------------------------------------------------------------------------
(* The lanes                                                                 *)

Item == Producers \X Nat

(* A lane holds items of its producer, numbered upwards: between two of them *)
(* there are at least as many numbers as places.                             *)
LaneOf(s, k, n) ==
    /\ \A i \in DOMAIN s : s[i][1] = k /\ s[i][2] \in 1 .. n
    /\ \A i, j \in DOMAIN s : i < j => j - i <= s[j][2] - s[i][2]

(* The producer's next item goes to the end of its lane, ...                 *)
LEMMA LaneGrows ==
    ASSUME NEW s \in Seq(Item), NEW k \in Producers, NEW n \in Nat, LaneOf(s, k, n)
    PROVE  LaneOf(Append(s, << k, n + 1 >>), k, n + 1)
<1> DEFINE x == << k, n + 1 >>
           t == Append(s, x)
<1>1. x \in Item /\ x[1] = k /\ x[2] = n + 1
    BY DEF Item
<1> HIDE DEF x
<1>2. /\ DOMAIN s = 1 .. Len(s) /\ Len(s) \in Nat /\ DOMAIN t = 1 .. Len(s) + 1
      /\ \A i \in 1 .. Len(s) : t[i] = s[i]
      /\ t[Len(s) + 1] = x
    BY <1>1, AppendProperties, LenProperties
<1> HIDE DEF t
<1>3. \A i \in DOMAIN t : t[i][1] = k /\ t[i][2] \in 1 .. n + 1
    BY <1>1, <1>2 DEF LaneOf
<1>4. ASSUME NEW i \in DOMAIN t, NEW j \in DOMAIN t, i < j
      PROVE  j - i <= t[j][2] - t[i][2]
    <2>1. CASE j <= Len(s)
        BY <1>2, <1>4, <2>1 DEF LaneOf
    <2>2. CASE j = Len(s) + 1
        <3>1. s[Len(s)][2] \in 1 .. n /\ s[i][2] \in 1 .. n /\ i \in 1 .. Len(s)
            BY <1>2, <1>4, <2>2 DEF LaneOf
        <3>2. Len(s) - i <= s[Len(s)][2] - s[i][2]
            BY <1>2, <1>4, <2>2, <3>1 DEF LaneOf
        <3> QED
            BY <1>1, <1>2, <2>2, <3>1, <3>2
    <2> QED
        BY <1>2, <2>1, <2>2
<1> QED
    BY <1>3, <1>4 DEF LaneOf, t, x

(* ... an item that comes before all of them goes to its head, ...           *)
LEMMA LaneTakesBack ==
    ASSUME NEW s \in Seq(Item), NEW k \in Producers, NEW n \in Nat, LaneOf(s, k, n),
           NEW x \in Item, x[1] = k, x[2] \in 1 .. n, \A i \in DOMAIN s : x[2] < s[i][2]
    PROVE  LaneOf(<< x >> \o s, k, n)
<1> DEFINE p == << x >> \o s
<1>1. /\ << x >> \in Seq(Item) /\ Len(<< x >>) = 1 /\ << x >>[1] = x
      /\ DOMAIN s = 1 .. Len(s) /\ Len(s) \in Nat
    BY LenProperties
<1>2. /\ p \in Seq(Item) /\ Len(p) = Len(s) + 1
      /\ p[1] = x /\ \A i \in 2 .. Len(s) + 1 : p[i] = s[i - 1]
    BY <1>1, ConcatProperties
<1>3. DOMAIN p = 1 .. Len(s) + 1
    BY <1>2, LenProperties
<1> HIDE DEF p
<1>4. \A i \in DOMAIN p : i # 1 => i - 1 \in DOMAIN s /\ p[i] = s[i - 1]
    BY <1>1, <1>2, <1>3
<1>5. \A i \in DOMAIN p : p[i][1] = k /\ p[i][2] \in 1 .. n
    BY <1>2, <1>4 DEF LaneOf
<1>6. ASSUME NEW i \in DOMAIN p, NEW j \in DOMAIN p, i < j
      PROVE  j - i <= p[j][2] - p[i][2]
    <2>1. j - 1 \in DOMAIN s /\ p[j] = s[j - 1] /\ s[j - 1][2] \in 1 .. n
        BY <1>1, <1>3, <1>4, <1>6 DEF LaneOf
    <2>2. CASE i = 1
        <3>1. 1 \in DOMAIN s /\ s[1][2] \in 1 .. n /\ x[2] < s[1][2]
            BY <1>1, <2>1 DEF LaneOf
        <3>2. j - 1 > 1 => (j - 1) - 1 <= s[j - 1][2] - s[1][2]
            BY <2>1, <3>1 DEF LaneOf
        <3> QED
            BY <1>1, <1>2, <2>1, <2>2, <3>1, <3>2
    <2>3. CASE i # 1
        <3>1. i - 1 \in DOMAIN s /\ p[i] = s[i - 1] /\ i - 1 < j - 1
            BY <1>3, <1>4, <1>6, <2>3
        <3>2. (j - 1) - (i - 1) <= s[j - 1][2] - s[i - 1][2]
            BY <2>1, <3>1 DEF LaneOf
        <3> QED
            BY <1>3, <2>1, <3>1, <3>2
    <2> QED
        BY <2>2, <2>3
<1> QED
    BY <1>5, <1>6 DEF LaneOf, p

(* ... and the head of the lane, which is before all others, leaves it.      *)
LEMMA LaneShrinks ==
    ASSUME NEW s \in Seq(Item), s # << >>, NEW k \in Producers, NEW n \in Nat, LaneOf(s, k, n)
    PROVE  /\ LaneOf(Tail(s), k, n)
           /\ Head(s) \in Item /\ Head(s)[1] = k /\ Head(s)[2] \in 1 .. n
           /\ \A i \in DOMAIN Tail(s) : Head(s)[2] < Tail(s)[i][2] /\ \E m \in DOMAIN s : Tail(s)[i] = s[m]
<1>1. /\ Len(s) \in Nat \ {0} /\ DOMAIN s = 1 .. Len(s) /\ DOMAIN Tail(s) = 1 .. Len(s) - 1
      /\ Head(s) = s[1] /\ Head(s) \in Item
      /\ \A i \in 1 .. Len(s) - 1 : Tail(s)[i] = s[i + 1]
    BY EmptySeq, LenProperties, HeadTailProperties
<1> DEFINE t == Tail(s)
<1>2. \A i \in DOMAIN t : i + 1 \in DOMAIN s /\ t[i] = s[i + 1]
    BY <1>1
<1>3. 1 \in DOMAIN s /\ \A i \in DOMAIN t : i \in Nat \ {0}
    BY <1>1
<1> HIDE DEF t
<1>4. \A i \in DOMAIN t : t[i][1] = k /\ t[i][2] \in 1 .. n
    BY <1>2 DEF LaneOf
<1>5. ASSUME NEW i \in DOMAIN t, NEW j \in DOMAIN t, i < j
      PROVE  j - i <= t[j][2] - t[i][2]
    <2>1. (j + 1) - (i + 1) <= s[j + 1][2] - s[i + 1][2]
        BY <1>2, <1>3, <1>5 DEF LaneOf
    <2> QED
        BY <1>2, <1>3, <2>1
<1>6. ASSUME NEW i \in DOMAIN t PROVE s[1][2] < t[i][2] /\ \E m \in DOMAIN s : t[i] = s[m]
    <2>1. (i + 1) - 1 <= s[i + 1][2] - s[1][2]
        BY <1>2, <1>3 DEF LaneOf
    <2> QED
        BY <1>2, <1>3, <1>4, <2>1 DEF LaneOf
<1> QED
    BY <1>1, <1>3, <1>4, <1>5, <1>6 DEF LaneOf, t

(* A lane is no longer than its producer has pushed items.                   *)
LEMMA LaneBound ==
    ASSUME NEW s \in Seq(Item), NEW k, NEW n \in Nat, LaneOf(s, k, n)
    PROVE  Len(s) <= n
<1>1. DOMAIN s = 1 .. Len(s) /\ Len(s) \in Nat
    BY LenProperties
<1>2. CASE Len(s) >= 1
    <2>1. /\ 1 \in DOMAIN s /\ Len(s) \in DOMAIN s
          /\ s[1][2] \in 1 .. n /\ s[Len(s)][2] \in 1 .. n
        BY <1>1, <1>2 DEF LaneOf
    <2>2. 1 < Len(s) => Len(s) - 1 <= s[Len(s)][2] - s[1][2]
        BY <2>1 DEF LaneOf
    <2> QED
        BY <1>1, <2>1, <2>2
<1> QED
    BY <1>1, <1>2

(* No lane holds an item twice.                                              *)
LEMMA LaneOnce ==
    ASSUME NEW s \in Seq(Item), NEW k, NEW n \in Nat, LaneOf(s, k, n)
    PROVE  Once(s)
<1>1. \A i \in DOMAIN s : i \in Nat
    BY LenProperties
<1>2. ASSUME NEW i \in DOMAIN s, NEW j \in DOMAIN s, i < j PROVE s[i] # s[j]
    <2>1. j - i <= s[j][2] - s[i][2] /\ s[i][2] \in 1 .. n /\ s[j][2] \in 1 .. n
        BY <1>2 DEF LaneOf
    <2> QED
        BY <1>1, <1>2, <2>1
<1> QED
    BY <1>1, <1>2 DEF Once

-----------------------------------------------------------------------------
(* The count                                                                 *)

Counted(p) == IsFiniteSet(Places(p)) /\ p.count = Cardinality(Places(p))

(* One more item in a lane is one more place, ...                            *)
LEMMA OneMore ==
    ASSUME NEW p \in QueueType(Producers, Item), NEW r \in QueueType(Producers, Item),
           NEW k \in Producers, NEW t \in Seq(Item), r.lanes = [p.lanes EXCEPT ![k] = t],
           Len(t) = Len(p.lanes[k]) + 1, Len(t) <= MaxPushed,
           Counted(p), r.count = p.count + 1
    PROVE  Counted(r)
<1> DEFINE at == << k, Len(t) >>
<1>1. /\ p.lanes \in [Producers -> Seq(Item)] /\ Len(t) \in Nat /\ Len(t) >= 1
      /\ \A j \in Producers : DOMAIN p.lanes[j] = 1 .. Len(p.lanes[j]) /\ Len(p.lanes[j]) \in Nat
      /\ DOMAIN t = 1 .. Len(t)
    BY LenProperties DEF QueueType
<1>2. \A j \in Producers : r.lanes[j] = IF j = k THEN t ELSE p.lanes[j]
    BY <1>1
<1>3. \A i \in 1 .. MaxPushed : i \in DOMAIN t <=> i \in DOMAIN p.lanes[k] \/ i = Len(t)
    BY <1>1
<1>4. at \in Producers \X (1 .. MaxPushed) /\ at[1] = k /\ at[2] = Len(t)
    BY <1>1, RotationConstants
<1> HIDE DEF at
<1>5. \A b \in Producers \X (1 .. MaxPushed) :
          b = at <=> b[1] = k /\ b[2] = Len(t)
    BY <1>4
<1>6. Places(r) = Places(p) \cup {at}
    BY <1>2, <1>3, <1>4, <1>5 DEF Places
<1>7. at \notin Places(p)
    BY <1>1, <1>4 DEF Places
<1> QED
    BY <1>6, <1>7, FS_AddElement DEF Counted

(* ... and one item less is one place less.                                  *)
LEMMA OneLess ==
    ASSUME NEW p \in QueueType(Producers, Item), NEW r \in QueueType(Producers, Item),
           NEW k \in Producers, NEW t \in Seq(Item), r.lanes = [p.lanes EXCEPT ![k] = t],
           Len(t) = Len(p.lanes[k]) - 1, Len(p.lanes[k]) <= MaxPushed,
           Counted(p), r.count = p.count - 1
    PROVE  Counted(r)
<1> DEFINE at == << k, Len(p.lanes[k]) >>
<1>1. /\ p.lanes \in [Producers -> Seq(Item)] /\ Len(t) \in Nat
      /\ \A j \in Producers : DOMAIN p.lanes[j] = 1 .. Len(p.lanes[j]) /\ Len(p.lanes[j]) \in Nat
      /\ DOMAIN t = 1 .. Len(t) /\ Len(p.lanes[k]) \in 1 .. MaxPushed
    BY LenProperties, RotationConstants DEF QueueType
<1>2. \A j \in Producers : r.lanes[j] = IF j = k THEN t ELSE p.lanes[j]
    BY <1>1
<1>3. \A i \in 1 .. MaxPushed : i \in DOMAIN t <=> i \in DOMAIN p.lanes[k] /\ i # Len(p.lanes[k])
    BY <1>1
<1>4. at \in Producers \X (1 .. MaxPushed) /\ at[1] = k /\ at[2] = Len(p.lanes[k])
    BY <1>1
<1> HIDE DEF at
<1>5. \A b \in Producers \X (1 .. MaxPushed) :
          b = at <=> b[1] = k /\ b[2] = Len(p.lanes[k])
    BY <1>4
<1>6. Places(r) = Places(p) \ {at}
    BY <1>2, <1>3, <1>4, <1>5 DEF Places
<1>7. at \in Places(p)
    BY <1>1, <1>4 DEF Places
<1> QED
    BY <1>6, <1>7, FS_RemoveElement DEF Counted

-----------------------------------------------------------------------------
(* The invariant                                                             *)

TypeOK ==
    /\ q \in QueueType(Producers, Item) /\ opened \in QueueType(Producers, Item)
    /\ aside \in Seq(Item)
    /\ mode \in {"waiting", "draining", "restoring"}
    /\ pushed \in [Producers -> 0 .. MaxPushed]
    /\ passed \in [Producers -> [Producers -> Nat]]
    /\ gave \in BOOLEAN

Lanes == \A k \in Producers : LaneOf(q.lanes[k], k, pushed[k])

(* What was set aside comes before what its lane still holds, and was set    *)
(* aside in the order of the lane.                                           *)
Asides ==
    /\ \A i \in DOMAIN aside :
          /\ aside[i][2] \in 1 .. pushed[aside[i][1]]
          /\ \A n \in DOMAIN q.lanes[aside[i][1]] :
                aside[i][2] < q.lanes[aside[i][1]][n][2]
          /\ \A j \in DOMAIN aside :
                i < j /\ aside[i][1] = aside[j][1] => aside[i][2] < aside[j][2]
    /\ mode = "waiting" => aside = << >>

SetOff(k) == \E i \in DOMAIN aside : aside[i][1] = k

(* A producer that was passed twice is next to be offered a slot before the  *)
(* one that passed it, and that one has nothing to be put back at the head.  *)
Passing ==
    /\ \A j, k \in Producers : q.lanes[j] = << >> => passed[j][k] = 0
    /\ \A j \in Producers : passed[j][j] = 0
    /\ \A j, k \in Producers : passed[j][k] <= 2
    /\ \A j, k \in Producers : passed[j][k] = 2 => ~Before(q.order, k, j) /\ ~SetOff(k)
    /\ \A j, k \in Producers :
          mode = "draining" /\ SetOff(k) /\ Before(q.order, k, j) => passed[j][k] = 0

(* h is the history of a queue that was o and is p now: each shift took the  *)
(* next item of a.                                                           *)
Trace(h, a, o, p) ==
    /\ h[0] = o /\ h[Len(a)] = p
    /\ \A i \in 1 .. Len(a) :
          /\ RotationExact(h[i - 1]) /\ ~Exhausted(h[i - 1])
          /\ h[i] = ShiftRest(h[i - 1])
          /\ a[i] = NextItem(h[i - 1]) /\ a[i][1] = NextKey(h[i - 1])

(* A drain that has given nothing away can be undone.                        *)
Restorable ==
    ~gave /\ mode # "waiting" =>
        \E h \in [0 .. Len(aside) -> QueueType(Producers, Item)] : Trace(h, aside, opened, q)

IInv == /\ TypeOK /\ RotationExact(q) /\ Counted(q)
        /\ Lanes /\ Asides /\ Passing /\ Restorable

LEMMA InitInvariant == Init => IInv
<1> SUFFICES ASSUME Init PROVE IInv
    OBVIOUS
<1>1. /\ q.lanes = [k \in Producers |-> << >>] /\ q.order = << >> /\ q.count = 0
      /\ opened = q /\ aside = << >> /\ mode = "waiting" /\ gave = FALSE
      /\ q = [lanes |-> q.lanes, order |-> q.order, count |-> q.count]
    BY DEF Init, EmptyQueue
<1>2. << >> \in Seq(Item) /\ << >> \in Seq(Producers)
    BY EmptySeq
<1>3. TypeOK
    <2>1. [k \in Producers |-> << >>] \in [Producers -> Seq(Item)]
        BY <1>2
    <2>2. q \in QueueType(Producers, Item)
        BY <1>2, <2>1 DEF Init, EmptyQueue, QueueType
    <2>3. pushed \in [Producers -> 0 .. MaxPushed] /\ passed \in [Producers -> [Producers -> Nat]]
        BY RotationConstants DEF Init, NonePassed
    <2> QED
        BY <1>1, <1>2, <2>2, <2>3 DEF TypeOK
<1>4. RotationExact(q)
    BY <1>1 DEF RotationExact, Once, Member
<1>5. Places(q) = {}
    BY <1>1 DEF Places
<1>6. Counted(q)
    BY <1>1, <1>5, FS_EmptySet DEF Counted
<1>7. Lanes /\ Asides
    BY <1>1 DEF Lanes, LaneOf, Asides
<1>8. \A j, k \in Producers : passed[j][k] = 0
    BY DEF Init, NonePassed
<1>9. Passing /\ Restorable
    BY <1>1, <1>8 DEF Passing, Restorable
<1> QED
    BY <1>3, <1>4, <1>6, <1>7, <1>9 DEF IInv

(* What push, shift and unshift leave of the invariant of the queue itself.  *)
LEMMA Pushed ==
    ASSUME IInv, NEW k \in Producers, Arrive(k)
    PROVE  /\ q' \in QueueType(Producers, Item) /\ RotationExact(q') /\ Counted(q') /\ Lanes'
           /\ pushed' \in [Producers -> 0 .. MaxPushed]
<1> DEFINE x == << k, pushed[k] + 1 >>
           t == Append(q.lanes[k], x)
<1>1. /\ q \in QueueType(Producers, Item) /\ q.lanes \in [Producers -> Seq(Item)]
      /\ pushed \in [Producers -> 0 .. MaxPushed] /\ pushed[k] < MaxPushed
      /\ pushed' = [pushed EXCEPT ![k] = @ + 1]
      /\ x \in Item /\ q' = Push(q, k, x)
    BY DEF IInv, TypeOK, QueueType, Arrive, Item
<1>2. q' \in QueueType(Producers, Item) /\ RotationExact(q')
    BY <1>1, PushKeeps DEF IInv
<1>3. q'.lanes = [q.lanes EXCEPT ![k] = t] /\ q'.count = q.count + 1
    BY <1>1 DEF Push
<1>4. pushed[k] \in Nat /\ pushed[k] + 1 \in 0 .. MaxPushed
    BY <1>1, RotationConstants
<1>5. LaneOf(t, k, pushed[k] + 1) /\ t \in Seq(Item) /\ Len(t) = Len(q.lanes[k]) + 1
    BY <1>1, <1>4, LaneGrows, AppendProperties DEF IInv, Lanes
<1> HIDE DEF x, t
<1>6. Len(t) <= pushed[k] + 1 /\ Len(t) \in Nat
    BY <1>4, <1>5, LaneBound, LenProperties
<1>7. Len(t) <= MaxPushed
    BY <1>4, <1>6, RotationConstants
<1>8. Counted(q')
    BY <1>1, <1>2, <1>3, <1>5, <1>7, OneMore DEF IInv
<1>9. Lanes'
    BY <1>1, <1>3, <1>5 DEF IInv, Lanes
<1> QED
    BY <1>1, <1>2, <1>4, <1>8, <1>9

LEMMA Shifted ==
    ASSUME IInv, ~Exhausted(q), q' = ShiftRest(q), pushed' = pushed
    PROVE  /\ NextKey(q) \in Producers /\ NextItem(q) \in Item
           /\ NextItem(q) = Head(q.lanes[NextKey(q)]) /\ q.lanes[NextKey(q)] # << >>
           /\ Member(q.order, NextKey(q)) /\ q.order # << >> /\ NextKey(q) = Head(q.order)
           /\ q' \in QueueType(Producers, Item) /\ RotationExact(q') /\ Counted(q') /\ Lanes'
           /\ \A j \in Producers : q'.lanes[j] = IF j = NextKey(q) THEN Tail(q.lanes[j]) ELSE q.lanes[j]
<1> DEFINE k == NextKey(q)
           t == Tail(q.lanes[k])
<1>1. /\ q \in QueueType(Producers, Item) /\ q.lanes \in [Producers -> Seq(Item)]
      /\ q.order \in Seq(Producers) /\ q.order # << >> /\ RotationExact(q) /\ Once(q.order)
      /\ pushed \in [Producers -> 0 .. MaxPushed]
    BY DEF IInv, TypeOK, QueueType, Exhausted, RotationExact
<1>2. \A j \in Producers : pushed[j] \in Nat /\ Once(q.lanes[j])
    BY <1>1, LaneOnce, RotationConstants DEF IInv, Lanes
<1>3. /\ k \in Producers /\ NextItem(q) \in Item
      /\ q' \in QueueType(Producers, Item) /\ RotationExact(q')
    BY <1>1, <1>2, ShiftKeeps
<1>4. k = Head(q.order) /\ Member(q.order, k) /\ NextItem(q) = Head(q.lanes[k])
    BY <1>1, TailMembers DEF NextKey, NextItem
<1>5. q.lanes[k] # << >>
    BY <1>1, <1>3, <1>4 DEF RotationExact
<1>6. q'.lanes = [q.lanes EXCEPT ![k] = t] /\ q'.count = q.count - 1
    BY DEF ShiftRest, NextKey
<1>7. LaneOf(t, k, pushed[k]) /\ t \in Seq(Item) /\ Len(t) = Len(q.lanes[k]) - 1
    BY <1>1, <1>2, <1>3, <1>5, LaneShrinks, HeadTailProperties DEF IInv, Lanes
<1>8. Len(q.lanes[k]) <= pushed[k] /\ Len(q.lanes[k]) \in Nat
    BY <1>1, <1>2, <1>3, LaneBound, LenProperties DEF IInv, Lanes
<1> HIDE DEF k, t
<1>9. Len(q.lanes[k]) <= MaxPushed
    BY <1>1, <1>3, <1>8, RotationConstants
<1>10. Counted(q')
    BY <1>1, <1>3, <1>6, <1>7, <1>9, OneLess DEF IInv
<1>11. Lanes'
    BY <1>1, <1>6, <1>7 DEF IInv, Lanes
<1> QED
    BY <1>1, <1>3, <1>4, <1>5, <1>6, <1>10, <1>11 DEF k, t

-----------------------------------------------------------------------------
(* One lemma per action                                                      *)

LEMMA ArriveStep ==
    ASSUME IInv, NEW k \in Producers, Arrive(k)
    PROVE  IInv'
<1>1. /\ q' \in QueueType(Producers, Item) /\ RotationExact(q') /\ Counted(q') /\ Lanes'
      /\ pushed' \in [Producers -> 0 .. MaxPushed]
    BY Pushed
<1>2. /\ mode = "waiting" /\ aside = << >>
      /\ UNCHANGED << aside, mode, passed, opened, gave >>
    BY DEF Arrive, IInv, Asides
<1>3. TypeOK'
    BY <1>1, <1>2 DEF IInv, TypeOK
<1>4. Asides' /\ Restorable'
    BY <1>2 DEF Asides, Restorable
<1>5. Passing'
    <2> DEFINE x == << k, pushed[k] + 1 >>
    <2>1. /\ q.lanes \in [Producers -> Seq(Item)] /\ x \in Item /\ q.order \in Seq(Producers)
          /\ q'.lanes = [q.lanes EXCEPT ![k] = Append(@, x)]
          /\ q'.order = IF q.lanes[k] = << >> THEN Append(q.order, k) ELSE q.order
        BY DEF IInv, TypeOK, QueueType, Arrive, Push, Item
    <2> HIDE DEF x
    <2>2. \A j \in Producers : q'.lanes[j] = << >> => q.lanes[j] = << >>
        BY <2>1, AppendProperties
    <2>3. ASSUME NEW i \in Producers, NEW j \in Producers, passed[j][i] = 2
          PROVE  ~Before(q'.order, i, j)
        <3>1. q.lanes[j] # << >> /\ ~Before(q.order, i, j)
            BY <2>3 DEF IInv, Passing
        <3> QED
            BY <2>1, <3>1, BeforeAppend
    <2> QED
        BY <1>2, <2>2, <2>3 DEF IInv, Passing, SetOff
<1> QED
    BY <1>1, <1>3, <1>4, <1>5 DEF IInv

LEMMA OpenStep ==
    ASSUME IInv, Open
    PROVE  IInv'
<1>1. /\ aside = << >> /\ q' = q /\ aside' = aside /\ pushed' = pushed /\ passed' = passed
      /\ mode' = "draining" /\ opened' = q
    BY DEF Open, IInv, Asides
<1>2. TypeOK' /\ RotationExact(q') /\ Counted(q') /\ Lanes' /\ Asides'
    BY <1>1 DEF Open, IInv, TypeOK, Lanes, Asides
<1>3. Passing'
    BY <1>1 DEF IInv, Passing, SetOff
<1>4. Restorable'
    <2> DEFINE h == [i \in {0} |-> q]
    <2>1. /\ Len(aside') = 0 /\ 0 .. 0 = {0} /\ h \in [{0} -> QueueType(Producers, Item)]
          /\ h[0] = q
        BY <1>1 DEF IInv, TypeOK
    <2>2. Trace(h, aside', opened', q')
        BY <1>1, <2>1 DEF Trace
    <2> QED
        BY <2>1, <2>2 DEF Restorable
<1> QED
    BY <1>2, <1>3, <1>4 DEF IInv

(* A lane that loses its head keeps what was set aside before it.            *)
LEMMA AsidesShifted ==
    ASSUME IInv, mode = "draining", ~Exhausted(q), q' = ShiftRest(q), pushed' = pushed
    PROVE  \A i \in DOMAIN aside :
              /\ aside[i][1] \in Producers /\ aside[i][2] \in 1 .. pushed'[aside[i][1]]
              /\ \A n \in DOMAIN q'.lanes[aside[i][1]] :
                    aside[i][2] < q'.lanes[aside[i][1]][n][2]
<1>1. ASSUME NEW i \in DOMAIN aside
      PROVE  /\ aside[i][1] \in Producers /\ aside[i][2] \in 1 .. pushed'[aside[i][1]]
             /\ \A n \in DOMAIN q'.lanes[aside[i][1]] :
                   aside[i][2] < q'.lanes[aside[i][1]][n][2]
    <2> DEFINE j == aside[i][1]
    <2>1. aside[i] \in Item /\ j \in Producers
        BY LenProperties, ElementOfSeq DEF IInv, TypeOK, Item
    <2>2. /\ aside[i][2] \in 1 .. pushed[j]
          /\ \A n \in DOMAIN q.lanes[j] : aside[i][2] < q.lanes[j][n][2]
        BY DEF IInv, Asides
    <2>3. q'.lanes[j] = IF j = NextKey(q) THEN Tail(q.lanes[j]) ELSE q.lanes[j]
        BY <2>1, Shifted
    <2>4. q.lanes[j] \in Seq(Item) /\ LaneOf(q.lanes[j], j, pushed[j]) /\ pushed[j] \in Nat
        BY <2>1, RotationConstants DEF IInv, TypeOK, QueueType, Lanes
    <2>5. j = NextKey(q) => q.lanes[j] # << >>
        BY Shifted
    <2> HIDE DEF j
    <2>6. ASSUME NEW n \in DOMAIN q'.lanes[j] PROVE aside[i][2] < q'.lanes[j][n][2]
        <3>1. \E m \in DOMAIN q.lanes[j] : q'.lanes[j][n] = q.lanes[j][m]
            BY <2>1, <2>3, <2>4, <2>5, <2>6, LaneShrinks
        <3> QED
            BY <2>2, <3>1
    <2> QED
        BY <2>1, <2>2, <2>6 DEF j
<1> QED
    BY <1>1

LEMMA GiveStep ==
    ASSUME IInv, Give
    PROVE  IInv'
<1> DEFINE k == NextKey(q)
<1>1. /\ mode = "draining" /\ ~Exhausted(q) /\ q' = ShiftRest(q) /\ gave' = TRUE
      /\ passed' = [j \in Producers |->
                       IF j = k \/ q.lanes[j] = << >> THEN NonePassed
                       ELSE [passed[j] EXCEPT ![k] = @ + 1]]
      /\ UNCHANGED << aside, mode, pushed, opened >>
    BY DEF Give
<1>2. /\ k \in Producers /\ Member(q.order, k) /\ q.order # << >> /\ k = Head(q.order)
      /\ q' \in QueueType(Producers, Item) /\ RotationExact(q') /\ Counted(q') /\ Lanes'
      /\ \A j \in Producers : q'.lanes[j] = IF j = k THEN Tail(q.lanes[j]) ELSE q.lanes[j]
    BY <1>1, Shifted
<1>3. passed \in [Producers -> [Producers -> Nat]]
    BY DEF IInv, TypeOK
<1> HIDE DEF k
<1>4. TypeOK'
    BY <1>1, <1>2, <1>3 DEF IInv, TypeOK, NonePassed
<1>5. Asides'
    BY <1>1, AsidesShifted DEF IInv, Asides
<1>6. Restorable'
    BY <1>1 DEF Restorable
<1>7. Passing'
    <2>1. \A i, j \in Producers : Before(q'.order, i, j) =>
             i # k /\ (j # k => Before(q.order, i, j))
        BY <1>1, BeforeShift DEF IInv, TypeOK, k
    <2>2. \A j \in Producers : q.lanes[j] # << >> /\ j # k => Before(q.order, k, j)
        <3>1. q.order \in Seq(Producers) /\ DOMAIN q.lanes = Producers
            BY DEF IInv, TypeOK, QueueType
        <3> QED
            BY <1>2, <3>1, BeforeOthers DEF IInv, RotationExact
    <2>3. \A i, j \in Producers : passed'[j][i] =
             IF j = k \/ q.lanes[j] = << >> THEN 0
             ELSE IF i = k THEN passed[j][i] + 1 ELSE passed[j][i]
        BY <1>1, <1>3 DEF NonePassed
    <2>4. \A j \in Producers : q'.lanes[j] = << >> => j = k \/ q.lanes[j] = << >>
        BY <1>2
    <2>5. \A i, j \in Producers : passed[j][i] \in Nat
        BY <1>3
    <2>6. \A j \in Producers : q.lanes[j] # << >> /\ j # k =>
             passed[j][k] <= 1 /\ (SetOff(k) => passed[j][k] = 0)
        BY <1>1, <1>2, <2>2, <2>5 DEF IInv, Passing
    <2>7. \A i \in Producers : SetOff(i)' <=> SetOff(i)
        BY <1>1 DEF SetOff
    <2>8. ASSUME NEW i \in Producers, NEW j \in Producers
          PROVE  /\ q'.lanes[j] = << >> => passed'[j][i] = 0
                 /\ passed'[j][j] = 0 /\ passed'[j][i] <= 2
                 /\ passed'[j][i] = 2 => ~Before(q'.order, i, j) /\ ~SetOff(i)
                 /\ SetOff(i) /\ Before(q'.order, i, j) => passed'[j][i] = 0
        BY <1>1, <2>1, <2>3, <2>4, <2>5, <2>6, <2>8 DEF IInv, Passing
    <2> QED
        BY <2>7, <2>8 DEF Passing
<1> QED
    BY <1>2, <1>4, <1>5, <1>6, <1>7 DEF IInv

LEMMA SetAsideStep ==
    ASSUME IInv, SetAside
    PROVE  IInv'
<1> DEFINE k == NextKey(q)
           x == NextItem(q)
<1>1. /\ mode = "draining" /\ ~Exhausted(q) /\ q' = ShiftRest(q) /\ aside' = Append(aside, x)
      /\ passed' = [passed EXCEPT ![k] = NonePassed]
      /\ UNCHANGED << mode, pushed, opened, gave >>
    BY DEF SetAside
<1>2. /\ k \in Producers /\ Member(q.order, k) /\ q.order # << >> /\ k = Head(q.order)
      /\ x \in Item /\ x = Head(q.lanes[k]) /\ q.lanes[k] # << >>
      /\ q' \in QueueType(Producers, Item) /\ RotationExact(q') /\ Counted(q') /\ Lanes'
      /\ \A j \in Producers : q'.lanes[j] = IF j = k THEN Tail(q.lanes[j]) ELSE q.lanes[j]
    BY <1>1, Shifted
<1>3. /\ passed \in [Producers -> [Producers -> Nat]] /\ aside \in Seq(Item)
      /\ q \in QueueType(Producers, Item) /\ q.lanes \in [Producers -> Seq(Item)]
      /\ pushed \in [Producers -> 0 .. MaxPushed]
    BY DEF IInv, TypeOK, QueueType
<1> HIDE DEF k, x
<1>4. /\ x[1] = k /\ x[2] \in 1 .. pushed[k]
      /\ \A n \in DOMAIN q'.lanes[k] : x[2] < q'.lanes[k][n][2]
    <2>1. q.lanes[k] \in Seq(Item) /\ LaneOf(q.lanes[k], k, pushed[k]) /\ pushed[k] \in Nat
        BY <1>2, <1>3, RotationConstants DEF IInv, Lanes
    <2> QED
        BY <1>2, <2>1, LaneShrinks
<1>5. /\ aside' \in Seq(Item) /\ Len(aside) \in Nat
      /\ Len(aside') = Len(aside) + 1
      /\ DOMAIN aside = 1 .. Len(aside) /\ DOMAIN aside' = 1 .. Len(aside) + 1
      /\ \A i \in DOMAIN aside : aside'[i] = aside[i]
      /\ aside'[Len(aside) + 1] = x
    BY <1>1, <1>2, <1>3, AppendProperties, LenProperties
<1>6. TypeOK'
    BY <1>1, <1>2, <1>3, <1>5 DEF IInv, TypeOK, NonePassed
<1>7. Asides'
    <2>1. ASSUME NEW i \in DOMAIN aside'
          PROVE  /\ aside'[i][2] \in 1 .. pushed'[aside'[i][1]]
                 /\ \A n \in DOMAIN q'.lanes[aside'[i][1]] :
                       aside'[i][2] < q'.lanes[aside'[i][1]][n][2]
        <3>1. CASE i \in DOMAIN aside
            BY <1>1, <1>5, <3>1, AsidesShifted
        <3>2. CASE i = Len(aside) + 1
            BY <1>1, <1>4, <1>5, <3>2
        <3> QED
            BY <1>5, <2>1, <3>1, <3>2
    <2>2. ASSUME NEW i \in DOMAIN aside', NEW j \in DOMAIN aside', i < j,
                 aside'[i][1] = aside'[j][1]
          PROVE  aside'[i][2] < aside'[j][2]
        <3>1. CASE j \in DOMAIN aside
            BY <1>5, <2>2, <3>1 DEF IInv, Asides
        <3>2. CASE j = Len(aside) + 1
            <4>1. i \in DOMAIN aside /\ aside[i][1] = k
                BY <1>4, <1>5, <2>2, <3>2
            <4>2. 1 \in DOMAIN q.lanes[k] /\ x = q.lanes[k][1]
                BY <1>2, <1>3, EmptySeq, LenProperties
            <4> QED
                BY <1>5, <3>2, <4>1, <4>2 DEF IInv, Asides
        <3> QED
            BY <1>5, <3>1, <3>2
    <2> QED
        BY <1>1, <2>1, <2>2 DEF Asides
<1>8. Passing'
    <2>1. \A i, j \in Producers : Before(q'.order, i, j) =>
             i # k /\ (j # k => Before(q.order, i, j))
        BY <1>1, <1>3, BeforeShift DEF IInv, k
    <2>2. \A j \in Producers : q.lanes[j] # << >> /\ j # k => Before(q.order, k, j)
        <3>1. q.order \in Seq(Producers) /\ DOMAIN q.lanes = Producers
            BY DEF IInv, TypeOK, QueueType
        <3> QED
            BY <1>2, <3>1, BeforeOthers DEF IInv, RotationExact
    <2>3. \A i, j \in Producers : passed'[j][i] = IF j = k THEN 0 ELSE passed[j][i]
        BY <1>1, <1>3 DEF NonePassed
    <2>4. \A i \in Producers : SetOff(i)' <=> SetOff(i) \/ i = k
        BY <1>4, <1>5 DEF SetOff
    <2>5. ASSUME NEW i \in Producers, NEW j \in Producers
          PROVE  /\ q'.lanes[j] = << >> => passed'[j][i] = 0
                 /\ passed'[j][j] = 0 /\ passed'[j][i] <= 2
                 /\ passed'[j][i] = 2 => ~Before(q'.order, i, j) /\ ~SetOff(i)'
                 /\ SetOff(i)' /\ Before(q'.order, i, j) => passed'[j][i] = 0
        <3>1. q'.lanes[j] = << >> => j = k \/ q.lanes[j] = << >>
            BY <1>2
        <3> QED
            BY <1>1, <1>2, <2>1, <2>2, <2>3, <2>4, <3>1 DEF IInv, Passing
    <2> QED
        BY <2>5 DEF Passing
<1>9. Restorable'
    <2> SUFFICES ASSUME ~gave
                 PROVE  \E h \in [0 .. Len(aside') -> QueueType(Producers, Item)] : Trace(h, aside', opened', q')
        BY <1>1 DEF Restorable
    <2> DEFINE n == Len(aside)
    <2>1. PICK h \in [0 .. n -> QueueType(Producers, Item)] : Trace(h, aside, opened, q)
        BY <1>1 DEF IInv, Restorable
    <2> DEFINE g == [i \in 0 .. n + 1 |-> IF i = n + 1 THEN q' ELSE h[i]]
    <2>2. n \in Nat /\ Len(aside') = n + 1
        BY <1>5
    <2>3. h[0] = opened /\ h[n] = q
        BY <2>1 DEF Trace
    <2> HIDE DEF n
    <2>4. /\ g \in [0 .. n + 1 -> QueueType(Producers, Item)]
          /\ g[n + 1] = q' /\ \A i \in 0 .. n : g[i] = h[i]
        BY <1>2, <2>1, <2>2
    <2> HIDE DEF g
    <2>5. g[0] = opened' /\ g[Len(aside')] = q'
        BY <1>1, <2>2, <2>3, <2>4
    <2>6. ASSUME NEW i \in 1 .. n + 1
          PROVE  /\ RotationExact(g[i - 1]) /\ ~Exhausted(g[i - 1])
                 /\ g[i] = ShiftRest(g[i - 1])
                 /\ aside'[i] = NextItem(g[i - 1]) /\ aside'[i][1] = NextKey(g[i - 1])
        <3>1. CASE i = n + 1
            <4>1. g[i - 1] = q /\ g[i] = q' /\ aside'[i] = x
                BY <1>5, <2>2, <2>3, <2>4, <3>1 DEF n
            <4> QED
                BY <1>1, <1>4, <3>1, <4>1 DEF IInv, k, x
        <3>2. CASE i \in 1 .. n
            <4>1. g[i - 1] = h[i - 1] /\ g[i] = h[i] /\ aside'[i] = aside[i]
                BY <1>5, <2>2, <2>4, <3>2 DEF n
            <4> QED
                BY <2>1, <3>2, <4>1 DEF Trace, n
        <3> QED
            BY <2>2, <3>1, <3>2
    <2>7. Trace(g, aside', opened', q')
        BY <2>2, <2>5, <2>6 DEF Trace
    <2> QED
        BY <2>2, <2>4, <2>7
<1> QED
    BY <1>2, <1>6, <1>7, <1>8, <1>9 DEF IInv

LEMMA CloseStep ==
    ASSUME IInv, Close
    PROVE  IInv'
<1>1. /\ mode = "draining" /\ mode' = "restoring"
      /\ UNCHANGED << q, aside, pushed, passed, opened, gave >>
    BY DEF Close
<1>2. TypeOK' /\ RotationExact(q') /\ Counted(q') /\ Lanes' /\ Asides'
    BY <1>1 DEF IInv, TypeOK, Counted, Places, Lanes, Asides
<1>3. Passing'
    BY <1>1 DEF IInv, Passing, SetOff
<1>4. Restorable'
    BY <1>1 DEF IInv, Restorable, Trace
<1> QED
    BY <1>2, <1>3, <1>4 DEF IInv

LEMMA FinishStep ==
    ASSUME IInv, Finish
    PROVE  IInv'
<1>1. /\ aside = << >> /\ mode' = "waiting"
      /\ UNCHANGED << q, aside, pushed, passed, opened, gave >>
    BY DEF Finish
<1>2. TypeOK' /\ RotationExact(q') /\ Counted(q') /\ Lanes' /\ Asides'
    BY <1>1 DEF IInv, TypeOK, Counted, Places, Lanes, Asides
<1>3. Passing'
    BY <1>1 DEF IInv, Passing, SetOff
<1>4. Restorable'
    BY <1>1 DEF Restorable
<1> QED
    BY <1>2, <1>3, <1>4 DEF IInv

LEMMA PutBackStep ==
    ASSUME IInv, PutBack
    PROVE  IInv'
<1> DEFINE n == Len(aside)
           x == aside[n]
           k == x[1]
           lane == << x >> \o q.lanes[k]
<1>1. /\ mode = "restoring" /\ aside # << >> /\ q' = Unshift(q, k, x)
      /\ aside' = SubSeq(aside, 1, n - 1)
      /\ UNCHANGED << mode, pushed, passed, opened, gave >>
    BY DEF PutBack
<1>2. /\ passed \in [Producers -> [Producers -> Nat]] /\ aside \in Seq(Item)
      /\ q \in QueueType(Producers, Item) /\ q.lanes \in [Producers -> Seq(Item)]
      /\ pushed \in [Producers -> 0 .. MaxPushed] /\ RotationExact(q)
    BY DEF IInv, TypeOK, QueueType
<1>3. n \in Nat \ {0} /\ DOMAIN aside = 1 .. n /\ x \in Item
    BY <1>1, <1>2, EmptySeq, LenProperties, ElementOfSeq
<1>4. /\ aside' \in Seq(Item) /\ Len(aside') = n - 1 /\ DOMAIN aside' = 1 .. n - 1
      /\ \A i \in DOMAIN aside' : i \in DOMAIN aside /\ i < n /\ aside'[i] = aside[i]
    <2>1. \A i \in 1 .. n - 1 : aside[i] \in Item
        BY <1>2, <1>3, ElementOfSeq
    <2>2. /\ aside' \in Seq(Item) /\ Len(aside') = n - 1
          /\ \A i \in 1 .. n - 1 : aside'[i] = aside[i]
        BY <1>1, <1>3, <2>1, SubSeqProperties
    <2> QED
        BY <1>3, <2>2, LenProperties
<1>5. k \in Producers /\ x[2] \in 1 .. pushed[k]
      /\ \A m \in DOMAIN q.lanes[k] : x[2] < q.lanes[k][m][2]
    BY <1>3 DEF IInv, Asides, Item
<1>6. /\ q'.lanes = [q.lanes EXCEPT ![k] = lane] /\ q'.count = q.count + 1
      /\ q'.order = UnshiftOrder(q, k)
    BY <1>1 DEF Unshift
<1> HIDE DEF k, x, n
<1>7. q' \in QueueType(Producers, Item) /\ RotationExact(q')
    BY <1>1, <1>2, <1>3, <1>5, UnshiftKeeps
<1>8. pushed[k] \in Nat /\ pushed[k] <= MaxPushed
    BY <1>2, <1>5, RotationConstants
<1>9. LaneOf(lane, k, pushed[k]) /\ lane \in Seq(Item) /\ Len(lane) = Len(q.lanes[k]) + 1
    <2>1. LaneOf(q.lanes[k], k, pushed[k]) /\ q.lanes[k] \in Seq(Item)
        BY <1>2, <1>5 DEF IInv, Lanes
    <2>2. x[1] = k
        BY DEF k
    <2>3. LaneOf(lane, k, pushed[k])
        BY <1>3, <1>5, <1>8, <2>1, <2>2, LaneTakesBack
    <2>4. << x >> \in Seq(Item) /\ Len(<< x >>) = 1
        BY <1>3
    <2> QED
        BY <2>1, <2>3, <2>4, ConcatProperties
<1> HIDE DEF lane
<1>10. Counted(q')
    <2>1. Len(lane) <= pushed[k] /\ Len(lane) \in Nat
        BY <1>8, <1>9, LaneBound, LenProperties
    <2>2. Len(lane) <= MaxPushed
        BY <1>8, <2>1, RotationConstants
    <2> QED
        BY <1>2, <1>5, <1>6, <1>7, <1>9, <2>2, OneMore DEF IInv
<1>11. Lanes'
    BY <1>1, <1>2, <1>6, <1>9 DEF IInv, Lanes
<1>12. TypeOK'
    BY <1>1, <1>4, <1>7 DEF IInv, TypeOK
<1>13. Asides'
    <2>1. ASSUME NEW i \in DOMAIN aside'
          PROVE  /\ aside'[i][2] \in 1 .. pushed'[aside'[i][1]]
                 /\ \A j \in DOMAIN aside' :
                       i < j /\ aside'[i][1] = aside'[j][1] => aside'[i][2] < aside'[j][2]
        BY <1>1, <1>4 DEF IInv, Asides
    <2>2. ASSUME NEW i \in DOMAIN aside', NEW m \in DOMAIN q'.lanes[aside'[i][1]]
          PROVE  aside'[i][2] < q'.lanes[aside'[i][1]][m][2]
        <3> DEFINE j == aside[i][1]
        <3>1. aside'[i] = aside[i] /\ i \in DOMAIN aside /\ i < n /\ j \in Producers
            BY <1>2, <1>4, ElementOfSeq, LenProperties DEF Item
        <3>2. \A l \in DOMAIN q.lanes[j] : aside[i][2] < q.lanes[j][l][2]
            BY <3>1 DEF IInv, Asides
        <3>3. CASE j # k
            BY <1>2, <1>6, <2>2, <3>1, <3>2, <3>3
        <3>4. CASE j = k
            <4>1. aside[i][2] < x[2] /\ n \in DOMAIN aside
                BY <1>3, <3>1, <3>4 DEF IInv, Asides, k, x
            <4>2. Holds(q', k, q'.lanes[k][m])
                BY <2>2, <3>1, <3>4 DEF Holds, Member
            <4>3. Holds(q, k, q'.lanes[k][m]) \/ q'.lanes[k][m] = x
                BY <1>1, <1>2, <1>3, <1>5, <4>2, UnshiftKeeps
            <4> QED
                BY <3>1, <3>2, <3>4, <4>1, <4>3 DEF Holds, Member
        <3> QED
            BY <3>3, <3>4
    <2> QED
        BY <1>1, <2>1, <2>2 DEF Asides
<1>14. Passing'
    <2>1. \A i, j \in Producers : Before(q'.order, i, j) => i = k \/ (j # k /\ Before(q.order, i, j))
        BY <1>2, <1>5, <1>6, BeforeUnshift
    <2>2. \A j \in Producers : q'.lanes[j] = << >> => q.lanes[j] = << >>
        <3>1. \A y : Holds(q, k, y) => Holds(q', k, y)
            BY <1>1, <1>2, <1>3, <1>5, UnshiftKeeps
        <3>2. Len(lane) # 0
            BY <1>2, <1>5, <1>9, LenProperties
        <3>3. lane # << >>
            BY <3>2
        <3> QED
            BY <1>2, <1>6, <3>3
    <2>3. \A i \in Producers : SetOff(i)' => SetOff(i)
        BY <1>4 DEF SetOff
    <2>4. SetOff(k)
        BY <1>3 DEF SetOff, k, x
    <2> QED
        BY <1>1, <1>5, <2>1, <2>2, <2>3, <2>4 DEF IInv, Passing
<1>15. Restorable'
    <2> SUFFICES ASSUME ~gave
                 PROVE  \E h \in [0 .. Len(aside') -> QueueType(Producers, Item)] :
                            Trace(h, aside', opened', q')
        BY <1>1 DEF Restorable
    <2>1. PICK h \in [0 .. n -> QueueType(Producers, Item)] : Trace(h, aside, opened, q)
        BY <1>1 DEF IInv, Restorable, n
    <2> DEFINE g == [i \in 0 .. n - 1 |-> h[i]]
    <2>2. /\ g \in [0 .. n - 1 -> QueueType(Producers, Item)]
          /\ \A i \in 0 .. n - 1 : g[i] = h[i]
        BY <1>3
    <2> HIDE DEF g
    <2>3. /\ h[0] = opened /\ h[n] = q
          /\ \A i \in 1 .. n :
                /\ RotationExact(h[i - 1]) /\ ~Exhausted(h[i - 1])
                /\ h[i] = ShiftRest(h[i - 1])
                /\ aside[i] = NextItem(h[i - 1]) /\ aside[i][1] = NextKey(h[i - 1])
        BY <2>1 DEF Trace, n
    \* the item put back last is the one the last shift took
    <2>4. q' = h[n - 1]
        <3>1. h[n - 1] \in QueueType(Producers, Item) /\ n \in 1 .. n
            BY <1>3
        <3>2. Unshift(ShiftRest(h[n - 1]), NextKey(h[n - 1]), NextItem(h[n - 1])) = h[n - 1]
            BY <2>3, <3>1, UnshiftUndoesShift
        <3> QED
            BY <1>1, <2>3, <3>1, <3>2 DEF k, x
    <2>5. g[0] = opened /\ g[n - 1] = q'
        BY <1>3, <2>2, <2>3, <2>4
    <2>6. \A i \in 1 .. n - 1 :
             i \in 1 .. n /\ g[i] = h[i] /\ g[i - 1] = h[i - 1] /\ aside'[i] = aside[i]
        BY <1>3, <1>4, <2>2
    <2>7. Trace(g, aside', opened', q')
        BY <1>1, <1>4, <2>3, <2>5, <2>6 DEF Trace
    <2> QED
        BY <1>4, <2>2, <2>7
<1> QED
    BY <1>7, <1>10, <1>11, <1>12, <1>13, <1>14, <1>15 DEF IInv

LEMMA Stutter ==
    ASSUME IInv, UNCHANGED vars
    PROVE  IInv'
<1>1. /\ q' = q /\ aside' = aside /\ mode' = mode /\ pushed' = pushed
      /\ passed' = passed /\ opened' = opened /\ gave' = gave
    BY DEF vars
<1>2. TypeOK' /\ RotationExact(q') /\ Counted(q') /\ Lanes' /\ Asides'
    BY <1>1 DEF IInv, TypeOK, Lanes, Asides
<1>3. Passing' /\ Restorable'
    BY <1>1 DEF IInv, Passing, SetOff, Restorable
<1> QED
    BY <1>2, <1>3 DEF IInv

-----------------------------------------------------------------------------
(* The theorems                                                              *)

(* The invariant holds in every reachable state.                             *)
THEOREM RotationInvariant == Spec => []IInv
<1>1. Init => IInv
    BY InitInvariant
<1>2. ASSUME IInv, [Next]_vars PROVE IInv'
    <2>1. CASE \E k \in Producers : Arrive(k)
        BY <1>2, <2>1, ArriveStep
    <2>2. CASE Open
        BY <1>2, <2>2, OpenStep
    <2>3. CASE Give
        BY <1>2, <2>3, GiveStep
    <2>4. CASE SetAside
        BY <1>2, <2>4, SetAsideStep
    <2>5. CASE Close
        BY <1>2, <2>5, CloseStep
    <2>6. CASE PutBack
        BY <1>2, <2>6, PutBackStep
    <2>7. CASE Finish
        BY <1>2, <2>7, FinishStep
    <2>8. CASE UNCHANGED vars
        BY <1>2, <2>8, Stutter
    <2> QED
        BY <1>2, <2>1, <2>2, <2>3, <2>4, <2>5, <2>6, <2>7, <2>8 DEF Next
<1> QED
    BY <1>1, <1>2, PTL DEF Spec

(* push, shift and unshift (fairQueue.ts): the rotation names exactly the    *)
(* lanes that hold work, each once, and size is the number of items held.    *)
THEOREM QueueStaysExact == Spec => []QueueExact
<1>1. IInv => QueueExact
    BY DEF IInv, Counted, QueueExact
<1> QED
    BY <1>1, RotationInvariant, PTL

(* shift and unshift under drain (pool.ts): no producer with work is passed  *)
(* by another one more than twice, however many items that one pushed.       *)
THEOREM PassingIsBounded == Spec => []BoundedPassing
<1>1. IInv => BoundedPassing
    BY DEF IInv, Passing, BoundedPassing
<1> QED
    BY <1>1, RotationInvariant, PTL

(* push appends, shift and unshift work at the head: a producer's items      *)
(* never overtake each other.                                                *)
THEOREM LanesStayInOrder == Spec => []LaneInPushOrder
<1>1. ASSUME IInv PROVE LaneInPushOrder
    <2>1. ASSUME NEW k \in Producers, NEW i \in DOMAIN q.lanes[k], NEW j \in DOMAIN q.lanes[k], i < j
          PROVE  q.lanes[k][i][2] < q.lanes[k][j][2]
        <3>1. q.lanes[k] \in Seq(Item) /\ pushed[k] \in Nat
            BY <1>1, RotationConstants DEF IInv, TypeOK, QueueType
        <3>2. i \in Nat /\ j \in Nat
            BY <3>1, LenProperties
        <3>3. /\ q.lanes[k][i][2] \in 1 .. pushed[k] /\ q.lanes[k][j][2] \in 1 .. pushed[k]
              /\ j - i <= q.lanes[k][j][2] - q.lanes[k][i][2]
            BY <1>1, <2>1 DEF IInv, Lanes, LaneOf
        <3> QED
            BY <2>1, <3>1, <3>2, <3>3
    <2> QED
        BY <2>1 DEF LaneInPushOrder
<1> QED
    BY <1>1, RotationInvariant, PTL

(* The put-back loop of drain (pool.ts): a drain that found no runner for    *)
(* anybody leaves lanes, rotation and count as it found them.                *)
THEOREM FruitlessDrainsRestore == Spec => FruitlessDrainRestores
<1>1. ASSUME IInv, [Next]_vars, mode = "restoring", mode' = "waiting", ~gave
      PROVE  q = opened
    <2>1. aside = << >>
        BY <1>1 DEF Next, Arrive, Open, Give, SetAside, Close, PutBack, Finish, vars
    <2>2. Len(aside) = 0
        BY <2>1
    <2> QED
        BY <1>1, <2>2 DEF IInv, Restorable, Trace
<1>2. IInv /\ [Next]_vars =>
        [mode = "restoring" /\ mode' = "waiting" /\ ~gave => q = opened]_vars
    BY <1>1
<1> QED
    BY <1>2, RotationInvariant, PTL DEF Spec, FruitlessDrainRestores
=============================================================================
