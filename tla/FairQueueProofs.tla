---------------------------- MODULE FairQueueProofs ----------------------------
(* What the methods of the fair queue do, for queues of any length over any  *)
(* producers: each lemma says which items the queue holds afterwards and     *)
(* that the rotation still names exactly the lanes with work.                *)
EXTENDS FairQueue, SequenceTheorems, TLAPS

-----------------------------------------------------------------------------
(* Sequences without repetition *)

(* Append adds the element and repeats none that was absent.                 *)
LEMMA AppendMembers ==
    ASSUME NEW S, NEW s \in Seq(S), NEW x \in S
    PROVE  /\ Append(s, x) \in Seq(S) /\ Append(s, x) # << >>
           /\ \A y : Member(Append(s, x), y) <=> (Member(s, y) \/ y = x)
           /\ Once(s) /\ ~Member(s, x) => Once(Append(s, x))
<1>1. /\ DOMAIN s = 1 .. Len(s) /\ Len(s) \in Nat
      /\ Append(s, x) \in Seq(S) /\ Append(s, x) # << >>
      /\ DOMAIN Append(s, x) = 1 .. Len(s) + 1
      /\ \A i \in DOMAIN s : Append(s, x)[i] = s[i]
      /\ Append(s, x)[Len(s) + 1] = x
    BY AppendProperties, LenProperties
<1>2. QED
    BY <1>1 DEF Member, Once

(* Prepending likewise.                                                      *)
LEMMA PrependMembers ==
    ASSUME NEW S, NEW s \in Seq(S), NEW x \in S
    PROVE  /\ << x >> \o s \in Seq(S) /\ << x >> \o s # << >>
           /\ \A y : Member(<< x >> \o s, y) <=> (Member(s, y) \/ y = x)
           /\ Once(s) /\ ~Member(s, x) => Once(<< x >> \o s)
<1> DEFINE p == << x >> \o s
<1>1. /\ << x >> \in Seq(S) /\ Len(<< x >>) = 1 /\ << x >>[1] = x
      /\ DOMAIN s = 1 .. Len(s) /\ Len(s) \in Nat
    BY LenProperties
<1>2. /\ p \in Seq(S) /\ Len(p) = Len(s) + 1
      /\ p[1] = x /\ \A i \in 1 .. Len(s) : p[i + 1] = s[i]
    BY <1>1, ConcatProperties
<1>3. DOMAIN p = 1 .. Len(s) + 1
    BY <1>2, LenProperties
<1>4. \A i \in 2 .. Len(s) + 1 : i - 1 \in 1 .. Len(s) /\ p[i] = s[i - 1]
    BY <1>1, <1>2
<1> HIDE DEF p
<1>5. p # << >>
    BY <1>1, <1>2, EmptySeq
<1>6. ASSUME NEW y PROVE Member(p, y) <=> (Member(s, y) \/ y = x)
    <2>1. ASSUME NEW i \in DOMAIN p, p[i] = y PROVE Member(s, y) \/ y = x
        <3>1. CASE i = 1
            BY <1>2, <2>1, <3>1
        <3>2. CASE i # 1
            BY <1>1, <1>3, <1>4, <2>1, <3>2 DEF Member
        <3>3. QED
            BY <3>1, <3>2
    <2>2. ASSUME NEW i \in DOMAIN s, s[i] = y PROVE Member(p, y)
        <3>1. i + 1 \in DOMAIN p /\ p[i + 1] = y
            BY <1>1, <1>2, <1>3, <2>2
        <3>2. QED
            BY <3>1 DEF Member
    <2>3. Member(p, x)
        BY <1>1, <1>2, <1>3 DEF Member
    <2>4. QED
        BY <2>1, <2>2, <2>3 DEF Member
<1>7. ASSUME Once(s), ~Member(s, x) PROVE Once(p)
    <2>1. ASSUME NEW i \in DOMAIN p, NEW j \in DOMAIN p, p[i] = p[j], i # j
          PROVE  FALSE
        <3>1. CASE i = 1
            BY <1>1, <1>2, <1>3, <1>4, <1>7, <2>1, <3>1 DEF Member
        <3>2. CASE j = 1
            BY <1>1, <1>2, <1>3, <1>4, <1>7, <2>1, <3>2 DEF Member
        <3>3. CASE i # 1 /\ j # 1
            <4>1. i - 1 \in DOMAIN s /\ j - 1 \in DOMAIN s /\ s[i - 1] = s[j - 1]
                BY <1>1, <1>3, <1>4, <2>1, <3>3
            <4>2. i - 1 = j - 1
                BY <1>7, <4>1 DEF Once
            <4>3. QED
                BY <1>3, <2>1, <4>2
        <3>4. QED
            BY <3>1, <3>2, <3>3
    <2>2. QED
        BY <2>1 DEF Once
<1>8. QED
    BY <1>2, <1>5, <1>6, <1>7 DEF p

(* The tail of a sequence without repetition has every element but the head. *)
LEMMA TailMembers ==
    ASSUME NEW S, NEW s \in Seq(S), s # << >>, Once(s)
    PROVE  /\ Head(s) \in S /\ Member(s, Head(s))
           /\ Tail(s) \in Seq(S) /\ Once(Tail(s))
           /\ \A y : Member(Tail(s), y) <=> (Member(s, y) /\ y # Head(s))
<1>1. /\ Len(s) \in Nat \ {0} /\ DOMAIN s = 1 .. Len(s)
      /\ Head(s) \in S /\ Tail(s) \in Seq(S) /\ Head(s) = s[1]
      /\ Len(Tail(s)) = Len(s) - 1
      /\ \A i \in 1 .. Len(s) - 1 : Tail(s)[i] = s[i + 1]
    BY EmptySeq, LenProperties, HeadTailProperties
<1>2. DOMAIN Tail(s) = 1 .. Len(s) - 1
    BY <1>1, LenProperties
<1>3. \A i \in 2 .. Len(s) : i - 1 \in 1 .. Len(s) - 1 /\ Tail(s)[i - 1] = s[i]
    BY <1>1
<1>4. ASSUME NEW y PROVE Member(Tail(s), y) <=> (Member(s, y) /\ y # Head(s))
    <2>1. ASSUME NEW i \in DOMAIN Tail(s), Tail(s)[i] = y
          PROVE  Member(s, y) /\ y # Head(s)
        <3>1. i + 1 \in DOMAIN s /\ s[i + 1] = y /\ 1 \in DOMAIN s /\ i + 1 # 1
            BY <1>1, <1>2, <2>1
        <3>2. QED
            BY <1>1, <3>1 DEF Member, Once
    <2>2. ASSUME NEW i \in DOMAIN s, s[i] = y, y # Head(s) PROVE Member(Tail(s), y)
        <3>1. i \in 2 .. Len(s)
            BY <1>1, <2>2
        <3>2. i - 1 \in DOMAIN Tail(s) /\ Tail(s)[i - 1] = y
            BY <1>2, <1>3, <2>2, <3>1
        <3>3. QED
            BY <3>2 DEF Member
    <2>3. QED
        BY <2>1, <2>2 DEF Member
<1>5. Once(Tail(s))
    BY <1>1, <1>2 DEF Once
<1>6. QED
    BY <1>1, <1>4, <1>5 DEF Member

(* Splicing a key out closes the gap at its place.                           *)
LEMMA WithoutKeyPlaces ==
    ASSUME NEW S, NEW s \in Seq(S), NEW k \in S, Member(s, k)
    PROVE  /\ WithoutKey(s, k) \in Seq(S) /\ Len(WithoutKey(s, k)) = Len(s) - 1
           /\ \E i \in DOMAIN s : s[i] = k /\ \A j \in 1 .. Len(s) - 1 :
                  WithoutKey(s, k)[j] = IF j < i THEN s[j] ELSE s[j + 1]
<1> DEFINE w == WithoutKey(s, k)
<1>1. PICK i \in DOMAIN s : s[i] = k /\ w = SubSeq(s, 1, i - 1) \o SubSeq(s, i + 1, Len(s))
    BY DEF WithoutKey, Member
<1>2. DOMAIN s = 1 .. Len(s) /\ Len(s) \in Nat /\ i \in 1 .. Len(s)
      /\ \A j \in 1 .. Len(s) : s[j] \in S
    BY <1>1, LenProperties
<1> DEFINE a == SubSeq(s, 1, i - 1)
           b == SubSeq(s, i + 1, Len(s))
<1>3. /\ a \in Seq(S) /\ Len(a) = i - 1
      /\ \A j \in 1 .. i - 1 : a[j] = s[j]
    <2>1. \A j \in 1 .. i - 1 : s[j] \in S
        BY <1>2
    <2>2. QED
        BY <1>2, <2>1, SubSeqProperties
<1>4. /\ b \in Seq(S) /\ Len(b) = Len(s) - i
      /\ \A j \in 1 .. Len(s) - i : b[j] = s[i + j]
    <2>1. \A j \in i + 1 .. Len(s) : s[j] \in S
        BY <1>2
    <2>2. QED
        BY <1>2, <2>1, SubSeqProperties
<1> HIDE DEF a, b
<1>5. w = a \o b
    BY <1>1 DEF a, b
<1>6. /\ w \in Seq(S) /\ Len(w) = Len(s) - 1
      /\ \A j \in 1 .. Len(s) - 1 : w[j] = IF j < i THEN s[j] ELSE s[j + 1]
    <2>1. /\ a \o b \in Seq(S) /\ Len(a \o b) = Len(a) + Len(b)
          /\ \A j \in 1 .. Len(a) + Len(b) : (a \o b)[j] =
                IF j <= Len(a) THEN a[j] ELSE b[j - Len(a)]
        BY <1>3, <1>4, ConcatProperties
    <2>2. Len(a) + Len(b) = Len(s) - 1
        BY <1>2, <1>3, <1>4
    <2>3. ASSUME NEW j \in 1 .. Len(s) - 1
          PROVE  w[j] = IF j < i THEN s[j] ELSE s[j + 1]
        <3>1. CASE j < i
            BY <1>2, <1>3, <1>5, <2>1, <2>2, <3>1
        <3>2. CASE j >= i
            <4>1. j - (i - 1) \in 1 .. Len(s) - i /\ i + (j - (i - 1)) = j + 1
                BY <1>2, <3>2
            <4>2. b[j - (i - 1)] = s[j + 1]
                BY <1>4, <4>1
            <4>3. w[j] = b[j - (i - 1)]
                BY <1>2, <1>3, <1>5, <2>1, <2>2, <3>2
            <4>4. QED
                BY <1>2, <3>2, <4>2, <4>3
        <3>3. QED
            BY <1>2, <3>1, <3>2
    <2>4. QED
        BY <1>5, <2>1, <2>2, <2>3
<1> QED
    BY <1>1, <1>6

(* Splicing a key out of the rotation leaves the others.                     *)
LEMMA WithoutKeyMembers ==
    ASSUME NEW S, NEW s \in Seq(S), NEW k \in S, Once(s)
    PROVE  /\ WithoutKey(s, k) \in Seq(S) /\ Once(WithoutKey(s, k))
           /\ \A y : Member(WithoutKey(s, k), y) <=> (Member(s, y) /\ y # k)
<1> DEFINE w == WithoutKey(s, k)
<1>1. CASE ~Member(s, k)
    BY <1>1 DEF WithoutKey, Member
<1>2. CASE Member(s, k)
    <2>1. PICK i \in DOMAIN s : s[i] = k /\ \A j \in 1 .. Len(s) - 1 :
                                     w[j] = IF j < i THEN s[j] ELSE s[j + 1]
        BY <1>2, WithoutKeyPlaces
    <2>2. DOMAIN s = 1 .. Len(s) /\ Len(s) \in Nat /\ i \in 1 .. Len(s)
        BY <2>1, LenProperties
    <2>6. w \in Seq(S) /\ Len(w) = Len(s) - 1
        BY <1>2, WithoutKeyPlaces
    <2>7. DOMAIN w = 1 .. Len(s) - 1
        BY <2>6, LenProperties
    <2> HIDE DEF w
    <2>8. ASSUME NEW y PROVE Member(w, y) <=> (Member(s, y) /\ y # k)
        <3>1. ASSUME NEW j \in DOMAIN w, w[j] = y PROVE Member(s, y) /\ y # k
            <4>1. CASE j < i
                <5>1. j \in DOMAIN s /\ s[j] = y /\ j # i
                    BY <2>2, <2>1, <2>6, <2>7, <3>1, <4>1
                <5>2. QED
                    BY <2>1, <5>1 DEF Member, Once
            <4>2. CASE j >= i
                <5>1. j + 1 \in DOMAIN s /\ s[j + 1] = y /\ j + 1 # i
                    BY <2>2, <2>1, <2>6, <2>7, <3>1, <4>2
                <5>2. QED
                    BY <2>1, <5>1 DEF Member, Once
            <4>3. QED
                BY <2>2, <2>7, <4>1, <4>2
        <3>2. ASSUME NEW j \in DOMAIN s, s[j] = y, y # k PROVE Member(w, y)
            <4>1. CASE j < i
                BY <2>2, <2>1, <2>6, <2>7, <3>2, <4>1 DEF Member
            <4>2. CASE j > i
                <5>1. j - 1 \in DOMAIN w /\ w[j - 1] = s[j]
                    BY <2>2, <2>1, <2>6, <2>7, <4>2
                <5>2. QED
                    BY <5>1, <3>2 DEF Member
            <4>3. QED
                BY <2>1, <2>2, <3>2, <4>1, <4>2
        <3>3. QED
            BY <3>1, <3>2 DEF Member
    <2>9. Once(w)
        <3> DEFINE at(j) == IF j < i THEN j ELSE j + 1
        <3>1. \A j \in DOMAIN w : at(j) \in DOMAIN s /\ w[j] = s[at(j)]
            BY <2>2, <2>1, <2>6, <2>7
        <3>2. ASSUME NEW j \in DOMAIN w, NEW l \in DOMAIN w, w[j] = w[l]
              PROVE  j = l
            <4>1. at(j) = at(l)
                BY <3>1, <3>2 DEF Once
            <4>2. QED
                BY <2>2, <2>7, <4>1
        <3>3. QED
            BY <3>2 DEF Once
    <2>10. QED
        BY <2>6, <2>8, <2>9 DEF w
<1>3. QED
    BY <1>1, <1>2

(* A sequence is its head followed by its tail.                              *)
LEMMA HeadThenTail ==
    ASSUME NEW S, NEW s \in Seq(S), s # << >>
    PROVE  << Head(s) >> \o Tail(s) = s
<1>1. Len(s) \in Nat \ {0} /\ Head(s) = s[1]
    BY EmptySeq
<1>2. SubSeq(s, 1, Len(s)) = << s[1] >> \o SubSeq(s, 2, Len(s))
    BY <1>1, SubSeqRecursiveFirst
<1> QED
    BY <1>1, <1>2, SubSeqFull, TailIsSubSeq

(* Splicing out the last element, which occurs nowhere else, drops it.       *)
LEMMA WithoutLast ==
    ASSUME NEW S, NEW s \in Seq(S), NEW k \in S, ~Member(s, k)
    PROVE  WithoutKey(Append(s, k), k) = s
<1> DEFINE t == Append(s, k)
<1>1. /\ DOMAIN s = 1 .. Len(s) /\ Len(s) \in Nat
      /\ t \in Seq(S) /\ Len(t) = Len(s) + 1 /\ DOMAIN t = 1 .. Len(s) + 1
      /\ \A i \in 1 .. Len(s) : t[i] = s[i]
      /\ t[Len(s) + 1] = k
    BY AppendProperties, LenProperties
<1>2. Member(t, k)
    BY <1>1 DEF Member
<1> HIDE DEF t
<1>3. /\ WithoutKey(t, k) \in Seq(S) /\ Len(WithoutKey(t, k)) = Len(t) - 1
      /\ \E i \in DOMAIN t : t[i] = k /\ \A j \in 1 .. Len(t) - 1 :
             WithoutKey(t, k)[j] = IF j < i THEN t[j] ELSE t[j + 1]
    <2>1. t \in Seq(S)
        BY <1>1
    <2> QED
        BY <1>2, <2>1, WithoutKeyPlaces
<1> DEFINE w == WithoutKey(t, k)
<1> HIDE DEF w
<1>4. PICK i \in DOMAIN t : t[i] = k /\ \A j \in 1 .. Len(t) - 1 :
             w[j] = IF j < i THEN t[j] ELSE t[j + 1]
    BY <1>3 DEF w
<1>5. i = Len(s) + 1
    BY <1>1, <1>4 DEF Member
<1>6. Len(w) = Len(s) /\ \A j \in 1 .. Len(w) : w[j] = s[j]
    BY <1>1, <1>3, <1>4, <1>5 DEF w
<1> QED
    BY <1>3, <1>6, SeqEqual DEF t, w

-----------------------------------------------------------------------------
(* The methods of the queue *)

(* push files the item and keeps everything else.                            *)
LEMMA PushKeeps ==
    ASSUME NEW Keys, NEW Items, NEW q \in QueueType(Keys, Items),
           NEW k \in Keys, NEW x \in Items
    PROVE  /\ Push(q, k, x) \in QueueType(Keys, Items)
           /\ \A j \in Keys : \A y : Holds(Push(q, k, x), j, y)
                                   <=> (Holds(q, j, y) \/ (j = k /\ y = x))
           /\ (\A j \in Keys : Once(q.lanes[j])) /\ ~Holds(q, k, x)
                  => \A j \in Keys : Once(Push(q, k, x).lanes[j])
           /\ RotationExact(q) => RotationExact(Push(q, k, x))
<1> DEFINE p == Push(q, k, x)
<1>1. /\ q.lanes \in [Keys -> Seq(Items)] /\ q.lanes[k] \in Seq(Items)
      /\ q.order \in Seq(Keys) /\ q.count \in Int
    BY DEF QueueType
<1>2. /\ p.lanes = [q.lanes EXCEPT ![k] = Append(@, x)]
      /\ p.order = IF q.lanes[k] = << >> THEN Append(q.order, k) ELSE q.order
      /\ p.count = q.count + 1
    BY DEF Push
<1>3. /\ Append(q.lanes[k], x) \in Seq(Items) /\ Append(q.lanes[k], x) # << >>
      /\ \A y : Member(Append(q.lanes[k], x), y) <=> (Member(q.lanes[k], y) \/ y = x)
      /\ Once(q.lanes[k]) /\ ~Member(q.lanes[k], x) => Once(Append(q.lanes[k], x))
    BY <1>1, AppendMembers
<1>4. /\ Append(q.order, k) \in Seq(Keys)
      /\ \A y : Member(Append(q.order, k), y) <=> (Member(q.order, y) \/ y = k)
      /\ Once(q.order) /\ ~Member(q.order, k) => Once(Append(q.order, k))
    BY <1>1, AppendMembers
<1>5. p \in QueueType(Keys, Items)
    BY <1>1, <1>3, <1>4 DEF Push, QueueType
<1> HIDE DEF p
<1>6. ASSUME NEW j \in Keys
      PROVE  p.lanes[j] = IF j = k THEN Append(q.lanes[k], x) ELSE q.lanes[j]
    BY <1>1, <1>2
<1>7. \A j \in Keys : \A y : Holds(p, j, y) <=> (Holds(q, j, y) \/ (j = k /\ y = x))
    BY <1>3, <1>6 DEF Holds
<1>8. ASSUME \A j \in Keys : Once(q.lanes[j]), ~Holds(q, k, x)
      PROVE  \A j \in Keys : Once(p.lanes[j])
    BY <1>3, <1>6, <1>8 DEF Holds
<1>9. ASSUME RotationExact(q) PROVE RotationExact(p)
    <2>1. DOMAIN p.lanes = Keys /\ DOMAIN q.lanes = Keys
        BY <1>1, <1>2
    <2>2. \A j \in Keys : (p.lanes[j] # << >>) <=> Member(p.order, j)
        BY <1>2, <1>3, <1>4, <1>6, <1>9, <2>1 DEF RotationExact
    <2>3. Once(p.order)
        BY <1>2, <1>4, <1>9, <2>1 DEF RotationExact
    <2>4. QED
        BY <2>1, <2>2, <2>3 DEF RotationExact
<1>10. QED
    BY <1>5, <1>7, <1>8, <1>9 DEF p

(* shift takes the head of the lane at the head of the rotation and keeps    *)
(* everything else.                                                          *)
LEMMA ShiftKeeps ==
    ASSUME NEW Keys, NEW Items, NEW q \in QueueType(Keys, Items),
           RotationExact(q), ~Exhausted(q), \A j \in Keys : Once(q.lanes[j])
    PROVE  /\ NextKey(q) \in Keys /\ NextItem(q) \in Items
           /\ Holds(q, NextKey(q), NextItem(q))
           /\ ShiftRest(q) \in QueueType(Keys, Items)
           /\ \A j \in Keys : \A y : Holds(ShiftRest(q), j, y)
                 <=> (Holds(q, j, y) /\ ~(j = NextKey(q) /\ y = NextItem(q)))
           /\ \A j \in Keys : Once(ShiftRest(q).lanes[j])
           /\ RotationExact(ShiftRest(q))
<1> DEFINE p == ShiftRest(q)
           k == NextKey(q)
           lane == q.lanes[k]
           rest == Tail(lane)
<1>1. /\ q.lanes \in [Keys -> Seq(Items)]
      /\ q.order \in Seq(Keys) /\ q.order # << >> /\ q.count \in Int
      /\ DOMAIN q.lanes = Keys
    BY DEF QueueType, Exhausted
<1>2. Once(q.order)
    BY DEF RotationExact
<1>3. /\ k \in Keys /\ Member(q.order, k)
      /\ Tail(q.order) \in Seq(Keys) /\ Once(Tail(q.order))
      /\ \A y : Member(Tail(q.order), y) <=> (Member(q.order, y) /\ y # k)
    BY <1>1, <1>2, TailMembers DEF NextKey
<1>4. /\ Append(Tail(q.order), k) \in Seq(Keys)
      /\ \A y : Member(Append(Tail(q.order), k), y) <=> (Member(Tail(q.order), y) \/ y = k)
      /\ Once(Append(Tail(q.order), k))
    <2> DEFINE others == Tail(q.order)
    <2>1. others \in Seq(Keys) /\ Once(others) /\ k \in Keys /\ ~Member(others, k)
        BY <1>3
    <2> HIDE DEF others, k
    <2>2. /\ Append(others, k) \in Seq(Keys)
          /\ \A y : Member(Append(others, k), y) <=> (Member(others, y) \/ y = k)
          /\ Once(Append(others, k))
        BY <2>1, AppendMembers
    <2>3. QED
        BY <2>2 DEF others
<1>5. lane \in Seq(Items) /\ lane # << >> /\ Once(lane)
    BY <1>1, <1>3 DEF RotationExact
<1>6. /\ Head(lane) \in Items /\ Member(lane, Head(lane))
      /\ rest \in Seq(Items) /\ Once(rest)
      /\ \A y : Member(rest, y) <=> (Member(lane, y) /\ y # Head(lane))
    BY <1>5, TailMembers
<1>7. NextItem(q) = Head(lane)
    BY DEF NextItem
<1>8. /\ p.lanes = [q.lanes EXCEPT ![k] = rest]
      /\ p.order = IF rest = << >> THEN Tail(q.order) ELSE Append(Tail(q.order), k)
    BY DEF ShiftRest, NextKey
<1>9. p \in QueueType(Keys, Items)
    BY <1>1, <1>3, <1>4, <1>6 DEF ShiftRest, NextKey, QueueType
<1> HIDE DEF p, k, lane, rest
<1>10. ASSUME NEW j \in Keys
       PROVE  p.lanes[j] = IF j = k THEN rest ELSE q.lanes[j]
    BY <1>1, <1>8
<1>11. \A j \in Keys : \A y : Holds(p, j, y) <=> (Holds(q, j, y) /\ ~(j = k /\ y = NextItem(q)))
    BY <1>6, <1>7, <1>10 DEF Holds, lane
<1>12. \A j \in Keys : Once(p.lanes[j])
    BY <1>6, <1>10
<1>13. RotationExact(p)
    <2>1. DOMAIN p.lanes = Keys
        BY <1>1, <1>8
    <2>2. \A j \in Keys : (p.lanes[j] # << >>) <=> Member(p.order, j)
        BY <1>1, <1>3, <1>4, <1>8, <1>10 DEF RotationExact
    <2>3. Once(p.order)
        BY <1>3, <1>4, <1>8
    <2>4. QED
        BY <2>1, <2>2, <2>3 DEF RotationExact
<1>14. QED
    BY <1>3, <1>6, <1>7, <1>9, <1>11, <1>12, <1>13 DEF p, k, lane, Holds

(* unshift returns the item and keeps everything else.                       *)
LEMMA UnshiftKeeps ==
    ASSUME NEW Keys, NEW Items, NEW q \in QueueType(Keys, Items),
           NEW k \in Keys, NEW x \in Items, RotationExact(q)
    PROVE  /\ Unshift(q, k, x) \in QueueType(Keys, Items)
           /\ \A j \in Keys : \A y : Holds(Unshift(q, k, x), j, y)
                                   <=> (Holds(q, j, y) \/ (j = k /\ y = x))
           /\ (\A j \in Keys : Once(q.lanes[j])) /\ ~Holds(q, k, x)
                  => \A j \in Keys : Once(Unshift(q, k, x).lanes[j])
           /\ RotationExact(Unshift(q, k, x))
<1> DEFINE p == Unshift(q, k, x)
           lane == << x >> \o q.lanes[k]
<1>1. /\ q.lanes \in [Keys -> Seq(Items)] /\ q.lanes[k] \in Seq(Items)
      /\ q.order \in Seq(Keys) /\ q.count \in Int
      /\ DOMAIN q.lanes = Keys
    BY DEF QueueType
<1>2. Once(q.order)
    BY DEF RotationExact
<1>3. /\ WithoutKey(q.order, k) \in Seq(Keys) /\ Once(WithoutKey(q.order, k))
      /\ \A y : Member(WithoutKey(q.order, k), y) <=> (Member(q.order, y) /\ y # k)
    BY <1>1, <1>2, WithoutKeyMembers
<1>4. /\ UnshiftOrder(q, k) \in Seq(Keys) /\ Once(UnshiftOrder(q, k))
      /\ \A y : Member(UnshiftOrder(q, k), y) <=> (Member(q.order, y) \/ y = k)
    BY <1>3, PrependMembers DEF UnshiftOrder
<1>5. /\ lane \in Seq(Items) /\ lane # << >>
      /\ \A y : Member(lane, y) <=> (Member(q.lanes[k], y) \/ y = x)
      /\ Once(q.lanes[k]) /\ ~Member(q.lanes[k], x) => Once(lane)
    BY <1>1, PrependMembers
<1>6. p.lanes = [q.lanes EXCEPT ![k] = lane] /\ p.order = UnshiftOrder(q, k)
    BY DEF Unshift
<1>7. p \in QueueType(Keys, Items)
    BY <1>1, <1>4, <1>5 DEF Unshift, QueueType
<1> HIDE DEF p, lane
<1>8. ASSUME NEW j \in Keys
      PROVE  p.lanes[j] = IF j = k THEN lane ELSE q.lanes[j]
    BY <1>1, <1>6
<1>9. \A j \in Keys : \A y : Holds(p, j, y) <=> (Holds(q, j, y) \/ (j = k /\ y = x))
    BY <1>5, <1>8 DEF Holds
<1>10. ASSUME \A j \in Keys : Once(q.lanes[j]), ~Holds(q, k, x)
       PROVE  \A j \in Keys : Once(p.lanes[j])
    BY <1>5, <1>8, <1>10 DEF Holds
<1>11. RotationExact(p)
    <2>1. DOMAIN p.lanes = Keys
        BY <1>1, <1>6
    <2>2. \A j \in Keys : (p.lanes[j] # << >>) <=> Member(p.order, j)
        BY <1>1, <1>4, <1>5, <1>6, <1>8 DEF RotationExact
    <2>3. QED
        BY <1>4, <1>6, <2>1, <2>2 DEF RotationExact
<1>12. QED
    BY <1>7, <1>9, <1>10, <1>11 DEF p

(* unshift undoes shift: the item is at the head of its lane again, the lane *)
(* at the head of the rotation, and every other lane has its place back.     *)
LEMMA UnshiftUndoesShift ==
    ASSUME NEW Keys, NEW Items, NEW q \in QueueType(Keys, Items),
           RotationExact(q), ~Exhausted(q)
    PROVE  Unshift(ShiftRest(q), NextKey(q), NextItem(q)) = q
<1> DEFINE k == NextKey(q)
           others == Tail(q.order)
           rest == Tail(q.lanes[k])
           p == ShiftRest(q)
           u == Unshift(p, k, NextItem(q))
<1>1. /\ q.lanes \in [Keys -> Seq(Items)] /\ q.order \in Seq(Keys) /\ q.order # << >>
      /\ q.count \in Int
      /\ q = [lanes |-> q.lanes, order |-> q.order, count |-> q.count]
    BY DEF QueueType, Exhausted
<1>2. /\ k \in Keys /\ Member(q.order, k) /\ k = Head(q.order)
      /\ others \in Seq(Keys) /\ ~Member(others, k)
    BY <1>1, TailMembers DEF RotationExact, NextKey
<1>3. /\ q.lanes[k] \in Seq(Items) /\ q.lanes[k] # << >>
      /\ rest \in Seq(Items) /\ Head(q.lanes[k]) \in Items
    BY <1>1, <1>2, HeadTailProperties DEF RotationExact
<1>4. << k >> \o others = q.order /\ << NextItem(q) >> \o rest = q.lanes[k]
    BY <1>1, <1>2, <1>3, HeadThenTail DEF NextItem
<1>5. /\ p.lanes = [q.lanes EXCEPT ![k] = rest] /\ p.count = q.count - 1
      /\ p.order = IF rest = << >> THEN others ELSE Append(others, k)
    BY DEF ShiftRest, NextKey
<1>6. /\ u.lanes = [p.lanes EXCEPT ![k] = << NextItem(q) >> \o @] /\ u.count = p.count + 1
      /\ u.order = << k >> \o WithoutKey(p.order, k)
      /\ u = [lanes |-> u.lanes, order |-> u.order, count |-> u.count]
    BY DEF Unshift, UnshiftOrder
<1> HIDE DEF k, others, rest, p, u
<1>7. u.lanes = q.lanes
    BY <1>1, <1>2, <1>4, <1>5, <1>6
<1>8. WithoutKey(p.order, k) = others
    <2>1. WithoutKey(others, k) = others
        BY <1>2 DEF WithoutKey
    <2>2. WithoutKey(Append(others, k), k) = others
        BY <1>2, WithoutLast
    <2> QED
        BY <1>5, <2>1, <2>2
<1>9. u.order = q.order /\ u.count = q.count
    BY <1>1, <1>4, <1>5, <1>6, <1>8
<1> QED
    BY <1>1, <1>6, <1>7, <1>9 DEF k, p, u
=============================================================================
