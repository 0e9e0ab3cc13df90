------------------------- MODULE SessionQueueProofs -------------------------
(* What holds of the messages of a conversation, however many there are and *)
(* however often the process leaves.                                        *)
EXTENDS SessionQueue, FiniteSetTheorems, SequenceTheorems, TLAPS

-----------------------------------------------------------------------------
(* Sequences as places: what stands there, and whether twice                 *)

Has(m, s) == \E i \in DOMAIN s : s[i] = m
Once(m, s) == \A i, j \in DOMAIN s : s[i] = m /\ s[j] = m => i = j

LEMMA HasRange ==
    ASSUME NEW m, NEW s PROVE m \in Range(s) <=> Has(m, s)
BY DEF Range, Has

LEMMA HasNothing ==
    ASSUME NEW m PROVE << >> \in Seq(Messages) /\ ~Has(m, << >>) /\ Once(m, << >>)
BY DEF Has, Once

LEMMA HasSome ==
    ASSUME NEW s \in Seq(Messages) PROVE s # << >> => \E m \in Messages : Has(m, s)
<1> SUFFICES ASSUME s # << >> PROVE \E m \in Messages : Has(m, s)
    OBVIOUS
<1>1. 1 \in DOMAIN s /\ s[1] \in Messages
    OBVIOUS
<1> QED
    BY <1>1 DEF Has

LEMMA HasAppend ==
    ASSUME NEW s \in Seq(Messages), NEW x \in Messages
    PROVE  /\ Append(s, x) \in Seq(Messages)
           /\ \A m : Has(m, Append(s, x)) <=> Has(m, s) \/ m = x
           /\ \A m : Once(m, s) /\ (m = x => ~Has(m, s)) => Once(m, Append(s, x))
<1> DEFINE a == Append(s, x)
<1>1. /\ a \in Seq(Messages) /\ Len(a) = Len(s) + 1 /\ DOMAIN a = 1 .. Len(s) + 1
      /\ \A i \in 1 .. Len(s) : a[i] = s[i]
      /\ a[Len(s) + 1] = x
      /\ DOMAIN s = 1 .. Len(s) /\ Len(s) \in Nat
    OBVIOUS
<1> HIDE DEF a
<1>2. \A m : Has(m, a) <=> Has(m, s) \/ m = x
    BY <1>1 DEF Has
<1>3. \A m : Once(m, s) /\ (m = x => ~Has(m, s)) => Once(m, a)
    BY <1>1 DEF Has, Once
<1> QED
    BY <1>1, <1>2, <1>3 DEF a

LEMMA HasPart ==
    ASSUME NEW s \in Seq(Messages), NEW k \in Nat, NEW l \in Nat, 1 <= k, k <= l + 1, l <= Len(s)
    PROVE  /\ SubSeq(s, k, l) \in Seq(Messages)
           /\ \A m : Has(m, SubSeq(s, k, l)) <=> \E i \in k .. l : s[i] = m
           /\ \A m : Once(m, s) => Once(m, SubSeq(s, k, l))
<1> DEFINE p == SubSeq(s, k, l)
<1>1. /\ p \in Seq(Messages) /\ DOMAIN p = 1 .. l - k + 1
      /\ \A i \in 1 .. l - k + 1 : p[i] = s[k + i - 1]
      /\ DOMAIN s = 1 .. Len(s) /\ Len(s) \in Nat
    OBVIOUS
<1> HIDE DEF p
<1>2. \A m : Has(m, p) => \E i \in k .. l : s[i] = m
    BY <1>1 DEF Has
<1>3. ASSUME NEW i \in k .. l PROVE Has(s[i], p)
  <2>1. i - k + 1 \in 1 .. l - k + 1 /\ k + (i - k + 1) - 1 = i
      OBVIOUS
  <2> QED
      BY <1>1, <2>1 DEF Has
<1>4. \A m : Once(m, s) => Once(m, p)
  <2> SUFFICES ASSUME NEW m, Once(m, s), NEW i \in 1 .. l - k + 1, NEW j \in 1 .. l - k + 1,
                      p[i] = m, p[j] = m
               PROVE  i = j
      BY <1>1 DEF Once
  <2>1. k + i - 1 \in DOMAIN s /\ k + j - 1 \in DOMAIN s
      BY <1>1
  <2>2. s[k + i - 1] = m /\ s[k + j - 1] = m
      BY <1>1
  <2>3. k + i - 1 = k + j - 1
      BY <2>1, <2>2 DEF Once
  <2> QED
      BY <2>3
<1> QED
    BY <1>1, <1>2, <1>3, <1>4 DEF p

LEMMA HasTail ==
    ASSUME NEW s \in Seq(Messages), s # << >>
    PROVE  /\ Tail(s) \in Seq(Messages) /\ Head(s) \in Messages
           /\ \A m : Has(m, s) <=> Has(m, Tail(s)) \/ m = Head(s)
           /\ \A m : Once(m, s) => Once(m, Tail(s)) /\ ~(m = Head(s) /\ Has(m, Tail(s)))
<1>1. /\ Tail(s) = SubSeq(s, 2, Len(s)) /\ Head(s) = s[1] /\ Head(s) \in Messages
      /\ Len(s) \in Nat /\ 1 <= Len(s) /\ DOMAIN s = 1 .. Len(s)
    OBVIOUS
<1>2. /\ Tail(s) \in Seq(Messages)
      /\ \A m : Has(m, Tail(s)) <=> \E i \in 2 .. Len(s) : s[i] = m
      /\ \A m : Once(m, s) => Once(m, Tail(s))
  <2> DEFINE l == Len(s)
  <2>1. l \in Nat /\ 2 \in Nat /\ 1 <= 2 /\ 2 <= l + 1 /\ l <= Len(s)
      BY <1>1
  <2> HIDE DEF l
  <2>2. /\ SubSeq(s, 2, l) \in Seq(Messages)
        /\ \A m : Has(m, SubSeq(s, 2, l)) <=> \E i \in 2 .. l : s[i] = m
        /\ \A m : Once(m, s) => Once(m, SubSeq(s, 2, l))
      BY <2>1, HasPart
  <2> QED
      BY <1>1, <2>2 DEF l
<1>3. \A m : Has(m, s) <=> Has(m, Tail(s)) \/ m = Head(s)
  <2>1. \A m : Has(m, s) <=> \E i \in 1 .. Len(s) : s[i] = m
      BY <1>1 DEF Has
  <2> QED
      BY <1>1, <1>2, <2>1
<1>4. ASSUME NEW m, Once(m, s), m = Head(s), Has(m, Tail(s)) PROVE FALSE
  <2>1. PICK i \in 2 .. Len(s) : s[i] = m
      BY <1>2, <1>4
  <2> QED
      BY <1>1, <1>4, <2>1 DEF Once
<1> QED
    BY <1>1, <1>2, <1>3, <1>4

LEMMA HasUntail ==
    ASSUME NEW s \in Seq(Messages), s # << >>
    PROVE  \A m : m # Head(s) /\ Once(m, Tail(s)) => Once(m, s)
<1> SUFFICES ASSUME NEW m, m # Head(s), Once(m, Tail(s)),
                    NEW i \in DOMAIN s, NEW j \in DOMAIN s, s[i] = m, s[j] = m
             PROVE  i = j
    BY DEF Once
<1>1. /\ DOMAIN s = 1 .. Len(s) /\ Len(s) \in Nat /\ Head(s) = s[1]
      /\ DOMAIN Tail(s) = 1 .. Len(s) - 1
      /\ \A k \in 1 .. Len(s) - 1 : Tail(s)[k] = s[k + 1]
    OBVIOUS
<1>2. i # 1 /\ j # 1
    BY <1>1
<1>3. /\ i - 1 \in 1 .. Len(s) - 1 /\ Tail(s)[i - 1] = m
      /\ j - 1 \in 1 .. Len(s) - 1 /\ Tail(s)[j - 1] = m
  <2>1. /\ i - 1 \in 1 .. Len(s) - 1 /\ (i - 1) + 1 = i
        /\ j - 1 \in 1 .. Len(s) - 1 /\ (j - 1) + 1 = j
      BY <1>1, <1>2
  <2> QED
      BY <1>1, <2>1
<1>4. i - 1 = j - 1
    BY <1>1, <1>3 DEF Once
<1> QED
    BY <1>1, <1>4

LEMMA HasConcat ==
    ASSUME NEW s \in Seq(Messages), NEW t \in Seq(Messages)
    PROVE  /\ s \o t \in Seq(Messages)
           /\ \A m : Has(m, s \o t) <=> Has(m, s) \/ Has(m, t)
           /\ \A m : Once(m, s) /\ Once(m, t) /\ ~(Has(m, s) /\ Has(m, t)) => Once(m, s \o t)
<1> DEFINE c == s \o t
<1>1. /\ c \in Seq(Messages) /\ DOMAIN c = 1 .. Len(s) + Len(t)
      /\ \A i \in 1 .. Len(s) : c[i] = s[i]
      /\ \A i \in Len(s) + 1 .. Len(s) + Len(t) : c[i] = t[i - Len(s)]
      /\ DOMAIN s = 1 .. Len(s) /\ DOMAIN t = 1 .. Len(t) /\ Len(s) \in Nat /\ Len(t) \in Nat
    OBVIOUS
<1> HIDE DEF c
<1>2. ASSUME NEW i \in DOMAIN c
      PROVE  (i \in DOMAIN s /\ c[i] = s[i]) \/ (i - Len(s) \in DOMAIN t /\ c[i] = t[i - Len(s)])
    BY <1>1
<1>3. \A m : Has(m, c) => Has(m, s) \/ Has(m, t)
    BY <1>2 DEF Has
<1>4. \A m : Has(m, s) => Has(m, c)
    BY <1>1 DEF Has
<1>5. ASSUME NEW i \in DOMAIN t PROVE Has(t[i], c)
  <2>1. /\ i + Len(s) \in Len(s) + 1 .. Len(s) + Len(t) /\ i + Len(s) \in DOMAIN c
        /\ (i + Len(s)) - Len(s) = i
      BY <1>1
  <2> QED
      BY <1>1, <2>1 DEF Has
<1>6. \A m : Once(m, s) /\ Once(m, t) /\ ~(Has(m, s) /\ Has(m, t)) => Once(m, c)
  <2> SUFFICES ASSUME NEW m, Once(m, s), Once(m, t), ~(Has(m, s) /\ Has(m, t)),
                      NEW i \in DOMAIN c, NEW j \in DOMAIN c, c[i] = m, c[j] = m
               PROVE  i = j
      BY DEF Once
  <2>1. (i \in DOMAIN s /\ s[i] = m) \/ (i - Len(s) \in DOMAIN t /\ t[i - Len(s)] = m)
      BY <1>2
  <2>2. (j \in DOMAIN s /\ s[j] = m) \/ (j - Len(s) \in DOMAIN t /\ t[j - Len(s)] = m)
      BY <1>2
  <2>3. CASE Has(m, s)
    <3>1. i \in DOMAIN s /\ s[i] = m /\ j \in DOMAIN s /\ s[j] = m
        BY <2>1, <2>2, <2>3 DEF Has
    <3> QED
        BY <3>1 DEF Once
  <2>4. CASE ~Has(m, s)
    <3>1. /\ i - Len(s) \in DOMAIN t /\ t[i - Len(s)] = m
          /\ j - Len(s) \in DOMAIN t /\ t[j - Len(s)] = m
        BY <2>1, <2>2, <2>4 DEF Has
    <3>2. i - Len(s) = j - Len(s)
        BY <3>1 DEF Once
    <3> QED
        BY <1>1, <3>2
  <2> QED
      BY <2>3, <2>4
<1> QED
    BY <1>1, <1>3, <1>4, <1>5, <1>6 DEF c, Has

LEMMA HasRemoved ==
    ASSUME NEW s \in Seq(Messages), NEW i \in DOMAIN s
    PROVE  /\ RemoveAt(s, i) \in Seq(Messages) /\ s[i] \in Messages
           /\ \A m : Has(m, RemoveAt(s, i)) => Has(m, s)
           /\ \A m : Has(m, s) => Has(m, RemoveAt(s, i)) \/ m = s[i]
           /\ \A m : Once(m, s) => Once(m, RemoveAt(s, i)) /\ ~(m = s[i] /\ Has(m, RemoveAt(s, i)))
<1> DEFINE f == SubSeq(s, 1, i - 1)
           g == SubSeq(s, i + 1, Len(s))
<1>1. /\ Len(s) \in Nat /\ DOMAIN s = 1 .. Len(s)
      /\ i \in Nat /\ 1 <= i /\ i <= Len(s) /\ s[i] \in Messages
    OBVIOUS
<1>2. /\ f \in Seq(Messages)
      /\ \A m : Has(m, f) <=> \E j \in 1 .. i - 1 : s[j] = m
      /\ \A m : Once(m, s) => Once(m, f)
    BY <1>1, HasPart
<1>3. /\ g \in Seq(Messages)
      /\ \A m : Has(m, g) <=> \E j \in i + 1 .. Len(s) : s[j] = m
      /\ \A m : Once(m, s) => Once(m, g)
    BY <1>1, HasPart
<1> HIDE DEF f, g
<1>4. /\ f \o g \in Seq(Messages)
      /\ \A m : Has(m, f \o g) <=> Has(m, f) \/ Has(m, g)
      /\ \A m : Once(m, f) /\ Once(m, g) /\ ~(Has(m, f) /\ Has(m, g)) => Once(m, f \o g)
    BY <1>2, <1>3, HasConcat
<1>5. \A m : Has(m, s) <=> Has(m, f) \/ Has(m, g) \/ m = s[i]
  <2>1. \A m : Has(m, s) <=> \E j \in 1 .. Len(s) : s[j] = m
      BY <1>1 DEF Has
  <2> QED
      BY <1>1, <1>2, <1>3, <2>1
<1>6. ASSUME NEW m, Once(m, s)
      PROVE  ~(Has(m, f) /\ Has(m, g)) /\ ~(m = s[i] /\ (Has(m, f) \/ Has(m, g)))
  <2>1. \A j, k \in 1 .. Len(s) : s[j] = m /\ s[k] = m => j = k
      BY <1>1, <1>6 DEF Once
  <2>2. Has(m, f) => \E j \in 1 .. Len(s) : s[j] = m /\ j < i
      BY <1>1, <1>2
  <2>3. Has(m, g) => \E j \in 1 .. Len(s) : s[j] = m /\ j > i
      BY <1>1, <1>3
  <2>4. ~(Has(m, f) /\ Has(m, g))
    <3> SUFFICES ASSUME NEW j \in 1 .. Len(s), NEW k \in 1 .. Len(s),
                        s[j] = m, s[k] = m, j < i, k > i
                 PROVE  FALSE
        BY <2>2, <2>3
    <3>1. j = k
        BY <2>1
    <3> QED
        BY <1>1, <3>1
  <2>5. m = s[i] => ~Has(m, f) /\ ~Has(m, g)
      BY <1>1, <2>1, <2>2, <2>3
  <2> QED
      BY <2>4, <2>5
<1>7. RemoveAt(s, i) = f \o g
    BY DEF RemoveAt, f, g
<1> QED
    BY <1>1, <1>2, <1>3, <1>4, <1>5, <1>6, <1>7

(* The last d of s, and what comes behind it is in C                         *)
Standing(d, s, C) ==
    \E p \in DOMAIN s : s[p] = d /\ \A j \in DOMAIN s : j > p => s[j] # d /\ s[j] \in C

LEMMA StandingAppend ==
    ASSUME NEW s \in Seq(Messages), NEW x \in Messages, NEW d, NEW C, NEW D,
           Standing(d, s, C), C \subseteq D, x \in D
    PROVE  Standing(d, Append(s, x), D)
<1> DEFINE a == Append(s, x)
<1>1. /\ DOMAIN a = 1 .. Len(s) + 1 /\ \A i \in 1 .. Len(s) : a[i] = s[i]
      /\ a[Len(s) + 1] = x /\ DOMAIN s = 1 .. Len(s) /\ Len(s) \in Nat
    OBVIOUS
<1> HIDE DEF a
<1>2. CASE x = d
    BY <1>1, <1>2 DEF Standing, a
<1>3. CASE x # d
    BY <1>1, <1>3 DEF Standing, a
<1> QED
    BY <1>2, <1>3

LEMMA StandingLast ==
    ASSUME NEW s \in Seq(Messages), s # << >>, NEW C PROVE Standing(s[Len(s)], s, C)
<1>1. DOMAIN s = 1 .. Len(s) /\ Len(s) \in DOMAIN s /\ Len(s) \in Nat
    OBVIOUS
<1> QED
    BY <1>1 DEF Standing

LEMMA BeforeLast ==
    ASSUME NEW d \in Messages, NEW C, rows \in Seq(Messages), Standing(d, rows, C)
    PROVE  /\ RowsBefore(d) \in Seq(Messages)
           /\ \A m : Has(m, RowsBefore(d)) => Has(m, rows)
           /\ \A m : Has(m, rows) => Has(m, RowsBefore(d)) \/ m = d \/ m \in C
           /\ \A m : Once(m, rows) => Once(m, RowsBefore(d)) /\ ~(m = d /\ Has(m, RowsBefore(d)))
<1>1. PICK p \in DOMAIN rows :
          rows[p] = d /\ \A j \in DOMAIN rows : j > p => rows[j] # d /\ rows[j] \in C
    BY DEF Standing
<1>2. DOMAIN rows = 1 .. Len(rows) /\ Len(rows) \in Nat
    OBVIOUS
<1>3. rows[p] = d /\ \A j \in DOMAIN rows : rows[j] = d => j <= p
    BY <1>1, <1>2
<1>4. LastRowOf(d) = p
  <2>1. /\ LastRowOf(d) \in DOMAIN rows /\ rows[LastRowOf(d)] = d
        /\ \A j \in DOMAIN rows : rows[j] = d => j <= LastRowOf(d)
      BY <1>3 DEF LastRowOf
  <2>2. LastRowOf(d) <= p /\ p <= LastRowOf(d)
      BY <1>3, <2>1
  <2> QED
      BY <1>2, <2>1, <2>2
<1>5. RowsBefore(d) = SubSeq(rows, 1, p - 1)
    BY <1>1, <1>4 DEF RowsBefore, Range
<1> DEFINE k == p - 1
           b == SubSeq(rows, 1, k)
<1>6. k \in Nat /\ 1 <= k + 1 /\ k <= Len(rows) /\ 1 \in Nat /\ p = k + 1
    BY <1>2
<1> HIDE DEF k
<1>7. /\ b \in Seq(Messages)
      /\ \A m : Has(m, b) <=> \E i \in 1 .. k : rows[i] = m
      /\ \A m : Once(m, rows) => Once(m, b)
    BY <1>6, HasPart
<1> HIDE DEF b
<1>8. \A m : Has(m, b) => Has(m, rows)
  <2>1. \A m : Has(m, rows) <=> \E i \in 1 .. Len(rows) : rows[i] = m
      BY <1>2 DEF Has
  <2> QED
      BY <1>2, <1>6, <1>7, <2>1
<1>9. ASSUME NEW i \in DOMAIN rows PROVE Has(rows[i], b) \/ rows[i] = d \/ rows[i] \in C
  <2>1. i \in 1 .. k \/ i = p \/ i > p
      BY <1>2, <1>6
  <2> QED
      BY <1>1, <1>7, <2>1
<1>10. Once(d, rows) => ~Has(d, b)
  <2>1. \A i \in 1 .. k : i \in DOMAIN rows /\ i # p
      BY <1>2, <1>6
  <2> QED
      BY <1>1, <1>7, <2>1 DEF Once
<1>11. RowsBefore(d) = b
    BY <1>5 DEF b, k
<1>12. \A m : Has(m, rows) => Has(m, b) \/ m = d \/ m \in C
    BY <1>9 DEF Has
<1> QED
    BY <1>7, <1>8, <1>10, <1>11, <1>12

-----------------------------------------------------------------------------
(* The inductive invariant                                                   *)

Pauses == Pausing => exits < MaxExits

(* Only what was sent stands anywhere, was taken back or went astray.        *)
Owned ==
    \A m \in Messages :
        \/ Has(m, rows) \/ Has(m, queue) \/ Has(m, promote) \/ Has(m, paused) \/ Has(m, replay)
        \/ m \in taken \cup cut
        => m \in sent

(* A dead process holds nothing.                                             *)
Down ==
    proc = "down" =>
        /\ queue = << >> /\ promote = << >> /\ replay = << >>
        /\ turn = "idle" /\ item = "none" /\ prom = "none"
        /\ lastAdmitted = None /\ doomed = None /\ ~esc

(* The row an Esc would discard is the last one ...                          *)
LastRow == lastAdmitted # None => rows # << >> /\ rows[Len(rows)] = lastAdmitted

(* ... and what comes behind the one it has decided on, or into the queue    *)
(* between the two clearings, went past the fence.                           *)
Armed == doomed # None => esc /\ Standing(doomed, rows, past)

Noted == esc \/ prom = "aborting" => \A m \in Messages : Has(m, queue) => m \in past

(* The message whose turn a promotion waits for has its row.                 *)
InTurn == prom = "inTurn" => Has(Head(promote), rows)

(* In the memory of the process.                                             *)
Waiting(m) == Has(m, queue) \/ Has(m, Unsent) \/ Has(m, replay)

Placed ==
    \A m \in sent \ (taken \cup cut) : Has(m, rows) \/ Has(m, paused) \/ Waiting(m)

(* In each place once, and in one place; a checkpoint and the queue it       *)
(* copies count as one until the process leaves.                             *)
Alone(m) ==
    /\ Once(m, rows) /\ Once(m, queue) /\ Once(m, Unsent) /\ Once(m, replay) /\ Once(m, paused)
    /\ Has(m, rows) => ~Waiting(m)
    /\ Has(m, queue) => ~Has(m, Unsent) /\ ~Has(m, replay)
    /\ Has(m, Unsent) => ~Has(m, replay)
    /\ Has(m, paused) => /\ ~Has(m, rows) /\ ~Has(m, Unsent) /\ ~Has(m, replay)
                         /\ Has(m, queue) => Pausing

Unique == \A m \in Messages \ doubled : Alone(m)

Nowhere(m) == ~Has(m, rows) /\ ~Waiting(m) /\ ~Has(m, paused)

LeftGone == \A m \in (taken \cup cut) \ doubled : Nowhere(m)

IInv ==
    /\ ProcessOK /\ QueuesOK /\ ClaimsOK /\ HistoryOK
    /\ Pauses /\ Owned /\ Down /\ LastRow /\ Armed /\ Noted /\ InTurn
    /\ Placed /\ Unique /\ LeftGone

-----------------------------------------------------------------------------
(* What a turn's end and a new turn do to the places                         *)

LEMMA Ranges ==
    \A m : /\ m \in Range(rows) <=> Has(m, rows)
           /\ m \in Range(queue) <=> Has(m, queue)
           /\ m \in Range(promote) <=> Has(m, promote)
           /\ m \in Range(Unsent) <=> Has(m, Unsent)
           /\ m \in Range(paused) <=> Has(m, paused)
           /\ m \in Range(replay) <=> Has(m, replay)
BY HasRange

LEMMA Senders ==
    ASSUME QueuesOK
    PROVE  /\ Range(rows) \subseteq Messages /\ Range(queue) \subseteq Messages
           /\ Range(promote) \subseteq Messages /\ Range(paused) \subseteq Messages
           /\ Range(replay) \subseteq Messages
BY DEF QueuesOK, Range

LEMMA UnsentIs ==
    ASSUME QueuesOK
    PROVE  /\ Unsent \in Seq(Messages)
           /\ \A m : Has(m, Unsent) => Has(m, promote)
           /\ prom # "inTurn" => Unsent = promote
           /\ prom = "inTurn" => /\ Head(promote) \in Messages /\ Has(Head(promote), promote)
                                 /\ \A m : Has(m, promote) => Has(m, Unsent) \/ m = Head(promote)
<1>1. CASE prom = "inTurn"
  <2>1. promote \in Seq(Messages) /\ promote # << >> /\ Unsent = Tail(promote)
      BY <1>1 DEF QueuesOK, Unsent
  <2> QED
      BY <1>1, <2>1, HasTail
<1>2. CASE prom # "inTurn"
    BY <1>2 DEF QueuesOK, Unsent
<1> QED
    BY <1>1, <1>2

LEMMA CopiedIs ==
    ASSUME NEW S PROVE /\ \A m : m \in Copied(S) <=> Pausing /\ m \in S /\ Has(m, paused)
                       /\ \A m : m \in Unsaved(S) <=> m \in S /\ ~Has(m, paused)
                       /\ \A m : m \in Passed(S) => m \in past \/ m \in S
                       /\ past \subseteq Passed(S)
                       /\ esc \/ prom = "aborting" => S \subseteq Passed(S)
BY Ranges DEF Copied, Unsaved, Passed

Overs ==
    /\ turn' = "idle" /\ lastAdmitted' = None /\ output' = output
    /\ item' \in Items /\ item' \notin {"continuing", "replayTurn"}
    /\ replay' # << >> => item' = "replaying"
    /\ paused' \in Seq(Messages) /\ replay' \in Seq(Messages)
    /\ \/ UNCHANGED << paused, replay >>
       \/ /\ \A m : Has(m, replay') <=> Has(m, paused)
          /\ \A m : Once(m, paused) => Once(m, replay')
          /\ \A m : ~Has(m, replay) /\ ~Has(m, paused') /\ Once(m, paused')
          /\ item = "continuing"
    /\ \A m : m \in TakenInPause <=> Pausing /\ Has(m, queue) /\ Has(m, paused) /\ ~Has(m, paused')

LEMMA OverStep == ASSUME IInv, TurnOver PROVE Overs
<1> USE DEF IInv, QueuesOK, ClaimsOK, Items
<1>1. /\ turn' = "idle" /\ lastAdmitted' = None /\ output' = output
      /\ item' \in Items /\ item' \notin {"continuing", "replayTurn"}
      /\ replay' # << >> => item' = "replaying"
      /\ paused' \in Seq(Messages) /\ replay' \in Seq(Messages)
    BY HasNothing DEF TurnOver, TakePaused
<1>2. \/ UNCHANGED << paused, replay >>
      \/ paused' = << >> /\ replay' = paused /\ replay = << >> /\ item = "continuing"
    BY DEF TurnOver, TakePaused
<1>3. \A m : ~Has(m, << >>) /\ Once(m, << >>)
    BY HasNothing
<1>4. \A m : m \in TakenInPause <=> Pausing /\ Has(m, queue) /\ Has(m, paused) /\ ~Has(m, paused')
    BY <1>2, <1>3, Ranges, CopiedIs DEF TakenInPause
<1> QED
    BY <1>1, <1>2, <1>3, <1>4 DEF Overs

Admits(m) ==
    /\ turn' = "running" /\ live' = TRUE /\ output' \in BOOLEAN
    /\ lastAdmitted' \in Messages \cup {None} /\ LastRow'
    /\ rows' \in Seq(Messages) /\ queue' \in Seq(Messages)
    /\ \A x : Has(x, rows') <=> Has(x, rows) \/ (x = m /\ turn = "idle")
    /\ \A x : Has(x, queue') <=> Has(x, queue) \/ (x = m /\ turn # "idle")
    /\ \A x : Once(x, rows) /\ (x = m => ~Has(x, rows)) => Once(x, rows')
    /\ \A x : Once(x, queue) /\ (x = m => ~Has(x, queue)) => Once(x, queue')
    /\ \A C, D : Standing(doomed, rows, C) /\ C \subseteq D /\ m \in D
                 => Standing(doomed, rows', D)

\* The promotion that waited for the turn has it behind it.
NowUnsent ==
    /\ Unsent' = Unsent /\ promote' = Unsent /\ promote' \in Seq(Messages)
    /\ prom' \in Promotion /\ prom' # "inTurn" /\ (prom' = "none" <=> prom = "none")
    /\ (prom' = "aborting" <=> prom = "aborting")
    /\ promote' # << >> => prom' # "none"

LEMMA NowUnsentStep == ASSUME IInv, NextPromoted PROVE NowUnsent
<1>1. QueuesOK /\ prom \in Promotion
    BY DEF IInv, ClaimsOK
<1>2. /\ promote' = Unsent /\ Unsent \in Seq(Messages)
      /\ prom' = IF prom = "inTurn" THEN "sending" ELSE prom
    BY <1>1, UnsentIs DEF NextPromoted
<1>3. prom # "inTurn" => Unsent = promote /\ (promote # << >> => prom # "none")
    BY <1>1, UnsentIs DEF QueuesOK
<1>4. prom' # "inTurn"
    BY <1>2
<1>5. Unsent' = promote'
    BY <1>4 DEF Unsent
<1> QED
    BY <1>1, <1>2, <1>3, <1>4, <1>5 DEF NowUnsent, Promotion

LEMMA AdmitStep ==
    ASSUME IInv, NEW m \in Messages, StartTurn(m) \/ Steer(m) PROVE Admits(m)
<1>1. rows \in Seq(Messages) /\ queue \in Seq(Messages)
    BY DEF IInv, QueuesOK
<1>2. CASE StartTurn(m)
  <2>1. /\ turn = "idle" /\ turn' = "running" /\ live' = TRUE /\ output' = FALSE
        /\ lastAdmitted' = m /\ rows' = Append(rows, m) /\ queue' = queue
      BY <1>2 DEF StartTurn
  <2>2. rows' # << >> /\ rows'[Len(rows')] = m
      BY <1>1, <2>1
  <2>3. \A C, D : Standing(doomed, rows, C) /\ C \subseteq D /\ m \in D
                  => Standing(doomed, rows', D)
      BY <1>1, <2>1, StandingAppend
  <2>4. /\ rows' \in Seq(Messages)
        /\ \A x : Has(x, rows') <=> Has(x, rows) \/ x = m
        /\ \A x : Once(x, rows) /\ (x = m => ~Has(x, rows)) => Once(x, rows')
      BY <1>1, <2>1, HasAppend
  <2> QED
      BY <1>1, <2>1, <2>2, <2>3, <2>4 DEF LastRow, Admits
<1>3. CASE Steer(m)
  <2>1. /\ turn = "running" /\ turn' = turn /\ live' = live /\ output' = output
        /\ lastAdmitted' = lastAdmitted /\ queue' = Append(queue, m) /\ rows' = rows
      BY <1>3 DEF Steer, turnVars
  <2>2. live = TRUE /\ output \in BOOLEAN /\ lastAdmitted \in Messages \cup {None}
      BY <2>1 DEF IInv, ProcessOK, ClaimsOK
  <2>3. \A C, D : Standing(doomed, rows, C) /\ C \subseteq D => Standing(doomed, rows', D)
      BY <2>1 DEF Standing
  <2>4. /\ queue' \in Seq(Messages)
        /\ \A x : Has(x, queue') <=> Has(x, queue) \/ x = m
        /\ \A x : Once(x, queue) /\ (x = m => ~Has(x, queue)) => Once(x, queue')
      BY <1>1, <2>1, HasAppend
  <2> QED
      BY <1>1, <2>1, <2>2, <2>3, <2>4 DEF IInv, LastRow, Admits
<1> QED
    BY <1>2, <1>3

-----------------------------------------------------------------------------
(* The steps                                                                 *)

LEMMA SendStep == ASSUME IInv, NEW m \in Messages, Send(m) PROVE IInv'
<1>a. Admits(m)
    BY AdmitStep DEF Send
<1>u. Unsent' = Unsent
    BY DEF Send, promVars, Unsent
<1> USE QueueConstants DEF IInv, Pausing
<1>1. ProcessOK' /\ QueuesOK' /\ ClaimsOK' /\ HistoryOK' /\ Pauses' /\ LastRow'
    BY <1>a DEF Send, Admits, ProcessOK, promVars, QueuesOK, escVars,
       ClaimsOK, HistoryOK, Pauses, Fenced
<1>2. Owned' /\ Down'
    BY <1>a DEF Send, Admits, promVars, Owned, Down, Fenced, escVars
<1>3. Armed' /\ Noted' /\ InTurn'
    BY DEF Send, Fenced, escVars, promVars, Armed, Noted, InTurn
<1>4. Placed' /\ Unique'
    BY <1>a, <1>u, UnsentIs DEF Send, Admits, Placed, Waiting, Unique, Alone, Owned
<1>5. LeftGone'
    BY <1>a, <1>u DEF Send, Admits, LeftGone, Nowhere, Waiting, Owned
<1> QED
    BY <1>1, <1>2, <1>3, <1>4, <1>5 DEF IInv

LEMMA DeliverStep == ASSUME IInv, Deliver PROVE IInv'
<1> DEFINE h == Head(queue)
<1>q. queue \in Seq(Messages) /\ rows \in Seq(Messages) /\ queue # << >>
    BY DEF Deliver, IInv, QueuesOK
<1>a. /\ queue' \in Seq(Messages) /\ h \in Messages
      /\ \A x : Has(x, queue) <=> Has(x, queue') \/ x = h
      /\ \A x : Once(x, queue) => Once(x, queue') /\ ~(x = h /\ Has(x, queue'))
    BY <1>q, HasTail DEF Deliver
<1>b. /\ rows' \in Seq(Messages)
      /\ \A x : Has(x, rows') <=> Has(x, rows) \/ x = h
      /\ \A x : Once(x, rows) /\ (x = h => ~Has(x, rows)) => Once(x, rows')
      /\ \A C, D : Standing(doomed, rows, C) /\ C \subseteq D /\ h \in D
                   => Standing(doomed, rows', D)
    BY <1>q, <1>a, HasAppend, StandingAppend DEF Deliver
<1>c. \A x : x \in doubled' <=> x \in doubled \/ (Pausing /\ x = h /\ Has(x, paused))
    BY CopiedIs DEF Deliver
<1> HIDE DEF h
<1>u. Unsent' = Unsent
    BY DEF Deliver, promVars, Unsent
<1> USE QueueConstants DEF IInv, Pausing
<1>1. ProcessOK' /\ QueuesOK' /\ ClaimsOK' /\ Pauses'
    BY <1>a, <1>b DEF Deliver, procVars, ProcessOK, promVars, bootVars,
       QueuesOK, escVars, ClaimsOK, Pauses
<1>d. doubled' \subseteq Messages
    BY <1>a, <1>c DEF HistoryOK
<1>2. HistoryOK' /\ Down'
    BY <1>d DEF Deliver, HistoryOK, promVars, bootVars, procVars, Down
<1>6. Owned'
    BY <1>a, <1>b DEF Deliver, promVars, bootVars, Owned
<1>3. LastRow' /\ Armed' /\ Noted' /\ InTurn'
    BY <1>a, <1>b DEF Deliver, LastRow, escVars, promVars, Armed, Noted, InTurn
<1>4. Placed' /\ Unique'
    BY <1>a, <1>b, <1>c, <1>u DEF Deliver, bootVars, procVars, Placed, Waiting,
       Unique, Alone
<1>5. LeftGone'
    BY <1>a, <1>b, <1>c, <1>u DEF Deliver, bootVars, LeftGone, Nowhere, Waiting
<1> QED
    BY <1>1, <1>2, <1>3, <1>4, <1>5, <1>6 DEF IInv

LEMMA OutputStep == ASSUME IInv, Output PROVE IInv'
<1>u. Unsent' = Unsent
    BY DEF Output, promVars, Unsent
<1> USE QueueConstants DEF IInv, Pausing
<1>1. ProcessOK' /\ QueuesOK' /\ ClaimsOK' /\ HistoryOK' /\ Pauses'
    BY DEF Output, procVars, ProcessOK, promVars, bootVars, QueuesOK,
       escVars, ClaimsOK, history, HistoryOK, Pauses
<1>2. Owned' /\ Down' /\ LastRow' /\ Armed' /\ Noted' /\ InTurn'
    BY DEF Output, history, promVars, bootVars, Owned, procVars, Down, LastRow,
       escVars, Armed, Noted, InTurn
<1>3. Placed' /\ Unique' /\ LeftGone'
    BY <1>u DEF Output, bootVars, procVars, history, Placed, Unique, Alone,
       Waiting, LeftGone, Nowhere
<1> QED
    BY <1>1, <1>2, <1>3 DEF IInv

LEMMA TurnEndsStep == ASSUME IInv, TurnEnds PROVE IInv'
<1>a. Overs
    BY OverStep DEF TurnEnds
<1>u. NowUnsent
    BY NowUnsentStep DEF TurnEnds
<1>c. \A x : Has(x, Unsent) => Has(x, promote)
    BY UnsentIs DEF IInv
<1> USE QueueConstants DEF IInv, Pausing
<1>1. ProcessOK' /\ QueuesOK' /\ ClaimsOK'
    BY <1>a, <1>u DEF TurnEnds, Overs, NowUnsent, procVars, ProcessOK,
       QueuesOK, escVars, ClaimsOK
<1>2. HistoryOK' /\ Pauses' /\ Owned' /\ Down' /\ LastRow'
    BY <1>a, <1>u, <1>c, Senders, Ranges DEF TurnEnds, Overs, NowUnsent,
       HistoryOK, procVars, Pauses, Owned, Down, LastRow
<1>3. Armed' /\ Noted' /\ InTurn'
    BY <1>u DEF TurnEnds, NowUnsent, escVars, Armed, Noted, InTurn
<1>4. Placed'
    BY <1>a, <1>u DEF TurnEnds, Overs, NowUnsent, Placed, Waiting
<1>5. Unique'
    BY <1>a, <1>u DEF TurnEnds, Overs, NowUnsent, procVars, Unique, Alone, Waiting
<1>6. LeftGone'
    BY <1>a, <1>u DEF TurnEnds, Overs, NowUnsent, LeftGone, Nowhere, Waiting
<1> QED
    BY <1>1, <1>2, <1>3, <1>4, <1>5, <1>6 DEF IInv

LEMMA QueueRemoveStep ==
    ASSUME IInv, NEW i \in DOMAIN queue, QueueRemove(i) PROVE IInv'
<1>a. /\ queue' \in Seq(Messages) /\ queue[i] \in Messages /\ Has(queue[i], queue)
      /\ \A x : Has(x, queue') => Has(x, queue)
      /\ \A x : Has(x, queue) => Has(x, queue') \/ x = queue[i]
      /\ \A x : Once(x, queue) => Once(x, queue') /\ ~(x = queue[i] /\ Has(x, queue'))
  <2>1. queue \in Seq(Messages) /\ queue' = RemoveAt(queue, i)
      BY DEF QueueRemove, IInv, QueuesOK
  <2>2. Has(queue[i], queue)
      BY DEF Has
  <2> QED
      BY <2>1, <2>2, HasRemoved
<1>c. \A x : x \in doubled' <=> x \in doubled \/ (Pausing /\ x = queue[i] /\ Has(x, paused))
    BY CopiedIs DEF QueueRemove
<1>u. Unsent' = Unsent
    BY DEF QueueRemove, promVars, Unsent
<1> USE QueueConstants DEF IInv, Pausing
<1>1. ProcessOK' /\ QueuesOK' /\ ClaimsOK'
    BY <1>a DEF QueueRemove, turnVars, procVars, ProcessOK, promVars,
       bootVars, QueuesOK, escVars, ClaimsOK
<1>d. doubled' \subseteq Messages
    BY <1>a, <1>c DEF HistoryOK
<1>2. HistoryOK' /\ Pauses' /\ Down'
    BY <1>a, <1>d DEF QueueRemove, HistoryOK, procVars, Pauses, promVars,
       bootVars, Down
<1>6. Owned'
    BY <1>a DEF QueueRemove, promVars, bootVars, Owned
<1>3. LastRow' /\ Armed' /\ Noted' /\ InTurn'
    BY <1>a DEF QueueRemove, turnVars, LastRow, escVars, promVars, Armed, Noted,
       InTurn
<1>4. Placed' /\ Unique'
    BY <1>a, <1>c, <1>u DEF QueueRemove, bootVars, procVars, Placed, Waiting,
       Unique, Alone
<1>5. LeftGone'
    BY <1>a, <1>c, <1>u DEF QueueRemove, bootVars, LeftGone, Nowhere, Waiting,
       Unique, Alone
<1> QED
    BY <1>1, <1>2, <1>3, <1>4, <1>5, <1>6 DEF IInv

LEMMA EscBeginStep == ASSUME IInv, EscBegin PROVE IInv'
<1>a. queue' \in Seq(Messages) /\ \A x : ~Has(x, queue') /\ Once(x, queue')
    BY HasNothing DEF EscBegin
<1>b. doomed' # None => Standing(doomed', rows', past') /\ doomed' \in Messages
    BY StandingLast DEF EscBegin, IInv, LastRow, QueuesOK, ClaimsOK
<1>c. \A x : x \in doubled' <=> x \in doubled \/ (Pausing /\ Has(x, queue) /\ Has(x, paused))
    BY CopiedIs, Ranges DEF EscBegin
<1>u. Unsent' = Unsent
    BY DEF EscBegin, promVars, Unsent
<1> USE QueueConstants DEF IInv, Pausing
<1>1. ProcessOK' /\ QueuesOK' /\ ClaimsOK' /\ HistoryOK'
    BY <1>a, <1>b, <1>c, Ranges, Senders DEF EscBegin, turnVars, procVars,
       ProcessOK, promVars, QueuesOK, ClaimsOK, HistoryOK
<1>2. Pauses' /\ Owned' /\ Down' /\ LastRow' /\ Armed' /\ Noted' /\ InTurn'
    BY <1>a, <1>b, Ranges DEF EscBegin, procVars, Pauses, promVars, Owned,
       Down, turnVars, LastRow, Armed, Noted, InTurn
<1>3. Placed' /\ Unique'
    BY <1>a, <1>c, <1>u, Ranges DEF EscBegin, procVars, Placed, Waiting,
       Unique, Alone
<1>4. LeftGone'
    BY <1>a, <1>c, <1>u, Ranges, Senders DEF EscBegin, LeftGone, Nowhere, Waiting,
       Unique, Alone
<1> QED
    BY <1>1, <1>2, <1>3, <1>4 DEF IInv

\* An Esc takes its row, and what stands behind it went past the fence.
RowsGo ==
    /\ rows' \in Seq(Messages)
    /\ \A x : Has(x, rows') => Has(x, rows)
    /\ \A x : Has(x, rows) => Has(x, rows') \/ (x = doomed /\ doomed # None) \/ x \in past
    /\ \A x : Once(x, rows) => Once(x, rows') /\ ~(x = doomed /\ doomed # None /\ Has(x, rows'))
    /\ doomed # None => Has(doomed, rows) /\ doomed \in Messages
    /\ doomed = None => rows' = rows

LEMMA RowsGoStep == ASSUME IInv, EscEnd PROVE RowsGo
<1>1. CASE doomed = None
    BY <1>1 DEF EscEnd, IInv, QueuesOK, RowsGo
<1>2. CASE doomed # None
  <2>1. rows \in Seq(Messages) /\ doomed \in Messages /\ Standing(doomed, rows, past)
      BY <1>2 DEF IInv, QueuesOK, ClaimsOK, Armed
  <2>2. rows' = RowsBefore(doomed)
      BY <1>2 DEF EscEnd
  <2>3. Has(doomed, rows)
      BY <2>1 DEF Standing, Has
  <2>4. /\ RowsBefore(doomed) \in Seq(Messages)
        /\ \A m : Has(m, RowsBefore(doomed)) => Has(m, rows)
        /\ \A m : Has(m, rows) => Has(m, RowsBefore(doomed)) \/ m = doomed \/ m \in past
        /\ \A m : Once(m, rows) => /\ Once(m, RowsBefore(doomed))
                                   /\ ~(m = doomed /\ Has(m, RowsBefore(doomed)))
      BY <2>1, BeforeLast
  <2> QED
      BY <1>2, <2>1, <2>2, <2>3, <2>4 DEF RowsGo
<1> QED
    BY <1>1, <1>2

\* What it takes comes back, or goes astray if it went past the fence.
EscHistory ==
    /\ \A x : x \in taken' <=> x \in taken \/ (x = doomed /\ doomed # None)
    /\ cut \subseteq cut'
    /\ \A x : x \in cut' => \/ x \in cut
                            \/ /\ ~Has(x, paused)
                               /\ Has(x, queue) \/ (Has(x, rows) /\ ~Has(x, rows') /\ x # doomed)
    /\ \A x \in Messages : Has(x, queue) => x \in cut' \/ Has(x, paused)
    /\ \A x : Has(x, rows) /\ ~Has(x, rows') =>
                 x \in cut' \/ (x = doomed /\ doomed # None) \/ Has(x, paused)
    /\ \A x : x \in doubled' <=> \/ x \in doubled
                                 \/ /\ Pausing /\ Has(x, queue) /\ Has(x, paused)
                                    /\ ~Has(x, paused')

LEMMA EscHistoryStep == ASSUME IInv, EscEnd PROVE EscHistory
<1> DEFINE cleared == Range(queue) \cup (Range(rows) \ (Range(rows') \cup {doomed}))
<1>1. \A x \in Messages : Has(x, queue) => x \in past
    BY DEF EscEnd, IInv, Noted
<1>2. Range(queue) \subseteq past
    BY <1>1, Senders, Ranges DEF IInv
<1>3. /\ taken' = (taken \cup (Range(queue) \ past) \cup {doomed}) \ {None}
      /\ cut' = cut \cup Unsaved(cleared \cap past)
      /\ doubled' = doubled \cup TakenInPause
    BY DEF EscEnd
<1>4. /\ \A x : x \in Range(rows) <=> Has(x, rows)
      /\ \A x : x \in Range(rows') <=> Has(x, rows')
      /\ \A x : x \in Range(queue) <=> Has(x, queue)
    BY HasRange
<1>5. \A x : x \in cleared <=>
                Has(x, queue) \/ (Has(x, rows) /\ ~Has(x, rows') /\ x # doomed)
    BY <1>4
<1> HIDE DEF cleared
<1>6. \A x : x \in cut' <=> x \in cut \/ (x \in cleared /\ x \in past /\ ~Has(x, paused))
    BY <1>3, CopiedIs
<1>7. \A x : Has(x, rows) /\ ~Has(x, rows') =>
                (x = doomed /\ doomed # None) \/ (x # doomed /\ x \in past)
  <2>1. RowsGo
      BY RowsGoStep
  <2>2. ASSUME NEW x, Has(x, rows), ~Has(x, rows')
        PROVE  (x = doomed /\ doomed # None) \/ (x # doomed /\ x \in past)
    <3>1. doomed # None
        BY <2>1, <2>2 DEF RowsGo
    <3> QED
        BY <2>1, <2>2, <3>1 DEF RowsGo
  <2> QED
      BY <2>2
<1>8. Overs
    BY OverStep DEF EscEnd
<1>9. None \notin taken
    BY QueueConstants DEF IInv, HistoryOK
<1>10. \A x : x \in taken' <=> x \in taken \/ (x = doomed /\ doomed # None)
    BY <1>2, <1>3, <1>9
<1>11. \A x : x \in cut' => \/ x \in cut
                            \/ /\ ~Has(x, paused)
                               /\ Has(x, queue) \/ (Has(x, rows) /\ ~Has(x, rows') /\ x # doomed)
    BY <1>5, <1>6
<1>12. \A x \in Messages : Has(x, queue) => x \in cut' \/ Has(x, paused)
    BY <1>1, <1>5, <1>6
<1>13. \A x : Has(x, rows) /\ ~Has(x, rows') =>
                 x \in cut' \/ (x = doomed /\ doomed # None) \/ Has(x, paused)
    BY <1>5, <1>6, <1>7
<1>14. cut \subseteq cut'
    BY <1>3
<1>15. \A x : x \in doubled' <=> \/ x \in doubled
                                 \/ /\ Pausing /\ Has(x, queue) /\ Has(x, paused)
                                    /\ ~Has(x, paused')
    BY <1>3, <1>8 DEF Overs
<1> QED
    BY <1>10, <1>11, <1>12, <1>13, <1>14, <1>15 DEF EscHistory

LEMMA EscEndStep == ASSUME IInv, EscEnd PROVE IInv'
<1>a. Overs
    BY OverStep DEF EscEnd
<1>b. queue' \in Seq(Messages) /\ \A x : ~Has(x, queue') /\ Once(x, queue')
    BY HasNothing DEF EscEnd
<1>u. NowUnsent
    BY NowUnsentStep DEF EscEnd
<1>r. RowsGo
    BY RowsGoStep
<1>h. EscHistory
    BY EscHistoryStep
<1>p. \A x : Has(x, Unsent) => Has(x, promote)
    BY UnsentIs DEF IInv
<1> USE QueueConstants DEF IInv, Pausing
<1>1. ProcessOK' /\ QueuesOK' /\ ClaimsOK' /\ Pauses'
    BY <1>a, <1>b, <1>u, <1>r DEF EscEnd, Overs, NowUnsent, RowsGo, procVars,
       ProcessOK, QueuesOK, ClaimsOK, Pauses
<1>2. HistoryOK'
    BY <1>h, Senders, Ranges DEF EscEnd, EscHistory, HistoryOK, ClaimsOK
<1>3. Owned' /\ Down' /\ LastRow' /\ Armed' /\ Noted' /\ InTurn'
    BY <1>a, <1>b, <1>u, <1>r, <1>h, <1>p DEF EscEnd, Overs, NowUnsent, RowsGo,
       EscHistory, Owned, procVars, Down, LastRow, Armed, Noted, InTurn
<1>s. sent' = sent /\ sent \subseteq Messages
    BY DEF EscEnd, HistoryOK
<1>4. Placed'
  <2> SUFFICES ASSUME NEW m \in sent, m \notin taken', m \notin cut'
               PROVE  Has(m, rows') \/ Has(m, paused') \/ Waiting(m)'
      BY <1>s DEF Placed
  <2>1. m \in Messages /\ m \notin taken /\ m \notin cut /\ ~(m = doomed /\ doomed # None)
      BY <1>s, <1>h DEF EscHistory
  <2>2. Has(m, rows) \/ Has(m, paused) \/ Waiting(m)
      BY <2>1 DEF Placed
  <2>3. Has(m, paused) \/ Has(m, replay) => Has(m, paused') \/ Has(m, replay')
      BY <1>a DEF Overs
  <2>4. Has(m, rows) => Has(m, rows') \/ Has(m, paused)
      BY <1>h, <2>1 DEF EscHistory
  <2>5. Has(m, queue) => Has(m, paused)
      BY <1>h, <2>1 DEF EscHistory
  <2>6. Has(m, Unsent) => Has(m, Unsent')
      BY <1>u DEF NowUnsent
  <2> QED
      BY <2>2, <2>3, <2>4, <2>5, <2>6 DEF Waiting
<1>5. Unique'
    BY <1>a, <1>b, <1>u, <1>r, <1>h DEF EscEnd, Overs, NowUnsent, RowsGo,
       EscHistory, procVars, Unique, Alone, Waiting
<1>6. LeftGone'
  <2> SUFFICES ASSUME NEW m \in taken' \cup cut', m \notin doubled' PROVE Nowhere(m)'
      BY DEF LeftGone
  <2>1. m \notin doubled
      BY <1>h DEF EscHistory
  <2>2. CASE m \in taken \cup cut
    <3>1. Nowhere(m)
        BY <2>1, <2>2 DEF LeftGone
    <3> QED
        BY <1>a, <1>b, <1>u, <1>r, <3>1 DEF Overs, NowUnsent, RowsGo, Nowhere, Waiting
  <2>3. CASE m \notin taken \cup cut
    <3>1. \/ m = doomed /\ doomed # None
          \/ /\ ~Has(m, paused)
             /\ Has(m, queue) \/ (Has(m, rows) /\ ~Has(m, rows'))
        BY <1>h, <2>3 DEF EscHistory
    <3>2. m \in Messages /\ (Has(m, rows) \/ Has(m, queue))
        BY <1>r, <3>1, Senders, Ranges DEF RowsGo
    <3>3. Alone(m)
        BY <2>1, <3>2 DEF Unique
    <3>4. ~Has(m, rows') /\ ~Has(m, paused) /\ ~Has(m, Unsent) /\ ~Has(m, replay)
        BY <1>r, <3>1, <3>2, <3>3 DEF RowsGo, Alone, Waiting
    <3> QED
        BY <1>a, <1>b, <1>u, <3>4 DEF Overs, NowUnsent, Nowhere, Waiting
  <2> QED
      BY <2>2, <2>3
<1> QED
    BY <1>1, <1>2, <1>3, <1>4, <1>5, <1>6 DEF IInv

LEMMA EscParkedStep == ASSUME IInv, EscParked PROVE IInv'
<1>a. paused' \in Seq(Messages) /\ \A x : ~Has(x, paused') /\ Once(x, paused')
    BY HasNothing DEF EscParked
<1>u. Unsent' = Unsent
    BY DEF EscParked, promVars, Unsent
<1> USE QueueConstants DEF IInv, Pausing
<1>1. ProcessOK' /\ QueuesOK' /\ ClaimsOK' /\ HistoryOK'
    BY <1>a, Ranges, Senders DEF EscParked, turnVars, procVars, ProcessOK,
       promVars, QueuesOK, escVars, ClaimsOK, HistoryOK
<1>2. Pauses' /\ Owned' /\ Down' /\ LastRow'
    BY <1>a, Ranges DEF EscParked, procVars, Pauses, promVars, Owned, Down,
       turnVars, LastRow
<1>3. Armed' /\ Noted' /\ InTurn'
    BY DEF EscParked, escVars, promVars, Armed, Noted, InTurn
<1>4. Placed' /\ Unique'
    BY <1>a, <1>u, Ranges DEF EscParked, procVars, Placed, Waiting, Unique, Alone
<1>5. LeftGone'
    BY <1>a, <1>u, Ranges, Senders DEF EscParked, LeftGone, Nowhere, Waiting,
       Unique, Alone
<1> QED
    BY <1>1, <1>2, <1>3, <1>4, <1>5 DEF IInv

LEMMA PromoteBeginStep == ASSUME IInv, PromoteBegin PROVE IInv'
<1>a. queue' \in Seq(Messages) /\ \A x : ~Has(x, queue') /\ Once(x, queue')
    BY HasNothing DEF PromoteBegin
<1>b. promote' = queue /\ Unsent' = queue /\ \A x : ~Has(x, promote)
    BY HasNothing DEF PromoteBegin, IInv, QueuesOK, Unsent
<1>c. \A x : x \in doubled' <=> x \in doubled \/ (Pausing /\ Has(x, queue) /\ Has(x, paused))
    BY CopiedIs, Ranges DEF PromoteBegin
<1>d. Unsent = promote
    BY UnsentIs DEF IInv, PromoteBegin
<1> USE QueueConstants DEF IInv, Pausing
<1>1. ProcessOK' /\ QueuesOK' /\ ClaimsOK'
    BY <1>a, <1>b DEF PromoteBegin, turnVars, procVars, ProcessOK, bootVars,
       QueuesOK, escVars, ClaimsOK, Promotion
<1>2. HistoryOK' /\ Pauses' /\ Owned' /\ Down'
    BY <1>a, <1>b, <1>c, Ranges, Senders DEF PromoteBegin, HistoryOK,
       procVars, Pauses, bootVars, Owned, Down
<1>3. LastRow' /\ Armed' /\ Noted' /\ InTurn'
    BY <1>a DEF PromoteBegin, turnVars, LastRow, escVars, Armed, Noted, InTurn
<1>4. Placed' /\ Unique'
    BY <1>a, <1>b, <1>c, <1>d DEF PromoteBegin, bootVars, procVars, Placed,
       Waiting, Unique, Alone
<1>5. LeftGone'
    BY <1>a, <1>b, <1>c, <1>d DEF PromoteBegin, bootVars, LeftGone, Nowhere, Waiting
<1> QED
    BY <1>1, <1>2, <1>3, <1>4, <1>5 DEF IInv

LEMMA PromoteAbortedStep == ASSUME IInv, PromoteAborted PROVE IInv'
<1>a. Overs
    BY OverStep DEF PromoteAborted
<1>b. queue' \in Seq(Messages) /\ \A x : ~Has(x, queue') /\ Once(x, queue')
    BY HasNothing DEF PromoteAborted
<1>q. \A x \in Messages : Has(x, queue) => x \in past
    BY DEF PromoteAborted, IInv, Noted
<1>c. \A x \in Messages : x \in cut' <=> x \in cut \/ (Has(x, queue) /\ ~Has(x, paused))
    BY <1>q, CopiedIs, Ranges DEF PromoteAborted
<1>u. Unsent = promote /\ Unsent' = Unsent
    BY UnsentIs DEF PromoteAborted, IInv, Unsent
<1> USE QueueConstants DEF IInv, Pausing
<1>1. ProcessOK' /\ QueuesOK' /\ ClaimsOK' /\ Pauses'
    BY <1>a, <1>b DEF PromoteAborted, Overs, procVars, ProcessOK, QueuesOK,
       escVars, ClaimsOK, Promotion, Pauses
<1>2. HistoryOK'
    BY <1>a, CopiedIs, Ranges, Senders DEF PromoteAborted, Overs, HistoryOK
<1>3. Owned' /\ Down' /\ LastRow'
    BY <1>a, <1>b, <1>c DEF PromoteAborted, Overs, Owned, procVars, Down, LastRow
<1>4. Armed' /\ Noted' /\ InTurn'
    BY <1>b DEF PromoteAborted, escVars, Armed, Noted, InTurn
<1>5. Placed'
    BY <1>a, <1>c, <1>u DEF PromoteAborted, Overs, Placed, Waiting, HistoryOK
<1>6. Unique'
    BY <1>a, <1>b, <1>u DEF PromoteAborted, Overs, Unique, Alone, Waiting
<1>7. LeftGone'
    BY <1>1, <1>2, <1>a, <1>b, <1>c, <1>u DEF PromoteAborted, Overs, LeftGone,
       Nowhere, Waiting, Unique, Alone, HistoryOK
<1> QED
    BY <1>1, <1>2, <1>3, <1>4, <1>5, <1>6, <1>7 DEF IInv

LEMMA PromoteNextStep == ASSUME IInv, PromoteNext PROVE IInv'
<1> DEFINE h == Head(promote)
<1>q. promote \in Seq(Messages) /\ promote # << >> /\ Unsent = promote
    BY UnsentIs DEF PromoteNext, IInv, QueuesOK
<1>a. /\ Tail(promote) \in Seq(Messages) /\ h \in Messages
      /\ \A x : Has(x, promote) <=> Has(x, Tail(promote)) \/ x = h
      /\ \A x : Once(x, promote) => Once(x, Tail(promote)) /\ ~(x = h /\ Has(x, Tail(promote)))
    BY <1>q, HasTail
<1>b. Admits(h)
    BY <1>a, AdmitStep DEF PromoteNext
<1>u. /\ Unsent' = Tail(promote) /\ promote' \in {promote, Tail(promote)}
      /\ prom' \in {"sending", "inTurn"}
      /\ prom' = "inTurn" => promote' = promote /\ turn = "idle"
    BY DEF PromoteNext, Unsent, StartTurn
<1>p. past \subseteq past' /\ (esc => h \in past')
    BY CopiedIs DEF PromoteNext
<1>s. past' \subseteq Messages
    BY <1>a, CopiedIs DEF PromoteNext, IInv, HistoryOK
<1> HIDE DEF h
<1> USE QueueConstants DEF IInv, Pausing
<1>1. ProcessOK' /\ Pauses' /\ LastRow'
    BY <1>b DEF PromoteNext, Admits, ProcessOK, Pauses
<1>2. QueuesOK' /\ ClaimsOK'
    BY <1>q, <1>a, <1>b, <1>u DEF PromoteNext, Admits, QueuesOK, escVars, ClaimsOK,
       Promotion
<1>3. HistoryOK' /\ Down'
    BY <1>s, <1>b DEF PromoteNext, HistoryOK, Admits, Down
<1>4. Owned'
    BY <1>a, <1>b, <1>u DEF PromoteNext, Admits, Owned
<1>9. esc' = esc /\ doomed' = doomed
    BY DEF PromoteNext, escVars
<1>5. Armed' /\ Noted'
  <2>1. Armed'
      BY <1>b, <1>p, <1>9 DEF Admits, Armed
  <2>2. Noted'
      BY <1>b, <1>u, <1>p, <1>9 DEF Admits, Noted
  <2> QED
      BY <2>1, <2>2
<1>6. InTurn'
    BY <1>b, <1>u DEF h, Admits, InTurn
<1>7. Placed' /\ Unique'
    BY <1>q, <1>a, <1>b, <1>u DEF PromoteNext, Admits, Placed, Waiting, Unique, Alone
<1>8. LeftGone'
    BY <1>q, <1>a, <1>b, <1>u DEF PromoteNext, Admits, LeftGone, Nowhere, Waiting
<1> QED
    BY <1>1, <1>2, <1>3, <1>4, <1>5, <1>6, <1>7, <1>8 DEF IInv

LEMMA PromoteFailsStep == ASSUME IInv, PromoteFails PROVE IInv'
<1>a. /\ queue' \in Seq(Messages)
      /\ \A x : Has(x, queue') <=> Has(x, queue) \/ Has(x, promote)
      /\ \A x : Once(x, queue) /\ Once(x, promote) /\ ~(Has(x, queue) /\ Has(x, promote))
               => Once(x, queue')
    BY HasConcat DEF PromoteFails, IInv, QueuesOK
<1>b. promote' \in Seq(Messages) /\ \A x : ~Has(x, promote') /\ Once(x, promote')
    BY HasNothing DEF PromoteFails
<1>u. Unsent = promote /\ Unsent' = promote'
    BY UnsentIs DEF PromoteFails, IInv, Unsent
<1>p. past \subseteq past' /\ (esc => \A x : Has(x, promote) => x \in past')
    BY CopiedIs, Ranges DEF PromoteFails
<1>s. past' \subseteq Messages
    BY CopiedIs, Senders DEF PromoteFails, IInv, HistoryOK
<1> USE QueueConstants DEF IInv, Pausing
<1>1. ProcessOK' /\ QueuesOK' /\ ClaimsOK'
    BY <1>a, <1>b DEF PromoteFails, turnVars, procVars, ProcessOK, bootVars,
       QueuesOK, escVars, ClaimsOK, Promotion
<1>2. HistoryOK' /\ Pauses' /\ Owned' /\ Down'
    BY <1>a, <1>b, <1>s DEF PromoteFails, HistoryOK, procVars, Pauses,
       bootVars, Owned, Down
<1>3. LastRow' /\ InTurn'
    BY DEF PromoteFails, turnVars, LastRow, InTurn
<1>6. Armed' /\ Noted'
    BY <1>a, <1>p DEF PromoteFails, escVars, Armed, Standing, Noted
<1>4. Placed' /\ Unique'
    BY <1>a, <1>b, <1>u DEF PromoteFails, bootVars, procVars, Placed,
       Waiting, Unique, Alone
<1>5. LeftGone'
    BY <1>a, <1>b, <1>u DEF PromoteFails, bootVars, LeftGone, Nowhere, Waiting
<1> QED
    BY <1>1, <1>2, <1>3, <1>4, <1>5, <1>6 DEF IInv

LEMMA PromotedTurnFailsStep == ASSUME IInv, PromotedTurnFails PROVE IInv'
<1> DEFINE h == Head(promote)
<1>o. Overs
    BY OverStep DEF PromotedTurnFails
<1>a. /\ queue' \in Seq(Messages)
      /\ \A x : Has(x, queue') <=> Has(x, queue) \/ Has(x, promote)
    BY HasConcat DEF PromotedTurnFails, IInv, QueuesOK
<1>b. promote' \in Seq(Messages) /\ \A x : ~Has(x, promote') /\ Once(x, promote')
    BY HasNothing DEF PromotedTurnFails
<1>q. /\ promote \in Seq(Messages) /\ promote # << >> /\ Unsent = Tail(promote)
      /\ Unsent' = promote'
    BY DEF PromotedTurnFails, IInv, QueuesOK, Unsent
<1>c. /\ h \in Messages
      /\ \A x : Has(x, promote) <=> Has(x, Unsent) \/ x = h
    BY <1>q, HasTail
<1>d. \A x : x # h /\ Once(x, queue) /\ Once(x, Unsent) /\ ~(Has(x, queue) /\ Has(x, Unsent))
             => Once(x, queue')
  <2>1. Unsent \in Seq(Messages) /\ queue \in Seq(Messages)
      BY UnsentIs DEF IInv, QueuesOK
  <2>2. \A x : x # h /\ Once(x, Unsent) => Once(x, promote)
      BY <1>q, HasUntail
  <2>3. \A x : Once(x, queue) /\ Once(x, promote) /\ ~(Has(x, queue) /\ Has(x, promote))
               => Once(x, queue')
      BY <1>q, <2>1, HasConcat DEF PromotedTurnFails
  <2> QED
      BY <1>c, <2>2, <2>3
<1>p. past \subseteq past' /\ (esc => \A x : Has(x, promote) => x \in past')
    BY CopiedIs, Ranges DEF PromotedTurnFails
<1>s. past' \subseteq Messages
    BY CopiedIs, Senders DEF PromotedTurnFails, IInv, HistoryOK
<1>e. \A x : x \in doubled' <=> \/ x \in doubled \/ x = h
                                \/ /\ Pausing /\ Has(x, queue) /\ Has(x, paused)
                                   /\ ~Has(x, paused')
    BY <1>o DEF PromotedTurnFails, Overs
<1>f. doubled' \subseteq Messages
    BY <1>c, <1>e, Senders, Ranges DEF IInv, HistoryOK
<1> HIDE DEF h
<1> USE QueueConstants DEF IInv, Pausing
<1>1. ProcessOK' /\ QueuesOK' /\ ClaimsOK'
    BY <1>o, <1>a, <1>b DEF PromotedTurnFails, Overs, procVars, ProcessOK,
       QueuesOK, escVars, ClaimsOK, Promotion
<1>2. HistoryOK' /\ Pauses'
    BY <1>s, <1>f DEF PromotedTurnFails, HistoryOK, procVars, Pauses
<1>3. Owned' /\ Down' /\ LastRow' /\ InTurn'
    BY <1>o, <1>a, <1>b DEF PromotedTurnFails, Overs, Owned, procVars, Down,
       LastRow, InTurn
<1>6. Armed' /\ Noted'
    BY <1>a, <1>p DEF PromotedTurnFails, escVars, Armed, Standing, Noted
<1>4. Placed'
    BY <1>o, <1>a, <1>c DEF PromotedTurnFails, Overs, Placed, Waiting
<1>7. Unique'
    BY <1>o, <1>a, <1>b, <1>c, <1>d, <1>e, <1>q DEF PromotedTurnFails, Overs,
       procVars, Unique, Alone, Waiting
<1>5. LeftGone'
    BY <1>o, <1>a, <1>b, <1>c, <1>e, <1>q DEF PromotedTurnFails, Overs, LeftGone,
       Nowhere, Waiting
<1> QED
    BY <1>1, <1>2, <1>3, <1>4, <1>5, <1>6, <1>7 DEF IInv

LEMMA PromoteEndsStep == ASSUME IInv, PromoteEnds PROVE IInv'
<1>u. Unsent' = Unsent
    BY DEF PromoteEnds, Unsent
<1> USE QueueConstants DEF IInv, Pausing
<1>1. ProcessOK' /\ QueuesOK' /\ ClaimsOK'
    BY DEF PromoteEnds, turnVars, procVars, ProcessOK, bootVars, QueuesOK,
       escVars, ClaimsOK, Promotion
<1>2. HistoryOK' /\ Pauses' /\ Owned' /\ Down'
    BY DEF PromoteEnds, history, HistoryOK, procVars, Pauses, bootVars,
       Owned, Down
<1>3. LastRow' /\ Armed' /\ Noted' /\ InTurn'
    BY DEF PromoteEnds, turnVars, LastRow, escVars, history, Armed, Noted, InTurn
<1>4. Placed' /\ Unique' /\ LeftGone'
    BY <1>u DEF PromoteEnds, bootVars, procVars, history, Placed, Waiting,
       Unique, Alone, LeftGone, Nowhere
<1> QED
    BY <1>1, <1>2, <1>3, <1>4 DEF IInv

LEMMA PauseStep == ASSUME IInv, Pause PROVE IInv'
<1>a. queue = << >> => \A x : ~Has(x, queue)
    BY HasNothing
<1>u. Unsent' = Unsent
    BY DEF Pause, promVars, Unsent
<1> USE QueueConstants DEF IInv, Pausing
<1>1. ProcessOK' /\ QueuesOK' /\ ClaimsOK' /\ HistoryOK'
    BY Ranges, Senders DEF Pause, turnVars, ProcessOK, promVars, QueuesOK,
       escVars, ClaimsOK, HistoryOK
<1>2. Pauses' /\ Owned' /\ Down' /\ LastRow'
    BY Ranges DEF Pause, Pauses, promVars, Owned, Down, turnVars, LastRow
<1>3. Armed' /\ Noted' /\ InTurn'
    BY DEF Pause, escVars, promVars, Armed, Standing, Noted, InTurn
<1>4. Placed'
    BY <1>u, Ranges DEF Pause, Placed, Waiting
<1>5. Unique'
    BY <1>u DEF Pause, Unique, Alone, Waiting
<1>6. LeftGone'
    BY <1>u, Ranges, Senders DEF Pause, LeftGone, Nowhere, Waiting, Unique, Alone
<1> QED
    BY <1>1, <1>2, <1>3, <1>4, <1>5, <1>6 DEF IInv

LEMMA GoneStep == ASSUME IInv, Gone, exits < MaxExits PROVE IInv'
<1>a. /\ queue' \in Seq(Messages) /\ \A x : ~Has(x, queue') /\ Once(x, queue')
      /\ promote' \in Seq(Messages) /\ \A x : ~Has(x, promote') /\ Once(x, promote')
      /\ replay' \in Seq(Messages) /\ \A x : ~Has(x, replay') /\ Once(x, replay')
    BY HasNothing DEF Gone
<1>u. Unsent' = promote'
    BY DEF Gone, Unsent
<1>n. exits + 1 \in 0 .. MaxExits
    BY QueueConstants DEF IInv, ProcessOK
<1>c. \A x : x \in cut' <=> x \in cut \/ (Waiting(x) /\ ~Has(x, paused))
    BY CopiedIs, Ranges DEF Gone, Memory, Waiting
<1>h. cut' \subseteq Messages
    BY <1>c, UnsentIs, Senders, Ranges DEF IInv, HistoryOK, Waiting
<1> USE QueueConstants DEF IInv, Pausing
<1>1. ProcessOK' /\ QueuesOK' /\ ClaimsOK' /\ HistoryOK'
    BY <1>n, <1>a, <1>h DEF Gone, ProcessOK, QueuesOK, ClaimsOK, Items,
       Promotion, HistoryOK
<1>2. Pauses' /\ Down' /\ LastRow' /\ Armed' /\ Noted' /\ InTurn'
    BY <1>a DEF Gone, Pauses, Down, LastRow, Armed, Noted, InTurn
<1>3. Owned'
    BY <1>a, <1>c, UnsentIs DEF Gone, Owned, Waiting
<1>4. Placed'
    BY <1>c DEF Gone, Placed
<1>5. Unique'
    BY <1>a, <1>u DEF Gone, Unique, Alone, Waiting
<1>6. LeftGone'
    BY <1>a, <1>c, <1>h, <1>u DEF Gone, LeftGone, Nowhere, Waiting, Unique, Alone
<1> QED
    BY <1>1, <1>2, <1>3, <1>4, <1>5, <1>6 DEF IInv

LEMMA ExitStep == ASSUME IInv, Exit PROVE IInv'
BY GoneStep DEF Exit, IInv, Pauses

LEMMA KilledStep == ASSUME IInv, Killed PROVE IInv'
BY GoneStep DEF Killed

LEMMA BootStep == ASSUME IInv, Boot PROVE IInv'
<1>u. Unsent' = Unsent
    BY DEF Boot, promVars, Unsent
<1> USE QueueConstants DEF IInv, Pausing
<1>1. ProcessOK' /\ QueuesOK' /\ ClaimsOK' /\ Down'
    BY DEF Boot, turnVars, ProcessOK, promVars, QueuesOK, Down, escVars,
       ClaimsOK, Items
<1>2. HistoryOK' /\ Pauses' /\ Owned' /\ LastRow'
    BY DEF Boot, history, HistoryOK, Pauses, promVars, Owned, turnVars,
       LastRow
<1>3. Armed' /\ Noted' /\ InTurn'
    BY DEF Boot, escVars, promVars, history, Armed, Noted, InTurn
<1>4. Placed' /\ Unique' /\ LeftGone'
    BY <1>u DEF Boot, history, Placed, Waiting, Unique, Alone, LeftGone, Nowhere
<1> QED
    BY <1>1, <1>2, <1>3, <1>4 DEF IInv

LEMMA ResumeNothingStep == ASSUME IInv, ResumeNothing PROVE IInv'
<1>a. paused' \in Seq(Messages) /\ \A x : ~Has(x, paused') /\ Once(x, paused')
    BY HasNothing DEF ResumeNothing, TakePaused
<1>b. replay' = paused /\ \A x : ~Has(x, replay)
    BY HasNothing DEF ResumeNothing, TakePaused, IInv, QueuesOK
<1>c. \A x : x \in doubled' => x \in doubled \/ (Has(x, queue) /\ Has(x, paused))
    BY CopiedIs, Ranges DEF ResumeNothing, TakenInPause
<1>d. \A x : Pausing /\ Has(x, queue) /\ Has(x, paused) => x \in doubled'
    BY <1>a, CopiedIs, Ranges DEF ResumeNothing, TakenInPause
<1>e. doubled \subseteq doubled'
    BY DEF ResumeNothing
<1>f. doubled' \subseteq Messages
    BY <1>c, Senders, Ranges DEF IInv, HistoryOK
<1>u. Unsent' = Unsent
    BY DEF ResumeNothing, promVars, Unsent
<1> USE QueueConstants DEF IInv, Pausing
<1>1. ProcessOK' /\ QueuesOK' /\ Pauses' /\ Owned'
    BY <1>a, <1>b DEF ResumeNothing, turnVars, procVars, ProcessOK,
       TakePaused, promVars, QueuesOK, Pauses, Owned
<1>2. ClaimsOK' /\ Down'
    BY <1>a, <1>b DEF ResumeNothing, TakePaused, turnVars, escVars,
       promVars, ClaimsOK, Items, procVars, Down
<1>3. HistoryOK' /\ LastRow'
    BY <1>f DEF ResumeNothing, HistoryOK, turnVars, LastRow
<1>6. Armed' /\ Noted' /\ InTurn'
    BY DEF ResumeNothing, escVars, promVars, Armed, Noted, InTurn
<1>4. Placed'
    BY <1>b, <1>u DEF ResumeNothing, Placed, Waiting
<1>7. Unique'
    BY <1>a, <1>b, <1>d, <1>e, <1>u DEF ResumeNothing, procVars, Unique, Alone, Waiting
<1>5. LeftGone'
    BY <1>a, <1>b, <1>e, <1>u DEF ResumeNothing, LeftGone, Nowhere, Waiting
<1> QED
    BY <1>1, <1>2, <1>3, <1>4, <1>5, <1>6, <1>7 DEF IInv

LEMMA ResumeClaimStep == ASSUME IInv, ResumeClaim PROVE IInv'
<1>u. Unsent' = Unsent
    BY DEF ResumeClaim, promVars, Unsent
<1> USE QueueConstants DEF IInv, Pausing
<1>1. ProcessOK' /\ QueuesOK' /\ ClaimsOK'
    BY DEF ResumeClaim, turnVars, procVars, ProcessOK, promVars, QueuesOK,
       escVars, ClaimsOK, Items
<1>2. HistoryOK' /\ Pauses' /\ Owned' /\ Down'
    BY DEF ResumeClaim, history, HistoryOK, procVars, Pauses, promVars,
       Owned, Down
<1>3. LastRow' /\ Armed' /\ Noted' /\ InTurn'
    BY DEF ResumeClaim, turnVars, LastRow, escVars, promVars, history, Armed, Noted,
       InTurn
<1>4. Placed' /\ Unique' /\ LeftGone'
    BY <1>u DEF ResumeClaim, procVars, history, Placed, Waiting, Unique, Alone,
       LeftGone, Nowhere
<1> QED
    BY <1>1, <1>2, <1>3, <1>4 DEF IInv

LEMMA ResumeContinueStep == ASSUME IInv, ResumeContinue PROVE IInv'
<1>u. Unsent' = Unsent
    BY DEF ResumeContinue, promVars, Unsent
<1> USE QueueConstants DEF IInv, Pausing
<1>1. ProcessOK' /\ QueuesOK' /\ ClaimsOK' /\ HistoryOK'
    BY DEF ResumeContinue, ProcessOK, promVars, QueuesOK, escVars, ClaimsOK,
       Items, history, HistoryOK
<1>2. Pauses' /\ Owned' /\ Down' /\ LastRow' /\ Armed' /\ Noted' /\ InTurn'
    BY DEF ResumeContinue, Pauses, promVars, history, Owned, Down, LastRow,
       escVars, Armed, Noted, InTurn
<1>3. Placed' /\ Unique' /\ LeftGone'
    BY <1>u DEF ResumeContinue, history, Placed, Waiting, Unique, Alone, LeftGone,
       Nowhere
<1> QED
    BY <1>1, <1>2, <1>3 DEF IInv

LEMMA ReplayNextStep == ASSUME IInv, ReplayNext PROVE IInv'
<1> DEFINE h == Head(replay)
<1>a. /\ replay' \in Seq(Messages) /\ h \in Messages
      /\ \A x : Has(x, replay) <=> Has(x, replay') \/ x = h
      /\ \A x : Once(x, replay) => Once(x, replay') /\ ~(x = h /\ Has(x, replay'))
    BY HasTail DEF ReplayNext, IInv, QueuesOK
<1>b. Admits(h)
    BY <1>a, AdmitStep DEF ReplayNext
<1>p. past \subseteq past' /\ (esc \/ prom = "aborting" => h \in past')
    BY CopiedIs DEF ReplayNext
<1>s. past' \subseteq Messages
    BY <1>a, CopiedIs DEF ReplayNext, IInv, HistoryOK
<1>e. esc' = esc /\ doomed' = doomed /\ UNCHANGED promVars
    BY DEF ReplayNext, escVars
<1>u. Unsent' = Unsent
    BY <1>e DEF promVars, Unsent
<1> HIDE DEF h
<1> USE QueueConstants DEF IInv, Pausing
<1>1. ProcessOK' /\ QueuesOK' /\ ClaimsOK' /\ Pauses' /\ LastRow'
    BY <1>a, <1>b DEF ReplayNext, Admits, ProcessOK, promVars, QueuesOK,
       escVars, ClaimsOK, Items, Pauses
<1>2. HistoryOK' /\ Owned' /\ Down'
    BY <1>a, <1>b, <1>s DEF ReplayNext, HistoryOK, Admits, promVars, Owned, Down
<1>3. Armed'
    BY <1>b, <1>p, <1>e DEF Admits, Armed
<1>6. Noted' /\ InTurn'
    BY <1>b, <1>p, <1>e DEF Admits, promVars, Noted, InTurn
<1>4. Placed' /\ Unique'
    BY <1>a, <1>b, <1>u DEF ReplayNext, Admits, Placed, Unique, Alone, Waiting
<1>5. LeftGone'
    BY <1>a, <1>b, <1>u DEF ReplayNext, Admits, LeftGone, Nowhere, Waiting
<1> QED
    BY <1>1, <1>2, <1>3, <1>4, <1>5, <1>6 DEF IInv

LEMMA ReplayFailsStep == ASSUME IInv, ReplayFails PROVE IInv'
<1> DEFINE h == Head(replay)
<1>a. /\ replay' \in Seq(Messages) /\ h \in Messages
      /\ \A x : Has(x, replay) <=> Has(x, replay') \/ x = h
      /\ \A x : Once(x, replay) => Once(x, replay') /\ ~(x = h /\ Has(x, replay'))
    BY HasTail DEF ReplayFails, IInv, QueuesOK
<1>c. cut' = cut \cup {h}
    BY DEF ReplayFails
<1>u. Unsent' = Unsent
    BY DEF ReplayFails, promVars, Unsent
<1> HIDE DEF h
<1> USE QueueConstants DEF IInv, Pausing
<1>1. ProcessOK' /\ QueuesOK' /\ ClaimsOK' /\ HistoryOK'
    BY <1>a, <1>c DEF ReplayFails, turnVars, procVars, ProcessOK, promVars,
       QueuesOK, escVars, ClaimsOK, HistoryOK
<1>2. Pauses' /\ Owned' /\ Down' /\ LastRow'
    BY <1>a, <1>c DEF ReplayFails, procVars, Pauses, promVars, Owned, Down,
       turnVars, LastRow
<1>3. Armed' /\ Noted' /\ InTurn'
    BY DEF ReplayFails, escVars, promVars, Armed, Noted, InTurn
<1>4. Placed' /\ Unique'
    BY <1>a, <1>c, <1>u DEF ReplayFails, procVars, Placed, Unique, Alone, Waiting
<1>5. LeftGone'
    BY <1>a, <1>c, <1>u DEF ReplayFails, LeftGone, Nowhere, Waiting, Unique, Alone
<1> QED
    BY <1>1, <1>2, <1>3, <1>4, <1>5 DEF IInv

LEMMA ReplayEndsStep == ASSUME IInv, ReplayEnds PROVE IInv'
<1>u. Unsent' = Unsent
    BY DEF ReplayEnds, promVars, Unsent
<1> USE QueueConstants DEF IInv, Pausing
<1>1. ProcessOK' /\ QueuesOK' /\ ClaimsOK'
    BY DEF ReplayEnds, turnVars, procVars, ProcessOK, promVars, QueuesOK,
       escVars, ClaimsOK, Items
<1>2. HistoryOK' /\ Pauses' /\ Owned' /\ Down'
    BY DEF ReplayEnds, history, HistoryOK, procVars, Pauses, promVars,
       Owned, Down
<1>3. LastRow' /\ Armed' /\ Noted' /\ InTurn'
    BY DEF ReplayEnds, turnVars, LastRow, escVars, promVars, history, Armed, Noted,
       InTurn
<1>4. Placed' /\ Unique' /\ LeftGone'
    BY <1>u DEF ReplayEnds, procVars, history, Placed, Waiting, Unique, Alone,
       LeftGone, Nowhere
<1> QED
    BY <1>1, <1>2, <1>3, <1>4 DEF IInv

-----------------------------------------------------------------------------
(* The invariant                                                             *)

LEMMA InitInvariant == ASSUME Init PROVE IInv
<1> USE QueueConstants DEF Init
<1>1. \A m : ~Has(m, << >>) /\ Once(m, << >>)
    BY HasNothing
<1>6. ProcessOK
  <2>1. 0 \in 0 .. MaxExits
      OBVIOUS
  <2> QED
      BY <2>1 DEF ProcessOK
<1>2. Pauses /\ Down /\ LastRow /\ Armed /\ Noted /\ InTurn
    BY DEF Pauses, Pausing, Down, LastRow, Armed, Noted, InTurn
<1>4. QueuesOK
    BY HasNothing DEF QueuesOK
<1>5. ClaimsOK /\ HistoryOK
    BY DEF ClaimsOK, HistoryOK, Items, Promotion
<1>3. Owned /\ Placed /\ Unique /\ LeftGone
    BY <1>1 DEF Owned, Placed, Unique, Alone, Waiting, LeftGone, Unsent
<1> QED
    BY <1>2, <1>3, <1>4, <1>5, <1>6 DEF IInv

LEMMA StutterStep == ASSUME IInv, UNCHANGED vars PROVE IInv'
<1> USE DEF IInv, vars, turnVars, escVars, promVars, bootVars, procVars, history
<1>1. ProcessOK' /\ QueuesOK' /\ ClaimsOK' /\ HistoryOK'
    BY DEF ProcessOK, QueuesOK, ClaimsOK, HistoryOK
<1>2. Pauses' /\ Owned' /\ Down' /\ LastRow' /\ Armed' /\ Noted' /\ InTurn'
    BY DEF Pauses, Pausing, Owned, Down, LastRow, Armed, Noted, InTurn
<1>u. Unsent' = Unsent
    BY DEF Unsent
<1>3. Placed' /\ Unique' /\ LeftGone'
    BY <1>u DEF Placed, Unique, Alone, Waiting, Pausing, LeftGone, Nowhere
<1> QED
    BY <1>1, <1>2, <1>3

LEMMA NextStep == ASSUME IInv, Next PROVE IInv'
<1>1. CASE \/ \E m \in Messages : Send(m)
           \/ Deliver \/ Output \/ TurnEnds
           \/ \E i \in DOMAIN queue : QueueRemove(i)
    BY <1>1, SendStep, DeliverStep, OutputStep, TurnEndsStep, QueueRemoveStep
<1>2. CASE EscBegin \/ EscEnd \/ EscParked
    BY <1>2, EscBeginStep, EscEndStep, EscParkedStep
<1>3. CASE \/ PromoteBegin \/ PromoteAborted \/ PromoteNext \/ PromoteFails
           \/ PromotedTurnFails \/ PromoteEnds
    BY <1>3, PromoteBeginStep, PromoteAbortedStep, PromoteNextStep, PromoteFailsStep,
       PromotedTurnFailsStep, PromoteEndsStep
<1>4. CASE Pause \/ Exit \/ Killed \/ Boot
    BY <1>4, PauseStep, ExitStep, KilledStep, BootStep
<1>5. CASE ResumeNothing \/ ResumeClaim \/ ResumeContinue \/ ReplayNext \/ ReplayFails \/ ReplayEnds
    BY <1>5, ResumeNothingStep, ResumeClaimStep, ResumeContinueStep, ReplayNextStep,
       ReplayFailsStep, ReplayEndsStep
<1> QED
    BY <1>1, <1>2, <1>3, <1>4, <1>5 DEF Next

(* Every state of every behaviour of a conversation satisfies the invariant. *)
THEOREM QueueInvariant == Spec => []IInv
<1>1. Init => IInv
    BY InitInvariant
<1>2. IInv /\ [Next]_vars => IInv'
    BY NextStep, StutterStep
<1> QED
    BY <1>1, <1>2, PTL DEF Spec

(* Every variable of a conversation keeps its type.                          *)
THEOREM QueueTypes == Spec => []TypeOK
<1>1. IInv => TypeOK
    BY DEF IInv, TypeOK
<1> QED
    BY <1>1, QueueInvariant, PTL

-----------------------------------------------------------------------------
(* From what stands where to how often                                       *)

LEMMA CopiesAre ==
    ASSUME NEW m, NEW s \in Seq(Messages)
    PROVE  /\ Copies(m, s) \in Nat
           /\ Has(m, s) => Copies(m, s) > 0
           /\ ~Has(m, s) => Copies(m, s) = 0
           /\ Once(m, s) => Copies(m, s) <= 1
<1> DEFINE I == {i \in DOMAIN s : s[i] = m}
<1>1. IsFiniteSet(I) /\ Cardinality(I) \in Nat
  <2>1. DOMAIN s = 1 .. Len(s) /\ 1 \in Int /\ Len(s) \in Int
      OBVIOUS
  <2>2. IsFiniteSet(DOMAIN s)
      BY <2>1, FS_Interval
  <2> QED
      BY <2>2, FS_Subset, FS_CardinalityType
<1>2. Cardinality(I) = 0 <=> I = {}
    BY <1>1, FS_EmptySet
<1>3. ASSUME Once(m, s), NEW i \in I PROVE Cardinality(I) = 1
  <2>1. I = {i}
      BY <1>3 DEF Once
  <2> QED
      BY <2>1, FS_Singleton
<1>4. Copies(m, s) = Cardinality(I)
    BY DEF Copies
<1>5. Has(m, s) <=> I # {}
    BY DEF Has
<1> HIDE DEF I
<1> QED
    BY <1>1, <1>2, <1>3, <1>4, <1>5

LEMMA PlacesAre ==
    ASSUME IInv, NEW m
    PROVE  /\ Copies(m, rows) \in Nat /\ Copies(m, paused) \in Nat
           /\ Copies(m, queue) \in Nat /\ Copies(m, Unsent) \in Nat /\ Copies(m, replay) \in Nat
           /\ Has(m, rows) => Copies(m, rows) > 0
           /\ Has(m, paused) => Copies(m, paused) > 0
           /\ Has(m, queue) => Copies(m, queue) > 0
           /\ Has(m, Unsent) => Copies(m, Unsent) > 0
           /\ Has(m, replay) => Copies(m, replay) > 0
           /\ Places(m) = Copies(m, rows) + Copies(m, paused)
                            + IF Pausing /\ Has(m, paused) THEN 0
                              ELSE Copies(m, queue) + Copies(m, Unsent) + Copies(m, replay)
<1>1. /\ rows \in Seq(Messages) /\ paused \in Seq(Messages) /\ queue \in Seq(Messages)
      /\ Unsent \in Seq(Messages) /\ replay \in Seq(Messages)
    BY UnsentIs DEF IInv, QueuesOK
<1>2. Copied({m}) # {} <=> Pausing /\ Has(m, paused)
    BY CopiedIs
<1>3. Places(m) = Copies(m, rows) + Copies(m, paused)
                    + IF Pausing /\ Has(m, paused) THEN 0
                      ELSE Copies(m, queue) + Copies(m, Unsent) + Copies(m, replay)
    BY <1>2 DEF Places
<1> QED
    BY <1>1, <1>3, CopiesAre

LEMMA PlacedIsSomewhere ==
    ASSUME IInv, NEW m \in sent \ (taken \cup cut) PROVE Places(m) \in Nat /\ Places(m) > 0
<1> DEFINE r == Copies(m, rows)
           p == Copies(m, paused)
           q == Copies(m, queue)
           s == Copies(m, Unsent)
           t == Copies(m, replay)
<1>1. /\ r \in Nat /\ p \in Nat /\ q \in Nat /\ s \in Nat /\ t \in Nat
      /\ Has(m, rows) => r > 0
      /\ Has(m, paused) => p > 0
      /\ Waiting(m) => q > 0 \/ s > 0 \/ t > 0
      /\ Places(m) = r + p + IF Pausing /\ Has(m, paused) THEN 0 ELSE q + s + t
    BY PlacesAre DEF Waiting
<1>2. Has(m, rows) \/ Has(m, paused) \/ Waiting(m)
    BY DEF IInv, Placed
<1> HIDE DEF r, p, q, s, t
<1> QED
    BY <1>1, <1>2

(* However many messages, removals, promotions, exits and boots there are, a *)
(* message its user did not take back is in the transcript or in a place     *)
(* that leads there.  Four steps may lose one: the process leaves while no   *)
(* checkpoint holds it; a pause replaces a checkpoint not replayed yet; its  *)
(* replay fails; or, sent or put back by a promotion or a replay past the    *)
(* fence of an Esc or a promotion, it is cleared with the queue or deleted   *)
(* behind the row that Esc discards.                                         *)
THEOREM NoMessageIsLost == Spec => []NothingLost
<1>1. ASSUME IInv PROVE NothingLost
    BY <1>1, PlacedIsSomewhere DEF NothingLost
<1> QED
    BY <1>1, QueueInvariant, PTL

LEMMA AloneMeansOne ==
    ASSUME IInv, NEW m, Alone(m) \/ Nowhere(m)
    PROVE  Places(m) <= 1 /\ (Nowhere(m) => Places(m) = 0)
<1> DEFINE r == Copies(m, rows)
           p == Copies(m, paused)
           q == Copies(m, queue)
           s == Copies(m, Unsent)
           t == Copies(m, replay)
<1>0. /\ rows \in Seq(Messages) /\ paused \in Seq(Messages) /\ queue \in Seq(Messages)
      /\ Unsent \in Seq(Messages) /\ replay \in Seq(Messages)
    BY UnsentIs DEF IInv, QueuesOK
<1>1. r \in Nat /\ p \in Nat /\ q \in Nat /\ s \in Nat /\ t \in Nat
    BY PlacesAre
<1>2. /\ ~Has(m, rows) => r = 0
      /\ ~Has(m, paused) => p = 0
      /\ ~Has(m, queue) => q = 0
      /\ ~Has(m, Unsent) => s = 0
      /\ ~Has(m, replay) => t = 0
    BY <1>0, CopiesAre
<1>3. Alone(m) => r <= 1 /\ p <= 1 /\ q <= 1 /\ s <= 1 /\ t <= 1
    BY <1>0, CopiesAre DEF Alone
<1>4. Places(m) = r + p + IF Pausing /\ Has(m, paused) THEN 0 ELSE q + s + t
    BY PlacesAre
<1> HIDE DEF r, p, q, s, t
<1>5. Nowhere(m) => Places(m) = 0
    BY <1>2, <1>4 DEF Nowhere, Waiting
<1>6. Alone(m) => Places(m) <= 1
    BY <1>1, <1>2, <1>3, <1>4 DEF Alone, Waiting
<1> QED
    BY <1>5, <1>6

(* A message stands in one place at most, and in none when its user took it  *)
(* back, so it is read once; unless it has a second copy: checkpointed by a  *)
(* pause, it was still read, sent, taken back or taken from the table before *)
(* the process left; or a promotion put it back when its turn failed.        *)
THEOREM NoMessageIsReadTwice == Spec => []OneCopy
<1>1. ASSUME IInv PROVE OneCopy
  <2>1. ASSUME NEW m \in Messages \ doubled PROVE Places(m) <= 1
      BY <1>1, AloneMeansOne DEF IInv, Unique
  <2>2. ASSUME NEW m \in Messages \ doubled, m \in taken PROVE Places(m) = 0
      BY <1>1, <2>2, AloneMeansOne DEF IInv, LeftGone
  <2> QED
      BY <2>1, <2>2 DEF OneCopy
<1> QED
    BY <1>1, QueueInvariant, PTL

-----------------------------------------------------------------------------
(* The promise of Mailbox                                                    *)

(* Where a message is for the one who typed it, by where it stands.          *)
Seen ==
    /\ Box = [m \in Messages |-> Box[m]]
    /\ \A m \in Messages :
          /\ m \in doubled => Box[m] = "repeated"
          /\ m \notin doubled =>
                /\ m \notin sent => Box[m] = "unsent"
                /\ m \in sent /\ m \in taken => Box[m] = "back"
                /\ m \in sent /\ m \notin taken /\ m \in cut => Box[m] = "astray"
                /\ m \in sent /\ m \notin taken \cup cut /\ Has(m, rows) => Box[m] = "read"
                /\ m \in sent /\ m \notin taken \cup cut /\ ~Has(m, rows) => Box[m] = "waiting"

LEMMA PlacingIs ==
    ASSUME IInv, NEW m \in Messages, m \notin doubled, m \in sent
    PROVE  Placing(m) = IF m \in taken THEN "back" ELSE IF m \in cut THEN "astray"
                        ELSE IF Has(m, rows) THEN "read" ELSE "waiting"
<1>1. CASE m \in taken \cup cut
  <2>1. Nowhere(m)
      BY <1>1 DEF IInv, LeftGone
  <2>2. Places(m) = 0
      BY <2>1, AloneMeansOne
  <2> QED
      BY <1>1, <2>2 DEF Placing
<1>2. CASE m \notin taken \cup cut
  <2>1. Alone(m)
      BY DEF IInv, Unique
  <2>2. Places(m) <= 1
      BY <2>1, AloneMeansOne
  <2>3. Places(m) \in Nat /\ Places(m) > 0
      BY <1>2, PlacedIsSomewhere
  <2>4. Places(m) = 1
      BY <2>2, <2>3
  <2> QED
      BY <1>2, <2>4, Ranges DEF Placing
<1> QED
    BY <1>1, <1>2

LEMMA SeenThere == IInv => Seen
<1> SUFFICES ASSUME IInv PROVE Seen
    OBVIOUS
<1>1. ASSUME NEW m \in Messages
      PROVE  Box[m] = IF m \in doubled THEN "repeated"
                      ELSE IF m \notin sent THEN "unsent" ELSE Placing(m)
    BY DEF Box
<1>2. Box = [m \in Messages |-> Box[m]]
    BY DEF Box
<1>3. ASSUME NEW m \in Messages, m \notin doubled, m \in sent
      PROVE  Box[m] = IF m \in taken THEN "back" ELSE IF m \in cut THEN "astray"
                      ELSE IF Has(m, rows) THEN "read" ELSE "waiting"
    BY <1>1, <1>3, PlacingIs
<1> QED
    BY <1>1, <1>2, <1>3 DEF Seen

(* What stands somewhere, and has no second copy, was neither taken back nor *)
(* lost: it is read if it has a row, and waits otherwise.                    *)
LEMMA StandsThere ==
    ASSUME IInv, NEW m \in Messages, m \notin doubled, ~Nowhere(m)
    PROVE  /\ m \in sent /\ m \notin taken \cup cut
           /\ Has(m, rows) => Box[m] = "read" /\ ~Waiting(m) /\ ~Has(m, paused)
           /\ ~Has(m, rows) => Box[m] = "waiting"
<1>1. Has(m, Unsent) => Has(m, promote)
    BY UnsentIs DEF IInv
<1>2. m \in sent
    BY <1>1 DEF IInv, Owned, Nowhere, Waiting
<1>3. m \notin taken \cup cut
    BY DEF IInv, LeftGone
<1>4. Alone(m)
    BY DEF IInv, Unique
<1> QED
    BY <1>2, <1>3, <1>4, SeenThere DEF Seen, Alone

(* What stands nowhere was not sent, came back or is lost.                   *)
LEMMA OrGone ==
    ASSUME IInv, NEW m \in Messages, m \notin doubled, Nowhere(m)
    PROVE  m \notin sent \/ m \in taken \cup cut
BY DEF IInv, Placed, Nowhere

Keeps == [Promise!Next]_Box

(* Messages leave their box by Drop only; one read message at most comes     *)
(* back, and none goes astray without it or one that has a second copy.      *)
LEMMA Dropping ==
    ASSUME Seen, Seen',
           \A m \in Messages :
              \/ Box'[m] = Box[m]
              \/ Box[m] \in {"waiting", "read"} /\ Box'[m] \in {"back", "astray", "repeated"},
           \A m, n \in {x \in Messages : Box[x] = "read" /\ Box'[x] = "back"} : m = n,
           (\E m \in Messages : Box[m] = "read" /\ Box'[m] = "astray")
           => \/ \E m \in Messages : Box[m] = "read" /\ Box'[m] = "back"
              \/ \E m \in Messages : Box[m] = "repeated"
    PROVE  Keeps
<1> DEFINE back == {m \in Messages : Box'[m] = "back" /\ Box[m] # "back"}
           gone == {m \in Messages : Box'[m] = "astray" /\ Box[m] # "astray"}
           again == {m \in Messages : Box'[m] = "repeated" /\ Box[m] # "repeated"}
           new  == [m \in Messages |-> IF m \in again THEN "repeated"
                                       ELSE IF m \in gone THEN "astray"
                                       ELSE IF m \in back THEN "back" ELSE Box[m]]
<1>1. \A m \in back \cup gone \cup again : Box[m] \in {"waiting", "read"}
    OBVIOUS
<1>2. \A m, n \in back : Box[m] = "read" /\ Box[n] = "read" => m = n
    OBVIOUS
<1>3. (\E m \in gone : Box[m] = "read") => Promise!Discards(back)
    BY DEF Promise!Discards
<1>4. \A m \in Messages : Box'[m] = new[m]
    OBVIOUS
<1>5. Box' = [m \in Messages |-> Box'[m]]
    BY DEF Seen
<1>6. Box' = new
    BY <1>4, <1>5
<1>7. Promise!Drop(back, gone, again)
    BY <1>1, <1>2, <1>3, <1>6 DEF Promise!Drop
<1> QED
    BY <1>7 DEF Keeps, Promise!Next

(* Nothing that was read comes back or goes astray.                          *)
LEMMA DroppingWaiting ==
    ASSUME Seen, Seen',
           \A m \in Messages :
              \/ Box'[m] = Box[m]
              \/ Box[m] = "waiting" /\ Box'[m] \in {"back", "astray", "repeated"}
              \/ Box[m] = "read" /\ Box'[m] = "repeated"
    PROVE  Keeps
<1>1. \A m \in Messages :
         \/ Box'[m] = Box[m]
         \/ Box[m] \in {"waiting", "read"} /\ Box'[m] \in {"back", "astray", "repeated"}
    OBVIOUS
<1>2. \A m \in Messages : ~(Box[m] = "read" /\ Box'[m] \in {"back", "astray"})
    OBVIOUS
<1>3. \A m, n \in {x \in Messages : Box[x] = "read" /\ Box'[x] = "back"} : m = n
    BY <1>2
<1> QED
    BY <1>1, <1>2, <1>3, Dropping

(* A message that waited and now is read, or has a second copy.              *)
LEMMA Reading ==
    ASSUME Seen, Seen', NEW h \in Messages,
           \A m \in Messages \ {h} : Box'[m] = Box[m],
           \/ Box'[h] = Box[h]
           \/ Box[h] = "waiting" /\ Box'[h] \in {"read", "repeated"}
    PROVE  Keeps
<1>1. CASE Box[h] = "waiting" /\ Box'[h] = "read"
  <2>1. Box' = [m \in Messages |-> Box'[m]] /\ Box = [m \in Messages |-> Box[m]]
      BY DEF Seen
  <2>2. Box' = [Box EXCEPT ![h] = "read"]
      BY <1>1, <2>1
  <2> QED
      BY <1>1, <2>2 DEF Keeps, Promise!Next, Promise!Read
<1>2. CASE ~(Box[h] = "waiting" /\ Box'[h] = "read")
  <2>1. \A m \in Messages :
           \/ Box'[m] = Box[m]
           \/ Box[m] = "waiting" /\ Box'[m] \in {"back", "astray", "repeated"}
           \/ Box[m] = "read" /\ Box'[m] = "repeated"
      BY <1>2
  <2> QED
      BY <2>1, DroppingWaiting
<1> QED
    BY <1>1, <1>2

(* Nothing is read: what newly came back, is lost or has a second copy stood *)
(* where it waits, except that one that was read may get a second copy.      *)
LEMMA Leaving ==
    ASSUME IInv, Seen, Seen', UNCHANGED << rows, sent >>,
           taken \subseteq taken', doubled \subseteq doubled', cut \subseteq cut',
           \A m \in Messages :
              m \in (taken' \ taken) \cup (doubled' \ doubled) \cup (cut' \ cut)
              => \/ Waiting(m) \/ Has(m, paused)
                 \/ Has(m, rows) /\ m \in doubled'
    PROVE  Keeps
<1>1. ASSUME NEW m \in Messages
      PROVE  \/ Box'[m] = Box[m]
             \/ Box[m] = "waiting" /\ Box'[m] \in {"back", "astray", "repeated"}
             \/ Box[m] = "read" /\ Box'[m] = "repeated"
  <2>1. CASE m \in doubled
      BY <2>1 DEF Seen
  <2>2. CASE m \notin doubled /\ Nowhere(m)
    <3>1. /\ m \notin doubled' /\ (m \in taken' <=> m \in taken) /\ (m \in cut' <=> m \in cut)
          /\ (m \in sent' <=> m \in sent) /\ (Has(m, rows') <=> Has(m, rows))
        BY <2>2 DEF Nowhere
    <3> QED
        BY <2>2, <3>1 DEF Seen
  <2>3. CASE m \notin doubled /\ ~Nowhere(m)
    <3>1. /\ m \in sent /\ m \notin taken \cup cut
          /\ Has(m, rows) => Box[m] = "read" /\ ~Waiting(m) /\ ~Has(m, paused)
          /\ ~Has(m, rows) => Box[m] = "waiting"
        BY <2>3, StandsThere
    <3>2. CASE Has(m, rows)
      <4>1. m \notin doubled' => m \notin taken' \cup cut'
          BY <2>3, <3>1, <3>2
      <4> QED
          BY <3>1, <3>2, <4>1 DEF Seen
    <3>3. CASE ~Has(m, rows)
        BY <3>1, <3>3 DEF Seen
    <3> QED
        BY <3>2, <3>3
  <2> QED
      BY <2>1, <2>2, <2>3
<1> QED
    BY <1>1, DroppingWaiting

(* Nothing moves: where a message stands to wait is not seen.                *)
LEMMA Staying ==
    ASSUME Seen, Seen', UNCHANGED << rows, sent, taken, doubled, cut >> PROVE Keeps
<1>1. \A m \in Messages : Box'[m] = Box[m]
    BY DEF Seen
<1>2. Box' = [m \in Messages |-> Box'[m]] /\ Box = [m \in Messages |-> Box[m]]
    BY DEF Seen
<1> QED
    BY <1>1, <1>2 DEF Keeps

(* A message that waits gets a row, a place in the queue or a second copy.   *)
LEMMA Admitted ==
    ASSUME IInv, Seen, Seen', NEW h \in Messages, ~Nowhere(h),
           ~Has(h, rows) \/ h \in doubled,
           UNCHANGED << sent, taken, cut >>, doubled \subseteq doubled',
           \A x : Has(x, rows') => Has(x, rows) \/ x = h,
           \A x : Has(x, rows) => Has(x, rows'),
           \A x \in doubled' : x \in doubled \/ x = h
    PROVE  Keeps
<1>1. ASSUME NEW x \in Messages \ {h} PROVE Box'[x] = Box[x]
    BY DEF Seen
<1>2. CASE h \in doubled
    BY <1>1, <1>2, Reading DEF Seen
<1>3. CASE h \notin doubled
  <2>1. h \in sent /\ h \notin taken \cup cut /\ Box[h] = "waiting"
      BY <1>3, StandsThere
  <2>2. Box'[h] \in {"repeated", "read", "waiting"}
      BY <2>1 DEF Seen
  <2> QED
      BY <1>1, <2>1, <2>2, Reading
<1> QED
    BY <1>2, <1>3

LEMMA WaitsUnread ==
    ASSUME IInv, NEW h \in Messages, Waiting(h)
    PROVE  ~Nowhere(h) /\ (~Has(h, rows) \/ h \in doubled)
BY DEF IInv, Unique, Alone, Nowhere

-----------------------------------------------------------------------------
(* The steps of a conversation and of its promise                            *)

LEMMA SendKeeps == ASSUME IInv, Seen, Seen', NEW h \in Messages, Send(h) PROVE Keeps
<1>1. /\ Admits(h) /\ h \notin sent /\ sent' = sent \cup {h}
      /\ UNCHANGED << taken, doubled, cut >>
    BY AdmitStep DEF Send
<1>2. ASSUME NEW x \in Messages \ {h} PROVE Box'[x] = Box[x]
  <2>1. /\ x \in doubled' <=> x \in doubled
        /\ x \in sent' <=> x \in sent
        /\ x \in taken' <=> x \in taken
        /\ x \in cut' <=> x \in cut
        /\ Has(x, rows') <=> Has(x, rows)
      BY <1>1 DEF Admits
  <2> QED
      BY <2>1 DEF Seen
<1>3. CASE h \in doubled
  <2>1. Box[h] = "repeated" /\ Box'[h] = "repeated"
      BY <1>1, <1>3 DEF Seen
  <2> QED
      BY <1>2, <2>1, Reading
<1>4. CASE h \notin doubled
  <2>1. h \notin taken \cup cut
      BY <1>1 DEF IInv, Owned
  <2>2. Box[h] = "unsent" /\ Box'[h] \in {"read", "waiting"}
      BY <1>1, <1>4, <2>1 DEF Seen
  <2>3. Box' = [m \in Messages |-> Box'[m]] /\ Box = [m \in Messages |-> Box[m]]
      BY DEF Seen
  <2>4. PICK b \in {"waiting", "read"} : Box'[h] = b
      BY <2>2
  <2>5. Box' = [Box EXCEPT ![h] = b]
      BY <1>2, <2>3, <2>4
  <2>6. Promise!Accept(h)
      BY <2>2, <2>4, <2>5 DEF Promise!Accept
  <2> QED
      BY <2>6 DEF Keeps, Promise!Next
<1> QED
    BY <1>3, <1>4

LEMMA DeliverKeeps == ASSUME IInv, Seen, Seen', Deliver PROVE Keeps
<1> DEFINE h == Head(queue)
<1>1. queue \in Seq(Messages) /\ rows \in Seq(Messages) /\ queue # << >>
    BY DEF Deliver, IInv, QueuesOK
<1>2. h \in Messages /\ Has(h, queue)
    BY <1>1, HasTail
<1>3. /\ \A x : Has(x, rows') <=> Has(x, rows) \/ x = h
      /\ UNCHANGED << sent, taken, cut >> /\ doubled \subseteq doubled'
      /\ \A x \in doubled' : x \in doubled \/ x = h
    BY <1>1, <1>2, HasAppend, CopiedIs DEF Deliver
<1> HIDE DEF h
<1>4. ~Nowhere(h) /\ (~Has(h, rows) \/ h \in doubled)
    BY <1>2, WaitsUnread DEF Waiting
<1> QED
    BY <1>2, <1>3, <1>4, Admitted

LEMMA PromoteNextKeeps == ASSUME IInv, Seen, Seen', PromoteNext PROVE Keeps
<1> DEFINE h == Head(promote)
<1>1. h \in Messages /\ Has(h, Unsent)
    BY HasTail, UnsentIs DEF PromoteNext, IInv, QueuesOK
<1>2. Admits(h)
    BY <1>1, AdmitStep DEF PromoteNext
<1>3. UNCHANGED << sent, taken, cut, doubled >>
    BY DEF PromoteNext
<1> HIDE DEF h
<1>4. ~Nowhere(h) /\ (~Has(h, rows) \/ h \in doubled)
    BY <1>1, WaitsUnread DEF Waiting
<1> QED
    BY <1>1, <1>2, <1>3, <1>4, Admitted DEF Admits

LEMMA ReplayNextKeeps == ASSUME IInv, Seen, Seen', ReplayNext PROVE Keeps
<1> DEFINE h == Head(replay)
<1>1. h \in Messages /\ Has(h, replay)
    BY HasTail DEF ReplayNext, IInv, QueuesOK
<1>2. Admits(h)
    BY <1>1, AdmitStep DEF ReplayNext
<1>3. UNCHANGED << sent, taken, cut, doubled >>
    BY DEF ReplayNext
<1> HIDE DEF h
<1>4. ~Nowhere(h) /\ (~Has(h, rows) \/ h \in doubled)
    BY <1>1, WaitsUnread DEF Waiting
<1> QED
    BY <1>1, <1>2, <1>3, <1>4, Admitted DEF Admits

(* What leaves without being read: it was waiting.                           *)
LEMMA TurnEndsKeeps == ASSUME IInv, Seen, Seen', TurnEnds PROVE Keeps
<1>1. Overs
    BY OverStep DEF TurnEnds
<1>2. /\ UNCHANGED << rows, sent, taken, cut >> /\ doubled \subseteq doubled'
      /\ \A m : m \in doubled' => m \in doubled \/ Has(m, paused)
    BY <1>1 DEF TurnEnds, Overs
<1> QED
    BY <1>2, Leaving

LEMMA QueueRemoveKeeps ==
    ASSUME IInv, Seen, Seen', NEW i \in DOMAIN queue, QueueRemove(i) PROVE Keeps
<1>1. Has(queue[i], queue)
    BY DEF Has
<1>2. /\ UNCHANGED << rows, sent, cut >> /\ taken' = taken \cup {queue[i]}
      /\ doubled \subseteq doubled' /\ \A m : m \in doubled' => m \in doubled \/ m = queue[i]
    BY CopiedIs DEF QueueRemove
<1> QED
    BY <1>1, <1>2, Leaving DEF Waiting

LEMMA EscBeginKeeps == ASSUME IInv, Seen, Seen', EscBegin PROVE Keeps
<1>1. /\ UNCHANGED << rows, sent, cut >> /\ taken' = taken \cup Range(queue)
      /\ doubled \subseteq doubled'
      /\ \A m : m \in doubled' => m \in doubled \/ m \in Range(queue)
    BY CopiedIs DEF EscBegin
<1> QED
    BY <1>1, Ranges, Leaving DEF Waiting

LEMMA EscParkedKeeps == ASSUME IInv, Seen, Seen', EscParked PROVE Keeps
<1>1. UNCHANGED << rows, sent, doubled, cut >> /\ taken' = taken \cup Range(paused)
    BY DEF EscParked
<1> QED
    BY <1>1, Ranges, Leaving

(* The only step that takes back what was read: the one row an Esc discards, *)
(* and with it, astray, what got behind it past the fence.                   *)
LEMMA EscEndKeeps == ASSUME IInv, Seen, Seen', EscEnd PROVE Keeps
<1>o. Overs
    BY OverStep DEF EscEnd
<1>r. RowsGo
    BY RowsGoStep
<1>h. EscHistory
    BY EscHistoryStep
<1>s. sent' = sent /\ doubled \subseteq doubled' /\ taken \subseteq taken'
    BY <1>h DEF EscEnd, EscHistory
<1>1. ASSUME NEW m \in Messages
      PROVE  \/ Box'[m] = Box[m]
             \/ Box[m] = "waiting" /\ Box'[m] \in {"back", "astray", "repeated"}
             \/ Box[m] = "read" /\ Box'[m] = "back" /\ m = doomed
             \/ Box[m] = "read" /\ Box'[m] = "astray" /\ doomed # None
  <2>1. CASE m \in doubled
      BY <1>s, <2>1 DEF Seen
  <2>2. CASE m \notin doubled /\ Nowhere(m)
    <3>1. /\ m \notin doubled' /\ (m \in taken' <=> m \in taken) /\ (m \in cut' <=> m \in cut)
          /\ (m \in sent' <=> m \in sent) /\ ~Has(m, rows) /\ ~Has(m, rows')
        BY <1>r, <1>h, <1>s, <2>2 DEF RowsGo, EscHistory, Nowhere, Waiting
    <3> QED
        BY <2>2, <3>1 DEF Seen
  <2>3. CASE m \notin doubled /\ ~Nowhere(m) /\ ~Has(m, rows)
    <3>1. m \in sent /\ m \notin taken \cup cut /\ Box[m] = "waiting"
        BY <2>3, StandsThere
    <3>2. ~Has(m, rows') /\ m \in sent'
        BY <1>r, <1>s, <2>3, <3>1 DEF RowsGo
    <3> QED
        BY <3>1, <3>2 DEF Seen
  <2>4. CASE m \notin doubled /\ Has(m, rows)
    <3>1. /\ m \in sent /\ m \notin taken \cup cut
          /\ Box[m] = "read" /\ ~Waiting(m) /\ ~Has(m, paused)
        BY <2>4, StandsThere DEF Nowhere
    <3>2. m \notin doubled' /\ m \in sent'
        BY <1>h, <1>s, <2>4, <3>1 DEF EscHistory
    <3>3. CASE m = doomed /\ doomed # None
      <4>1. m \in taken'
          BY <1>h, <3>3 DEF EscHistory
      <4> QED
          BY <3>1, <3>2, <3>3, <4>1 DEF Seen
    <3>4. CASE ~(m = doomed /\ doomed # None) /\ Has(m, rows')
      <4>1. m \notin taken' /\ m \notin cut'
          BY <1>h, <3>1, <3>4 DEF EscHistory, Waiting
      <4> QED
          BY <3>1, <3>2, <3>4, <4>1 DEF Seen
    <3>5. CASE ~(m = doomed /\ doomed # None) /\ ~Has(m, rows')
      <4>1. m \notin taken' /\ m \in cut'
          BY <1>h, <2>4, <3>1, <3>5 DEF EscHistory
      <4>2. doomed # None
          BY <1>r, <2>4, <3>5 DEF RowsGo
      <4> QED
          BY <3>1, <3>2, <4>1, <4>2 DEF Seen
    <3> QED
        BY <3>3, <3>4, <3>5
  <2> QED
      BY <2>1, <2>2, <2>3, <2>4
<1>2. \A m, n \in {x \in Messages : Box[x] = "read" /\ Box'[x] = "back"} : m = n
  <2>1. ASSUME NEW x \in Messages, Box[x] = "read", Box'[x] = "back" PROVE x = doomed
      BY <1>1, <2>1
  <2> QED
      BY <2>1
<1>3. ASSUME NEW m \in Messages, Box[m] = "read", Box'[m] = "astray"
      PROVE  \/ \E x \in Messages : Box[x] = "read" /\ Box'[x] = "back"
             \/ \E x \in Messages : Box[x] = "repeated"
  <2>1. doomed # None
      BY <1>1, <1>3
  <2>2. doomed \in Messages /\ Has(doomed, rows)
      BY <1>r, <2>1 DEF RowsGo
  <2>3. CASE doomed \in doubled
    <3>1. Box[doomed] = "repeated"
        BY <2>2, <2>3 DEF Seen
    <3> QED
        BY <2>2, <3>1
  <2>4. CASE doomed \notin doubled
    <3>1. Box[doomed] = "read" /\ doomed \in sent /\ ~Has(doomed, paused)
        BY <2>2, <2>4, StandsThere DEF Nowhere
    <3>2. doomed \in taken' /\ doomed \notin doubled' /\ doomed \in sent'
        BY <1>h, <1>s, <2>1, <2>4, <3>1 DEF EscHistory
    <3>3. Box'[doomed] = "back"
        BY <2>2, <3>2 DEF Seen
    <3> QED
        BY <2>2, <3>1, <3>3
  <2> QED
      BY <2>3, <2>4
<1>4. \A m \in Messages :
         \/ Box'[m] = Box[m]
         \/ Box[m] \in {"waiting", "read"} /\ Box'[m] \in {"back", "astray", "repeated"}
    BY <1>1
<1>5. (\E m \in Messages : Box[m] = "read" /\ Box'[m] = "astray")
      => \/ \E m \in Messages : Box[m] = "read" /\ Box'[m] = "back"
         \/ \E m \in Messages : Box[m] = "repeated"
    BY <1>3
<1> QED
    BY <1>2, <1>4, <1>5, Dropping

LEMMA PromoteBeginKeeps == ASSUME IInv, Seen, Seen', PromoteBegin PROVE Keeps
<1>1. /\ UNCHANGED << rows, sent, taken, cut >> /\ doubled \subseteq doubled'
      /\ \A m : m \in doubled' => m \in doubled \/ m \in Range(queue)
    BY CopiedIs DEF PromoteBegin
<1> QED
    BY <1>1, Ranges, Leaving DEF Waiting

LEMMA PromoteAbortedKeeps == ASSUME IInv, Seen, Seen', PromoteAborted PROVE Keeps
<1>1. Overs
    BY OverStep DEF PromoteAborted
<1>2. /\ UNCHANGED << rows, sent, taken >> /\ doubled \subseteq doubled' /\ cut \subseteq cut'
      /\ \A m : m \in doubled' => m \in doubled \/ Has(m, paused)
      /\ \A m : m \in cut' => m \in cut \/ m \in Range(queue)
    BY <1>1, CopiedIs DEF PromoteAborted, Overs
<1> QED
    BY <1>2, Ranges, Leaving DEF Waiting

(* The one that was read and gets a second copy.                             *)
LEMMA PromotedTurnFailsKeeps ==
    ASSUME IInv, Seen, Seen', PromotedTurnFails PROVE Keeps
<1>1. Overs
    BY OverStep DEF PromotedTurnFails
<1>2. /\ UNCHANGED << rows, sent, taken, cut >> /\ doubled \subseteq doubled'
      /\ \A m : m \in doubled' => m \in doubled \/ Has(m, paused) \/ m = Head(promote)
    BY <1>1 DEF PromotedTurnFails, Overs
<1>3. Has(Head(promote), rows)
    BY DEF PromotedTurnFails, IInv, InTurn
<1> QED
    BY <1>2, <1>3, Leaving

LEMMA PauseKeeps == ASSUME IInv, Seen, Seen', Pause PROVE Keeps
<1>1. /\ UNCHANGED << rows, sent, taken, doubled >> /\ cut \subseteq cut'
      /\ \A m : m \in cut' => m \in cut \/ Has(m, paused)
    BY Ranges DEF Pause
<1> QED
    BY <1>1, Leaving

LEMMA GoneKeeps == ASSUME IInv, Seen, Seen', Gone PROVE Keeps
<1>1. /\ UNCHANGED << rows, sent, taken, doubled >> /\ cut \subseteq cut'
      /\ \A m : m \in cut' => m \in cut \/ Waiting(m)
    BY Ranges, CopiedIs DEF Gone, Memory, Waiting
<1> QED
    BY <1>1, Leaving

LEMMA ResumeNothingKeeps == ASSUME IInv, Seen, Seen', ResumeNothing PROVE Keeps
<1>1. /\ UNCHANGED << rows, sent, taken, cut >> /\ doubled \subseteq doubled'
      /\ \A m : m \in doubled' => m \in doubled \/ Has(m, paused)
    BY CopiedIs DEF ResumeNothing, TakenInPause
<1> QED
    BY <1>1, Leaving

LEMMA ReplayFailsKeeps == ASSUME IInv, Seen, Seen', ReplayFails PROVE Keeps
<1>1. Has(Head(replay), replay)
    BY HasTail DEF ReplayFails, IInv, QueuesOK
<1>2. UNCHANGED << rows, sent, taken, doubled >> /\ cut' = cut \cup {Head(replay)}
    BY DEF ReplayFails
<1> QED
    BY <1>1, <1>2, Leaving DEF Waiting

LEMMA QuietKeeps ==
    ASSUME Seen, Seen',
           \/ Output \/ PromoteFails \/ PromoteEnds \/ Boot \/ ResumeClaim
           \/ ResumeContinue \/ ReplayEnds \/ UNCHANGED vars
    PROVE  Keeps
<1>1. UNCHANGED << rows, sent, taken, doubled, cut >>
    BY DEF Output, PromoteFails, PromoteEnds, Boot, ResumeClaim,
       ResumeContinue, ReplayEnds, vars, history
<1> QED
    BY <1>1, Staying

LEMMA StepKeeps == ASSUME IInv, Seen, Seen', [Next]_vars PROVE Keeps
<1>1. CASE \/ \E m \in Messages : Send(m)
           \/ Deliver \/ TurnEnds
           \/ \E i \in DOMAIN queue : QueueRemove(i)
    BY <1>1, SendKeeps, DeliverKeeps, TurnEndsKeeps, QueueRemoveKeeps
<1>2. CASE \/ EscBegin \/ EscEnd \/ EscParked \/ PromoteBegin \/ PromoteAborted
           \/ PromoteNext \/ PromotedTurnFails
    BY <1>2, EscBeginKeeps, EscEndKeeps, EscParkedKeeps, PromoteBeginKeeps,
       PromoteAbortedKeeps, PromoteNextKeeps, PromotedTurnFailsKeeps
<1>3. CASE Pause \/ Exit \/ Killed \/ ResumeNothing \/ ReplayNext \/ ReplayFails
    BY <1>3, PauseKeeps, GoneKeeps, ResumeNothingKeeps, ReplayNextKeeps, ReplayFailsKeeps
       DEF Exit, Killed
<1>4. CASE \/ Output \/ PromoteFails \/ PromoteEnds \/ Boot \/ ResumeClaim
           \/ ResumeContinue \/ ReplayEnds \/ UNCHANGED vars
    BY <1>4, QuietKeeps
<1> QED
    BY <1>1, <1>2, <1>3, <1>4 DEF Next

(* A conversation implements Mailbox, for any number of messages and exits.  *)
(* Of a message that gets no second copy: it is read at most once; what was  *)
(* read comes back only to the one Esc that discards it, and is lost only    *)
(* when it got behind a message that an Esc discards; what came back or went *)
(* astray stays so.                                                          *)
THEOREM ConversationKeepsPromise == Spec => ImplementsMailbox
<1>1. Init => Promise!Init
  <2> SUFFICES ASSUME Init PROVE Box = [m \in Messages |-> "unsent"]
      BY DEF Promise!Init
  <2>1. \A m \in Messages : m \notin doubled /\ m \notin sent
      BY DEF Init
  <2> QED
      BY <2>1 DEF Box
<1>2. Seen /\ Seen' /\ IInv /\ [Next]_vars => [Promise!Next]_Box
    BY StepKeeps DEF Keeps
<1> QED
    BY <1>1, <1>2, SeenThere, QueueInvariant, PTL DEF Spec, Promise!Spec, ImplementsMailbox
=============================================================================
