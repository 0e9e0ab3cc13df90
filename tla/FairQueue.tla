------------------------------ MODULE FairQueue ------------------------------
(* The round-robin queue across independent producers                        *)
(* (src/subagent/fairQueue.ts).  A queue is a record                         *)
(*   lanes : one FIFO lane of items per producer key (an absent lane of the  *)
(*           code's Map is the empty sequence here),                         *)
(*   order : the keys in service order, the head is served next,             *)
(*   count : the depth the class maintains beside them.                      *)
(* The operators are the class's methods as functions of the queue; the      *)
(* modules that own a queue keep it in a variable.                           *)
EXTENDS Integers, Sequences

QueueType(Keys, Items) ==
    [lanes : [Keys -> Seq(Items)], order : Seq(Keys), count : Int]

EmptyQueue(Keys) ==
    [lanes |-> [k \in Keys |-> << >>], order |-> << >>, count |-> 0]

Depth(q) == q.count

(* shift() answers undefined.                                                *)
Exhausted(q) == q.order = << >>

(* No element of a sequence occurs twice in it.                              *)
Once(s) == \A i, j \in DOMAIN s : s[i] = s[j] => i = j

Member(s, x) == \E i \in DOMAIN s : s[i] = x

(* The lane of k holds x.                                                    *)
Holds(q, k, x) == Member(q.lanes[k], x)

(* push: append to the producer's lane; a lane that did not exist joins the  *)
(* back of the rotation.                                                     *)
Push(q, k, x) ==
    [lanes |-> [q.lanes EXCEPT ![k] = Append(@, x)],
     order |-> IF q.lanes[k] = << >> THEN Append(q.order, k) ELSE q.order,
     count |-> q.count + 1]

(* shift returns this item and leaves the queue ShiftRest(q).  The code's    *)
(* loop also skips an empty lane at the head of the rotation; no method      *)
(* leaves one there (RotationExact), so that branch has no counterpart.      *)
NextKey(q) == Head(q.order)
NextItem(q) == Head(q.lanes[NextKey(q)])

(* A slip: the served lane stays where it is instead of rotating.            *)
ShiftWithoutRotation(q) ==
    LET k == Head(q.order)
        rest == Tail(q.lanes[k])
    IN [lanes |-> [q.lanes EXCEPT ![k] = rest],
        order |-> IF rest = << >> THEN Tail(q.order) ELSE q.order,
        count |-> q.count - 1]

(* The served lane goes to the back of the rotation if it still holds work   *)
(* and leaves the rotation if it does not.                                   *)
ShiftRest(q) ==
    LET k == Head(q.order)
        rest == Tail(q.lanes[k])
    IN [lanes |-> [q.lanes EXCEPT ![k] = rest],
        order |-> IF rest = << >> THEN Tail(q.order) ELSE Append(Tail(q.order), k),
        count |-> q.count - 1]

(* order without the key k (indexOf, then splice of one element).            *)
WithoutKey(s, k) ==
    IF Member(s, k)
    THEN LET i == CHOOSE i \in DOMAIN s : s[i] = k
         IN SubSeq(s, 1, i - 1) \o SubSeq(s, i + 1, Len(s))
    ELSE s

(* A slip: a lane still in the rotation is named there twice.                *)
UnshiftOrderTwice(q, k) == << k >> \o q.order

(* unshift: the item returns to the head of its lane, and the lane to the    *)
(* head of the rotation.                                                     *)
UnshiftOrder(q, k) == << k >> \o WithoutKey(q.order, k)

Unshift(q, k, x) ==
    [lanes |-> [q.lanes EXCEPT ![k] = << x >> \o @],
     order |-> UnshiftOrder(q, k),
     count |-> q.count + 1]

(* What every method maintains: the rotation names exactly the lanes that    *)
(* hold work, each once.                                                     *)
RotationExact(q) ==
    /\ \A k \in DOMAIN q.lanes : (q.lanes[k] # << >>) <=> Member(q.order, k)
    /\ Once(q.order)
=============================================================================
