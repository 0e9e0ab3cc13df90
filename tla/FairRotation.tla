----------------------------- MODULE FairRotation -----------------------------
(* The fair queue under the drain loop of the pool                           *)
(* (src/subagent/pool.ts:332-351 over fairQueue.ts): producers push at any   *)
(* moment between drains, a drain shifts item after item, and an environment *)
(* that knows which sessions are pinned decides for each whether a runner    *)
(* takes it or it is set aside and put back at the end.  The pool module     *)
(* decides that from its routes; here every choice is possible, which is     *)
(* what a claim about fairness between producers has to survive.             *)
EXTENDS FairQueue, FiniteSets

CONSTANTS Producers, MaxPushed

ASSUME RotationConstants == MaxPushed \in Nat

VARIABLES
    q,         \* the queue; an item is <<producer, its number there>>
    aside,     \* items the running drain set aside, in shift order
    mode,      \* waiting, draining or restoring
    pushed,    \* items each producer has pushed
    passed,    \* history: j -> k -> items of k given since j was offered
    opened,    \* history: the queue when the running drain began
    gave       \* history: the running drain gave an item away

vars == << q, aside, mode, pushed, passed, opened, gave >>

NonePassed == [k \in Producers |-> 0]

Init ==
    /\ q = EmptyQueue(Producers)
    /\ aside = << >> /\ mode = "waiting"
    /\ pushed = [k \in Producers |-> 0]
    /\ passed = [j \in Producers |-> NonePassed]
    /\ opened = q /\ gave = FALSE

Arrive(k) ==
    /\ mode = "waiting" /\ pushed[k] < MaxPushed
    /\ q' = Push(q, k, << k, pushed[k] + 1 >>)
    /\ pushed' = [pushed EXCEPT ![k] = @ + 1]
    /\ UNCHANGED << aside, mode, passed, opened, gave >>

Open ==
    /\ mode = "waiting" /\ ~Exhausted(q)
    /\ mode' = "draining"
    /\ opened' = q /\ gave' = FALSE
    /\ UNCHANGED << q, aside, pushed, passed >>

(* The item found a runner.                                                  *)
Give ==
    /\ mode = "draining" /\ ~Exhausted(q)
    /\ LET k == NextKey(q)
       IN passed' = [j \in Producers |->
                       IF j = k \/ q.lanes[j] = << >> THEN NonePassed
                       ELSE [passed[j] EXCEPT ![k] = @ + 1]]
    /\ q' = ShiftRest(q)
    /\ gave' = TRUE
    /\ UNCHANGED << aside, mode, pushed, opened >>

(* No runner may take the item now.                                          *)
SetAside ==
    /\ mode = "draining" /\ ~Exhausted(q)
    /\ aside' = Append(aside, NextItem(q))
    /\ passed' = [passed EXCEPT ![NextKey(q)] = NonePassed]
    /\ q' = ShiftRest(q)
    /\ UNCHANGED << mode, pushed, opened, gave >>

(* No room is left, or nothing is.                                           *)
Close ==
    /\ mode = "draining"
    /\ mode' = "restoring"
    /\ UNCHANGED << q, aside, pushed, passed, opened, gave >>

(* A slip: the set-aside items are put back first to last.                   *)
PutBackForwards ==
    /\ mode = "restoring" /\ aside # << >>
    /\ LET x == Head(aside)
       IN q' = Unshift(q, x[1], x)
    /\ aside' = Tail(aside)
    /\ UNCHANGED << mode, pushed, passed, opened, gave >>

PutBack ==
    /\ mode = "restoring" /\ aside # << >>
    /\ LET x == aside[Len(aside)]
       IN q' = Unshift(q, x[1], x)
    /\ aside' = SubSeq(aside, 1, Len(aside) - 1)
    /\ UNCHANGED << mode, pushed, passed, opened, gave >>

Finish ==
    /\ mode = "restoring" /\ aside = << >>
    /\ mode' = "waiting"
    /\ UNCHANGED << q, aside, pushed, passed, opened, gave >>

Next == (\E k \in Producers : Arrive(k)) \/ Open \/ Give \/ SetAside \/ Close \/ PutBack \/ Finish

Spec == Init /\ [][Next]_vars

-----------------------------------------------------------------------------
(* The items held: <<k, i>> is place i in the lane of k.                     *)
Places(p) == { at \in Producers \X (1 .. MaxPushed) : at[2] \in DOMAIN p.lanes[at[1]] }

(* Every method keeps the rotation, the lanes and the count in agreement:    *)
(* the rotation names exactly the lanes with work, each once, and the depth  *)
(* the pool grows by and reports is the number of items held.                *)
QueueExact == RotationExact(q) /\ q.count = Cardinality(Places(q))

(* However many items one producer pushed, another that waits is passed by   *)
(* it at most twice between two of its own offers: once in the rotation, and *)
(* once more by an item put back at the head after a drain set it aside.     *)
(* Counted is since it was last offered an item, or last had one in its lane *)
(* rather than set aside.                                                    *)
BoundedPassing ==
    \A j, k \in Producers : q.lanes[j] # << >> => passed[j][k] <= 2

(* An item put back keeps its place: the items of a producer stay in the     *)
(* order it pushed them.                                                     *)
LaneInPushOrder ==
    \A k \in Producers : \A i, j \in DOMAIN q.lanes[k] :
        i < j => q.lanes[k][i][2] < q.lanes[k][j][2]

(* "being offered a slot they could not take must not cost a producer its    *)
(* place in line" (pool.ts:345-346): a drain that gave nothing away leaves   *)
(* the queue, rotation included, as it found it.                             *)
FruitlessDrainRestores ==
    [][mode = "restoring" /\ mode' = "waiting" /\ ~gave => q = opened]_vars
=============================================================================
