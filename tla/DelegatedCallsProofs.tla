------------------------- MODULE DelegatedCallsProofs -------------------------
(* What holds of delegated calls for every tree of calls and every number of *)
(* restarts.                                                                 *)
EXTENDS DelegatedCalls, TLAPS

-----------------------------------------------------------------------------
(* The inductive invariant                                                   *)

(* A process that is down keeps nothing in memory.                           *)
Down ==
    ~up => /\ boot < MaxBoots
           /\ claimed = {} /\ woken = {}
           /\ \A s \in Sessions : turn[s] = "idle"
           /\ \A c \in Calls : call[c] = "none"

(* A row is stamped by a boot that was, and claimed at most once by each.    *)
Stamps == \A c \in Calls : owner[c] <= boot /\ attempt[c] < boot

(* Nothing is done for a call that was not made.                             *)
Unmade == \A c \in Calls : reply[c] = "none" => lifecycle[c] = "none" /\ call[c] = "none"

(* The stage of a call and the lifecycle of its row agree.                   *)
Stages ==
    \A c \in Calls :
        /\ call[c] = "queued" => lifecycle[c] = "none"
        /\ call[c] = "active" => lifecycle[c] \in Open
        /\ call[c] = "returned" => lifecycle[c] = "running"
        /\ call[c] = "pushed" => lifecycle[c] = "done"

(* A call made in this boot has the turn that made it waiting, or has given  *)
(* it a handle.                                                              *)
Direct(c) == \/ call[c] \in { "queued", "returned", "pushed" }
             \/ call[c] = "active" /\ lifecycle[c] = "running"
DirectCalls ==
    \A c \in Calls : Direct(c) =>
        reply[c] = "handle" \/ (reply[c] = "waiting" /\ turn[Caller[c]] = "running")

(* Nothing moves a claimed child before its recovery does.                   *)
Asleep(c) == c \in claimed /\ lifecycle[c] = "recovering" /\ call[c] = "none"
Undisturbed ==
    \A c \in Calls : Asleep(c) =>
        /\ turn[c] = "idle"
        /\ \A d \in ChildrenOf(c) : ~Direct(d) /\ d \notin woken

(* The result of a call comes at its end.                                    *)
ResultsAtEnd == \A c \in Calls : lifecycle[c] \in Open \cup {"none"} => inbox[c] = "none"

(* An answer that was folded into a transcript is the last word of its call. *)
FoldedIsFinal ==
    \A c \in Calls : reply[c] = "recovered" => lifecycle[c] \notin Open /\ call[c] = "none"

(* Only a background call has a handle, and an answer that is on its way to  *)
(* the inbox is not there yet.                                               *)
Handed ==
    \A c \in Calls : /\ reply[c] = "handle" => c \in Background
                     /\ call[c] = "pushed" => inbox[c] = "none"

(* A child that was never registered has neither run nor delegated.          *)
Rooted ==
    \A c, d \in Calls : lifecycle[c] = "none" /\ Caller[d] = c =>
        turn[c] = "idle" /\ reply[d] = "none"

(* What ended in this boot below a call that is open has been heard, waits   *)
(* in the inbox, is on its way there, or is in the context of the turn that  *)
(* runs.                                                                     *)
OnItsWay(d) == \/ d \in heard \/ inbox[d] = "pending" \/ call[d] = "pushed"
               \/ d \in steered /\ turn[Caller[d]] = "running"
NothingDropped ==
    \A c, d \in Calls :
        /\ up /\ lifecycle[c] \in Open /\ Caller[d] = c
        /\ owner[d] = boot /\ lifecycle[d] \notin Open \cup {"none"}
        => OnItsWay(d)

(* What was heard, or is in the context of a turn, is over.                  *)
Over(c) == lifecycle[c] \notin Open \cup {"none"}
TakenInOver ==
    /\ \A c \in heard \cup steered : Over(c)
    /\ \A s \in Sessions : visiting[s] # NoCall => Over(visiting[s])

(* A call that a turn waits for is being made, or its outcome is on its way. *)
Awaited ==
    \A c \in Calls : reply[c] = "waiting" /\ turn[Caller[c]] = "running" =>
        Direct(c) \/ OnItsWay(c)

(* A child of an open call that is between turns has an answer to every call *)
(* it made, unless its recovery is still to come.                            *)
Answered ==
    \A c \in Calls : up /\ lifecycle[c] \in Open /\ turn[c] = "idle" =>
        Asleep(c) \/ Unanswered(c) = {}

IInv ==
    /\ TypeOK /\ Down /\ Stamps /\ Unmade /\ Stages /\ DirectCalls /\ Undisturbed
    /\ ResultsAtEnd /\ FoldedIsFinal /\ OpenRowsDriven /\ FoldedAtOnce /\ PromisesKept
    /\ Handed /\ Rooted /\ NothingDropped /\ TakenInOver /\ Awaited /\ Answered

-----------------------------------------------------------------------------
(* The steps: what an action keeps, part by part.  The first step of each     *)
(* proof is for the parts that the action by itself leaves intact.           *)

(* The owner writes: the invariant still holds.                              *)
LEMMA StartTurnStep ==
    ASSUME IInv, StartTurn PROVE IInv'
<1> USE DelegationConstants DEF Sessions, Open, ChildrenOf, rows, memory, IInv
<1>1. /\ Down' /\ Stamps' /\ Stages' /\ Undisturbed' /\ ResultsAtEnd'
      /\ OpenRowsDriven'
    BY DEF StartTurn, Down, Stamps, Stages, Undisturbed, Asleep, Direct,
       ResultsAtEnd, OpenRowsDriven
<1>2. TypeOK'
    BY DEF StartTurn, SettleTail, Unanswered, Notices, PendingOf, TypeOK
<1>3. Unmade'
    BY DEF StartTurn, SettleTail, Unmade
<1>4. DirectCalls'
    BY DEF StartTurn, SettleTail, Unanswered, DirectCalls, Direct
\* a row the tail finds closed has no driver: it would be direct, and Root is idle
<1>5. FoldedIsFinal'
    BY DEF StartTurn, SettleTail, Unanswered, Resumes, TypeOK,
       FoldedIsFinal, Stages, DirectCalls, Direct
<1>6. FoldedAtOnce'
    BY DEF StartTurn, SettleTail, Unanswered, FoldedAtOnce
<1>7. PromisesKept'
    BY DEF StartTurn, SettleTail, Resumes, PromisesKept, Works
<1>8. Handed'
    BY DEF StartTurn, SettleTail, Handed
<1>9. Rooted'
    BY DEF StartTurn, SettleTail, Unanswered, Rooted
<1>10. NothingDropped'
    BY DEF StartTurn, SettleTail, NothingDropped, OnItsWay
<1>11. TakenInOver'
    BY DEF StartTurn, SettleTail, Notices, TakenInOver, Over, Resumes
<1>12. Awaited'
    BY DEF StartTurn, SettleTail, Awaited, Direct, OnItsWay, Unanswered
<1>13. Answered'
    BY DEF StartTurn, SettleTail, Answered, Asleep, Unanswered
<1> QED
    BY <1>1, <1>2, <1>3, <1>4, <1>5, <1>6, <1>7, <1>8, <1>9, <1>10, <1>11,
       <1>12, <1>13

(* A turn ends: the invariant still holds.                                   *)
LEMMA TurnEndsStep ==
    ASSUME IInv, NEW s \in Sessions, TurnEnds(s) PROVE IInv'
<1> USE DelegationConstants DEF Sessions, Open, ChildrenOf, rows, memory, IInv
<1>1. /\ Down' /\ Stamps' /\ Unmade' /\ Stages' /\ Undisturbed'
      /\ ResultsAtEnd' /\ FoldedIsFinal' /\ OpenRowsDriven' /\ FoldedAtOnce' /\ PromisesKept'
    BY DEF TurnEnds, Down, Stamps, Unmade, Stages, Undisturbed, Asleep,
       Direct, ResultsAtEnd, FoldedIsFinal, OpenRowsDriven, FoldedAtOnce,
       PromisesKept, Works
<1>2. TypeOK'
    BY DEF TurnEnds, Landed, TypeOK
<1>3. DirectCalls'
    BY DEF TurnEnds, Unanswered, DirectCalls, Direct
<1>4. Handed' /\ Rooted'
    BY DEF TurnEnds, Handed, Rooted
<1>5. NothingDropped'
    BY DEF TurnEnds, Landed, NothingDropped, OnItsWay
<1>6. TakenInOver'
    BY DEF TurnEnds, Landed, TakenInOver, Over
<1>7. Awaited'
    BY DEF TurnEnds, Awaited, Direct, OnItsWay
<1>8. Answered'
    BY DEF TurnEnds, Answered, Asleep, Unanswered
<1> QED
    BY <1>1, <1>2, <1>3, <1>4, <1>5, <1>6, <1>7, <1>8

(* The model calls the tool: the invariant still holds.                      *)
LEMMA DelegateStep ==
    ASSUME IInv, NEW c \in Calls, Delegate(c) PROVE IInv'
<1> USE DelegationConstants DEF Sessions, Open, ChildrenOf, rows, memory, IInv
<1>1. /\ Down' /\ Stamps' /\ Undisturbed' /\ ResultsAtEnd' /\ FoldedIsFinal'
      /\ FoldedAtOnce' /\ PromisesKept'
    BY DEF Delegate, Down, Stamps, Undisturbed, Asleep, Direct,
       ResultsAtEnd, FoldedIsFinal, FoldedAtOnce, PromisesKept, Works
<1>2. TypeOK'
    BY DEF Delegate, TypeOK
<1>3. Unmade'
    BY DEF Delegate, TypeOK, Unmade
<1>4. Stages'
    BY DEF Delegate, Stages, Unmade
\* the turn that makes the call runs and waits for it
<1>5. DirectCalls'
    BY DEF Delegate, TypeOK, DirectCalls, Direct
<1>6. OpenRowsDriven'
    BY DEF Delegate, OpenRowsDriven, Unmade
<1>7. Handed' /\ Rooted'
    BY DEF Delegate, Handed, Rooted
<1>8. NothingDropped'
    BY DEF Delegate, NothingDropped, OnItsWay, Unmade
<1>9. TakenInOver'
    BY DEF Delegate, TakenInOver, Over
<1>10. Awaited'
    BY DEF Delegate, Awaited, Direct, OnItsWay, TypeOK
<1>11. Answered'
    BY DEF Delegate, Answered, Asleep, Unanswered, Unmade, TypeOK
<1> QED
    BY <1>1, <1>2, <1>3, <1>4, <1>5, <1>6, <1>7, <1>8, <1>9, <1>10, <1>11

(* The child's turn begins: the invariant still holds.                       *)
LEMMA RegisterStep ==
    ASSUME IInv, NEW c \in Calls, Register(c) PROVE IInv'
<1> USE DelegationConstants DEF Sessions, Open, ChildrenOf, rows, memory, IInv
<1>1. /\ Down' /\ Stamps' /\ Unmade' /\ Stages' /\ DirectCalls'
      /\ Undisturbed' /\ FoldedIsFinal' /\ OpenRowsDriven'
    BY DEF Register, Down, TypeOK, Stamps, Unmade, Stages, DirectCalls,
       Direct, Undisturbed, Asleep, FoldedIsFinal, OpenRowsDriven
<1>2. TypeOK'
    BY DEF Register, TypeOK
<1>3. ResultsAtEnd'
    BY DEF Register, ResultsAtEnd, Stages
\* the caller of a call that was answered, or promised an answer, is registered
<1>4. ASSUME NEW d \in Calls, lifecycle'[d] # "none" \/ reply[d] # "none"
      PROVE  /\ reply' = reply /\ inbox' = inbox /\ heard' = heard
             /\ d = c => reply[d] \in { "handle", "waiting" }
             /\ d # c => lifecycle'[d] = lifecycle[d]
             /\ Caller[d] = c => reply[d] = "none"
             /\ Caller[d] # c /\ Caller[d] \in Calls =>
                   lifecycle'[Caller[d]] = lifecycle[Caller[d]]
    BY <1>4 DEF Register, DirectCalls, Direct, Rooted, Stages, TypeOK
<1>5. PromisesKept'
    BY <1>4 DEF Register, PromisesKept, Works
<1>6. FoldedAtOnce'
    BY <1>4 DEF Register, FoldedAtOnce
<1>7. Handed' /\ Rooted'
    BY DEF Register, Handed, Rooted, TypeOK
<1>8. NothingDropped'
    BY DEF Register, NothingDropped, OnItsWay, Unmade, Stages, Rooted
<1>9. TakenInOver'
    BY DEF Register, TakenInOver, Over, Stages
<1>10. Awaited'
    BY DEF Register, Awaited, Direct, OnItsWay, Stages, Rooted, TypeOK
<1>11. Answered'
    BY DEF Register, Answered, Asleep, Unanswered, Rooted, Stages
<1> QED
    BY <1>1, <1>2, <1>3, <1>4, <1>7, <1>8, <1>9, <1>10, <1>11, <1>5, <1>6

(* A background call is admitted: the invariant still holds.                 *)
LEMMA HandleReturnsStep ==
    ASSUME IInv, NEW c \in Calls, HandleReturns(c) PROVE IInv'
<1> USE DelegationConstants DEF Sessions, Open, ChildrenOf, rows, memory, IInv
<1>1. /\ Down' /\ Stamps' /\ Unmade' /\ Stages' /\ DirectCalls'
      /\ Undisturbed' /\ ResultsAtEnd' /\ FoldedIsFinal' /\ OpenRowsDriven' /\ FoldedAtOnce'
      /\ PromisesKept'
    BY DEF HandleReturns, Down, Stamps, Unmade, Stages, DirectCalls, Direct,
       Undisturbed, Asleep, ResultsAtEnd, FoldedIsFinal, OpenRowsDriven,
       FoldedAtOnce, PromisesKept, Works
<1>2. TypeOK'
    BY DEF HandleReturns, TypeOK
<1>3. Handed' /\ Rooted'
    BY DEF HandleReturns, Handed, Rooted
<1>4. NothingDropped'
    BY DEF HandleReturns, NothingDropped, OnItsWay
<1>5. TakenInOver'
    BY DEF HandleReturns, TakenInOver, Over
<1>6. Awaited'
    BY DEF HandleReturns, Awaited, Direct, OnItsWay
<1>7. Answered'
    BY DEF HandleReturns, Answered, Asleep, Unanswered
<1> QED
    BY <1>1, <1>2, <1>3, <1>4, <1>5, <1>6, <1>7

(* The settlement has its answer: the invariant still holds.                 *)
LEMMA SettleReturnsStep ==
    ASSUME IInv, NEW c \in Calls, SettleReturns(c) PROVE IInv'
<1> USE DelegationConstants DEF Sessions, Open, ChildrenOf, rows, memory, IInv
<1>1. /\ Stamps' /\ Unmade' /\ Stages' /\ ResultsAtEnd' /\ FoldedIsFinal'
      /\ OpenRowsDriven' /\ FoldedAtOnce' /\ PromisesKept'
    BY DEF SettleReturns, Stamps, Unmade, Stages, ResultsAtEnd,
       FoldedIsFinal, OpenRowsDriven, FoldedAtOnce, PromisesKept, Works
<1>2. TypeOK'
    BY DEF SettleReturns, TypeOK
<1>3. Down'
    BY DEF SettleReturns, Settled, Settling, Down
<1>4. DirectCalls'
    BY DEF SettleReturns, Settled, Settling, DirectCalls, Direct
<1>5. Undisturbed'
    BY DEF SettleReturns, Settled, Settling, Undisturbed, Asleep, Direct
<1>6. Handed' /\ Rooted'
    BY DEF SettleReturns, Handed, Rooted
<1>7. NothingDropped'
    BY DEF SettleReturns, NothingDropped, OnItsWay
<1>8. TakenInOver'
    BY DEF SettleReturns, TakenInOver, Over
<1>9. Awaited'
    BY DEF SettleReturns, Awaited, Direct, OnItsWay
<1>10. Answered'
    BY DEF SettleReturns, Answered, Asleep, Unanswered
<1> QED
    BY <1>1, <1>2, <1>3, <1>4, <1>5, <1>6, <1>7, <1>8, <1>9, <1>10

(* The terminal row is written: the invariant still holds.                   *)
LEMMA PushStep ==
    ASSUME IInv, NEW c \in Calls, Push(c) PROVE IInv'
<1> USE DelegationConstants DEF Sessions, Open, ChildrenOf, rows, memory, IInv
<1>1. /\ Down' /\ Stamps' /\ Unmade' /\ Stages' /\ DirectCalls'
      /\ Undisturbed' /\ ResultsAtEnd' /\ FoldedIsFinal' /\ OpenRowsDriven'
    BY DEF Push, Down, Stamps, Unmade, TypeOK, Stages, DirectCalls, Direct,
       Undisturbed, Asleep, ResultsAtEnd, FoldedIsFinal, OpenRowsDriven
<1>2. TypeOK'
    BY DEF Push, TypeOK
<1>3. FoldedAtOnce'
    BY DEF Push, FoldedAtOnce, DirectCalls, Direct
<1>4. PromisesKept'
    BY DEF Push, PromisesKept, Works, DirectCalls, Direct
<1>5. Handed'
    BY DEF Push, Handed, Stages, ResultsAtEnd
<1>6. Rooted'
    BY DEF Push, Rooted
<1>7. NothingDropped'
    BY DEF Push, NothingDropped, OnItsWay, TypeOK
<1>8. TakenInOver'
    BY DEF Push, TakenInOver, Over
<1>9. Awaited'
    BY DEF Push, Awaited, Direct, OnItsWay
<1>10. Answered'
    BY DEF Push, Answered, Asleep, Unanswered
<1> QED
    BY <1>1, <1>2, <1>3, <1>4, <1>5, <1>6, <1>7, <1>8, <1>9, <1>10

(* A blocking call returns its answer: the invariant still holds.            *)
LEMMA ReturnStep ==
    ASSUME IInv, NEW c \in Calls, Return(c) PROVE IInv'
<1> USE DelegationConstants DEF Sessions, Open, ChildrenOf, rows, memory, IInv
<1>1. /\ Down' /\ Stamps' /\ Unmade' /\ Stages' /\ DirectCalls'
      /\ ResultsAtEnd' /\ FoldedIsFinal' /\ OpenRowsDriven' /\ FoldedAtOnce' /\ PromisesKept'
    BY DEF Return, Down, Stamps, Unmade, Stages, TypeOK, DirectCalls,
       Direct, ResultsAtEnd, FoldedIsFinal, OpenRowsDriven, FoldedAtOnce,
       PromisesKept, Works
<1>2. TypeOK'
    BY DEF Return, TypeOK
<1>3. Undisturbed'
    BY DEF Return, Undisturbed, Stages, Asleep, Direct
<1>4. Handed' /\ Rooted'
    BY DEF Return, Handed, Rooted, Unmade
<1>5. NothingDropped'
    BY DEF Return, NothingDropped, OnItsWay
<1>6. TakenInOver'
    BY DEF Return, TakenInOver, Over, Stages
<1>7. Awaited'
    BY DEF Return, Awaited, Direct, OnItsWay
<1>8. Answered'
    BY DEF Return, Answered, Asleep, Unanswered
<1> QED
    BY <1>1, <1>2, <1>3, <1>4, <1>5, <1>6, <1>7, <1>8

(* A background call leaves its answer in the inbox: the invariant still holds. *)
LEMMA EmitStep ==
    ASSUME IInv, NEW c \in Calls, Emit(c) PROVE IInv'
<1> USE DelegationConstants DEF Sessions, Open, ChildrenOf, rows, memory, IInv
<1>1. /\ Down' /\ Stamps' /\ Unmade' /\ Stages' /\ DirectCalls'
      /\ FoldedIsFinal' /\ OpenRowsDriven'
    BY DEF Emit, Down, Stamps, Unmade, Stages, DirectCalls, Direct,
       FoldedIsFinal, OpenRowsDriven
<1>2. TypeOK'
    BY DEF Emit, Enqueue, TypeOK
<1>3. Undisturbed'
    BY DEF Emit, Undisturbed, Stages, Asleep, Direct
<1>4. ResultsAtEnd'
    BY DEF Emit, Enqueue, ResultsAtEnd, Stages
<1>5. FoldedAtOnce'
    BY DEF Emit, Enqueue, FoldedAtOnce, FoldedIsFinal
<1>6. PromisesKept'
    BY DEF Emit, Enqueue, PromisesKept, Works
<1>7. Handed'
    BY DEF Emit, Enqueue, Handed, TypeOK
<1>8. Rooted'
    BY DEF Emit, Rooted
<1>9. NothingDropped'
    BY DEF Emit, Enqueue, NothingDropped, OnItsWay, TypeOK, Handed
<1>10. TakenInOver'
    BY DEF Emit, TakenInOver, Over
<1>11. Awaited'
    BY DEF Emit, Enqueue, Awaited, Direct, OnItsWay, Handed, TypeOK
<1>12. Answered'
    BY DEF Emit, Answered, Asleep, Unanswered
<1> QED
    BY <1>1, <1>2, <1>3, <1>4, <1>5, <1>6, <1>7, <1>8, <1>9, <1>10, <1>11, <1>12

(* A result goes into a running turn: the invariant still holds.             *)
LEMMA SteerStep ==
    ASSUME IInv, NEW c \in Calls, Steer(c) PROVE IInv'
<1> USE DelegationConstants DEF Sessions, Open, ChildrenOf, rows, memory, IInv
<1>1. /\ Down' /\ Stamps' /\ Unmade' /\ Stages' /\ DirectCalls'
      /\ Undisturbed' /\ FoldedIsFinal' /\ OpenRowsDriven' /\ FoldedAtOnce'
    BY DEF Steer, Down, Stamps, Unmade, Stages, DirectCalls, Direct,
       Undisturbed, Asleep, FoldedIsFinal, OpenRowsDriven, FoldedAtOnce
<1>2. TypeOK'
    BY DEF Steer, TypeOK
<1>3. ResultsAtEnd'
    BY DEF Steer, PendingOf, ResultsAtEnd
<1>4. PromisesKept'
    BY DEF Steer, PromisesKept, Works, FoldedAtOnce, TypeOK
<1>5. Handed' /\ Rooted'
    BY DEF Steer, PendingOf, Handed, Rooted
<1>6. NothingDropped'
    BY DEF Steer, NothingDropped, OnItsWay
<1>7. TakenInOver'
    BY DEF Steer, PendingOf, TakenInOver, Over, ResultsAtEnd
<1>8. Awaited'
    BY DEF Steer, Awaited, Direct, OnItsWay
<1>9. Answered'
    BY DEF Steer, Answered, Asleep, Unanswered
<1> QED
    BY <1>1, <1>2, <1>3, <1>4, <1>5, <1>6, <1>7, <1>8, <1>9

(* A hidden turn delivers a result: the invariant still holds.               *)
LEMMA DeliverStep ==
    ASSUME IInv, NEW c \in Calls, Deliver(c) PROVE IInv'
<1> USE DelegationConstants DEF Sessions, Open, ChildrenOf, rows, memory, IInv
<1>1. /\ Down' /\ Stamps' /\ Stages' /\ ResultsAtEnd' /\ OpenRowsDriven'
    BY DEF Deliver, Down, Stamps, Stages, ResultsAtEnd, OpenRowsDriven
<1>2. TypeOK'
    BY DEF Deliver, SettleTail, Unanswered, TypeOK
<1>3. Unmade'
    BY DEF Deliver, SettleTail, Unmade
<1>4. DirectCalls'
    BY DEF Deliver, SettleTail, Unanswered, DirectCalls, Direct
<1>5. Undisturbed'
    BY DEF Deliver, Drains, Settling, Undisturbed, Asleep, Direct
\* as for StartTurn
<1>6. FoldedIsFinal'
    BY DEF Deliver, SettleTail, Unanswered, Resumes, TypeOK, FoldedIsFinal,
       Stages, DirectCalls, Direct
\* a child that is open, between turns and awake waits for no answer
<1>7. FoldedAtOnce'
  <2>1. CASE Caller[c] = Root
      BY <2>1 DEF Deliver, SettleTail, Unanswered, FoldedAtOnce
  <2>2. CASE Caller[c] # Root
    <3>1. up /\ turn[Caller[c]] = "idle" /\ ~Asleep(Caller[c]) /\ Caller[c] \in Calls
        BY <2>2 DEF Deliver, Drains, Settling, Undisturbed, Asleep
    <3>2. lifecycle[Caller[c]] \in Open => Unanswered(Caller[c]) = {}
        BY <3>1 DEF Answered
    <3> QED
        BY <2>2, <3>2 DEF Deliver, SettleTail, Unanswered, FoldedAtOnce
  <2> QED
      BY <2>1, <2>2
<1>8. PromisesKept'
    BY DEF Deliver, SettleTail, Resumes, PromisesKept, Works
<1>9. Handed'
    BY DEF Deliver, SettleTail, Handed
<1>10. Rooted'
    BY DEF Deliver, SettleTail, Unanswered, PendingOf, Rooted, Unmade,
       ResultsAtEnd
<1>11. NothingDropped'
    BY DEF Deliver, SettleTail, NothingDropped, OnItsWay
<1>12. TakenInOver'
    BY DEF Deliver, SettleTail, PendingOf, TakenInOver, Over, Resumes,
           ResultsAtEnd
<1>13. Awaited'
    BY DEF Deliver, SettleTail, Awaited, Direct, OnItsWay, Unanswered
<1>14. Answered'
    BY DEF Deliver, SettleTail, Answered, Asleep, Unanswered
<1> QED
    BY <1>1, <1>2, <1>3, <1>4, <1>5, <1>6, <1>7, <1>8, <1>9, <1>10, <1>11,
       <1>12, <1>13, <1>14

(* The inbox row of a delivered result is closed: the invariant still holds. *)
LEMMA AcknowledgeStep ==
    ASSUME IInv, NEW c \in Calls, Acknowledge(c) PROVE IInv'
<1> USE DelegationConstants DEF Sessions, Open, ChildrenOf, rows, memory, IInv
<1>1. /\ Down' /\ Stamps' /\ Unmade' /\ Stages' /\ DirectCalls'
      /\ Undisturbed' /\ FoldedIsFinal' /\ OpenRowsDriven' /\ FoldedAtOnce' /\ PromisesKept'
    BY DEF Acknowledge, Down, Stamps, Unmade, Stages, DirectCalls, Direct,
       Undisturbed, Asleep, FoldedIsFinal, OpenRowsDriven, FoldedAtOnce,
       PromisesKept, Works
<1>2. TypeOK'
    BY DEF Acknowledge, TypeOK
<1>3. ResultsAtEnd'
    BY DEF Acknowledge, PendingOf, ResultsAtEnd
<1>4. Handed' /\ Rooted'
    BY DEF Acknowledge, PendingOf, Handed, Rooted
<1>5. NothingDropped'
    BY DEF Acknowledge, NothingDropped, OnItsWay
<1>6. TakenInOver'
    BY DEF Acknowledge, TakenInOver, Over
<1>7. Awaited'
    BY DEF Acknowledge, Awaited, Direct, OnItsWay
<1>8. Answered'
    BY DEF Acknowledge, Answered, Asleep, Unanswered
<1> QED
    BY <1>1, <1>2, <1>3, <1>4, <1>5, <1>6, <1>7, <1>8

(* The process dies: the invariant still holds.                              *)
LEMMA CrashStep ==
    ASSUME IInv, Crash PROVE IInv'
<1> USE DelegationConstants DEF Sessions, Open, ChildrenOf, rows, memory, IInv
<1>1. /\ Stamps' /\ Undisturbed' /\ ResultsAtEnd' /\ OpenRowsDriven' /\ FoldedAtOnce'
      /\ PromisesKept'
    BY DEF Crash, Stamps, Undisturbed, Asleep, ResultsAtEnd, OpenRowsDriven,
       FoldedAtOnce, PromisesKept, Works
<1>2. TypeOK'
    BY DEF Crash, NothingRuns, TypeOK
<1>3. Down'
    BY DEF Crash, NothingRuns, Down
<1>4. Unmade'
    BY DEF Crash, NothingRuns, Unmade
<1>5. Stages'
    BY DEF Crash, NothingRuns, Stages
<1>6. DirectCalls'
    BY DEF Crash, NothingRuns, DirectCalls, Direct
<1>7. FoldedIsFinal'
    BY DEF Crash, NothingRuns, FoldedIsFinal
<1>8. Handed' /\ Rooted'
    BY DEF Crash, NothingRuns, Handed, Rooted
<1>9. NothingDropped'
    BY DEF Crash, NothingDropped
<1>10. TakenInOver'
    BY DEF Crash, NothingRuns, TakenInOver, Over
<1>11. Awaited'
    BY DEF Crash, NothingRuns, Awaited
<1>12. Answered'
    BY DEF Crash, Answered
<1> QED
    BY <1>1, <1>2, <1>3, <1>4, <1>5, <1>6, <1>7, <1>8, <1>9, <1>10, <1>11, <1>12

(* A boot claims the open rows of earlier ones: the invariant still holds.   *)
LEMMA BootStep ==
    ASSUME IInv, Boot PROVE IInv'
<1> USE DelegationConstants DEF Sessions, Open, ChildrenOf, rows, memory, IInv
<1>1. /\ Down' /\ Stamps' /\ DirectCalls'
    BY DEF Boot, Down, TypeOK, Stamps, DirectCalls, Direct
<1>2. TypeOK'
    BY DEF Boot, Claimable, TypeOK, Down, Stamps
<1>3. Unmade'
    BY DEF Boot, Claimable, Unmade
<1>4. Stages'
    BY DEF Boot, Stages, Down
<1>5. Undisturbed'
    BY DEF Boot, Undisturbed, Down, Direct
<1>6. ResultsAtEnd'
    BY DEF Boot, Claimable, Discarded, ResultsAtEnd
<1>7. FoldedIsFinal'
    BY DEF Boot, Claimable, FoldedIsFinal
\* the rows of earlier boots are all of the open ones, and become claims
<1>8. OpenRowsDriven'
    BY DEF Boot, Claimable, TypeOK, OpenRowsDriven, Stamps
<1>9. FoldedAtOnce'
    BY DEF Boot, Claimable, FoldedAtOnce
<1>10. PromisesKept'
    BY DEF Boot, Claimable, Discarded, PromisesKept, Works, FoldedAtOnce, TypeOK
<1>11. Handed' /\ Rooted'
    BY DEF Boot, Discarded, Handed, Rooted
<1>12. NothingDropped'
    BY DEF Boot, NothingDropped, TypeOK, Stamps
<1>13. TakenInOver'
    BY DEF Boot, Claimable, TakenInOver, Over, TypeOK
<1>14. Awaited'
    BY DEF Boot, Awaited, Down
<1>15. Answered'
    BY DEF Boot, Claimable, Answered, Asleep, Down, Stamps, TypeOK
<1> QED
    BY <1>1, <1>2, <1>3, <1>4, <1>5, <1>6, <1>7, <1>8, <1>9, <1>10, <1>11,
       <1>12, <1>13, <1>14, <1>15

(* A claim has been tried too often: the invariant still holds.              *)
LEMMA GiveUpStep ==
    ASSUME IInv, NEW c \in Calls, GiveUp(c) PROVE IInv'
<1> USE DelegationConstants DEF Sessions, Open, ChildrenOf, rows, memory, IInv
<1>1. TypeOK'
    BY DEF GiveUp, Terminalize, Enqueue, TypeOK
<1>2. Down'
    BY DEF GiveUp, Recovers, Terminalize, Down
<1>3. Stamps'
    BY DEF GiveUp, Terminalize, Stamps
<1>4. Unmade'
    BY DEF GiveUp, Recovers, Terminalize, Unmade
<1>5. Stages'
    BY DEF GiveUp, Terminalize, TypeOK, Stages
<1>6. DirectCalls'
    BY DEF GiveUp, Terminalize, DirectCalls, Direct
<1>7. Undisturbed'
    BY DEF GiveUp, Terminalize, TypeOK, Undisturbed, Asleep, Direct
<1>8. ResultsAtEnd'
    BY DEF GiveUp, Terminalize, Enqueue, TypeOK, ResultsAtEnd
<1>9. FoldedIsFinal'
    BY DEF GiveUp, Terminalize, FoldedIsFinal
<1>10. OpenRowsDriven'
    BY DEF GiveUp, Terminalize, TypeOK, OpenRowsDriven
<1>11. FoldedAtOnce'
    BY DEF GiveUp, Recovers, Terminalize, Enqueue, FoldedAtOnce,
       FoldedIsFinal
\* the row was open, so the inbox was empty and takes the result
<1>12. PromisesKept'
    BY DEF GiveUp, Terminalize, Enqueue, TypeOK, PromisesKept, Works,
           ResultsAtEnd
<1>13. Handed'
    BY DEF GiveUp, Terminalize, Enqueue, Recovers, Handed
<1>14. Rooted'
    BY DEF GiveUp, Terminalize, Rooted
<1>15. NothingDropped'
    BY DEF GiveUp, Terminalize, Enqueue, Recovers, NothingDropped, OnItsWay,
       TypeOK, ResultsAtEnd
<1>16. TakenInOver'
    BY DEF GiveUp, Terminalize, TakenInOver, Over
<1>17. Awaited'
    BY DEF GiveUp, Recovers, Terminalize, Enqueue, Awaited, Direct, OnItsWay
<1>18. Answered'
    BY DEF GiveUp, Terminalize, Answered, Asleep, Unanswered
<1> QED
    BY <1>1, <1>2, <1>3, <1>4, <1>5, <1>6, <1>7, <1>8, <1>9, <1>10, <1>11,
       <1>12, <1>13, <1>14, <1>15, <1>16, <1>17, <1>18

(* A claim finds its child over: the invariant still holds.                  *)
LEMMA RecoverAnsweredStep ==
    ASSUME IInv, NEW c \in Calls, RecoverAnswered(c) PROVE IInv'
<1> USE DelegationConstants DEF Sessions, Open, ChildrenOf, rows, memory, IInv
<1>1. TypeOK'
    BY DEF RecoverAnswered, Terminalize, Enqueue, TypeOK
<1>2. Down'
    BY DEF RecoverAnswered, Recovers, Terminalize, Down
<1>3. Stamps'
    BY DEF RecoverAnswered, Terminalize, Stamps
<1>4. Unmade'
    BY DEF RecoverAnswered, Recovers, Terminalize, Unmade
<1>5. Stages'
    BY DEF RecoverAnswered, Terminalize, TypeOK, Stages
<1>6. DirectCalls'
    BY DEF RecoverAnswered, Terminalize, DirectCalls, Direct
<1>7. Undisturbed'
    BY DEF RecoverAnswered, Terminalize, TypeOK, Undisturbed, Asleep, Direct
<1>8. ResultsAtEnd'
    BY DEF RecoverAnswered, Terminalize, Enqueue, TypeOK, ResultsAtEnd
<1>9. FoldedIsFinal'
    BY DEF RecoverAnswered, Terminalize, FoldedIsFinal
<1>10. OpenRowsDriven'
    BY DEF RecoverAnswered, Terminalize, TypeOK, OpenRowsDriven
<1>11. FoldedAtOnce'
    BY DEF RecoverAnswered, Recovers, Terminalize, Enqueue, FoldedAtOnce,
       FoldedIsFinal
\* as for GiveUp
<1>12. PromisesKept'
    BY DEF RecoverAnswered, Terminalize, Enqueue, TypeOK, PromisesKept, Works,
       ResultsAtEnd
<1>13. Handed'
    BY DEF RecoverAnswered, Terminalize, Enqueue, Recovers, Handed
<1>14. Rooted'
    BY DEF RecoverAnswered, Terminalize, Rooted
<1>15. NothingDropped'
    BY DEF RecoverAnswered, Terminalize, Enqueue, Recovers, NothingDropped,
       OnItsWay, TypeOK, ResultsAtEnd
<1>16. TakenInOver'
    BY DEF RecoverAnswered, Terminalize, TakenInOver, Over
<1>17. Awaited'
    BY DEF RecoverAnswered, Recovers, Terminalize, Enqueue, Awaited, Direct,
           OnItsWay
<1>18. Answered'
    BY DEF RecoverAnswered, Terminalize, Answered, Asleep, Unanswered
<1> QED
    BY <1>1, <1>2, <1>3, <1>4, <1>5, <1>6, <1>7, <1>8, <1>9, <1>10, <1>11,
       <1>12, <1>13, <1>14, <1>15, <1>16, <1>17, <1>18

(* A claimed child continues: the invariant still holds.                     *)
LEMMA RecoverContinuesStep ==
    ASSUME IInv, NEW c \in Calls, RecoverContinues(c) PROVE IInv'
<1> USE DelegationConstants DEF Sessions, Open, ChildrenOf, rows, memory, IInv
<1>1. /\ Stamps' /\ OpenRowsDriven'
    BY DEF RecoverContinues, Stamps, OpenRowsDriven
<1>2. TypeOK'
    BY DEF RecoverContinues, SettleTail, Unanswered, Folded, TypeOK
<1>3. Down'
    BY DEF RecoverContinues, Recovers, Down
<1>4. Unmade'
    BY DEF RecoverContinues, Recovers, SettleTail, Unmade
<1>5. Stages'
    BY DEF RecoverContinues, Recovers, Stages
<1>6. DirectCalls'
    BY DEF RecoverContinues, Recovers, SettleTail, Unanswered, DirectCalls,
       Undisturbed, Direct, Asleep
\* the child was asleep and wakes; the children of other claims are untouched
<1>7. Undisturbed'
    BY DEF RecoverContinues, TypeOK, Undisturbed, Down, OpenRowsDriven,
       Asleep, Direct
<1>8. ResultsAtEnd'
    BY DEF RecoverContinues, Folded, PendingOf, ResultsAtEnd
<1>9. FoldedIsFinal'
    BY DEF RecoverContinues, Recovers, SettleTail, Unanswered, Deeper,
       TypeOK, FoldedIsFinal, Stages, Down, Undisturbed, OpenRowsDriven,
       Direct, Asleep
\* a registered call the child waits for is not direct, so it is a claim, and over
<1>10. FoldedAtOnce'
    BY DEF RecoverContinues, Recovers, SettleTail, Unanswered, Resumes,
       Folded, PendingOf, Deeper, FoldedAtOnce, Down, Undisturbed,
       OpenRowsDriven, Direct, Asleep
\* a call is promised here while its row is open, or has none
<1>11. PromisesKept'
    BY DEF RecoverContinues, SettleTail, Resumes, Folded, PromisesKept, Works
<1>12. Handed'
    BY DEF RecoverContinues, SettleTail, Folded, PendingOf, Handed
<1>13. Rooted'
    BY DEF RecoverContinues, SettleTail, Unanswered, Recovers, Rooted
<1>14. NothingDropped'
    BY DEF RecoverContinues, SettleTail, Folded, Recovers, Resumes,
       NothingDropped, OnItsWay
<1>15. TakenInOver'
    BY DEF RecoverContinues, SettleTail, TakenInOver, Over, Resumes
<1>16. Awaited'
    BY DEF RecoverContinues, Recovers, SettleTail, Folded, Awaited, Direct,
           OnItsWay, Unanswered
<1>17. Answered'
    BY DEF RecoverContinues, SettleTail, Answered, Asleep, Unanswered
<1> QED
    BY <1>1, <1>2, <1>3, <1>4, <1>5, <1>6, <1>7, <1>8, <1>9, <1>10, <1>11,
       <1>12, <1>13, <1>14, <1>15, <1>16, <1>17

(* A claimed child settles: the invariant still holds.                       *)
LEMMA RecoverySettlesStep ==
    ASSUME IInv, NEW c \in Calls, RecoverySettles(c) PROVE IInv'
<1> USE DelegationConstants DEF Sessions, Open, ChildrenOf, rows, memory, IInv
<1>1. TypeOK'
    BY DEF RecoverySettles, Terminalize, Enqueue, TypeOK
<1>2. Down'
    BY DEF RecoverySettles, Settled, Settling, Terminalize, Down
<1>3. Stamps'
    BY DEF RecoverySettles, Terminalize, Stamps
<1>4. Unmade'
    BY DEF RecoverySettles, Terminalize, Unmade
<1>5. Stages'
    BY DEF RecoverySettles, Terminalize, TypeOK, Stages
<1>6. DirectCalls'
    BY DEF RecoverySettles, Terminalize, DirectCalls, Direct
<1>7. Undisturbed'
    BY DEF RecoverySettles, Terminalize, TypeOK, Undisturbed, Asleep, Direct
<1>8. ResultsAtEnd'
    BY DEF RecoverySettles, Terminalize, Enqueue, TypeOK, ResultsAtEnd
<1>9. FoldedIsFinal'
    BY DEF RecoverySettles, Terminalize, FoldedIsFinal
<1>10. OpenRowsDriven'
    BY DEF RecoverySettles, Terminalize, OpenRowsDriven
<1>11. FoldedAtOnce'
    BY DEF RecoverySettles, Terminalize, Enqueue, FoldedAtOnce,
       FoldedIsFinal
\* as for GiveUp
<1>12. PromisesKept'
    BY DEF RecoverySettles, Terminalize, Enqueue, TypeOK, PromisesKept, Works,
       ResultsAtEnd
<1>13. Handed'
    BY DEF RecoverySettles, Terminalize, Enqueue, Settled, Settling, Handed
<1>14. Rooted'
    BY DEF RecoverySettles, Terminalize, Rooted
<1>15. NothingDropped'
    BY DEF RecoverySettles, Terminalize, Enqueue, NothingDropped, OnItsWay,
       TypeOK, ResultsAtEnd
<1>16. TakenInOver'
    BY DEF RecoverySettles, Terminalize, TakenInOver, Over
<1>17. Awaited'
    BY DEF RecoverySettles, Settled, Settling, Terminalize, Enqueue, Awaited,
           Direct, OnItsWay
<1>18. Answered'
    BY DEF RecoverySettles, Terminalize, Answered, Asleep, Unanswered
<1> QED
    BY <1>1, <1>2, <1>3, <1>4, <1>5, <1>6, <1>7, <1>8, <1>9, <1>10, <1>11,
       <1>12, <1>13, <1>14, <1>15, <1>16, <1>17, <1>18

(* The continuation of a claim fails: the invariant still holds.             *)
LEMMA RecoveryFailsStep ==
    ASSUME IInv, NEW c \in Calls, RecoveryFails(c) PROVE IInv'
<1> USE DelegationConstants DEF Sessions, Open, ChildrenOf, rows, memory, IInv
<1>1. TypeOK'
    BY DEF RecoveryFails, Terminalize, Enqueue, TypeOK
<1>2. Down'
    BY DEF RecoveryFails, Terminalize, Down
<1>3. Stamps'
    BY DEF RecoveryFails, Terminalize, Stamps
<1>4. Unmade'
    BY DEF RecoveryFails, Terminalize, Unmade
<1>5. Stages'
    BY DEF RecoveryFails, Terminalize, TypeOK, Stages
<1>6. DirectCalls'
    BY DEF RecoveryFails, Unanswered, Terminalize, DirectCalls, Direct
<1>7. Undisturbed'
    BY DEF RecoveryFails, Terminalize, TypeOK, Undisturbed, Asleep, Direct
<1>8. ResultsAtEnd'
    BY DEF RecoveryFails, Terminalize, Enqueue, TypeOK, ResultsAtEnd
<1>9. FoldedIsFinal'
    BY DEF RecoveryFails, Terminalize, FoldedIsFinal
<1>10. OpenRowsDriven'
    BY DEF RecoveryFails, Terminalize, OpenRowsDriven
<1>11. FoldedAtOnce'
    BY DEF RecoveryFails, Terminalize, Enqueue, FoldedAtOnce, FoldedIsFinal
\* as for GiveUp
<1>12. PromisesKept'
    BY DEF RecoveryFails, Terminalize, Enqueue, TypeOK, PromisesKept, Works,
       ResultsAtEnd
<1>13. Handed'
    BY DEF RecoveryFails, Terminalize, Enqueue, Handed
<1>14. Rooted'
    BY DEF RecoveryFails, Terminalize, Rooted
<1>15. NothingDropped'
    BY DEF RecoveryFails, Terminalize, Enqueue, NothingDropped, OnItsWay,
       TypeOK, ResultsAtEnd
<1>16. TakenInOver'
    BY DEF RecoveryFails, Terminalize, TakenInOver, Over
<1>17. Awaited'
    BY DEF RecoveryFails, Terminalize, Enqueue, Awaited, Direct, OnItsWay
<1>18. Answered'
    BY DEF RecoveryFails, Terminalize, Answered, Asleep, Unanswered
<1> QED
    BY <1>1, <1>2, <1>3, <1>4, <1>5, <1>6, <1>7, <1>8, <1>9, <1>10, <1>11,
       <1>12, <1>13, <1>14, <1>15, <1>16, <1>17, <1>18

-----------------------------------------------------------------------------
(* The theorems                                                              *)

(* Before the first call nothing is owed to anybody.                         *)
LEMMA InitInvariant == Init => IInv
<1> SUFFICES ASSUME Init PROVE IInv
    OBVIOUS
<1> USE DelegationConstants DEF Init, Sessions, Open, ChildrenOf
<1>1. TypeOK
    BY DEF TypeOK
<1>2. Down /\ Stamps /\ Unmade /\ Stages
    BY DEF Down, Stamps, Unmade, Stages
<1>3. DirectCalls /\ Undisturbed
    BY DEF DirectCalls, Direct, Undisturbed, Asleep
<1>4. ResultsAtEnd /\ FoldedIsFinal
    BY DEF ResultsAtEnd, FoldedIsFinal
<1>5. OpenRowsDriven /\ FoldedAtOnce /\ PromisesKept
    BY DEF OpenRowsDriven, FoldedAtOnce, PromisesKept, Works
<1>6. Handed /\ Rooted /\ NothingDropped
    BY DEF Handed, Rooted, NothingDropped
<1>7. TakenInOver /\ Awaited /\ Answered
    BY DEF TakenInOver, Awaited, Answered
<1> QED
    BY <1>1, <1>2, <1>3, <1>4, <1>5, <1>6, <1>7 DEF IInv

(* A step of a call, of its recovery or of the delivery of its result.       *)
LEMMA CallStep ==
    ASSUME IInv, NEW c \in Calls,
           \/ Delegate(c) \/ Progress(c) \/ Recovery(c) \/ RecoveryFails(c)
           \/ Steer(c) \/ Deliver(c) \/ Acknowledge(c)
    PROVE  IInv'
<1>1. CASE Delegate(c)
    BY <1>1, DelegateStep
<1>2. CASE Progress(c)
    BY <1>2, RegisterStep, HandleReturnsStep, SettleReturnsStep, PushStep,
       ReturnStep, EmitStep
       DEF Progress
<1>3. CASE Recovery(c)
    BY <1>3, GiveUpStep, RecoverAnsweredStep, RecoverContinuesStep,
       RecoverySettlesStep
       DEF Recovery
<1>4. CASE RecoveryFails(c)
    BY <1>4, RecoveryFailsStep
<1>5. CASE Steer(c)
    BY <1>5, SteerStep
<1>6. CASE Deliver(c)
    BY <1>6, DeliverStep
<1>7. CASE Acknowledge(c)
    BY <1>7, AcknowledgeStep
<1> QED
    BY <1>1, <1>2, <1>3, <1>4, <1>5, <1>6, <1>7

(* A step that changes nothing.                                              *)
LEMMA StutterStep == IInv /\ UNCHANGED vars => IInv'
<1> SUFFICES ASSUME IInv, UNCHANGED vars PROVE IInv'
    OBVIOUS
<1> USE DEF vars, rows, memory, IInv
<1>1. TypeOK' /\ Down' /\ Stamps' /\ Unmade' /\ Stages'
    BY DEF TypeOK, Down, Stamps, Unmade, Stages
<1>2. DirectCalls' /\ Undisturbed'
    BY DEF DirectCalls, Direct, Undisturbed, Asleep
<1>3. ResultsAtEnd' /\ FoldedIsFinal'
    BY DEF ResultsAtEnd, FoldedIsFinal
<1>4. OpenRowsDriven' /\ FoldedAtOnce' /\ PromisesKept'
    BY DEF OpenRowsDriven, FoldedAtOnce, PromisesKept, Works
<1>5. Handed' /\ Rooted' /\ NothingDropped'
    BY DEF Handed, Rooted, NothingDropped, OnItsWay
<1>6. TakenInOver' /\ Awaited' /\ Answered'
    BY DEF TakenInOver, Over, Awaited, Direct, OnItsWay, Answered, Asleep,
           Unanswered
<1> QED
    BY <1>1, <1>2, <1>3, <1>4, <1>5, <1>6

(* The invariant holds through every tree of calls, every interleaving of    *)
(* turns, settlements and deliveries, and every crash and restart.           *)
THEOREM DelegationInvariant == Spec => []IInv
<1>1. ASSUME IInv, [Next]_vars PROVE IInv'
    <2>1. CASE StartTurn
        BY <1>1, <2>1, StartTurnStep
    <2>2. CASE Crash
        BY <1>1, <2>2, CrashStep
    <2>3. CASE Boot
        BY <1>1, <2>3, BootStep
    <2>4. CASE \E s \in Sessions : TurnEnds(s)
        BY <1>1, <2>4, TurnEndsStep
    <2>5. ASSUME NEW c \in Calls,
                 \/ Delegate(c) \/ Progress(c) \/ Recovery(c) \/ RecoveryFails(c)
                 \/ Steer(c) \/ Deliver(c) \/ Acknowledge(c)
          PROVE  IInv'
        BY <1>1, <2>5, CallStep
    <2>6. CASE UNCHANGED vars
        BY <1>1, <2>6, StutterStep
    <2> QED
        BY <1>1, <2>1, <2>2, <2>3, <2>4, <2>5, <2>6 DEF Next
<1> QED
    BY InitInvariant, <1>1, PTL DEF Spec

(* The state of a call, of its row, of its inbox entry and of its session    *)
(* stays among the values the code writes; a claim is counted once a boot.   *)
THEOREM DelegationTypes == Spec => []TypeOK
<1>1. IInv => TypeOK
    BY DEF IInv
<1> QED
    BY <1>1, DelegationInvariant, PTL

(* claimRecoverableRuns: no run row stays open without somebody who works on *)
(* it, whichever boot left it open and however it had got there.             *)
THEOREM RowsDriven == Spec => []OpenRowsDriven
<1>1. IInv => OpenRowsDriven
    BY DEF IInv
<1> QED
    BY <1>1, DelegationInvariant, PTL

(* settlePartialTurn and completeRecoveredRun: the answer promised to the    *)
(* caller of an interrupted call that was registered is on its way until the *)
(* caller, while its own run lasts, has it.                                  *)
THEOREM PromisesCorrect == Spec => []PromisesKept
<1>1. IInv => PromisesKept
    BY DEF IInv
<1> QED
    BY <1>1, DelegationInvariant, PTL

(* recoverDelegatedRuns: leaves first, so a child that continues finds every *)
(* registered call it waited for over, and takes each outcome once.          *)
THEOREM FoldedCorrect == Spec => []FoldedAtOnce
<1>1. IInv => FoldedAtOnce
    BY DEF IInv
<1> QED
    BY <1>1, DelegationInvariant, PTL

(* settleDelegatedReply: for every tree of calls and every crash between two *)
(* steps, a settlement hands over an answer that takes in what the child     *)
(* delegated.                                                                *)
THEOREM SettlementsIntegrate == Spec => SettlementIntegrates
<1>1. ASSUME IInv, NEW c \in Calls, SettleReturns(c) \/ RecoverySettles(c)
      PROVE  SettlesOver(c)
    <2> USE DEF Open, ChildrenOf
    <2>1. /\ up /\ lifecycle[c] \in Open /\ turn[c] = "idle"
          /\ LiveChildren(c) = {} /\ OpenRows(c) = {} /\ Enqueuing(c) = {} /\ PendingOf(c) = {}
        BY <1>1
           DEF SettleReturns, RecoverySettles, Settled, Settling, Busy, IInv,
               Down
    <2>2. ASSUME NEW d \in Registered(c), owner[d] = boot, d \notin Spilled
          PROVE  d \in heard
        <3>1. /\ d \in Calls /\ Caller[d] = c
              /\ lifecycle[d] \notin Open \cup {"none"} /\ inbox[d] # "pending"
            BY <2>1, <2>2 DEF Registered, OpenRows, PendingOf
        <3>2. OnItsWay(d)
            BY <1>1, <2>1, <2>2, <3>1 DEF IInv, NothingDropped
        \* pushed and in the foreground, its caller would have the turn that waits for it
        <3>3. call[d] # "pushed"
            BY <1>1, <2>1, <2>2, <3>1
               DEF IInv, Enqueuing, DirectCalls, Direct, Handed
        <3> QED
            BY <2>1, <3>1, <3>2, <3>3 DEF OnItsWay
    <2> QED
        BY <2>1, <2>2 DEF SettlesOver, Registered, EndedBefore, PendingOf
<1>2. IInv => \A c \in Calls : SettleReturns(c) \/ RecoverySettles(c) => SettlesOver(c)
    BY <1>1
<1> QED
    BY <1>2, DelegationInvariant, PTL DEF SettlementIntegrates

(* Turns and deliveries do not lose an outcome: what leaves the context of a *)
(* turn that ends, or the inbox, has been heard or is in a running turn.     *)
LEMMA HeldInTurns ==
    ASSUME IInv, NEW d \in Calls, lifecycle[d] # "none", Held(d),
           \/ StartTurn \/ \E s \in Sessions : TurnEnds(s)
           \/ \E c \in Calls : Steer(c) \/ Deliver(c) \/ Acknowledge(c)
    PROVE  Held(d)'
<1> USE DelegationConstants DEF Sessions, Open, ChildrenOf, rows, memory, IInv, Held
<1>1. ASSUME StartTurn PROVE Held(d)'
    BY <1>1 DEF StartTurn, SettleTail, Unanswered, Resumes
<1>2. ASSUME NEW s \in Sessions, TurnEnds(s) PROVE Held(d)'
    BY <1>2 DEF TurnEnds, Landed, Unanswered
<1>3. ASSUME NEW c \in Calls, Steer(c) PROVE Held(d)'
    BY <1>3 DEF Steer, PendingOf
<1>4. ASSUME NEW c \in Calls, Deliver(c) PROVE Held(d)'
    BY <1>4 DEF Deliver, SettleTail, Unanswered, Resumes, TypeOK
<1>5. ASSUME NEW c \in Calls, Acknowledge(c) PROVE Held(d)'
    BY <1>5 DEF Acknowledge
<1> QED
    BY <1>1, <1>2, <1>3, <1>4, <1>5

(* Nor do the steps of a call.  A handle is given while the call is open, or *)
(* on its way to the inbox.                                                  *)
LEMMA HeldInCalls ==
    ASSUME IInv, NEW d \in Calls, lifecycle[d] # "none", Held(d),
           \E c \in Calls : Delegate(c) \/ Progress(c)
    PROVE  Held(d)'
<1> USE DelegationConstants DEF Sessions, Open, ChildrenOf, rows, memory, IInv, Held
<1>1. ASSUME NEW c \in Calls, Delegate(c) PROVE Held(d)'
    BY <1>1 DEF Delegate, TypeOK, Unmade
<1>2. ASSUME NEW c \in Calls, Register(c) PROVE Held(d)'
    BY <1>2 DEF Register, Stages, TypeOK, Rooted
<1>3. ASSUME NEW c \in Calls, HandleReturns(c) PROVE Held(d)'
    BY <1>3 DEF HandleReturns, Awaited, OnItsWay, Direct, Stages
<1>4. ASSUME NEW c \in Calls, SettleReturns(c) PROVE Held(d)'
    BY <1>4 DEF SettleReturns, Settled, Settling
<1>5. ASSUME NEW c \in Calls, Push(c) PROVE Held(d)'
    BY <1>5 DEF Push, TypeOK
<1>6. ASSUME NEW c \in Calls, Return(c) PROVE Held(d)'
    BY <1>6 DEF Return, TypeOK
<1>7. ASSUME NEW c \in Calls, Emit(c) PROVE Held(d)'
    BY <1>7 DEF Emit, Enqueue, Handed, TypeOK
<1> QED
    BY <1>1, <1>2, <1>3, <1>4, <1>5, <1>6, <1>7 DEF Progress

(* Nor does a recovery: it ends a row with a result in the inbox, and a fold *)
(* takes from the inbox only what the transcript then holds.                 *)
LEMMA HeldInRecovery ==
    ASSUME IInv, NEW d \in Calls, lifecycle[d] # "none", Held(d),
           \E c \in Calls : Recovery(c)
    PROVE  Held(d)'
<1> USE DelegationConstants DEF Sessions, Open, ChildrenOf, rows, memory, IInv, Held
<1>1. ASSUME NEW c \in Calls, NEW end, Terminalize(c, end), lifecycle[c] \in Open,
             call[c] # "pushed", UNCHANGED << reply, heard, turn, steered >>
      PROVE Held(d)'
    BY <1>1 DEF Terminalize, Enqueue, ResultsAtEnd, TypeOK
<1>2. ASSUME NEW c \in Calls, GiveUp(c) PROVE Held(d)'
    BY <1>1, <1>2 DEF GiveUp, Recovers
<1>3. ASSUME NEW c \in Calls, RecoverAnswered(c) PROVE Held(d)'
    BY <1>1, <1>3 DEF RecoverAnswered, Recovers
<1>4. ASSUME NEW c \in Calls, RecoverContinues(c) PROVE Held(d)'
    BY <1>4
       DEF RecoverContinues, Recovers, SettleTail, Folded, Unanswered, Resumes,
           PendingOf, TypeOK
<1>5. ASSUME NEW c \in Calls, RecoverySettles(c) PROVE Held(d)'
    BY <1>1, <1>5 DEF RecoverySettles, Settled, Settling
<1> QED
    BY <1>2, <1>3, <1>4, <1>5 DEF Recovery

(* An outcome is lost from the memory of a process, with the continuation    *)
(* that was to take it in, or to a caller that is over.                      *)
LEMMA LostSomewhere ==
    ASSUME IInv, NEW d \in Calls, lifecycle[d] # "none", Held(d), ~Held(d)'
    PROVE  /\ Crash => InMemory(d)
           /\ Boot => d \in Discarded
           /\ \A c \in Calls : RecoveryFails(c) => Caller[d] = c /\ d \in steered
<1> USE DelegationConstants DEF Sessions, Open, ChildrenOf, rows, memory, IInv, Held
<1>1. Crash => InMemory(d)
    BY DEF Crash, NothingRuns, InMemory
<1>2. Boot => d \in Discarded
    BY DEF Boot, Claimable, TypeOK
<1>3. ASSUME NEW c \in Calls, RecoveryFails(c) PROVE Caller[d] = c /\ d \in steered
    BY <1>3
       DEF RecoveryFails, Terminalize, Enqueue, Unanswered, ResultsAtEnd, TypeOK
<1> QED
    BY <1>1, <1>2, <1>3

(* enqueueSubagentResult, the drain of turnRunner.ts and the fold of          *)
(* settleInterruptedChild: an ended call's outcome is always somewhere its   *)
(* caller will meet it, save for the three losses that OutcomesHeld names.   *)
THEOREM OutcomesAreHeld == Spec => OutcomesHeld
<1>1. ASSUME IInv, [Next]_vars,
             NEW d \in Calls, lifecycle[d] # "none", Held(d), ~Held(d)'
      PROVE  \/ Crash /\ InMemory(d)
             \/ Boot /\ d \in Discarded
             \/ Caller[d] # Root /\ RecoveryFails(Caller[d]) /\ d \in steered
    <2>1. CASE UNCHANGED vars
        BY <1>1, <2>1 DEF vars, rows, memory, Held
    <2>2. CASE StartTurn \/ \E s \in Sessions : TurnEnds(s)
        BY <1>1, <2>2, HeldInTurns
    <2>3. CASE Crash \/ Boot
        BY <1>1, <2>3, LostSomewhere
    <2>4. ASSUME NEW c \in Calls, Delegate(c) \/ Progress(c) PROVE FALSE
        BY <1>1, <2>4, HeldInCalls
    <2>5. ASSUME NEW c \in Calls, Recovery(c) PROVE FALSE
        BY <1>1, <2>5, HeldInRecovery
    <2>6. ASSUME NEW c \in Calls, RecoveryFails(c)
          PROVE  Caller[d] # Root /\ RecoveryFails(Caller[d]) /\ d \in steered
        BY <1>1, <2>6, LostSomewhere, DelegationConstants
    <2>7. ASSUME NEW c \in Calls, Steer(c) \/ Deliver(c) \/ Acknowledge(c) PROVE FALSE
        BY <1>1, <2>7, HeldInTurns
    <2> QED
        BY <1>1, <2>1, <2>2, <2>3, <2>4, <2>5, <2>6, <2>7 DEF Next
<1>2. IInv /\ [Next]_vars =>
        [\A c \in Calls :
            lifecycle[c] # "none" /\ Held(c) /\ ~Held(c)' =>
                \/ Crash /\ InMemory(c)
                \/ Boot /\ c \in Discarded
                \/ Caller[c] # Root /\ RecoveryFails(Caller[c]) /\ c \in steered]_vars
    BY <1>1
<1> QED
    BY <1>2, DelegationInvariant, PTL DEF Spec, OutcomesHeld
=============================================================================
