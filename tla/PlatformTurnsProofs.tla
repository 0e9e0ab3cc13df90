------------------------- MODULE PlatformTurnsProofs -------------------------
(* What holds of a room for any number of messages and restarts and any caps. *)
EXTENDS PlatformTurns, TLAPS

-----------------------------------------------------------------------------
(* Sequences                                                                 *)

(* What a job at the end of the queue, or its head leaving it, changes.      *)
LEMMA Appended ==
    ASSUME NEW S, NEW q \in Seq(S), NEW x \in S
    PROVE  /\ Append(q, x) \in Seq(S)
           /\ DOMAIN Append(q, x) = DOMAIN q \cup {Len(q) + 1}
           /\ DOMAIN q = 1 .. Len(q) /\ Len(q) \in Nat
           /\ Append(q, x)[Len(q) + 1] = x
           /\ \A i \in DOMAIN q : Append(q, x)[i] = q[i]
OBVIOUS

LEMMA Shifted ==
    ASSUME NEW S, NEW q \in Seq(S), q # << >>
    PROVE  /\ 1 \in DOMAIN q /\ Head(q) \in S /\ Head(q) = q[1]
           /\ Tail(q) \in Seq(S)
           /\ \A i \in DOMAIN Tail(q) :
                 i \in Nat /\ i + 1 \in DOMAIN q /\ i + 1 # 1 /\ Tail(q)[i] = q[i + 1]
OBVIOUS

-----------------------------------------------------------------------------
(* The inductive invariant                                                   *)

Locked(k) == lock # NoOne /\ lock.kind = k
Queued(k) == \E i \in DOMAIN queue : queue[i].kind = k
Waits(j) == \E i \in DOMAIN queue : queue[i] = j
Single(k) ==
    \A i, j \in DOMAIN queue : queue[i].kind = k /\ queue[j].kind = k => i = j
Continuations == { "silent", "result" }

(* A process that is down holds nothing.                                     *)
Down ==
    proc = "down" =>
        /\ lock = NoOne /\ queue = << >> /\ ~streaming /\ ~unparkable
        /\ sweep = NoOne /\ ~telling /\ ~recovering
        /\ \A m \in Messages : posts[m] = 0

(* Only a turn under the lock streams, and what the store holds of a turn    *)
(* that streams is its own message, or nothing any more.                     *)
Held == streaming => lock # NoOne /\ envelope \in {lock.of, NoOne}

(* A row counts each post before it is made.                                 *)
PostsCounted ==
    /\ sent <= MaxDelivery
    /\ delivery # NoOne => sent <= delivery.attempts

(* A marker counts each resume turn before it runs; the sweep may have read  *)
(* the count before the one turn its rival, the result, was given.           *)
TurnsCounted ==
    /\ spent <= MaxResume + 1
    /\ marker => spent <= attempts
    /\ marker /\ sweep # NoOne =>
          spent <= sweep.attempts + (IF recovering THEN 0 ELSE 1)

(* One boot sends at most one continuation of either kind.                   *)
OneOfEach ==
    /\ sweep # NoOne => ~Locked("silent") /\ ~Queued("silent")
    /\ recovering => ~Locked("result") /\ ~Queued("result")
    /\ \A k \in Continuations :
          /\ Locked(k) => ~Queued(k)
          /\ Single(k)

(* The continuations of a boot are all of one turn: the one whose envelope   *)
(* is stored, whose answer waits, and which a message in between ends.       *)
Continues(j) == j.kind \in Continuations /\ ((lock # NoOne /\ j = lock) \/ Waits(j))
OneTurn ==
    \A j \in Jobs : Continues(j) =>
        /\ (streaming /\ Locked("message")) \/ envelope \in {j.of, NoOne}
        /\ delivery # NoOne => delivery.of = j.of
        /\ \A h \in Jobs : Continues(h) => h.of = j.of

(* The room's own words stand a parked turn down.                            *)
WordsWin == proc = "up" /\ marker => ~Locked("message") /\ ~Queued("message")

(* A message that waits to overwrite the envelope overwrites nothing the     *)
(* room is owed.                                                             *)
Overwritten ==
    (Queued("message") \/ (Locked("message") /\ ~streaming))
        /\ ~(streaming /\ Locked("message"))
    => \/ envelope \notin owed \ (wiped \cup silent)
       \/ delivery # NoOne /\ delivery.of = envelope

(* The posts on their way are of one answer.  It is the one the row holds,   *)
(* or nothing is left in this boot that could put another one there.         *)
SilentOver == sweep = NoOne /\ ~Locked("silent") /\ ~Queued("silent")
ResultOver == ~recovering /\ ~Locked("result") /\ ~Queued("result")
PostsOfOne ==
    \A m \in Messages : posts[m] > 0 =>
        /\ SilentOver \/ ResultOver
        /\ posts[m] > 1 => SilentOver /\ ResultOver
        /\ \/ delivery # NoOne /\ delivery.of = m
           \/ delivery = NoOne /\ SilentOver /\ ResultOver
        /\ \A n \in Messages : posts[n] > 0 => n = m

IInv ==
    /\ TypeOK /\ Down /\ Held /\ PostsCounted /\ TurnsCounted /\ OneOfEach
    /\ OneTurn /\ WordsWin /\ Overwritten /\ PostsOfOne /\ NothingLost

-----------------------------------------------------------------------------
(* The queue                                                                 *)

(* What a job at the end of the queue changes.                               *)
LEMMA Enqueue ==
    ASSUME RoomOK, NEW j \in Jobs, queue' = Append(queue, j)
    PROVE  /\ queue' \in Seq(Jobs)
           /\ \A k : Queued(k)' <=> Queued(k) \/ k = j.kind
           /\ \A h : Waits(h)' <=> Waits(h) \/ h = j
           /\ \A k : Single(k) /\ (k = j.kind => ~Queued(k)) => Single(k)'
<1> DEFINE n == Len(queue) + 1
<1>1. /\ Append(queue, j) \in Seq(Jobs)
      /\ DOMAIN Append(queue, j) = DOMAIN queue \cup {n}
      /\ Append(queue, j)[n] = j
      /\ \A i \in DOMAIN queue : Append(queue, j)[i] = queue[i]
    BY Appended DEF RoomOK
<1> HIDE DEF n
<1> QED
    BY <1>1 DEF Queued, Waits, Single

(* What the head of the queue leaves behind.                                 *)
LEMMA Dequeue ==
    ASSUME RoomOK, queue # << >>, queue' = Tail(queue)
    PROVE  /\ queue' \in Seq(Jobs) /\ Head(queue) \in Jobs
           /\ Queued(Head(queue).kind) /\ Waits(Head(queue))
           /\ \A k : Queued(k)' => Queued(k)
           /\ \A h : Waits(h)' => Waits(h)
           /\ \A k : Single(k) => Single(k)' /\ (k = Head(queue).kind => ~Queued(k)')
<1>1. /\ 1 \in DOMAIN queue /\ Head(queue) \in Jobs /\ Head(queue) = queue[1]
      /\ Tail(queue) \in Seq(Jobs)
      /\ \A i \in DOMAIN Tail(queue) :
            /\ i \in Nat /\ i + 1 \in DOMAIN queue /\ i + 1 # 1
            /\ Tail(queue)[i] = queue[i + 1]
    BY Shifted DEF RoomOK
<1>2. \A k : Single(k) => Single(k)'
    BY <1>1 DEF Single
<1> QED
    BY <1>1, <1>2 DEF Queued, Waits, Single

-----------------------------------------------------------------------------
(* The outcomes of a resume, of the sweep's and of the result's              *)

Handled(kind) ==
    /\ Up
    /\ \/ kind = "silent" /\ sweep # NoOne /\ sweep' = NoOne /\ UNCHANGED << recovering, child >>
       \/ kind = "result" /\ recovering /\ recovering' = FALSE /\ child' = FALSE /\ UNCHANGED sweep
    /\ UNCHANGED << recorded, awaiting, tail, proc, lock, streaming, unparkable, telling,
                    reachable, linked, said >>

Delivers(kind) ==
    /\ Handled(kind) /\ delivery # NoOne /\ Deliver(delivery, sent)
    /\ UNCHANGED << marker, attempts, envelope, queue, spent, wiped >>

Refuses(kind) ==
    /\ Handled(kind) /\ delivery = NoOne /\ StandDown /\ GiveUp(envelope)
    /\ UNCHANGED << delivery, queue, posts, sent, spent, wiped >>

Charges(kind) ==
    /\ Handled(kind) /\ attempts' \in {attempts, Capped(attempts + 1)}
    /\ UNCHANGED << marker, envelope, delivery, queue, posts, owed, sent, spent, wiped,
                    silent >>

GivesWay(kind) ==
    /\ Handled(kind) /\ delivery = NoOne /\ marker /\ streaming
    /\ StandDown /\ wiped' = wiped \cup {envelope}
    /\ UNCHANGED << delivery, queue, posts, owed, sent, spent, silent >>

Sends(kind) ==
    /\ Handled(kind) /\ delivery = NoOne /\ marker /\ ~streaming /\ proc = "up"
    /\ envelope \in Parkable
    /\ (IF kind = "silent" THEN sweep.attempts ELSE attempts) < MaxResume
    /\ attempts' = Capped(attempts + 1)
    /\ queue' = Append(queue, [of |-> envelope, kind |-> kind])
    /\ spent' = Capped(spent) + 1
    /\ UNCHANGED << marker, envelope, delivery, posts, owed, sent, wiped, silent >>

Outcome(kind) ==
    Delivers(kind) \/ Refuses(kind) \/ Charges(kind) \/ GivesWay(kind) \/ Sends(kind)

LEMMA SweepOutcome == ASSUME TypeOK, SweepRoom PROVE Outcome("silent")
<1> USE PlatformConstants DEF SweepRoom, Outcome, Handled, TypeOK, SwitchesOK
<1>1. CASE sweep.awaits
    BY <1>1 DEF Charges
<1>2. CASE ~sweep.awaits /\ delivery # NoOne
    BY <1>2 DEF Resume, Delivers
<1>3. CASE /\ ~sweep.awaits /\ delivery = NoOne
           /\ envelope \notin Parkable \/ ~reachable \/ sweep.attempts >= MaxResume \/ ~linked
    BY <1>3 DEF Resume, Refuses, StandDown
<1>4. CASE /\ ~sweep.awaits /\ delivery = NoOne
           /\ ~(envelope \notin Parkable \/ ~reachable \/ sweep.attempts >= MaxResume \/ ~linked)
    BY <1>4 DEF Resume, SendContinuation, Charges, GivesWay, Sends, StandDown, ClaimsOK, Claims, Up
<1> QED
    BY <1>1, <1>2, <1>3, <1>4

LEMMA ResultOutcome == ASSUME TypeOK, ResultArrives PROVE Outcome("result")
<1> USE PlatformConstants DEF ResultArrives, Outcome, Handled, TypeOK, SwitchesOK
<1>1. CASE ~marker
    BY <1>1 DEF Charges
<1>2. CASE marker /\ delivery # NoOne
    BY <1>2 DEF Resume, Delivers
<1>3. CASE /\ marker /\ delivery = NoOne
           /\ envelope \notin Parkable \/ ~reachable \/ attempts >= MaxResume \/ ~linked
    BY <1>3 DEF Resume, Refuses, StandDown
<1>4. CASE /\ marker /\ delivery = NoOne
           /\ ~(envelope \notin Parkable \/ ~reachable \/ attempts >= MaxResume \/ ~linked)
  <2>1. SendContinuation("result") /\ UNCHANGED << delivery, posts, sent, owed, silent >>
      BY <1>4 DEF Resume
  <2>2. CASE proc = "pausing"
      BY <1>4, <2>1, <2>2 DEF SendContinuation, Charges
  <2>3. CASE proc # "pausing" /\ streaming
      BY <1>4, <2>1, <2>3 DEF SendContinuation, GivesWay
  <2>4. CASE proc # "pausing" /\ ~streaming
    <3>1. proc = "up" /\ attempts < MaxResume
        BY <1>4, <2>4 DEF Up, TurnOK
    <3> QED
        BY <1>4, <2>1, <2>4, <3>1 DEF SendContinuation, Sends
  <2> QED
      BY <2>2, <2>3, <2>4
<1> QED
    BY <1>1, <1>2, <1>3, <1>4

(* A row that is delivered keeps its message and counts the attempt, or goes. *)
LEMMA Delivering ==
    ASSUME TypeOK, NEW d \in Answers, NEW n, Deliver(d, n)
    PROVE  /\ \/ delivery' = NoOne /\ UNCHANGED posts /\ GiveUp(d.of)
              \/ /\ delivery' \in Answers /\ delivery' # NoOne /\ UNCHANGED << owed, silent >>
                 /\ delivery'.of = d.of /\ delivery'.attempts = d.attempts + 1
           /\ posts' \in [Messages -> Nat]
           /\ posts' = posts \/ posts' = [posts EXCEPT ![d.of] = @ + 1]
<1> USE PlatformConstants
<1>1. d.of \in Messages /\ d.attempts \in 0 .. MaxDelivery
    BY DEF Answers
<1>2. posts' \in [Messages -> Nat] /\ (posts' = posts \/ posts' = [posts EXCEPT ![d.of] = @ + 1])
    BY <1>1 DEF Deliver, TypeOK, ClaimsOK
<1>3. CASE d.attempts >= MaxDelivery \/ ~linked
    BY <1>2, <1>3 DEF Deliver
<1>4. CASE ~(d.attempts >= MaxDelivery \/ ~linked)
  <2> DEFINE e == [of |-> d.of, attempts |-> d.attempts + 1]
  <2>1. delivery' = e /\ UNCHANGED << owed, silent >>
      BY <1>4 DEF Deliver, Answers
  <2>2. e \in Answers /\ e.of = d.of /\ e.attempts = d.attempts + 1
      BY <1>1, <1>4 DEF Answers
  <2> HIDE DEF e
  <2>3. e # NoOne
      BY <2>2
  <2> QED
      BY <1>2, <2>1, <2>2, <2>3
<1> QED
    BY <1>3, <1>4

-----------------------------------------------------------------------------
(* The steps                                                                 *)

LEMMA SpeakStep == ASSUME IInv, NEW m \in Messages, Speak(m) PROVE IInv'
<1> USE PlatformConstants DEF Continuations, Locked, GiveUp, IInv
<1>a. /\ queue' \in Seq(Jobs)
      /\ \A k \in Continuations : (Queued(k)' <=> Queued(k)) /\ (Single(k) => Single(k)')
      /\ \A h : h.kind \in Continuations => (Waits(h)' <=> Waits(h))
  <2> DEFINE j == [of |-> m, kind |-> "message"]
  <2>1. CASE queue' = Append(queue, j)
    <3>1. j \in Jobs /\ j.kind = "message"
        BY DEF Jobs, Kinds
    <3> HIDE DEF j
    <3> QED
        BY <2>1, <3>1, Enqueue DEF TypeOK
  <2>2. CASE queue' = queue
      BY <2>2 DEF Queued, Waits, Single, TypeOK, RoomOK
  <2> QED
      BY <2>1, <2>2 DEF Speak
<1>1. SwitchesOK'
    BY DEF Speak, claims, SwitchesOK, TypeOK
<1>2. TurnOK' /\ ClaimsOK'
    BY DEF Speak, TurnOK, TypeOK, claims, ClaimsOK
<1>3. RoomOK'
    BY <1>a DEF Speak, RoomOK, TypeOK
<1>4. Down' /\ Held'
    BY DEF Speak, Down, Held
<1>5. PostsCounted' /\ TurnsCounted' /\ OneOfEach' /\ OneTurn' /\ WordsWin'
    BY <1>a DEF Speak, PostsCounted, TurnsCounted, claims, OneOfEach,
       OneTurn, Continues, WordsWin
<1>6. Overwritten' /\ PostsOfOne'
    BY <1>a DEF Speak, Overwritten, NothingLost, Evidence, claims,
       PostsOfOne, SilentOver, ResultOver
<1>7. NothingLost'
    BY <1>a DEF Speak, running, claims, NothingLost, Evidence, TypeOK,
       SwitchesOK, TurnOK, ClaimsOK, RoomOK, Kinds, Jobs, Answers, Claims,
       Down, Held, Overwritten, PostsOfOne, SilentOver, ResultOver, OneTurn,
       Continues, WordsWin
<1> QED
    BY <1>1, <1>2, <1>3, <1>4, <1>5, <1>6, <1>7 DEF TypeOK

LEMMA BeginStep == ASSUME IInv, Begin PROVE IInv'
<1> USE PlatformConstants DEF Continuations, Locked, GiveUp, IInv
<1>a. /\ queue' \in Seq(Jobs) /\ lock' \in Jobs
      /\ Queued(lock'.kind) /\ Waits(lock')
      /\ \A k : Queued(k)' => Queued(k)
      /\ \A h : Waits(h)' => Waits(h)
      /\ \A k : Single(k) => Single(k)' /\ (k = lock'.kind => ~Queued(k)')
    BY Dequeue DEF Begin, TypeOK
<1>1. SwitchesOK' /\ TurnOK' /\ ClaimsOK' /\ RoomOK'
    BY <1>a DEF Begin, durable, claims, SwitchesOK, TypeOK, history, TurnOK,
       ClaimsOK, RoomOK
<1>2. Down' /\ Held' /\ PostsCounted' /\ TurnsCounted' /\ OneOfEach'
    BY <1>a DEF Begin, Down, Held, durable, history, PostsCounted, claims,
       TurnsCounted, OneOfEach
<1>3. OneTurn' /\ WordsWin' /\ Overwritten'
    BY <1>a DEF Begin, durable, OneTurn, Continues, WordsWin, history,
       Overwritten
<1>4. PostsOfOne'
    BY <1>a DEF Begin, durable, claims, PostsOfOne, SilentOver, ResultOver
<1>5. NothingLost'
    BY <1>a DEF Begin, durable, claims, history, Up, NothingLost, Evidence,
       TypeOK, SwitchesOK, TurnOK, ClaimsOK, RoomOK, Kinds, Jobs, Answers,
       Claims, Down, Held, Overwritten, PostsOfOne, SilentOver, ResultOver,
       OneTurn, Continues, WordsWin
<1> QED
    BY <1>1, <1>2, <1>3, <1>4, <1>5 DEF TypeOK

LEMMA CaptureStep == ASSUME IInv, Capture PROVE IInv'
<1> USE PlatformConstants DEF Continuations, Locked, GiveUp, IInv
<1>1. SwitchesOK' /\ TurnOK' /\ RoomOK'
    BY DEF Capture, claims, SwitchesOK, TypeOK, history, TurnOK, RoomOK,
       Jobs, Held
<1>2. ClaimsOK' /\ Down' /\ PostsCounted' /\ TurnsCounted'
    BY DEF Capture, claims, ClaimsOK, TypeOK, Down, history, PostsCounted,
       TurnsCounted
<1>3. Held' /\ OneTurn'
    BY DEF Capture, Held, TypeOK, RoomOK, Kinds, Jobs, OneTurn, Continues,
       Waits
<1>4. OneOfEach' /\ WordsWin' /\ Overwritten'
    BY DEF Capture, claims, Queued, Single, OneOfEach, WordsWin, history,
       Overwritten
<1>5. PostsOfOne'
    BY DEF Capture, claims, Queued, PostsOfOne, SilentOver, ResultOver
<1>6. NothingLost'
    BY DEF Capture, claims, history, Up, Queued, Waits, Single, NothingLost,
       Evidence, TypeOK, SwitchesOK, TurnOK, ClaimsOK, RoomOK, Kinds, Jobs,
       Answers, Claims, Down, Held, Overwritten, PostsOfOne, SilentOver,
       ResultOver, OneTurn, Continues, WordsWin
<1> QED
    BY <1>1, <1>2, <1>3, <1>4, <1>5, <1>6 DEF TypeOK

LEMMA SpawnFailsStep == ASSUME IInv, SpawnFails PROVE IInv'
<1> USE PlatformConstants DEF Continuations, Locked, GiveUp, IInv
<1>1. SwitchesOK' /\ TurnOK' /\ ClaimsOK' /\ RoomOK'
    BY DEF SpawnFails, durable, claims, SwitchesOK, TypeOK, history, TurnOK,
       ClaimsOK, RoomOK
<1>2. Down' /\ Held' /\ PostsCounted' /\ TurnsCounted'
    BY DEF SpawnFails, Down, Held, durable, history, PostsCounted, claims,
       TurnsCounted
<1>3. OneOfEach' /\ OneTurn'
    BY DEF SpawnFails, claims, Queued, Single, OneOfEach, durable, Waits,
       OneTurn, Continues
<1>4. WordsWin' /\ Overwritten'
    BY DEF SpawnFails, durable, Queued, WordsWin, history, Overwritten
<1>5. PostsOfOne'
    BY DEF SpawnFails, durable, claims, Queued, PostsOfOne, SilentOver,
       ResultOver
<1>6. NothingLost'
    BY DEF SpawnFails, durable, claims, history, Up, Queued, Waits, Single,
       NothingLost, Evidence, TypeOK, SwitchesOK, TurnOK, ClaimsOK, RoomOK,
       Kinds, Jobs, Answers, Claims, Down, Held, Overwritten, PostsOfOne,
       SilentOver, ResultOver, OneTurn, Continues, WordsWin
<1> QED
    BY <1>1, <1>2, <1>3, <1>4, <1>5, <1>6 DEF TypeOK

LEMMA MessageSettlesStep == ASSUME IInv, MessageSettles PROVE IInv'
<1> USE PlatformConstants DEF Continuations, Locked, GiveUp, IInv
<1>1. SwitchesOK'
    BY DEF MessageSettles, claims, SwitchesOK, TypeOK
<1>2. TurnOK'
    BY DEF MessageSettles, TurnOK, TypeOK, RoomOK, Jobs, Held
<1>3. ClaimsOK'
    BY DEF MessageSettles, claims, ClaimsOK, TypeOK
<1>4. RoomOK' /\ Held'
    BY DEF MessageSettles, RoomOK, TypeOK, Held
<1>5. Down' /\ PostsCounted' /\ TurnsCounted' /\ OneOfEach' /\ WordsWin'
    BY DEF MessageSettles, Down, PostsCounted, claims, TurnsCounted, Queued,
       Single, OneOfEach, WordsWin
<1>6. OneTurn' /\ Overwritten'
    BY DEF MessageSettles, Waits, OneTurn, Continues, Overwritten, TypeOK,
       TurnOK
<1>7. PostsOfOne'
    BY DEF MessageSettles, claims, Queued, PostsOfOne, SilentOver,
       ResultOver
<1>8. NothingLost'
    BY DEF MessageSettles, claims, Up, Queued, Waits, Single, NothingLost,
       Evidence, TypeOK, SwitchesOK, TurnOK, ClaimsOK, RoomOK, Kinds, Jobs,
       Answers, Claims, Down, Held, Overwritten, PostsOfOne, SilentOver,
       ResultOver, OneTurn, Continues, WordsWin
<1> QED
    BY <1>1, <1>2, <1>3, <1>4, <1>5, <1>6, <1>7, <1>8 DEF TypeOK

LEMMA PostConfirmedStep ==
    ASSUME IInv, NEW m \in Messages, PostConfirmed(m) PROVE IInv'
<1> USE PlatformConstants DEF Continuations, Locked, GiveUp, IInv
<1>1. SwitchesOK' /\ TurnOK' /\ ClaimsOK' /\ RoomOK' /\ Down'
    BY DEF PostConfirmed, running, claims, SwitchesOK, TypeOK, TurnOK,
       ClaimsOK, RoomOK, Down
<1>2. Held' /\ PostsCounted' /\ TurnsCounted' /\ OneOfEach'
    BY DEF PostConfirmed, running, Held, PostsCounted, claims, TurnsCounted,
       Queued, Single, OneOfEach
<1>3. OneTurn' /\ WordsWin' /\ Overwritten'
    BY DEF PostConfirmed, running, Waits, OneTurn, Continues, Queued,
       WordsWin, Overwritten, PostsOfOne
<1>4. PostsOfOne'
    BY DEF PostConfirmed, running, claims, Queued, PostsOfOne, SilentOver,
       ResultOver, TypeOK, ClaimsOK
<1>5. NothingLost'
    BY DEF PostConfirmed, running, claims, Up, Queued, Waits, Single,
       NothingLost, Evidence, TypeOK, SwitchesOK, TurnOK, ClaimsOK, RoomOK,
       Kinds, Jobs, Answers, Claims, Down, Held, Overwritten, PostsOfOne,
       SilentOver, ResultOver, OneTurn, Continues, WordsWin
<1> QED
    BY <1>1, <1>2, <1>3, <1>4, <1>5 DEF TypeOK

LEMMA PostFailsStep ==
    ASSUME IInv, NEW m \in Messages, PostFails(m) PROVE IInv'
<1> USE PlatformConstants DEF Continuations, Locked, GiveUp, IInv
<1>1. SwitchesOK' /\ TurnOK' /\ ClaimsOK' /\ RoomOK'
    BY DEF PostFails, durable, running, claims, SwitchesOK, TypeOK, TurnOK,
       ClaimsOK, RoomOK
<1>2. Down' /\ Held' /\ PostsCounted' /\ TurnsCounted'
    BY DEF PostFails, Down, durable, running, Held, PostsCounted, claims,
       TurnsCounted
<1>3. OneOfEach' /\ WordsWin' /\ Overwritten'
    BY DEF PostFails, running, claims, Queued, Single, OneOfEach, durable,
       WordsWin, Overwritten
<1>4. OneTurn'
    BY DEF PostFails, durable, running, Waits, OneTurn, Continues
<1>5. PostsOfOne'
    BY DEF PostFails, durable, running, claims, Queued, PostsOfOne,
       SilentOver, ResultOver, TypeOK, ClaimsOK
<1>6. NothingLost'
    BY DEF PostFails, durable, running, claims, Up, Queued, Waits, Single,
       NothingLost, Evidence, TypeOK, SwitchesOK, TurnOK, ClaimsOK, RoomOK,
       Kinds, Jobs, Answers, Claims, Down, Held, Overwritten, PostsOfOne,
       SilentOver, ResultOver, OneTurn, Continues, WordsWin
<1> QED
    BY <1>1, <1>2, <1>3, <1>4, <1>5, <1>6 DEF TypeOK

LEMMA DeliversStep ==
    ASSUME IInv, NEW kind \in Continuations, Delivers(kind) PROVE IInv'
<1> USE PlatformConstants DEF Continuations, Locked, GiveUp, IInv
<1>a. delivery \in Answers
    BY DEF Delivers, TypeOK, ClaimsOK
<1>b. /\ \/ delivery' = NoOne /\ UNCHANGED posts /\ GiveUp(delivery.of)
         \/ /\ delivery' \in Answers /\ delivery' # NoOne /\ UNCHANGED << owed, silent >>
            /\ delivery'.of = delivery.of /\ delivery'.attempts = delivery.attempts + 1
      /\ posts' \in [Messages -> Nat]
      /\ posts' = posts \/ posts' = [posts EXCEPT ![delivery.of] = @ + 1]
    BY <1>a, Delivering DEF Delivers
<1>1. SwitchesOK'
    BY DEF Delivers, Handled, SwitchesOK, TypeOK
<1>2. TurnOK'
  <2>1. sent' \in 0 .. MaxDelivery + 1
      BY DEF Delivers, Deliver, Count, TypeOK, TurnOK
  <2> QED
      BY <2>1 DEF Delivers, Handled, Deliver, TypeOK, TurnOK
<1>3. ClaimsOK' /\ RoomOK' /\ Down' /\ Held'
    BY <1>a, <1>b DEF Delivers, Handled, ClaimsOK, TypeOK, RoomOK, Down,
       Held
<1>4. PostsCounted'
    BY DEF Delivers, Deliver, Count, PostsCounted, TypeOK, TurnOK, ClaimsOK,
       Answers, Down
<1>5. TurnsCounted'
    BY DEF Delivers, Handled, TurnsCounted, TypeOK, TurnOK, ClaimsOK, Claims
<1>6. OneOfEach' /\ WordsWin'
    BY <1>a DEF Delivers, Handled, Queued, Single, OneOfEach, WordsWin
<1>7. OneTurn'
    BY <1>a DEF Delivers, Handled, Deliver, Waits, OneTurn, Continues,
       RoomOK, Kinds, Jobs, Answers, Claims, Down, Held, OneOfEach,
       PostsOfOne, SilentOver, ResultOver
<1>8. Overwritten'
    BY <1>a, <1>b DEF Delivers, Handled, Up, Queued, Waits, Single,
       Overwritten, TypeOK, SwitchesOK, TurnOK, ClaimsOK, RoomOK, Kinds,
       Jobs, Answers, Claims, Down, Held, WordsWin, NothingLost, Evidence,
       PostsOfOne, SilentOver, ResultOver, OneTurn, Continues
<1>9. PostsOfOne'
  <2>1. /\ SilentOver => SilentOver' /\ kind = "result"
        /\ ResultOver => ResultOver' /\ kind = "silent"
        /\ IF kind = "silent" THEN SilentOver' ELSE ResultOver'
      BY DEF Delivers, Handled, Up, OneOfEach, SilentOver, ResultOver, Queued
  <2>2. SilentOver' \/ ResultOver'
      BY <2>1
  <2>3. \A m \in Messages : posts[m] > 0 => SilentOver' /\ ResultOver' /\ m = delivery.of
      BY <2>1 DEF PostsOfOne, Delivers
  <2>4. delivery.of \in Messages /\ posts \in [Messages -> Nat]
      BY <1>a DEF TypeOK, ClaimsOK, Answers
  <2>5. CASE posts' = posts
    <3>1. \A m \in Messages : posts'[m] > 0 => SilentOver' /\ ResultOver' /\ m = delivery.of
        BY <2>3, <2>5
    <3> QED
        BY <1>b, <3>1 DEF PostsOfOne
  <2>6. CASE posts' = [posts EXCEPT ![delivery.of] = @ + 1] /\ posts' # posts
    <3>1. delivery' # NoOne /\ delivery'.of = delivery.of
        BY <1>b, <2>6
    <3>2. \A m \in Messages : posts'[m] > 0 => m = delivery.of
        BY <2>3, <2>4, <2>6
    <3>3. \A m \in Messages : posts'[m] > 1 => posts[m] > 0
        BY <2>3, <2>4, <2>6, <3>2
    <3> QED
        BY <2>2, <2>3, <3>1, <3>2, <3>3 DEF PostsOfOne
  <2> QED
      BY <1>b, <2>5, <2>6
<1>10. NothingLost'
    BY <1>b DEF Delivers, Handled, NothingLost, Evidence
<1> QED
    BY <1>1, <1>2, <1>3, <1>4, <1>5, <1>6, <1>7, <1>8, <1>9, <1>10 DEF
       TypeOK

LEMMA RefusesStep ==
    ASSUME IInv, NEW kind \in Continuations, Refuses(kind) PROVE IInv'
<1> USE PlatformConstants DEF Continuations, Locked, GiveUp, IInv
<1>1. SwitchesOK'
    BY DEF Refuses, Handled, StandDown, SwitchesOK, TypeOK
<1>2. TurnOK'
    BY DEF Refuses, Handled, StandDown, TurnOK, TypeOK
<1>3. ClaimsOK'
    BY DEF Refuses, Handled, ClaimsOK, TypeOK
<1>4. RoomOK' /\ Down'
    BY DEF Refuses, Handled, RoomOK, TypeOK, Down
<1>5. Held' /\ PostsCounted' /\ TurnsCounted' /\ OneOfEach'
    BY DEF Refuses, Handled, StandDown, Held, PostsCounted, TurnsCounted,
       Queued, Single, OneOfEach
<1>6. OneTurn' /\ WordsWin'
    BY DEF Refuses, Handled, StandDown, Waits, OneTurn, Continues, WordsWin
<1>7. Overwritten' /\ PostsOfOne'
    BY DEF Refuses, StandDown, Overwritten, TypeOK, TurnOK, Handled,
       PostsOfOne, SilentOver, ResultOver
<1>8. NothingLost'
    BY DEF Refuses, Handled, StandDown, Up, Queued, Waits, Single,
       NothingLost, Evidence, TypeOK, SwitchesOK, TurnOK, ClaimsOK, RoomOK,
       Kinds, Jobs, Answers, Claims, Down, Held, Overwritten, PostsOfOne,
       SilentOver, ResultOver, OneTurn, Continues, WordsWin
<1> QED
    BY <1>1, <1>2, <1>3, <1>4, <1>5, <1>6, <1>7, <1>8 DEF TypeOK

LEMMA ChargesStep ==
    ASSUME IInv, NEW kind \in Continuations, Charges(kind) PROVE IInv'
<1> USE PlatformConstants DEF Continuations, Locked, GiveUp, IInv
<1>1. SwitchesOK'
    BY DEF Charges, Handled, SwitchesOK, TypeOK
<1>2. TurnOK'
    BY DEF Charges, Handled, Capped, TurnOK, TypeOK
<1>3. ClaimsOK'
    BY DEF Charges, Handled, ClaimsOK, TypeOK
<1>4. RoomOK' /\ Down'
    BY DEF Charges, Handled, RoomOK, TypeOK, Down
<1>5. Held' /\ PostsCounted' /\ OneOfEach' /\ WordsWin' /\ Overwritten'
    BY DEF Charges, Handled, Held, PostsCounted, Queued, Single, OneOfEach,
       WordsWin, Overwritten
<1>6. TurnsCounted'
    BY DEF Charges, Handled, Capped, TurnsCounted, TypeOK, TurnOK, ClaimsOK,
       Claims
<1>7. OneTurn' /\ PostsOfOne'
    BY DEF Charges, Handled, Waits, OneTurn, Continues, Queued, PostsOfOne,
       SilentOver, ResultOver
<1>8. NothingLost'
    BY DEF Charges, Handled, Capped, Up, Queued, Waits, Single, NothingLost,
       Evidence, TypeOK, SwitchesOK, TurnOK, ClaimsOK, RoomOK, Kinds, Jobs,
       Answers, Claims, Down, Held, Overwritten, PostsOfOne, SilentOver,
       ResultOver, OneTurn, Continues, WordsWin
<1> QED
    BY <1>1, <1>2, <1>3, <1>4, <1>5, <1>6, <1>7, <1>8 DEF TypeOK

LEMMA GivesWayStep ==
    ASSUME IInv, NEW kind \in Continuations, GivesWay(kind) PROVE IInv'
<1> USE PlatformConstants DEF Continuations, Locked, GiveUp, IInv
<1>1. SwitchesOK'
    BY DEF GivesWay, Handled, StandDown, SwitchesOK, TypeOK
<1>2. TurnOK'
    BY DEF GivesWay, Handled, StandDown, TurnOK, TypeOK
<1>3. ClaimsOK'
    BY DEF GivesWay, Handled, ClaimsOK, TypeOK
<1>4. RoomOK' /\ Down'
    BY DEF GivesWay, Handled, RoomOK, TypeOK, Down
<1>5. Held' /\ PostsCounted' /\ TurnsCounted' /\ OneOfEach'
    BY DEF GivesWay, Handled, StandDown, Held, PostsCounted, TurnsCounted,
       Queued, Single, OneOfEach
<1>6. OneTurn' /\ WordsWin'
    BY DEF GivesWay, Handled, StandDown, Waits, OneTurn, Continues, WordsWin
<1>7. Overwritten' /\ PostsOfOne'
    BY DEF GivesWay, StandDown, Overwritten, TypeOK, TurnOK, Handled,
       PostsOfOne, SilentOver, ResultOver
<1>8. NothingLost'
    BY DEF GivesWay, Handled, StandDown, Up, Queued, Waits, Single,
       NothingLost, Evidence, TypeOK, SwitchesOK, TurnOK, ClaimsOK, RoomOK,
       Kinds, Jobs, Answers, Claims, Down, Held, Overwritten, PostsOfOne,
       SilentOver, ResultOver, OneTurn, Continues, WordsWin
<1> QED
    BY <1>1, <1>2, <1>3, <1>4, <1>5, <1>6, <1>7, <1>8 DEF TypeOK

LEMMA SendsStep ==
    ASSUME IInv, NEW kind \in Continuations, Sends(kind) PROVE IInv'
<1> USE PlatformConstants DEF Continuations, Locked, GiveUp, IInv
<1> DEFINE j == [of |-> envelope, kind |-> kind]
<1>j. j \in Jobs /\ j.of = envelope /\ j.kind = kind /\ queue' = Append(queue, j)
    BY DEF Sends, Jobs, Kinds
<1> HIDE DEF j
<1>a. /\ queue' \in Seq(Jobs)
      /\ \A k : Queued(k)' <=> Queued(k) \/ k = kind
      /\ \A h : Waits(h)' <=> Waits(h) \/ h = j
      /\ \A k : Single(k) /\ (k = kind => ~Queued(k)) => Single(k)'
    BY <1>j, Enqueue DEF TypeOK
<1>1. SwitchesOK'
    BY DEF Sends, Handled, Capped, Up, SwitchesOK, TypeOK, TurnOK, ClaimsOK,
       RoomOK, Kinds, Jobs, Answers, Claims
<1>2. TurnOK'
  <2>1. attempts \in 0 .. MaxResume + 1 /\ spent \in 0 .. MaxResume + 2
      BY DEF TypeOK, TurnOK
  <2>2. Capped(attempts + 1) \in 0 .. MaxResume + 1 /\ Capped(spent) + 1 \in 0 .. MaxResume + 2
      BY <2>1 DEF Capped
  <2> QED
      BY <2>2 DEF Sends, Handled, TypeOK, TurnOK
<1>3. ClaimsOK' /\ RoomOK' /\ Down' /\ Held' /\ PostsCounted' /\ OneOfEach'
    BY <1>a, <1>j DEF Sends, Handled, ClaimsOK, TypeOK, RoomOK, Down, Held,
       PostsCounted, OneOfEach
<1>4. TurnsCounted'
    BY DEF Sends, Handled, Capped, TurnsCounted, TypeOK, TurnOK, ClaimsOK,
       Claims
<1>5. OneTurn' /\ WordsWin' /\ Overwritten' /\ PostsOfOne'
    BY <1>a, <1>j DEF Sends, Handled, OneTurn, Continues, WordsWin,
       Overwritten, PostsOfOne, SilentOver, ResultOver
<1>6. NothingLost'
    BY <1>a, <1>j DEF Sends, Handled, Capped, Up, NothingLost, Evidence,
       TypeOK, SwitchesOK, TurnOK, ClaimsOK, RoomOK, Kinds, Jobs, Answers,
       Claims, Down, Held, Overwritten, PostsOfOne, SilentOver, ResultOver,
       OneTurn, Continues, WordsWin
<1> QED
    BY <1>1, <1>2, <1>3, <1>4, <1>5, <1>6 DEF TypeOK

LEMMA ResumeAnswersStep == ASSUME IInv, ResumeAnswers PROVE IInv'
<1> USE PlatformConstants DEF Continuations, Locked, GiveUp, IInv
<1> DEFINE d == [of |-> lock.of, attempts |-> 0]
<1>a. d \in Answers /\ d.of = lock.of
    BY DEF ResumeAnswers, TypeOK, RoomOK, Jobs, Answers
<1>b. /\ \/ delivery' = NoOne /\ UNCHANGED posts /\ GiveUp(lock.of)
         \/ /\ delivery' \in Answers /\ delivery' # NoOne
            /\ delivery'.of = lock.of /\ UNCHANGED << owed, silent >>
      /\ posts' \in [Messages -> Nat]
      /\ posts' = posts \/ posts' = [posts EXCEPT ![lock.of] = @ + 1]
    BY <1>a, Delivering DEF ResumeAnswers
<1> HIDE DEF d
<1>c. delivery' \in Answers \cup {NoOne} /\ posts' \in [Messages -> Nat]
    BY <1>b
<1>1. SwitchesOK' /\ ClaimsOK' /\ Down' /\ TurnsCounted' /\ WordsWin'
    BY <1>c DEF ResumeAnswers, StandDown, claims, SwitchesOK, TypeOK,
       ClaimsOK, Down, TurnsCounted, WordsWin
<1>2. TurnOK' /\ RoomOK' /\ Held'
  <2>1. lock.of \in Messages /\ sent' \in 0 .. MaxDelivery + 1
      BY <1>a DEF ResumeAnswers, Deliver, Count, TypeOK, RoomOK, Jobs, Answers
  <2>2. owed' \subseteq Messages /\ silent' \subseteq Messages
      BY <1>b, <2>1 DEF TypeOK, TurnOK
  <2> QED
      BY <2>1, <2>2 DEF ResumeAnswers, StandDown, TurnOK, TypeOK, RoomOK, Held
<1>3. PostsCounted' /\ OneOfEach'
    BY <1>a DEF ResumeAnswers, Deliver, Count, PostsCounted, claims, Queued,
       Single, OneOfEach
<1>4. OneTurn'
    BY <1>a DEF ResumeAnswers, StandDown, Deliver, Queued, Waits, Single,
       OneTurn, Continues, TypeOK, ClaimsOK, RoomOK, Kinds, Jobs, Answers,
       Claims, Down, Held, OneOfEach, PostsOfOne, SilentOver, ResultOver
<1>5. Overwritten'
    BY <1>a DEF ResumeAnswers, StandDown, Deliver, Overwritten, TypeOK,
       TurnOK
<1>6. PostsOfOne'
    BY <1>a, <1>b DEF ResumeAnswers, claims, Queued, PostsOfOne, SilentOver,
       ResultOver, TypeOK, SwitchesOK, ClaimsOK, RoomOK, Kinds, Jobs,
       Answers, Claims, Down, OneOfEach, OneTurn, Continues, Held
<1>7. NothingLost'
  <2>1. owed \ (wiped \cup silent) \subseteq {lock.of}
    <3>1. lock \in Jobs /\ Continues(lock) /\ ~Locked("message")
        BY DEF ResumeAnswers, TypeOK, RoomOK, Jobs, Kinds, Continues
    <3>2. envelope \in {lock.of, NoOne} /\ (delivery # NoOne => delivery.of = lock.of)
        BY <3>1 DEF OneTurn
    <3> QED
        BY <3>2 DEF NothingLost, Evidence, TypeOK, TurnOK
  <2> QED
      BY <1>b, <2>1 DEF ResumeAnswers, NothingLost, Evidence
<1> QED
    BY <1>1, <1>2, <1>3, <1>4, <1>5, <1>6, <1>7 DEF TypeOK

LEMMA ResumeFailsStep == ASSUME IInv, ResumeFails PROVE IInv'
<1> USE PlatformConstants DEF Continuations, Locked, GiveUp, IInv
<1>1. SwitchesOK'
    BY DEF ResumeFails, durable, claims, SwitchesOK, TypeOK
<1>2. TurnOK'
    BY DEF ResumeFails, durable, history, TurnOK, TypeOK
<1>3. ClaimsOK'
    BY DEF ResumeFails, durable, claims, ClaimsOK, TypeOK
<1>4. RoomOK'
    BY DEF ResumeFails, RoomOK, TypeOK
<1>5. Down' /\ Held' /\ PostsCounted' /\ TurnsCounted'
    BY DEF ResumeFails, Down, Held, durable, history, PostsCounted, claims,
       TurnsCounted
<1>6. OneOfEach' /\ OneTurn'
    BY DEF ResumeFails, claims, Queued, Single, OneOfEach, durable, Waits,
       OneTurn, Continues
<1>7. WordsWin' /\ Overwritten'
    BY DEF ResumeFails, durable, Queued, WordsWin, history, Overwritten
<1>8. PostsOfOne'
    BY DEF ResumeFails, durable, claims, Queued, PostsOfOne, SilentOver,
       ResultOver
<1>9. NothingLost'
    BY DEF ResumeFails, durable, claims, history, Up, Queued, Waits, Single,
       NothingLost, Evidence, TypeOK, SwitchesOK, TurnOK, ClaimsOK, RoomOK,
       Kinds, Jobs, Answers, Claims, Down, Held, Overwritten, PostsOfOne,
       SilentOver, ResultOver, OneTurn, Continues, WordsWin
<1> QED
    BY <1>1, <1>2, <1>3, <1>4, <1>5, <1>6, <1>7, <1>8, <1>9 DEF TypeOK

LEMMA PauseStep == ASSUME IInv, Pause PROVE IInv'
<1> USE PlatformConstants DEF Continuations, Locked, GiveUp, IInv
<1>1. SwitchesOK'
    BY DEF Pause, Busy, Overtaken, running, claims, Queued, Waits, Single,
       SwitchesOK, TypeOK, TurnOK, ClaimsOK, RoomOK, Kinds, Jobs, Answers,
       Claims
<1>2. TurnOK'
    BY DEF Pause, TurnOK, TypeOK, Claims, Held
<1>3. Held'
    BY DEF Pause, running, Held
<1>4. ClaimsOK' /\ RoomOK' /\ Down' /\ PostsCounted' /\ WordsWin'
    BY DEF Pause, claims, ClaimsOK, TypeOK, running, RoomOK, Down,
       PostsCounted, WordsWin
<1>5. TurnsCounted'
    BY DEF Pause, claims, TurnsCounted, TypeOK, TurnOK, ClaimsOK, Claims
<1>6. OneOfEach' /\ OneTurn'
    BY DEF Pause, running, claims, Queued, Single, OneOfEach, Waits,
       OneTurn, Continues
<1>7. Overwritten'
    BY DEF Pause, Overtaken, running, Queued, Overwritten, Held
<1>8. PostsOfOne'
    BY DEF Pause, running, claims, Queued, PostsOfOne, SilentOver,
       ResultOver
<1>9. NothingLost'
    BY DEF Pause, Busy, Overtaken, running, claims, Queued, Waits, Single,
       NothingLost, Evidence, TypeOK, SwitchesOK, TurnOK, ClaimsOK, RoomOK,
       Kinds, Jobs, Answers, Claims, Down, Held, Overwritten, PostsOfOne,
       SilentOver, ResultOver, OneTurn, Continues, WordsWin
<1> QED
    BY <1>1, <1>2, <1>3, <1>4, <1>5, <1>6, <1>7, <1>8, <1>9 DEF TypeOK

LEMMA RecordStep == ASSUME IInv, Record PROVE IInv'
<1> USE PlatformConstants DEF Continuations, Locked, GiveUp, IInv
<1>1. SwitchesOK'
    BY DEF Record, running, claims, SwitchesOK, TypeOK
<1>2. TurnOK'
    BY DEF Record, history, TurnOK, TypeOK
<1>3. ClaimsOK'
    BY DEF Record, claims, ClaimsOK, TypeOK
<1>4. RoomOK'
    BY DEF Record, running, RoomOK, TypeOK
<1>5. Down' /\ Held' /\ PostsCounted' /\ TurnsCounted' /\ WordsWin'
    BY DEF Record, Down, running, Held, history, PostsCounted, claims,
       TurnsCounted, WordsWin
<1>6. OneOfEach' /\ OneTurn'
    BY DEF Record, running, claims, Queued, Single, OneOfEach, Waits,
       OneTurn, Continues
<1>7. Overwritten' /\ PostsOfOne'
    BY DEF Record, running, history, Queued, Overwritten, claims,
       PostsOfOne, SilentOver, ResultOver
<1>8. NothingLost'
    BY DEF Record, Busy, running, claims, history, Queued, Waits, Single,
       NothingLost, Evidence, TypeOK, SwitchesOK, TurnOK, ClaimsOK, RoomOK,
       Kinds, Jobs, Answers, Claims, Down, Held, Overwritten, PostsOfOne,
       SilentOver, ResultOver, OneTurn, Continues, WordsWin
<1> QED
    BY <1>1, <1>2, <1>3, <1>4, <1>5, <1>6, <1>7, <1>8 DEF TypeOK

LEMMA ExitStep == ASSUME IInv, Exit PROVE IInv'
<1> USE PlatformConstants DEF Continuations, Locked, GiveUp, IInv
<1>1. SwitchesOK'
    BY DEF Exit, durable, SwitchesOK, TypeOK
<1>2. TurnOK'
    BY DEF Exit, durable, history, TurnOK, TypeOK
<1>3. ClaimsOK'
    BY DEF Exit, durable, ClaimsOK, TypeOK
<1>4. RoomOK' /\ Down'
    BY DEF Exit, RoomOK, Down
<1>5. Held' /\ PostsCounted' /\ TurnsCounted' /\ OneOfEach' /\ WordsWin'
    BY DEF Exit, Held, durable, history, PostsCounted, TurnsCounted, Single,
       OneOfEach, WordsWin
<1>6. OneTurn' /\ Overwritten' /\ PostsOfOne'
    BY DEF Exit, Waits, OneTurn, Continues, Queued, Overwritten, PostsOfOne
<1>7. NothingLost'
    BY DEF Exit, durable, history, Up, Queued, Waits, Single, NothingLost,
       Evidence, TypeOK, SwitchesOK, TurnOK, ClaimsOK, RoomOK, Kinds, Jobs,
       Answers, Claims, Down, Held, Overwritten, PostsOfOne, SilentOver,
       ResultOver, OneTurn, Continues, WordsWin
<1> QED
    BY <1>1, <1>2, <1>3, <1>4, <1>5, <1>6, <1>7 DEF TypeOK

LEMMA BootStep == ASSUME IInv, Boot PROVE IInv'
<1> USE PlatformConstants DEF Continuations, Locked, GiveUp, IInv
<1>1. SwitchesOK'
    BY DEF Boot, running, SwitchesOK, TypeOK
<1>2. TurnOK'
    BY DEF Boot, history, TurnOK, TypeOK
<1>3. ClaimsOK'
    BY DEF Boot, ClaimsOK, TypeOK, TurnOK, Claims
<1>4. RoomOK'
    BY DEF Boot, running, RoomOK, TypeOK
<1>5. Down' /\ Held' /\ PostsCounted' /\ TurnsCounted'
    BY DEF Boot, Down, running, Held, history, PostsCounted, TurnsCounted,
       TypeOK, TurnOK
<1>6. OneOfEach' /\ OneTurn'
    BY DEF Boot, running, Queued, Single, OneOfEach, Down, Waits, OneTurn,
       Continues
<1>7. WordsWin' /\ Overwritten' /\ PostsOfOne'
    BY DEF Boot, running, Queued, WordsWin, Down, history, Overwritten,
       PostsOfOne
<1>8. NothingLost'
    BY DEF Boot, running, history, Queued, Waits, Single, NothingLost,
       Evidence, TypeOK, SwitchesOK, TurnOK, ClaimsOK, RoomOK, Kinds, Jobs,
       Answers, Claims, Down, Held, Overwritten, PostsOfOne, SilentOver,
       ResultOver, OneTurn, Continues, WordsWin
<1> QED
    BY <1>1, <1>2, <1>3, <1>4, <1>5, <1>6, <1>7, <1>8 DEF TypeOK

LEMMA TellStep == ASSUME IInv, Tell PROVE IInv'
<1> USE PlatformConstants DEF Continuations, Locked, GiveUp, IInv
<1>1. SwitchesOK'
    BY DEF Tell, running, SwitchesOK, TypeOK
<1>2. TurnOK' /\ ClaimsOK'
    BY DEF Tell, TurnOK, TypeOK, ClaimsOK
<1>3. RoomOK'
    BY DEF Tell, running, RoomOK, TypeOK
<1>4. Down' /\ Held'
    BY DEF Tell, Down, running, Held
<1>5. PostsCounted' /\ TurnsCounted' /\ OneOfEach' /\ WordsWin'
    BY DEF Tell, PostsCounted, TurnsCounted, running, Queued, Single,
       OneOfEach, WordsWin
<1>6. OneTurn' /\ Overwritten'
    BY DEF Tell, running, Waits, OneTurn, Continues, Overwritten, TypeOK,
       TurnOK
<1>7. PostsOfOne'
    BY DEF Tell, running, Queued, PostsOfOne, SilentOver, ResultOver
<1>8. NothingLost'
    BY DEF Tell, running, Up, Queued, Waits, Single, NothingLost, Evidence,
       TypeOK, SwitchesOK, TurnOK, ClaimsOK, RoomOK, Kinds, Jobs, Answers,
       Claims, Down, Held, Overwritten, PostsOfOne, SilentOver, ResultOver,
       OneTurn, Continues, WordsWin
<1> QED
    BY <1>1, <1>2, <1>3, <1>4, <1>5, <1>6, <1>7, <1>8 DEF TypeOK

LEMMA UnlinkStep == ASSUME IInv, Unlink PROVE IInv'
<1> USE PlatformConstants DEF Continuations, Locked, GiveUp, IInv
<1>1. SwitchesOK'
    BY DEF Unlink, durable, running, claims, history, Queued, Waits, Single,
       SwitchesOK, TypeOK, TurnOK, ClaimsOK, RoomOK, Kinds, Jobs, Answers,
       Claims
<1>2. TurnOK'
    BY DEF Unlink, durable, history, TurnOK, TypeOK
<1>3. ClaimsOK'
    BY DEF Unlink, durable, claims, ClaimsOK, TypeOK
<1>4. RoomOK' /\ Down' /\ Held'
    BY DEF Unlink, running, RoomOK, TypeOK, claims, Down, durable, Held
<1>5. PostsCounted' /\ TurnsCounted' /\ Overwritten'
    BY DEF Unlink, durable, history, PostsCounted, claims, TurnsCounted,
       running, Queued, Overwritten
<1>6. OneOfEach' /\ WordsWin'
    BY DEF Unlink, running, claims, Queued, Single, OneOfEach, durable,
       WordsWin
<1>7. OneTurn'
    BY DEF Unlink, durable, running, Waits, OneTurn, Continues
<1>8. PostsOfOne'
    BY DEF Unlink, durable, running, claims, Queued, PostsOfOne, SilentOver,
       ResultOver
<1>9. NothingLost'
    BY DEF Unlink, durable, running, claims, history, Queued, Waits, Single,
       NothingLost, Evidence, TypeOK, SwitchesOK, TurnOK, ClaimsOK, RoomOK,
       Kinds, Jobs, Answers, Claims, Down, Held, Overwritten, PostsOfOne,
       SilentOver, ResultOver, OneTurn, Continues, WordsWin
<1> QED
    BY <1>1, <1>2, <1>3, <1>4, <1>5, <1>6, <1>7, <1>8, <1>9 DEF TypeOK

-----------------------------------------------------------------------------
(* The invariant                                                             *)

LEMMA SweepRoomStep == ASSUME IInv, SweepRoom PROVE IInv'
<1>1. "silent" \in Continuations /\ Outcome("silent")
    BY SweepOutcome DEF Continuations, IInv
<1> QED
    BY <1>1, DeliversStep, RefusesStep, ChargesStep, GivesWayStep, SendsStep DEF Outcome

LEMMA ResultArrivesStep == ASSUME IInv, ResultArrives PROVE IInv'
<1>1. "result" \in Continuations /\ Outcome("result")
    BY ResultOutcome DEF Continuations, IInv
<1> QED
    BY <1>1, DeliversStep, RefusesStep, ChargesStep, GivesWayStep, SendsStep DEF Outcome

LEMMA InitInvariant == ASSUME Init PROVE IInv
<1> USE PlatformConstants DEF Init
<1>1. SwitchesOK
    BY DEF SwitchesOK
<1>7. TurnOK
    BY DEF TurnOK
<1>2. ClaimsOK /\ RoomOK
    BY DEF ClaimsOK, RoomOK
<1>3. Down /\ Held /\ PostsCounted /\ TurnsCounted
    BY DEF Down, Held, PostsCounted, TurnsCounted
<1>4. OneOfEach /\ WordsWin /\ Overwritten
    BY DEF OneOfEach, WordsWin, Overwritten, Locked, Queued, Single
<1>5. OneTurn
    BY DEF OneTurn, Continues, Waits
<1>6. PostsOfOne /\ NothingLost
    BY DEF PostsOfOne, NothingLost
<1> QED
    BY <1>1, <1>2, <1>3, <1>4, <1>5, <1>6, <1>7 DEF IInv, TypeOK

LEMMA StutterStep == ASSUME IInv, UNCHANGED vars PROVE IInv'
<1> USE DEF IInv, vars, durable, running, claims, history
<1>1. TypeOK'
    BY DEF TypeOK, SwitchesOK, TurnOK, ClaimsOK, RoomOK
<1>2. Down' /\ Held' /\ PostsCounted' /\ TurnsCounted'
    BY DEF Down, Held, PostsCounted, TurnsCounted
<1>3. OneOfEach' /\ WordsWin' /\ Overwritten'
    BY DEF OneOfEach, WordsWin, Overwritten, Locked, Queued, Single
<1>4. OneTurn'
    BY DEF OneTurn, Continues, Waits, Locked
<1>5. PostsOfOne' /\ NothingLost'
    BY DEF PostsOfOne, SilentOver, ResultOver, Locked, Queued, NothingLost, Evidence
<1> QED
    BY <1>1, <1>2, <1>3, <1>4, <1>5

LEMMA NextStep == ASSUME IInv, Next PROVE IInv'
<1>1. CASE Turn
    BY <1>1, BeginStep, CaptureStep, SpawnFailsStep, MessageSettlesStep, ResumeAnswersStep,
       ResumeFailsStep DEF Turn
<1>2. CASE Post
    BY <1>2, PostConfirmedStep, PostFailsStep DEF Post
<1>3. CASE Pause \/ Record \/ Exit \/ Boot \/ Tell \/ Unlink
    BY <1>3, PauseStep, RecordStep, ExitStep, BootStep, TellStep, UnlinkStep
<1>4. CASE SweepRoom \/ ResultArrives
    BY <1>4, SweepRoomStep, ResultArrivesStep
<1> QED
    BY <1>1, <1>2, <1>3, <1>4, SpeakStep DEF Next

(* Every state of every behaviour of a room satisfies the invariant.         *)
THEOREM PlatformInvariant == Spec => []IInv
<1>1. Init => IInv
    BY InitInvariant
<1>2. IInv /\ [Next]_vars => IInv'
    BY NextStep, StutterStep
<1> QED
    BY <1>1, <1>2, PTL DEF Spec

(* Every variable of a room keeps its type, and the counters their range.    *)
THEOREM PlatformTypes == Spec => []TypeOK
<1>1. IInv => TypeOK
    BY DEF IInv
<1> QED
    BY <1>1, PlatformInvariant, PTL

(* However many messages, pauses, crashes and boots there are, a turn the    *)
(* pause parked stays a marker or a delivery row until the room heard of it  *)
(* (platformTurnRecovery.ts: the two durable states), unless it is given up  *)
(* and no notice is posted, or the boot item of another turn erases it.      *)
THEOREM ParkedTurnsAreKept == Spec => []NothingLost
<1>1. IInv => NothingLost
    BY DEF IInv
<1> QED
    BY <1>1, PlatformInvariant, PTL

(* For any caps, a row is posted at most MAX_PLATFORM_DELIVERY_ATTEMPTS      *)
(* times, and a park costs at most one model turn more than its cap.         *)
THEOREM RetriesAreCapped == Spec => []RetriesBounded
<1>1. IInv => RetriesBounded
    BY DEF IInv, PostsCounted, TurnsCounted, RetriesBounded
<1> QED
    BY <1>1, PlatformInvariant, PTL
=============================================================================
