---------------------------- MODULE PlatformTurns ----------------------------
(* One platform room (a Discord channel, a direct chat) across restarts of   *)
(* the daemon: the turns its messages run under the room's lock              *)
(* (channels.ts), the pause that parks the turn in flight (brainService.ts,  *)
(* turnPark.ts), the boot sweep that continues it, and the two durable       *)
(* states of platformTurnRecovery.ts: an envelope with a park marker is a    *)
(* turn that still needs the model, a delivery row is an answer that only    *)
(* needs a post.                                                             *)
(*                                                                           *)
(* A job is one call of ChannelSessionService.send: a message of the room,   *)
(* the silent continuation of a parked turn, or its continuation with the    *)
(* result of a recovered sub-agent.                                          *)
EXTENDS Naturals, Sequences, FiniteSets

CONSTANTS
    Messages,      \* what people write into the room
    Parkable,      \* messages whose envelope passes platformTurnParkEligible
    MaxResume,     \* MAX_PLATFORM_RESUME_ATTEMPTS
    MaxDelivery,   \* MAX_PLATFORM_DELIVERY_ATTEMPTS
    NoOne

Kinds == { "message", "silent", "result" }
Jobs == [of : Messages, kind : Kinds]
Answers == [of : Messages, attempts : 0 .. MaxDelivery]
Claims == [attempts : 0 .. MaxResume + 1, awaits : BOOLEAN]

ASSUME PlatformConstants ==
    /\ Parkable \subseteq Messages
    /\ MaxResume \in Nat \ {0} /\ MaxDelivery \in Nat \ {0}
    /\ NoOne \notin Messages \cup Jobs \cup Answers \cup Claims

VARIABLES
    (* in the database *)
    marker,        \* parked_at is set
    attempts,      \* park_attempts, counted up to MaxResume + 1
    envelope,      \* the message of the captured turn, or NoOne
    delivery,      \* [of, attempts], a computed answer nobody confirmed, or NoOne
    recorded,      \* a row of brain_pause_interruptions
    awaiting,      \* the transcript ends on delegation calls only
    child,         \* a sub-agent of the room owes its result
    tail,          \* the message whose settled answer ends the transcript
    (* in the process *)
    proc, lock, streaming, queue,
    unparkable,    \* the pause is waiting for a turn it could not park
    sweep,         \* the room's item of the platform-conversations provider
    telling,       \* the room's item of the interrupted-turns provider
    recovering,    \* this boot claimed the sub-agent
    posts,         \* posts of an answer that are on their way, per message
    reachable,     \* canDeliver
    (* outside *)
    linked,        \* the sender's account still resolves
    (* history *)
    said,          \* messages that were written
    owed,          \* parked turns the room has not heard about yet
    sent,          \* posts of the answer in the delivery row
    spent,         \* resume turns since the marker was set
    wiped,         \* turns whose envelope a boot item of another turn erased
    silent         \* turns given up without a word in the room

durable == << marker, attempts, envelope, delivery, recorded, awaiting, child, tail >>
running == << lock, streaming, queue >>
claims == << sweep, telling, recovering >>
history == << said, owed, sent, spent, wiped, silent >>
vars == << durable, proc, running, unparkable, claims, posts, reachable, linked, history >>

Up == proc # "down"
Busy == lock # NoOne \/ queue # << >>
Overtaken == lock.kind # "message" /\ \E i \in DOMAIN queue : queue[i].kind = "message"
Capped(n) == IF n > MaxResume THEN MaxResume + 1 ELSE n
Count(n) == IF n > MaxDelivery THEN MaxDelivery + 1 ELSE n

Init ==
    /\ marker = FALSE /\ attempts = 0 /\ envelope = NoOne /\ delivery = NoOne
    /\ recorded = FALSE /\ awaiting = FALSE /\ child = FALSE /\ tail = NoOne
    /\ proc = "up" /\ lock = NoOne /\ streaming = FALSE /\ queue = << >>
    /\ unparkable = FALSE /\ sweep = NoOne /\ telling = FALSE /\ recovering = FALSE
    /\ posts = [m \in Messages |-> 0] /\ reachable \in BOOLEAN /\ linked = TRUE
    /\ said = {} /\ owed = {}
    /\ sent = 0 /\ spent = 0 /\ wiped = {} /\ silent = {}

-----------------------------------------------------------------------------
(* Messages of the room *)

(* send() of a message: admission clears the marker before anything else,   *)
(* then the sender's own running turn takes the words or a turn of its own   *)
(* queues on the room's lock.                                                *)
Speak(m) ==
    /\ proc = "up" /\ m \in Messages \ said
    /\ said' = said \cup {m}
    /\ marker' = FALSE /\ attempts' = 0
    /\ owed' = IF marker THEN owed \ {envelope} ELSE owed
    /\ \/ queue' = Append(queue, [of |-> m, kind |-> "message"])
       \/ streaming /\ UNCHANGED queue
    /\ UNCHANGED << envelope, delivery, recorded, awaiting, child, tail, proc, lock,
                    streaming, unparkable, claims, posts, reachable, linked,
                    sent, spent, wiped, silent >>

Begin ==
    /\ Up /\ lock = NoOne /\ queue # << >>
    /\ lock' = Head(queue) /\ queue' = Tail(queue)
    /\ UNCHANGED << durable, proc, streaming, unparkable, claims, posts, reachable,
                    linked, history >>

(* The session is there: a message captures its envelope, and the prompt     *)
(* starts the model.                                                         *)
Capture ==
    /\ Up /\ lock # NoOne /\ ~streaming
    /\ lock.kind = "silent" => tail # lock.of
    /\ streaming' = TRUE /\ awaiting' = FALSE /\ tail' = NoOne
    /\ envelope' = IF lock.kind = "message" THEN lock.of ELSE envelope
    /\ UNCHANGED << marker, attempts, delivery, recorded, child, proc, lock, queue,
                    unparkable, claims, posts, reachable, linked, history >>

(* The spawn throws before the turn exists: the adapter reports the error.   *)
SpawnFails ==
    /\ Up /\ lock # NoOne /\ ~streaming
    /\ lock' = NoOne
    /\ UNCHANGED << durable, proc, streaming, queue, unparkable, claims, posts,
                    reachable, linked, history >>

(* The turn of a message ends with its answer or its error, and the adapter  *)
(* that called send() hands either to the room.                              *)
MessageSettles ==
    /\ Up /\ streaming /\ lock.kind = "message"
    /\ lock' = NoOne /\ streaming' = FALSE /\ envelope' = NoOne
    /\ owed' = owed \ {lock.of}
    /\ tail' \in {lock.of, NoOne}
    /\ UNCHANGED << marker, attempts, delivery, recorded, awaiting, child, proc,
                    queue, unparkable, claims, posts, reachable, linked, said,
                    sent, spent, wiped, silent >>

-----------------------------------------------------------------------------
(* Delivery of a computed answer *)

(* The turn of m is given up.  postNotice tells the room, unless the         *)
(* platform is out of reach or the notice itself cannot be posted: the room  *)
(* then hears nothing, and still owns the question it asked.                 *)
GiveUp(m) ==
    \/ reachable /\ owed' = owed \ {m} /\ UNCHANGED silent
    \/ silent' = silent \cup ({m} \cap owed) /\ UNCHANGED owed

(* mutant: the row goes when the post starts, as the sweep once did *)
DeliverAndForget(d, n) ==
    /\ delivery' = NoOne
    /\ posts' = IF reachable THEN [posts EXCEPT ![d.of] = @ + 1] ELSE posts
    /\ sent' = IF reachable THEN Count(n + 1) ELSE n
    /\ UNCHANGED << owed, silent >>

(* mutant: one attempt too many *)
DeliverOnceMore(d, n) ==
    IF d.attempts > MaxDelivery \/ ~linked
    THEN /\ delivery' = NoOne /\ GiveUp(d.of)
         /\ sent' = n /\ UNCHANGED posts
    ELSE /\ delivery' = [d EXCEPT !.attempts = @ + 1]
         /\ posts' = IF reachable THEN [posts EXCEPT ![d.of] = @ + 1] ELSE posts
         /\ sent' = IF reachable THEN Count(n + 1) ELSE n
         /\ UNCHANGED << owed, silent >>

(* mutant: the attempt is counted when the post failed, not before it *)
DeliverUncounted(d, n) ==
    IF d.attempts >= MaxDelivery \/ ~linked
    THEN /\ delivery' = NoOne /\ GiveUp(d.of)
         /\ sent' = n /\ UNCHANGED posts
    ELSE /\ delivery' = d
         /\ posts' = IF reachable THEN [posts EXCEPT ![d.of] = @ + 1] ELSE posts
         /\ sent' = IF reachable THEN Count(n + 1) ELSE n
         /\ UNCHANGED << owed, silent >>

(* mutant: a platform that is away costs no attempt *)
DeliverWhenReachable(d, n) ==
    IF ~reachable
    THEN delivery' = d /\ sent' = n /\ UNCHANGED << owed, silent, posts >>
    ELSE IF d.attempts >= MaxDelivery \/ ~linked
    THEN /\ delivery' = NoOne /\ GiveUp(d.of)
         /\ sent' = n /\ UNCHANGED posts
    ELSE /\ delivery' = [d EXCEPT !.attempts = @ + 1]
         /\ posts' = [posts EXCEPT ![d.of] = @ + 1]
         /\ sent' = Count(n + 1)
         /\ UNCHANGED << owed, silent >>

(* deliverPendingPlatformReply up to its post; n posts were made before.     *)
Deliver(d, n) ==
    IF d.attempts >= MaxDelivery \/ ~linked
    THEN /\ delivery' = NoOne /\ GiveUp(d.of)
         /\ sent' = n /\ UNCHANGED posts
    ELSE /\ delivery' = [d EXCEPT !.attempts = @ + 1]
         /\ posts' = IF reachable THEN [posts EXCEPT ![d.of] = @ + 1] ELSE posts
         /\ sent' = IF reachable THEN Count(n + 1) ELSE n
         /\ UNCHANGED << owed, silent >>

(* The post is confirmed: the row goes. *)
PostConfirmed(m) ==
    /\ Up /\ posts[m] > 0
    /\ posts' = [posts EXCEPT ![m] = @ - 1]
    /\ delivery' = NoOne /\ owed' = owed \ {m}
    /\ UNCHANGED << marker, attempts, envelope, recorded, awaiting, child, tail, proc,
                    running, unparkable, claims, reachable, linked, said, sent,
                    spent, wiped, silent >>

(* The post throws, whether the room got the text or not. *)
PostFails(m) ==
    /\ Up /\ posts[m] > 0
    /\ posts' = [posts EXCEPT ![m] = @ - 1]
    /\ owed' \in {owed, owed \ {m}}
    /\ UNCHANGED << durable, proc, running, unparkable, claims, reachable, linked,
                    said, sent, spent, wiped, silent >>

-----------------------------------------------------------------------------
(* The resume of a parked turn *)

StandDown ==
    marker' = FALSE /\ attempts' = 0 /\ envelope' = NoOne

(* send() of a continuation, once its attempt is claimed. *)
SendContinuation(kind) ==
    IF proc = "pausing" \/ (streaming /\ kind = "silent")
    THEN /\ attempts' = Capped(attempts + 1)
         /\ UNCHANGED << marker, envelope, queue, spent, wiped >>
    ELSE IF streaming
    THEN StandDown /\ wiped' = wiped \cup {envelope} /\ UNCHANGED << queue, spent >>
    ELSE /\ attempts' = Capped(attempts + 1)
         /\ queue' = Append(queue, [of |-> envelope, kind |-> kind])
         /\ spent' = Capped(spent) + 1
         /\ UNCHANGED << marker, envelope, wiped >>

(* resumePlatformTurn for a row that read n attempts.  A computed answer     *)
(* outranks everything; every refusal forgets both halves of the turn, and   *)
(* one for a platform that is away says nothing.                             *)
Resume(n, kind) ==
    IF delivery # NoOne
    THEN Deliver(delivery, sent) /\ UNCHANGED << marker, attempts, envelope, queue, spent, wiped >>
    ELSE /\ UNCHANGED << delivery, posts, sent >>
         /\ IF \/ envelope \notin Parkable \/ ~reachable \/ n >= MaxResume \/ ~linked
            THEN /\ StandDown /\ GiveUp(envelope)
                 /\ UNCHANGED << queue, spent, wiped >>
            ELSE /\ UNCHANGED << owed, silent >>
                 /\ IF marker
                    THEN SendContinuation(kind)
                    ELSE UNCHANGED << marker, attempts, envelope, queue, spent, wiped >>

SweepRoom ==
    /\ Up /\ sweep # NoOne
    /\ sweep' = NoOne
    /\ IF sweep.awaits
       THEN /\ attempts' = IF marker THEN Capped(attempts + 1) ELSE attempts
            /\ UNCHANGED << marker, envelope, delivery, queue, posts, owed, sent, spent,
                            wiped, silent >>
       ELSE Resume(sweep.attempts, "silent")
    /\ UNCHANGED << recorded, awaiting, child, tail, proc, lock, streaming, unparkable,
                    telling, recovering, reachable, linked, said >>

(* The recovered sub-agent ends and its result is handed to a room that is   *)
(* still parked (deliverRecoveredResultToRoom).                              *)
ResultArrives ==
    /\ Up /\ recovering
    /\ recovering' = FALSE /\ child' = FALSE
    /\ IF marker
       THEN Resume(attempts, "result")
       ELSE UNCHANGED << marker, attempts, envelope, delivery, queue, posts, owed,
                         sent, spent, wiped, silent >>
    /\ UNCHANGED << recorded, awaiting, tail, proc, lock, streaming, unparkable, sweep,
                    telling, reachable, linked, said >>

(* The resumed turn answers: in one transaction marker and envelope become   *)
(* a delivery row, and the first post goes out.                              *)
ResumeAnswers ==
    /\ Up /\ lock # NoOne /\ lock.kind # "message"
    /\ streaming \/ (lock.kind = "silent" /\ tail = lock.of)
    /\ lock' = NoOne /\ streaming' = FALSE /\ tail' = lock.of
    /\ StandDown
    /\ Deliver([of |-> lock.of, attempts |-> 0], 0)
    /\ UNCHANGED << recorded, awaiting, child, proc, queue, unparkable, claims,
                    reachable, linked, said, spent, wiped >>

(* The resumed turn throws: the marker stays for the next boot. *)
ResumeFails ==
    /\ Up /\ streaming /\ lock.kind # "message"
    /\ lock' = NoOne /\ streaming' = FALSE
    /\ UNCHANGED << durable, proc, queue, unparkable, claims, posts, reachable, linked,
                    history >>

-----------------------------------------------------------------------------
(* Pause, exit and boot *)

(* pauseForRestart: the turn in flight parks if the stored envelope proves a *)
(* resume.                                                                   *)
Pause ==
    /\ proc = "up" /\ proc' = "pausing"
    /\ \E delegated \in {FALSE, streaming} : \E only \in {FALSE, delegated} :
          child' = (child \/ delegated) /\ awaiting' = (awaiting \/ only)
    /\ IF Busy /\ envelope \in Parkable
       THEN /\ marker' = TRUE
            /\ owed' = IF streaming /\ ~Overtaken THEN owed \cup {lock.of} ELSE owed
            /\ spent' = IF marker THEN spent ELSE 0
            /\ UNCHANGED unparkable
       ELSE /\ unparkable' = Busy
            /\ UNCHANGED << marker, owed, spent >>
    /\ UNCHANGED << attempts, envelope, delivery, recorded, tail, running, claims, posts,
                    reachable, linked, said, sent, wiped, silent >>

(* settleUnparkable, when its wait is over and the turn still runs. *)
Record ==
    /\ proc = "pausing" /\ unparkable /\ Busy
    /\ unparkable' = FALSE /\ recorded' = TRUE
    /\ UNCHANGED << marker, attempts, envelope, delivery, awaiting, child, tail, proc,
                    running, claims, posts, reachable, linked, history >>

(* The process is gone: after the pause, by a second signal, or killed. *)
Exit ==
    /\ Up /\ proc' = "down"
    /\ lock' = NoOne /\ streaming' = FALSE /\ queue' = << >>
    /\ unparkable' = FALSE /\ sweep' = NoOne /\ telling' = FALSE /\ recovering' = FALSE
    /\ posts' = [m \in Messages |-> 0]
    /\ UNCHANGED << durable, reachable, linked, history >>

(* The claim pass, before the platforms start. *)
Boot ==
    /\ proc = "down" /\ proc' = "up"
    /\ sweep' = IF marker THEN [attempts |-> attempts, awaits |-> awaiting /\ child]
                ELSE IF delivery # NoOne THEN [attempts |-> 0, awaits |-> FALSE]
                ELSE NoOne
    /\ telling' = recorded /\ recorded' = FALSE
    /\ recovering' = child
    /\ reachable' \in BOOLEAN
    /\ UNCHANGED << marker, attempts, envelope, delivery, awaiting, child, tail, running,
                    unparkable, posts, linked, history >>

(* notifyInterruptedPlatformTurn *)
Tell ==
    /\ Up /\ telling
    /\ telling' = FALSE /\ envelope' = NoOne
    /\ wiped' = wiped \cup ({envelope} \cap owed)
    /\ UNCHANGED << marker, attempts, delivery, recorded, awaiting, child, tail, proc,
                    running, unparkable, sweep, recovering, posts, reachable, linked,
                    said, owed, sent, spent, silent >>

Unlink ==
    /\ linked /\ linked' = FALSE
    /\ UNCHANGED << durable, proc, running, unparkable, claims, posts, reachable, history >>

-----------------------------------------------------------------------------
Turn == Begin \/ Capture \/ SpawnFails \/ MessageSettles \/ ResumeAnswers \/ ResumeFails
Post == \E m \in Messages : PostConfirmed(m) \/ PostFails(m)

Next ==
    \/ \E m \in Messages : Speak(m)
    \/ Turn \/ Post \/ SweepRoom \/ ResultArrives
    \/ Pause \/ Record \/ Exit \/ Boot \/ Tell \/ Unlink

Spec == Init /\ [][Next]_vars

(* The daemon is restarted again and again, and now and then a boot lives    *)
(* long enough for each part of the recovery to have its turn.               *)
FairSpec ==
    /\ Spec
    /\ WF_vars(Boot) /\ WF_vars(Exit)
    /\ SF_vars(SweepRoom) /\ SF_vars(ResultArrives)

-----------------------------------------------------------------------------
(* The variables by their type, the counters within their caps.              *)
SwitchesOK ==
    /\ marker \in BOOLEAN /\ recorded \in BOOLEAN /\ awaiting \in BOOLEAN
    /\ child \in BOOLEAN /\ streaming \in BOOLEAN /\ unparkable \in BOOLEAN
    /\ telling \in BOOLEAN /\ recovering \in BOOLEAN
    /\ reachable \in BOOLEAN /\ linked \in BOOLEAN
    /\ proc \in {"up", "pausing", "down"}
TurnOK ==
    /\ envelope \in Messages \cup {NoOne} /\ tail \in Messages \cup {NoOne}
    /\ attempts \in 0 .. MaxResume + 1
    /\ said \subseteq Messages /\ owed \subseteq Messages /\ silent \subseteq Messages
    /\ sent \in 0 .. MaxDelivery + 1 /\ spent \in 0 .. MaxResume + 2
ClaimsOK ==
    /\ delivery \in Answers \cup {NoOne} /\ sweep \in Claims \cup {NoOne}
    /\ posts \in [Messages -> Nat]
RoomOK == lock \in Jobs \cup {NoOne} /\ queue \in Seq(Jobs)
(* Every variable of a room keeps its type and every counter its range.      *)
TypeOK == SwitchesOK /\ TurnOK /\ ClaimsOK /\ RoomOK

(* A turn the pause parked is, until the room hears of it, either a turn the *)
(* next boot continues or an answer it posts: platformTurnRecovery.ts calls  *)
(* these the two durable states.  A post, a notice or the room's own next    *)
(* message ends them.  What ends them with the room none the wiser is named: *)
(* a give-up whose notice was not posted, and the boot item of another turn  *)
(* that erases the envelope or stands the park down.                         *)
Evidence ==
    (IF marker THEN {envelope} ELSE {})
        \cup (IF delivery # NoOne THEN {delivery.of} ELSE {})
NothingLost == owed \ (wiped \cup silent) \subseteq Evidence

(* Neither cap is passed, wherever a process dies: an answer is posted at    *)
(* most MaxDelivery times, and a park costs at most MaxResume model turns,   *)
(* or one more when the result of a recovered sub-agent and the sweep both   *)
(* read the count before either wrote it.                                    *)
RetriesBounded == sent <= MaxDelivery /\ spent <= MaxResume + 1

(* A parked turn is not pending for ever: boots come and each spends an      *)
(* attempt, whatever the platform does, so the room gets its answer, a       *)
(* notice or a newer turn, or the turn is given up without a word, which the *)
(* code does when the platform is away or the notice cannot be posted, or    *)
(* the boot item of another turn erases it.                                  *)
OwedSettles ==
    \A m \in Messages : m \in owed ~> m \notin owed \/ m \in wiped \cup silent
=============================================================================
