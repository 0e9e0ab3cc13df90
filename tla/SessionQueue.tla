---------------------------- MODULE SessionQueue ----------------------------
(***************************************************************************)
(* What becomes of a message an owner types while a turn is running.       *)
(*                                                                         *)
(* A message sent to an idle conversation is its own turn: its row is in   *)
(* the transcript at once (`rows').  A message sent to a busy one waits in *)
(* PI's steering queue, with its image and display data in a mirror beside *)
(* it (queueMirror.ts), and becomes a row only when PI delivers it.  Until *)
(* then the user can remove it, recall it, drop it with Esc, or promote it *)
(* with Esc into a turn of its own; and a pause for restart copies it into *)
(* the table brain_paused_queue (`paused'), which the boot's resume of the *)
(* conversation takes into memory (`replay') and sends again.              *)
(*                                                                         *)
(* PI (external) holds bare texts, the mirror the data; both change in the *)
(* same synchronous call, so one sequence `queue' stands for the two.      *)
(* Steers only: no code enqueues a follow-up.                              *)
(***************************************************************************)
EXTENDS Naturals, Sequences, FiniteSets, SequencesExt

CONSTANTS
    Messages,   \* the messages of the owner, each typed once
    None,       \* no message
    MaxExits    \* bound: the process leaves (pause or kill) at most this often

ASSUME QueueConstants == None \notin Messages /\ MaxExits \in Nat

VARIABLES
    proc,         \* "up", "pausing" (checkpoint written, not gone) or "down"
    live,         \* the conversation has a LiveBrain
    turn,         \* "idle" or "running": the conversation's locks
    queue,        \* queuedSteer and PI's steering queue
    rows,         \* the user rows of the transcript, oldest first
    lastAdmitted, \* the row an Esc before any output would discard
    output,       \* turnProducedOutput
    esc,          \* an Esc (abort) is between its two halves
    doomed,       \* the row that Esc decided to discard
    prom,         \* where interruptQueued stands: see Promotion
    promote,      \* its snapshot, what is not consumed yet
    marker,       \* brain_sessions.parked_at
    paused,       \* brain_paused_queue
    item,         \* the boot sweep's item for the conversation
    replay,       \* what replayPausedQueue took and has not sent yet
    exits,        \* how often the process left
    sent,         \* history: the messages accepted
    taken,        \* history: what the user took back
    past,         \* history: what went past a fence that is still up, see Passed
    doubled,      \* history: what got a second copy, see Copied
    cut           \* history: what went astray, see Unsaved

turnVars == <<turn, lastAdmitted, output>>
escVars  == <<esc, doomed>>
promVars == <<prom, promote>>
bootVars == <<marker, paused, item, replay>>
procVars == <<proc, live, exits>>
history  == <<sent, taken, past, doubled, cut>>
vars == <<turnVars, escVars, promVars, bootVars, procVars, history, queue, rows>>

Items == {"none", "claimed", "waiting", "continuing", "replaying", "replayTurn"}

(* Aborting the run, about to send the first message, about to send        *)
(* another, waiting for the turn of one.                                   *)
Promotion == {"none", "aborting", "first", "sending", "inTurn"}

(* The variables by their type, and what goes with what: a running turn has  *)
(* a live session, and only a replay or a promotion holds messages.          *)
ProcessOK ==
    /\ proc \in {"up", "pausing", "down"} /\ live \in BOOLEAN
    /\ turn \in {"idle", "running"} /\ output \in BOOLEAN
    /\ exits \in 0..MaxExits
    /\ turn = "running" => live

QueuesOK ==
    /\ queue \in Seq(Messages) /\ rows \in Seq(Messages)
    /\ promote \in Seq(Messages) /\ paused \in Seq(Messages)
    /\ replay \in Seq(Messages)
    /\ replay # <<>> => item \in {"replaying", "replayTurn"}
    /\ promote # <<>> => prom # "none"
    /\ prom = "inTurn" => promote # <<>>

ClaimsOK ==
    /\ esc \in BOOLEAN
    /\ lastAdmitted \in Messages \cup {None} /\ doomed \in Messages \cup {None}
    /\ prom \in Promotion
    /\ marker \in BOOLEAN /\ item \in Items
    /\ item \in {"continuing", "replayTurn"} \/ prom = "inTurn" => turn = "running"

HistoryOK ==
    /\ sent \subseteq Messages /\ taken \subseteq Messages
    /\ past \subseteq Messages /\ doubled \subseteq Messages /\ cut \subseteq Messages

(* Every variable of a conversation keeps its type, and nothing waits in a   *)
(* replay or a promotion that is over.                                       *)
TypeOK == ProcessOK /\ QueuesOK /\ ClaimsOK /\ HistoryOK

Init ==
    /\ proc = "up" /\ live = FALSE /\ turn = "idle" /\ exits = 0
    /\ queue = <<>> /\ rows = <<>> /\ lastAdmitted = None /\ output = FALSE
    /\ esc = FALSE /\ doomed = None /\ prom = "none" /\ promote = <<>>
    /\ marker = FALSE /\ paused = <<>> /\ item = "none" /\ replay = <<>>
    /\ sent = {} /\ taken = {} /\ past = {} /\ doubled = {} /\ cut = {}

---------------------------------------------------------------------------
(* Sending                                                                 *)

\* The parent-abort fence an Esc and a promotion hold.
Fenced == esc \/ prom # "none"

(* While an Esc, or a promotion, is between its two clearings of the queue, *)
(* only a promotion and a replay still send: what they do is noted, since   *)
(* the second clearing does not tell it from what the first one was for.    *)
Passed(S) == IF esc \/ prom = "aborting" THEN past \cup S ELSE past

(* Between the checkpoint and the exit: what of S also stands in the table, *)
(* where nothing that happens to it in memory is noted.                     *)
Pausing == proc = "pausing"
Copied(S) == IF Pausing THEN S \cap Range(paused) ELSE {}

\* What of S the table does not hold: all there is of it is in memory.
Unsaved(S) == S \ Range(paused)

(* What interruptQueued has in hand: it counts a message only when its send *)
(* resolved, so the one whose turn it waits for is still among them.        *)
Unsent == IF prom = "inTurn" THEN Tail(promote) ELSE promote

\* What only the process itself holds.
Memory == Range(queue) \cup Range(Unsent) \cup Range(replay)

(* A turn of its own (runTurn under the conversation's lock): the row is   *)
(* written before PI is asked, and Esc may discard it until output comes.  *)
StartTurn(m) ==
    /\ turn = "idle"
    /\ turn' = "running" /\ rows' = Append(rows, m)
    /\ lastAdmitted' = m /\ output' = FALSE
    /\ live' = TRUE
    /\ UNCHANGED queue

(* A turn is running: the message goes into its queue (TurnAdmission.steer)*)
Steer(m) ==
    /\ turn = "running"
    /\ queue' = Append(queue, m)
    /\ UNCHANGED <<turnVars, live, rows>>

(* BrainTurnRunner.send of a message the user typed.  It stands a parked   *)
(* conversation down, and it is refused under a fence and in a pause.      *)
Send(m) ==
    /\ proc = "up" /\ ~Fenced /\ m \notin sent
    /\ sent' = sent \cup {m}
    /\ marker' = FALSE
    /\ StartTurn(m) \/ Steer(m)
    /\ UNCHANGED <<escVars, promVars, paused, item, replay, proc, exits,
                   taken, past, doubled, cut>>

---------------------------------------------------------------------------
(* The running turn                                                        *)

\* mutant: the discard claim stays armed when a second row grows behind it
DeliverArmed ==
    /\ proc # "down" /\ turn = "running" /\ queue # <<>>
    /\ queue' = Tail(queue) /\ rows' = Append(rows, Head(queue))
    /\ doubled' = doubled \cup Copied({Head(queue)})
    /\ UNCHANGED <<turnVars, escVars, promVars, bootVars, procVars, sent, taken,
                   past, cut>>

(* PI delivers the oldest steer: its queue_update shrinks the mirror and   *)
(* stages the entry, and at the message_start that follows at once the row *)
(* is written and the Esc-discard disarmed (deliverQueuedUserEcho).        *)
Deliver ==
    /\ proc # "down" /\ turn = "running" /\ queue # <<>>
    /\ queue' = Tail(queue) /\ rows' = Append(rows, Head(queue))
    /\ lastAdmitted' = None
    /\ doubled' = doubled \cup Copied({Head(queue)})
    /\ UNCHANGED <<turn, output, escVars, promVars, bootVars, procVars, sent, taken,
                   past, cut>>

(* The first output; dropped while an Esc is discarding the turn.          *)
Output ==
    /\ proc # "down" /\ turn = "running" /\ ~output /\ doomed = None
    /\ output' = TRUE
    /\ UNCHANGED <<turn, lastAdmitted, escVars, promVars, bootVars, procVars,
                   history, queue, rows>>

\* mutant: the replay reads the checkpoint and leaves it in the table
TakePausedKept ==
    /\ item' = "replaying" /\ replay' = paused
    /\ UNCHANGED paused

(* takePausedQueue, where resumeParkedConversation ends: read and deleted  *)
(* in one transaction.                                                     *)
TakePaused ==
    /\ item' = "replaying" /\ replay' = paused
    /\ paused' = <<>>

(* A turn settles: the boot's item, if it waited for it, goes on.          *)
TurnOver ==
    /\ turn' = "idle" /\ lastAdmitted' = None
    /\ \/ item = "continuing" /\ TakePaused
       \/ /\ item # "continuing"
          /\ item' = IF item = "replayTurn" THEN "replaying" ELSE item
          /\ UNCHANGED <<paused, replay>>
    /\ UNCHANGED output

\* A checkpoint taken again while the process winds down: now twice in memory.
TakenInPause ==
    IF paused' # paused THEN Copied(Range(queue)) ELSE {}

\* A promotion that waited for the turn of one of its messages goes on.
NextPromoted ==
    /\ prom' = IF prom = "inTurn" THEN "sending" ELSE prom
    /\ promote' = Unsent

(* The turn ends by itself.  What still waits in the queue stays there for *)
(* the next turn.  A continued turn that answered clears the marker, one   *)
(* that failed keeps it for the next boot.                                 *)
TurnEnds ==
    /\ proc # "down" /\ turn = "running"
    /\ TurnOver /\ NextPromoted
    /\ doubled' = doubled \cup TakenInPause
    /\ marker' \in IF item = "continuing" THEN {FALSE, marker} ELSE {marker}
    /\ UNCHANGED <<escVars, procVars, sent, taken, past, cut, queue, rows>>

---------------------------------------------------------------------------
(* The user changes his mind                                               *)

(* queueRemove and queueRecall: clear PI's queue and enqueue the others    *)
(* again, from the mirror, in their order.  The recall names the last one, *)
(* a removal whatever position the client's list had.  In a pause the copy *)
(* in the table stays.                                                     *)
QueueRemove(i) ==
    /\ proc # "down" /\ live /\ i \in DOMAIN queue
    /\ queue' = RemoveAt(queue, i)
    /\ taken' = taken \cup {queue[i]}
    /\ doubled' = doubled \cup Copied({queue[i]})
    /\ UNCHANGED <<turnVars, escVars, promVars, bootVars, procVars, sent, past,
                   cut, rows>>

\* mutant: the first half leaves the queue to the second
EscBeginKeepsQueue ==
    /\ proc # "down" /\ live /\ ~esc
    /\ esc' = TRUE
    /\ doomed' = IF output THEN None ELSE lastAdmitted
    /\ marker' = FALSE
    /\ UNCHANGED <<turnVars, promVars, paused, item, replay, procVars, history,
                   queue, rows>>

(* Esc, first half (abort up to its first await): what to discard is       *)
(* decided now, the queue is cleared, the fence goes up.  In a pause the   *)
(* copy in the table stays.                                                *)
EscBegin ==
    /\ proc # "down" /\ live /\ ~esc
    /\ esc' = TRUE
    /\ doomed' = IF output THEN None ELSE lastAdmitted
    /\ marker' = FALSE
    /\ queue' = <<>>
    /\ taken' = taken \cup Range(queue)
    /\ doubled' = doubled \cup Copied(Range(queue))
    /\ UNCHANGED <<turnVars, promVars, paused, item, replay, procVars, sent, past,
                   cut, rows>>

(* The row of m, its last one, and all behind it are deleted               *)
(* (deleteMessagesFrom).                                                   *)
LastRowOf(m) ==
    CHOOSE i \in DOMAIN rows :
        rows[i] = m /\ \A j \in DOMAIN rows : rows[j] = m => j <= i

RowsBefore(m) ==
    IF m \in Range(rows) THEN SubSeq(rows, 1, LastRowOf(m) - 1) ELSE rows

(* Esc, second half: the run has settled, the queue is cleared once more   *)
(* and the discarded turn's row goes with all that stands behind it; its   *)
(* text returns to the composer.  What went past the fence in between is   *)
(* cleared and deleted as well, and returns to nobody.                     *)
EscEnd ==
    /\ proc # "down" /\ esc
    /\ TurnOver /\ NextPromoted
    /\ esc' = FALSE /\ doomed' = None
    /\ queue' = <<>>
    /\ rows' = IF doomed = None THEN rows ELSE RowsBefore(doomed)
    /\ taken' = (taken \cup (Range(queue) \ past) \cup {doomed}) \ {None}
    /\ LET cleared == Range(queue) \cup (Range(rows) \ (Range(rows') \cup {doomed}))
       IN  cut' = cut \cup Unsaved(cleared \cap past)
    /\ past' = {}
    /\ doubled' = doubled \cup TakenInPause
    /\ UNCHANGED <<marker, procVars, sent>>

(* Esc on a parked conversation nobody opened since the boot: the marker   *)
(* and the checkpointed queue go.                                          *)
EscParked ==
    /\ proc = "up" /\ ~live /\ marker
    /\ marker' = FALSE /\ paused' = <<>>
    /\ taken' = taken \cup Range(paused)
    /\ UNCHANGED <<turnVars, escVars, promVars, item, replay, procVars,
                   sent, past, doubled, cut, queue, rows>>

(* interruptQueued: the queue is snapshot and cleared, then the run is     *)
(* aborted, then the snapshot is sent again, the first message as a fresh  *)
(* turn; the fence is up to the end.                                       *)
PromoteBegin ==
    /\ proc # "down" /\ live /\ prom = "none" /\ queue # <<>>
    /\ prom' = "aborting" /\ promote' = queue
    /\ queue' = <<>>
    /\ doubled' = doubled \cup Copied(Range(queue))
    /\ UNCHANGED <<turnVars, escVars, bootVars, procVars, sent, taken, past, cut,
                   rows>>

PromoteAborted ==
    /\ proc # "down" /\ prom = "aborting"
    /\ TurnOver
    /\ prom' = "first"
    /\ queue' = <<>>
    /\ cut' = cut \cup Unsaved(Range(queue) \cap past)
    /\ past' = IF esc THEN past ELSE {}
    /\ doubled' = doubled \cup TakenInPause
    /\ UNCHANGED <<promote, escVars, marker, procVars, sent, taken, rows>>

(* The next message of the snapshot: its send passes the fence.  The loop  *)
(* waits for a turn of its own, but of the first only for the admission.   *)
PromoteNext ==
    /\ proc # "down" /\ prom \in {"first", "sending"} /\ promote # <<>>
    /\ marker' = FALSE
    /\ \/ /\ StartTurn(Head(promote))
          /\ IF prom = "first"
             THEN prom' = "sending" /\ promote' = Tail(promote)
             ELSE prom' = "inTurn" /\ UNCHANGED promote
       \/ /\ Steer(Head(promote))
          /\ prom' = "sending" /\ promote' = Tail(promote)
    /\ past' = Passed({Head(promote)})
    /\ UNCHANGED <<escVars, paused, item, replay, proc, exits, sent, taken, doubled,
                   cut>>

(* A send of the loop is rejected: what is not consumed goes back to the   *)
(* queue, whether or not a turn runs.                                      *)
PromoteFails ==
    /\ proc # "down" /\ prom \in {"first", "sending"} /\ promote # <<>>
    /\ queue' = queue \o promote
    /\ prom' = "none" /\ promote' = <<>>
    /\ past' = Passed(Range(promote))
    /\ UNCHANGED <<turnVars, escVars, bootVars, procVars, sent, taken, doubled, cut,
                   rows>>

(* So it is when the turn of a message that is not the first throws after  *)
(* its row was written (the prompt, or the nudge after it): the message is *)
(* not counted as consumed and goes back with the others.                  *)
PromotedTurnFails ==
    /\ proc # "down" /\ prom = "inTurn"
    /\ TurnOver
    /\ queue' = queue \o promote
    /\ prom' = "none" /\ promote' = <<>>
    /\ past' = Passed(Range(promote))
    /\ doubled' = doubled \cup TakenInPause \cup {Head(promote)}
    /\ UNCHANGED <<escVars, marker, procVars, sent, taken, cut, rows>>

PromoteEnds ==
    /\ proc # "down" /\ prom = "sending" /\ promote = <<>>
    /\ prom' = "none"
    /\ UNCHANGED <<promote, turnVars, escVars, bootVars, procVars, history, queue, rows>>

---------------------------------------------------------------------------
(* Restarts                                                                *)

(* pauseForRestart: no new send is admitted from here on.  A conversation  *)
(* whose turn runs gets its queue written to brain_paused_queue, in place  *)
(* of what stands there, and its park marker; an idle one gets neither.    *)
(* The turn goes on until the process leaves.                              *)
Pause ==
    /\ proc = "up" /\ exits < MaxExits
    /\ proc' = "pausing"
    /\ marker' = (marker \/ turn = "running")
    /\ paused' = IF turn = "running" /\ queue # <<>> THEN queue ELSE paused
    /\ cut' = cut \cup IF paused' # paused THEN Range(paused) ELSE {}
    /\ UNCHANGED <<turnVars, escVars, promVars, item, replay, live, exits,
                   sent, taken, past, doubled, queue, rows>>

(* What a dead process leaves: the memory is gone, and with it what no     *)
(* checkpoint wrote down.                                                  *)
Gone ==
    /\ proc' = "down" /\ live' = FALSE /\ turn' = "idle" /\ exits' = exits + 1
    /\ queue' = <<>> /\ lastAdmitted' = None /\ output' = FALSE
    /\ esc' = FALSE /\ doomed' = None /\ prom' = "none" /\ promote' = <<>>
    /\ item' = "none" /\ replay' = <<>>
    /\ cut' = cut \cup Unsaved(Memory) /\ past' = {}
    /\ UNCHANGED <<marker, paused, rows, sent, taken, doubled>>

(* The process leaves after its checkpoint, or is killed without one.      *)
Exit == Pausing /\ Gone

Killed == proc = "up" /\ exits < MaxExits /\ Gone

(* claimParkedConversations: one item for a parked conversation.           *)
Boot ==
    /\ proc = "down"
    /\ proc' = "up"
    /\ item' = IF marker THEN "claimed" ELSE "none"
    /\ UNCHANGED <<turnVars, escVars, promVars, marker, paused, replay,
                   live, exits, history, queue, rows>>

(* resumeParkedConversation ends without a turn: the marker fell (the user *)
(* spoke or pressed Esc), or stays for a delegation the turn waits for or  *)
(* because the resume failed, or is cleared on giving up and where nothing *)
(* is left to continue.  The replay follows in every case.                 *)
ResumeNothing ==
    /\ proc # "down" /\ item \in {"claimed", "waiting"}
    /\ TakePaused
    /\ doubled' = doubled \cup TakenInPause
    /\ marker' \in {FALSE, marker}
    /\ UNCHANGED <<turnVars, escVars, promVars, procVars, sent, taken, past, cut,
                   queue, rows>>

(* The attempt is claimed while the marker stands ...                      *)
ResumeClaim ==
    /\ proc # "down" /\ item = "claimed" /\ marker
    /\ item' = "waiting"
    /\ UNCHANGED <<turnVars, escVars, promVars, marker, paused, replay,
                   procVars, history, queue, rows>>

(* ... and the interrupted turn goes on once the locks are free.           *)
ResumeContinue ==
    /\ proc # "down" /\ item = "waiting" /\ turn = "idle"
    /\ item' = "continuing" /\ turn' = "running" /\ live' = TRUE
    /\ UNCHANGED <<lastAdmitted, output, escVars, promVars, marker, paused,
                   replay, proc, exits, history, queue, rows>>

(* replayPausedQueue sends the next message and waits for its turn, if it  *)
(* gets one.  The send passes the fence and the pause's refusal.           *)
ReplayNext ==
    /\ proc # "down" /\ item = "replaying" /\ replay # <<>>
    /\ replay' = Tail(replay)
    /\ marker' = FALSE
    /\ \/ StartTurn(Head(replay)) /\ item' = "replayTurn"
       \/ Steer(Head(replay)) /\ UNCHANGED item
    /\ past' = Passed({Head(replay)})
    /\ UNCHANGED <<escVars, promVars, paused, proc, exits, sent, taken, doubled, cut>>

(* A send that fails is logged and the rest still goes.                    *)
ReplayFails ==
    /\ proc # "down" /\ item = "replaying" /\ replay # <<>>
    /\ replay' = Tail(replay)
    /\ cut' = cut \cup {Head(replay)}
    /\ UNCHANGED <<turnVars, escVars, promVars, marker, paused, item,
                   procVars, sent, taken, past, doubled, queue, rows>>

ReplayEnds ==
    /\ item = "replaying" /\ replay = <<>>
    /\ item' = "none"
    /\ UNCHANGED <<turnVars, escVars, promVars, marker, paused, replay,
                   procVars, history, queue, rows>>

---------------------------------------------------------------------------
Next ==
    \/ \E m \in Messages : Send(m)
    \/ Deliver \/ Output \/ TurnEnds
    \/ \E i \in DOMAIN queue : QueueRemove(i)
    \/ EscBegin \/ EscEnd \/ EscParked
    \/ PromoteBegin \/ PromoteAborted \/ PromoteNext \/ PromoteFails
    \/ PromotedTurnFails \/ PromoteEnds
    \/ Pause \/ Exit \/ Killed \/ Boot
    \/ ResumeNothing \/ ResumeClaim \/ ResumeContinue
    \/ ReplayNext \/ ReplayFails \/ ReplayEnds

Spec == Init /\ [][Next]_vars

---------------------------------------------------------------------------
(* Properties                                                              *)

\* How often m stands in a sequence.
Copies(m, s) == Cardinality({i \in DOMAIN s : s[i] = m})

(* The places of a message.  What a pause wrote to the table is a copy of  *)
(* what is in memory, and only one of the two counts.                      *)
Places(m) ==
    Copies(m, rows) + Copies(m, paused)
        + IF Copied({m}) # {} THEN 0
          ELSE Copies(m, queue) + Copies(m, Unsent) + Copies(m, replay)

(* No message a user typed is lost: until he takes it back it is in the    *)
(* transcript or in one of the places that lead there, through deliveries, *)
(* removals beside it, an Esc that discards another turn, a promotion that *)
(* fails halfway, a pause and a boot.  Excepted are four losses, each by   *)
(* the step that makes it: what the process holds when it leaves and no    *)
(* checkpoint wrote down (Gone); a checkpoint that the next one replaces   *)
(* before it was replayed (Pause); a replayed message whose send fails     *)
(* (ReplayFails); and what a promotion or a replay sent, or put back, past *)
(* the fence of an Esc or of a promotion, when their second half clears    *)
(* the queue or deletes it behind the discarded row (EscEnd,               *)
(* PromoteAborted).  A message that was merely queued when Esc came is     *)
(* none of these.                                                          *)
NothingLost ==
    \A m \in sent \ (taken \cup cut) : Places(m) > 0

(* No message is read twice, and none that its user took back is read      *)
(* again: it stands in one place at most.  Excepted is what gets a second  *)
(* copy: a checkpointed message that, until the process leaves, the turn   *)
(* still reads, a promotion still sends, its user still takes back or a    *)
(* resume still takes from the table, since nothing of this is noted in    *)
(* the table; and a promoted message put back when its turn fails.         *)
OneCopy ==
    \A m \in Messages \ doubled :
        /\ Places(m) <= 1
        /\ m \in taken => Places(m) = 0

(* Where a message is for the one who typed it.  "wrong" is what the promise *)
(* does not know: in two places, in none, back or lost and yet somewhere.    *)
Placing(m) ==
    IF Places(m) = 1 /\ m \notin taken \cup cut
    THEN IF m \in Range(rows) THEN "read" ELSE "waiting"
    ELSE IF Places(m) # 0 THEN "wrong"
    ELSE IF m \in taken THEN "back" ELSE IF m \in cut THEN "astray" ELSE "wrong"

Box == [m \in Messages |-> IF m \in doubled THEN "repeated"
                           ELSE IF m \notin sent THEN "unsent" ELSE Placing(m)]

(* A conversation keeps the promise of Mailbox.  A message that has no      *)
(* second copy is read once.  What was read leaves the transcript only when *)
(* an Esc discards it, or discards another and it got behind that one past  *)
(* the fence.  What came back to its user, or went astray, never returns.   *)
Promise == INSTANCE Mailbox WITH box <- Box
ImplementsMailbox == Promise!Spec

(* What a pause checkpointed is replayed by the boot's resume of the       *)
(* parked conversation, "losing one silently is the one thing this exists  *)
(* to prevent" (brainService.ts:764).  The resume has only the marker to   *)
(* find the conversation by: it stands while a message waits that nobody   *)
(* took back.                                                              *)
CheckpointHasMarker ==
    proc = "down" /\ ~(Range(paused) \subseteq taken \cup doubled) => marker
=============================================================================
