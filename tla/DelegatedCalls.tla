---------------------------- MODULE DelegatedCalls ----------------------------
(* Delegated calls from the tool call to the answer its caller reads, across *)
(* restarts of the daemon: the run rows and the result inbox                 *)
(* (store/brainDelegationStore.ts), the plugin that drives a call            *)
(* (plugins/subagent/index.mjs), the rule for when a call is finished        *)
(* (BrainService.settleDelegatedReply), the delivery of results to a caller  *)
(* (service/turnRunner.ts) and the claims a boot recovers                    *)
(* (service/delegatedSession.ts).                                            *)
(*                                                                           *)
(* A call has one child session, named after it, that may delegate in turn;  *)
(* Root is the owner's conversation.  A crash may come between any two       *)
(* steps and takes everything that is not in the database.                   *)
EXTENDS Naturals

CONSTANTS
    Calls, Root,
    Caller,        \* the session that makes a call: Root or another call's child
    Background,    \* calls whose tool returns a handle at once
    Spilled,       \* background calls whose answer is written to a file first
    MaxAttempts,   \* MAX_RECOVERY_ATTEMPTS
    MaxBoots,      \* bound on the boots of a behaviour
    NoCall

Sessions == Calls \cup {Root}

ASSUME DelegationConstants ==
    /\ Root \notin Calls /\ NoCall \notin Calls
    /\ Caller \in [Calls -> Sessions]
    /\ Spilled \subseteq Background /\ Background \subseteq Calls
    /\ MaxAttempts \in Nat /\ MaxBoots \in Nat \ {0}

VARIABLES
    (* in the database *)
    lifecycle,   \* of the call's run row
    owner,       \* the boot stamped on the row
    attempt,     \* how often the row was claimed
    reply,       \* what the caller's transcript holds as the result of the call
    inbox,       \* the call's row in its caller's inbox
    tail,        \* how the child's transcript ends
    heard,       \* calls whose outcome the caller's transcript takes into account
    (* in the process *)
    up, boot,
    turn,        \* of a session: idle or running
    visiting,    \* session -> the result its hidden turn delivers
    call,        \* where the plugin, or the recovery, stands with a call
    claimed,     \* calls this boot claimed
    steered,     \* results put into the context of a running turn
    woken        \* results whose acceptance starts a drain of their caller

rows == << lifecycle, owner, attempt >>
memory == << turn, visiting, call, claimed, steered, woken >>
vars == << rows, reply, inbox, tail, heard, up, boot, memory >>

Open == { "running", "recovering" }
ChildrenOf(s) == { c \in Calls : Caller[c] = s }

TypeOK ==
    /\ lifecycle \in [Calls -> { "none", "done", "error", "recovery_required" } \cup Open]
    /\ owner \in [Calls -> 0 .. MaxBoots] /\ attempt \in [Calls -> 0 .. MaxBoots]
    /\ reply \in [Calls -> { "none", "waiting", "handle", "answer", "interrupted",
                            "recovered" }]
    /\ inbox \in [Calls -> { "none", "pending", "acknowledged" }]
    /\ tail \in [Calls -> { "none", "open", "final" }]
    /\ heard \subseteq Calls
    /\ up \in BOOLEAN /\ boot \in 0 .. MaxBoots
    /\ turn \in [Sessions -> { "idle", "running" }]
    /\ visiting \in [Sessions -> Calls \cup {NoCall}]
    /\ call \in [Calls -> { "none", "queued", "active", "returned", "pushed" }]
    /\ claimed \subseteq Calls /\ steered \subseteq Calls /\ woken \subseteq Calls

NothingRuns ==
    /\ turn' = [s \in Sessions |-> "idle"]
    /\ visiting' = [s \in Sessions |-> NoCall]
    /\ call' = [c \in Calls |-> "none"]
    /\ steered' = {} /\ woken' = {}

Init ==
    /\ lifecycle = [c \in Calls |-> "none"]
    /\ owner = [c \in Calls |-> 0] /\ attempt = [c \in Calls |-> 0]
    /\ reply = [c \in Calls |-> "none"]
    /\ inbox = [c \in Calls |-> "none"]
    /\ tail = [c \in Calls |-> "none"]
    /\ heard = {}
    /\ up = TRUE /\ boot = 1
    /\ turn = [s \in Sessions |-> "idle"]
    /\ visiting = [s \in Sessions |-> NoCall]
    /\ call = [c \in Calls |-> "none"]
    /\ claimed = {} /\ steered = {} /\ woken = {}

PendingOf(s) == { c \in ChildrenOf(s) : inbox[c] = "pending" }
-----------------------------------------------------------------------------
(* The turns of a session                                                    *)

(* settlePartialTurn: the calls a dead turn left unanswered get a result     *)
(* that promises their answer, or carries it when the child is over.         *)
Unanswered(s) == { c \in ChildrenOf(s) : reply[c] = "waiting" }
Resumes(c) == lifecycle[c] \in Open \cup {"none"}
SettleTail(s) ==
    /\ reply' = [c \in Calls |->
                    IF c \notin Unanswered(s) THEN reply[c]
                    ELSE IF Resumes(c) THEN "interrupted" ELSE "recovered"]
    /\ heard' = heard \cup { c \in Unanswered(s) : ~Resumes(c) }

(* Notices of a failed recovery keep the inbox waiting for the owner.        *)
Notices == { c \in PendingOf(Root) : lifecycle[c] = "recovery_required" }

(* The owner writes: the session opens, and the turn sees the notices.       *)
StartTurn ==
    /\ up /\ turn[Root] = "idle"
    /\ turn' = [turn EXCEPT ![Root] = "running"]
    /\ SettleTail(Root)
    /\ steered' = steered \cup Notices
    /\ UNCHANGED << rows, inbox, tail, up, boot, visiting, call, claimed, woken >>

(* A turn ends once every tool call of it has a result.  What was steered    *)
(* into it, or what it was started to deliver, has then been answered.       *)
Landed(s) == { c \in ChildrenOf(s) : c \in steered \/ c = visiting[s] }
TurnEnds(s) ==
    /\ turn[s] = "running" /\ Unanswered(s) = {}
    /\ turn' = [turn EXCEPT ![s] = "idle"]
    /\ visiting' = [visiting EXCEPT ![s] = NoCall]
    /\ tail' = [c \in Calls |-> IF c = s THEN "final" ELSE tail[c]]
    /\ heard' = heard \cup Landed(s)
    /\ steered' = steered \cup Landed(s)
    /\ UNCHANGED << rows, reply, inbox, up, boot, call, claimed, woken >>

-----------------------------------------------------------------------------
(* A delegated call                                                          *)

(* The model calls the tool.  The child does not exist yet: its session is   *)
(* spawned, in the pool after a wait for a runner.                           *)
Delegate(c) ==
    /\ turn[Caller[c]] = "running" /\ reply[c] = "none"
    /\ reply' = [reply EXCEPT ![c] = "waiting"]
    /\ call' = [call EXCEPT ![c] = "queued"]
    /\ tail' = [d \in Calls |-> IF d = Caller[c] THEN "open" ELSE tail[d]]
    /\ UNCHANGED << rows, inbox, heard, up, boot, turn, visiting, claimed, steered, woken >>

(* The child's turn begins: the task and then the run row are written.       *)
Register(c) ==
    /\ call[c] = "queued"
    /\ call' = [call EXCEPT ![c] = "active"]
    /\ lifecycle' = [lifecycle EXCEPT ![c] = "running"]
    /\ owner' = [owner EXCEPT ![c] = boot]
    /\ tail' = [tail EXCEPT ![c] = "open"]
    /\ turn' = [turn EXCEPT ![c] = "running"]
    /\ UNCHANGED << attempt, reply, inbox, heard, up, boot, visiting, claimed, steered, woken >>

(* A background call is admitted once its row exists.                        *)
HandleReturns(c) ==
    /\ c \in Background /\ turn[Caller[c]] = "running"
    /\ reply[c] = "waiting" /\ lifecycle[c] # "none"
    /\ reply' = [reply EXCEPT ![c] = "handle"]
    /\ UNCHANGED << rows, inbox, tail, heard, up, boot, memory >>

(* The child has delegated work in flight: an edge in the registry, an open  *)
(* row, or a result it has not taken in.  The edge lasts until the terminal  *)
(* row is written; a short answer is enqueued before any reader runs.        *)
LiveChildren(s) == { c \in ChildrenOf(s) : call[c] \in { "queued", "active", "returned" } }
OpenRows(s) == { c \in ChildrenOf(s) : lifecycle[c] \in Open }
Enqueuing(s) == { c \in ChildrenOf(s) \cap Background : call[c] = "pushed" /\ c \notin Spilled }
BusyRows(s) ==   \* mutant: the inbox is not looked at
    LiveChildren(s) \cup OpenRows(s) \cup Enqueuing(s)
Busy(s) == LiveChildren(s) \cup OpenRows(s) \cup Enqueuing(s) \cup PendingOf(s)

(* settleDelegatedReply: the answer of a call is the child's last reply once *)
(* nothing the child delegated is open.                                      *)
Settling(s) == s \in Calls /\ call[s] = "active" /\ turn[s] = "idle"
Settled(c) == Settling(c) /\ Busy(c) = {}
SettleReturns(c) ==
    /\ Settled(c) /\ lifecycle[c] = "running"
    /\ call' = [call EXCEPT ![c] = "returned"]
    /\ UNCHANGED << rows, reply, inbox, tail, heard, up, boot, turn, visiting, claimed,
                    steered, woken >>

(* The terminal progress row; it drops the edge.                             *)
Push(c) ==
    /\ call[c] = "returned"
    /\ call' = [call EXCEPT ![c] = "pushed"]
    /\ lifecycle' = [lifecycle EXCEPT ![c] = "done"]
    /\ UNCHANGED << owner, attempt, reply, inbox, tail, heard, up, boot, turn, visiting,
                    claimed, steered, woken >>

(* A blocking call returns the answer to the turn that made it.              *)
Return(c) ==
    /\ call[c] = "pushed" /\ c \notin Background
    /\ call' = [call EXCEPT ![c] = "none"]
    /\ reply' = [reply EXCEPT ![c] = "answer"]
    /\ heard' = heard \cup {c}
    /\ UNCHANGED << rows, inbox, tail, up, boot, turn, visiting, claimed, steered, woken >>

(* enqueueSubagentResult: the first result of a call stays.                  *)
Enqueue(c) == inbox' = [inbox EXCEPT ![c] = IF @ = "none" THEN "pending" ELSE @]

(* A background call leaves its answer in the inbox, which wakes the caller. *)
Emit(c) ==
    /\ call[c] = "pushed" /\ c \in Background
    /\ call' = [call EXCEPT ![c] = "none"]
    /\ Enqueue(c)
    /\ woken' = woken \cup {c}
    /\ UNCHANGED << rows, reply, tail, heard, up, boot, turn, visiting, claimed, steered >>

-----------------------------------------------------------------------------
(* Delivery of a pending result to its caller                                *)

(* What drains the inbox of s: for the owner every open of the conversation, *)
(* for a child the acceptance of the result or its own settlement.           *)
Drains(s, c) ==
    \/ s = Root
    \/ c \in woken
    \/ Settling(s) /\ LiveChildren(s) \cup OpenRows(s) = {}

(* Into a running turn, whose context is not durable.  The owner's row stays *)
(* pending until the turn has ended; a child's is acknowledged at once.      *)
Steer(c) ==
    LET s == Caller[c] IN
    /\ c \in PendingOf(s) \ steered /\ Drains(s, c)
    /\ turn[s] = "running" /\ visiting[s] = NoCall
    /\ steered' = steered \cup {c}
    /\ inbox' = [d \in Calls |-> IF d = c /\ s # Root THEN "acknowledged" ELSE inbox[d]]
    /\ UNCHANGED << rows, reply, tail, heard, up, boot, turn, visiting, call, claimed, woken >>

(* By a hidden turn of its own, of which a crash may leave no trace.         *)
Deliver(c) ==
    LET s == Caller[c] IN
    /\ up /\ c \in PendingOf(s) \ steered /\ Drains(s, c)
    /\ turn[s] = "idle" /\ (s = Root => Notices = {})
    /\ turn' = [turn EXCEPT ![s] = "running"]
    /\ visiting' = [visiting EXCEPT ![s] = c]
    /\ tail' \in { tail, [d \in Calls |-> IF d = s THEN "open" ELSE tail[d]] }
    /\ SettleTail(s)
    /\ UNCHANGED << rows, inbox, up, boot, call, claimed, steered, woken >>

(* The drain finds the result in the context of the ended turn.              *)
Acknowledge(c) ==
    /\ c \in PendingOf(Caller[c]) \cap steered \cap heard
    /\ turn[Caller[c]] = "idle"
    /\ inbox' = [inbox EXCEPT ![c] = "acknowledged"]
    /\ UNCHANGED << rows, reply, tail, heard, up, boot, memory >>

-----------------------------------------------------------------------------
(* Restart                                                                   *)

(* The process dies, or is paused mid-step: only the database stays.         *)
Crash ==
    /\ up /\ boot < MaxBoots
    /\ up' = FALSE
    /\ NothingRuns /\ claimed' = {}
    /\ UNCHANGED << rows, reply, inbox, tail, heard, boot >>

(* discardOrphanedDeliveries: results for a child that is over.              *)
Discarded ==
    { c \in Calls : inbox[c] = "pending" /\ Caller[c] # Root
                    /\ lifecycle[Caller[c]] \in { "done", "error" } }

(* claimRecoverableRuns: the open rows of earlier boots.                     *)
ClaimableRunning(b) ==   \* mutant: what an earlier boot claimed is left to it
    { c \in Calls : lifecycle[c] = "running" /\ owner[c] # b }
Claimable(b) == { c \in Calls : lifecycle[c] \in Open /\ owner[c] # b }

(* reconcileDelegationsOnBoot, before any client attaches.                   *)
Boot ==
    LET b == boot + 1
        mine == Claimable(b) IN
    /\ ~up
    /\ up' = TRUE /\ boot' = b
    /\ inbox' = [c \in Calls |-> IF c \in Discarded THEN "acknowledged" ELSE inbox[c]]
    /\ lifecycle' = [c \in Calls |-> IF c \in mine THEN "recovering" ELSE lifecycle[c]]
    /\ owner' = [c \in Calls |-> IF c \in mine THEN b ELSE owner[c]]
    /\ attempt' = [c \in Calls |-> IF c \in mine THEN attempt[c] + 1 ELSE attempt[c]]
    /\ claimed' = mine
    /\ UNCHANGED << reply, tail, heard, turn, visiting, call, steered, woken >>

(* A claim whose child delegated waits for the claims of those calls.        *)
DeeperUnsettled(c) == ChildrenOf(c) \cap claimed   \* mutant: a claim never settles its waiters
Deeper(c) == { d \in ChildrenOf(c) \cap claimed : lifecycle[d] = "recovering" }
Recovers(c) ==
    /\ c \in claimed /\ lifecycle[c] = "recovering" /\ call[c] = "none"
    /\ Deeper(c) = {}

(* completeRecoveredRun and markRecoveryRequired end the row and enqueue the *)
(* result in one transaction.  The result wakes the caller unless the caller *)
(* is a claim of this boot itself.                                           *)
TerminalizeForHandle(c, end) ==   \* mutant: a blocking call has no inbox row
    /\ lifecycle' = [lifecycle EXCEPT ![c] = end]
    /\ IF c \in Background THEN Enqueue(c) ELSE inbox' = inbox
    /\ call' = [call EXCEPT ![c] = "none"]
    /\ woken' = IF Caller[c] \in claimed THEN woken ELSE woken \cup {c}
    /\ UNCHANGED << owner, attempt, up, boot, claimed >>
Terminalize(c, end) ==
    /\ lifecycle' = [lifecycle EXCEPT ![c] = end]
    /\ Enqueue(c)
    /\ call' = [call EXCEPT ![c] = "none"]
    /\ woken' = IF Caller[c] \in claimed THEN woken ELSE woken \cup {c}
    /\ UNCHANGED << owner, attempt, up, boot, claimed >>

GiveUp(c) ==
    /\ Recovers(c) /\ attempt[c] > MaxAttempts
    /\ Terminalize(c, "error")
    /\ UNCHANGED << reply, tail, heard, turn, visiting, steered >>

(* The child had answered: its last message is the result.                   *)
RecoverAnswered(c) ==
    /\ Recovers(c) /\ attempt[c] <= MaxAttempts /\ tail[c] = "final"
    /\ Terminalize(c, "done")
    /\ UNCHANGED << reply, tail, heard, turn, visiting, steered >>

(* The interrupted tail is answered, and what is folded into it acknowledged *)
(* in the same transaction; the child then continues.                        *)
FoldedKept(c) == inbox   \* mutant: the folded rows stay in the inbox
FoldedAll(c) ==   \* mutant: every pending row counts as folded
    [d \in Calls |-> IF d \in PendingOf(c) THEN "acknowledged" ELSE inbox[d]]
Folded(c) == [d \in Calls |-> IF d \in Unanswered(c) \cap PendingOf(c) THEN "acknowledged"
                              ELSE inbox[d]]
RecoverContinues(c) ==
    /\ Recovers(c) /\ attempt[c] <= MaxAttempts /\ tail[c] = "open"
    /\ SettleTail(c)
    /\ inbox' = Folded(c)
    /\ call' = [call EXCEPT ![c] = "active"]
    /\ turn' = [turn EXCEPT ![c] = "running"]
    /\ UNCHANGED << rows, tail, up, boot, visiting, claimed, steered, woken >>

RecoverySettles(c) ==
    /\ Settled(c) /\ lifecycle[c] = "recovering"
    /\ Terminalize(c, "done")
    /\ UNCHANGED << reply, tail, heard, turn, visiting, steered >>

(* The continuation fails: the row waits for the caller's decision.          *)
RecoveryFails(c) ==
    /\ call[c] = "active" /\ lifecycle[c] = "recovering"
    /\ turn[c] = "running" /\ Unanswered(c) = {}
    /\ turn' = [turn EXCEPT ![c] = "idle"]
    /\ visiting' = [visiting EXCEPT ![c] = NoCall]
    /\ Terminalize(c, "recovery_required")
    /\ UNCHANGED << reply, tail, heard, steered >>

-----------------------------------------------------------------------------
Recovery(c) == GiveUp(c) \/ RecoverAnswered(c) \/ RecoverContinues(c) \/ RecoverySettles(c)
Progress(c) == \/ Register(c) \/ HandleReturns(c)
               \/ SettleReturns(c) \/ Push(c) \/ Return(c) \/ Emit(c)

Next ==
    \/ StartTurn \/ Crash \/ Boot
    \/ \E s \in Sessions : TurnEnds(s)
    \/ \E c \in Calls : Delegate(c) \/ Progress(c) \/ Recovery(c) \/ RecoveryFails(c)
    \/ \E c \in Calls : Steer(c) \/ Deliver(c) \/ Acknowledge(c)

(* Turns end, promises settle, a daemon that is down is started again, and   *)
(* the session lock, a queue, gives a drain its turn.                        *)
Fairness ==
    /\ WF_vars(Boot)
    /\ \A s \in Sessions : WF_vars(TurnEnds(s))
    /\ \A c \in Calls : WF_vars(Progress(c)) /\ WF_vars(Recovery(c))
    /\ \A c \in Calls : SF_vars(Deliver(c)) /\ SF_vars(Acknowledge(c))

Spec == Init /\ [][Next]_vars
FairSpec == Spec /\ Fairness

-----------------------------------------------------------------------------
(* No row is open without somebody who works on it: a row of this boot has   *)
(* its call or its recovery, and a boot takes over the rows of every earlier *)
(* one, those claimed for recovery included.                                 *)
OpenRowsDriven ==
    \A c \in Calls : up /\ lifecycle[c] \in Open =>
        /\ owner[c] = boot
        /\ IF lifecycle[c] = "running" THEN call[c] \in { "active", "returned" }
                                       ELSE c \in claimed

(* A caller told that a registered call resumes hears its end: the call is   *)
(* open, its result is in the inbox, or the caller has taken it in.  A child *)
(* is such a caller while its own run lasts.                                 *)
Works(s) == s = Root \/ lifecycle[s] \in Open
PromisesKept ==
    \A c \in Calls : Works(Caller[c]) /\ reply[c] = "interrupted" /\ lifecycle[c] # "none" =>
        lifecycle[c] \in Open \/ inbox[c] = "pending" \/ c \in heard

(* Leaves first: a child that continues after a restart has the outcome of   *)
(* every registered call it was waiting for, and none of those is delivered  *)
(* to it a second time.  Only of a child whose own run is over, woken once   *)
(* more and interrupted, does nobody acknowledge what its spawn folds in.    *)
FoldedAtOnce ==
    \A c \in Calls :
        Caller[c] # Root /\ lifecycle[Caller[c]] \in Open /\ lifecycle[c] # "none" =>
            /\ reply[c] # "interrupted"
            /\ reply[c] = "recovered" => inbox[c] # "pending"

(* What a call's settlement hands its caller takes in everything the child   *)
(* delegated that ended since the last start or was left in its inbox, short *)
(* of an answer that is still being written to a file.                       *)
Registered(s) == { c \in ChildrenOf(s) : lifecycle[c] # "none" }
EndedBefore == { c \in Calls : owner[c] # boot /\ inbox[c] # "pending" }
SettlesOver(c) == Registered(c) \subseteq heard \cup Spilled \cup EndedBefore
SettlementIntegrates ==
    [][\A c \in Calls :
        SettleReturns(c) \/ RecoverySettles(c) => SettlesOver(c)]_vars

(* How a call ended is not forgotten: while the daemon runs somebody holds   *)
(* it until the caller has taken it in.  It is lost only in the memory of a  *)
(* process that leaves, on its way to the inbox or in the context of a turn, *)
(* with a continuation that fails, or because the caller is over at a boot.  *)
Held(c) ==
    \/ lifecycle[c] \in Open \/ reply[c] = "waiting"
    \/ call[c] = "pushed" \/ inbox[c] = "pending"
    \/ c \in steered /\ turn[Caller[c]] = "running"
    \/ c \in heard
InMemory(c) == call[c] = "pushed" \/ c \in steered
OutcomesHeld ==
    [][\A c \in Calls :
        lifecycle[c] # "none" /\ Held(c) /\ ~Held(c)' =>
            \/ Crash /\ InMemory(c)
            \/ Boot /\ c \in Discarded
            \/ Caller[c] # Root /\ RecoveryFails(Caller[c]) /\ c \in steered]_vars

(* The owner hears how every interrupted call of theirs ends, unless the     *)
(* inbox holds a notice that waits for them.                                 *)
RecoveredCallHeard ==
    \A c \in ChildrenOf(Root) :
        lifecycle[c] = "recovering" ~> c \in heard \/ Notices # {}

(* settleDelegatedReply (brainService.ts:2172): a child that launched a      *)
(* background sub-agent is not done until it has answered on its result.     *)
AnswersIntegrate ==
    [][\A c \in Calls :
        lifecycle[c] \in Open /\ lifecycle'[c] = "done" => Registered(c) \subseteq heard]_vars
=============================================================================
