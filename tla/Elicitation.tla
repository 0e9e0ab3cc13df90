------------------------------ MODULE Elicitation ------------------------------
(* The registry of parked prompts: src/brain/elicitation.ts, as the tool     *)
(* calls of running turns use it.  A call asks for an approval (the          *)
(* permission gate) or asks the user a question (AskUserQuestion), and its   *)
(* promise stays open until the prompt is answered, times out or is          *)
(* cancelled with its conversation.                                          *)
(*                                                                           *)
(* Approvals of one conversation are chained on promises: a later one parks  *)
(* when the tail of the one before it settles.  The reactions on one tail,   *)
(* the clean-up of approvalStates and then the next park, run back to back;  *)
(* everything else may happen between a prompt settling and its tail.        *)
EXTENDS FiniteSets

CONSTANTS
    Calls,       \* tool calls; each asks once
    Approvals,   \* those that ask through the permission gate
    Sessions,    \* conversations
    SessionOf,   \* the conversation a call belongs to
    NoCall

ASSUME ElicitationConstants ==
    /\ Approvals \subseteq Calls
    /\ SessionOf \in [Calls -> Sessions]
    /\ NoCall \notin Calls

VARIABLES
    pc,              \* where the promise of a call stands
    approvalStates,  \* session -> the approval that wrote its entry, or NoCall
    ahead,           \* approval -> the approvals chained in front of it
    cancellation,    \* approval -> the approval that created its shared token
    cancelled,       \* tokens that carry an error
    tailed,          \* approvals whose tail has settled
    onScreen,        \* prompts announced by `ask` and not yet by `ask_resolved`
    revoked          \* history: calls in flight at a cancel of their session

vars == << pc, approvalStates, ahead, cancellation, cancelled, tailed, onScreen,
           revoked >>

Ended == { "answered", "expired", "rejected" }
States == { "idle", "deferred", "parked" } \cup Ended

(* The keys of the pending map, and its entries of some conversations.       *)
Pending == { c \in Calls : pc[c] = "parked" }
PendingOf(S) == { c \in Pending : SessionOf[c] \in S }
InFlight(S) == { c \in Calls : pc[c] \in { "deferred", "parked" } /\ SessionOf[c] \in S }

TypeOK ==
    /\ pc \in [Calls -> States]
    /\ approvalStates \in [Sessions -> Approvals \cup {NoCall}]
    /\ ahead \in [Approvals -> SUBSET Approvals]
    /\ cancellation \in [Approvals -> Approvals \cup {NoCall}]
    /\ cancelled \subseteq Approvals
    /\ tailed \subseteq Approvals
    /\ onScreen \subseteq Calls
    /\ revoked \subseteq Calls

Init ==
    /\ pc = [c \in Calls |-> "idle"]
    /\ approvalStates = [s \in Sessions |-> NoCall]
    /\ ahead = [a \in Approvals |-> {}]
    /\ cancellation = [a \in Approvals |-> NoCall]
    /\ cancelled = {} /\ tailed = {} /\ onScreen = {} /\ revoked = {}

-----------------------------------------------------------------------------
(* The tokens cancelForSession and cancelAll mark.                           *)
TokensOfAnyEntry(S) ==   \* mutant: without looking whether there is an entry
    { IF approvalStates[s] = NoCall THEN NoCall ELSE cancellation[approvalStates[s]] : s \in S }
TokensOf(S) == { cancellation[approvalStates[s]] : s \in { t \in S : approvalStates[t] # NoCall } }

(* Forgetting the approval entries of S and rejecting what is parked there;  *)
(* a deferred approval learns of it when the tail in front of it settles.    *)
CancelEntries(S) ==
    /\ cancelled' = cancelled \cup TokensOf(S)
    /\ approvalStates' = [s \in Sessions |-> IF s \in S THEN NoCall ELSE approvalStates[s]]
    /\ revoked' = revoked \cup InFlight(S)
    /\ UNCHANGED << ahead, cancellation, tailed >>

RejectedEverywhere(S) ==   \* mutant: the filter on the session is missing
    [c \in Calls |-> IF S # {} /\ c \in Pending THEN "rejected" ELSE pc[c]]
Rejected(S) == [c \in Calls |-> IF c \in PendingOf(S) THEN "rejected" ELSE pc[c]]

(* The cancellation token of an approval: the one its chain shares.          *)
OwnToken(a) == a   \* mutant: every approval has a token of its own
TokenOf(a) ==
    LET previous == approvalStates[SessionOf[a]] IN
    IF previous = NoCall THEN a ELSE cancellation[previous]

(* An approval with no other in flight in its conversation parks at once.    *)
AskFirstApproval(a) ==
    /\ pc[a] = "idle"
    /\ approvalStates[SessionOf[a]] = NoCall
    /\ pc' = [pc EXCEPT ![a] = "parked"]
    /\ onScreen' = onScreen \cup {a}
    /\ approvalStates' = [approvalStates EXCEPT ![SessionOf[a]] = a]
    /\ cancellation' = [cancellation EXCEPT ![a] = TokenOf(a)]
    /\ UNCHANGED << ahead, cancelled, tailed, revoked >>

(* Any other waits for the tail of the latest one and shares its token.      *)
AskNextApproval(a) ==
    LET previous == approvalStates[SessionOf[a]] IN
    /\ pc[a] = "idle"
    /\ previous # NoCall
    /\ pc' = [pc EXCEPT ![a] = "deferred"]
    /\ ahead' = [ahead EXCEPT ![a] = ahead[previous] \cup {previous}]
    /\ approvalStates' = [approvalStates EXCEPT ![SessionOf[a]] = a]
    /\ cancellation' = [cancellation EXCEPT ![a] = TokenOf(a)]
    /\ UNCHANGED << cancelled, tailed, onScreen, revoked >>

(* A question supersedes whatever its conversation has in flight.            *)
AskQuestion(c) ==
    /\ pc[c] = "idle"
    /\ CancelEntries({SessionOf[c]})
    /\ pc' = [Rejected({SessionOf[c]}) EXCEPT ![c] = "parked"]
    /\ onScreen' = (onScreen \ PendingOf({SessionOf[c]})) \cup {c}

(* An answer that matches the questions settles the prompt; any other        *)
(* payload, and an id no longer pending, change nothing.                     *)
Answer(c) ==
    /\ pc[c] = "parked"
    /\ pc' = [pc EXCEPT ![c] = "answered"]
    /\ onScreen' = onScreen \ {c}
    /\ UNCHANGED << approvalStates, ahead, cancellation, cancelled, tailed, revoked >>

(* The timer of a parked prompt; every other exit clears it.                 *)
TimeOutSilently(c) ==   \* mutant: the timer does not announce the exit
    /\ pc[c] = "parked"
    /\ pc' = [pc EXCEPT ![c] = "expired"]
    /\ UNCHANGED << approvalStates, ahead, cancellation, cancelled, tailed, onScreen, revoked >>
TimeOut(c) ==
    /\ pc[c] = "parked"
    /\ pc' = [pc EXCEPT ![c] = "expired"]
    /\ onScreen' = onScreen \ {c}
    /\ UNCHANGED << approvalStates, ahead, cancellation, cancelled, tailed, revoked >>

(* cancelForSession(s), and cancelAll when S is every conversation.          *)
Cancel(S) ==
    /\ CancelEntries(S)
    /\ pc' = Rejected(S)
    /\ onScreen' = onScreen \ PendingOf(S)

CancelForSession(s) == Cancel({s})
CancelAll == Cancel(Sessions)

(* The approvals chained directly behind a (there is at most one).           *)
NextAfterAnswer(a) ==   \* mutant: the tail carries on only from a prompt that resolved
    { b \in Approvals : pc[b] = "deferred" /\ ahead[b] = ahead[a] \cup {a} /\ pc[a] # "rejected" }
NextInChain(a) == { b \in Approvals : pc[b] = "deferred" /\ ahead[b] = ahead[a] \cup {a} }

(* The entries once the tail of a has settled: its own goes, a later one     *)
(* stays.                                                                    *)
EntriesClearedBlindly(a) ==   \* mutant: whoever wrote the entry
    [approvalStates EXCEPT ![SessionOf[a]] = NoCall]
EntriesAfter(a) ==
    [s \in Sessions |-> IF approvalStates[s] = a THEN NoCall ELSE approvalStates[s]]

(* The tail of a settled approval: its entry goes if it is still the latest, *)
(* then the next one parks, or rejects if their token was cancelled.         *)
TailSettles(a) ==
    LET next == NextInChain(a)
        parks == { b \in next : cancellation[b] \notin cancelled } IN
    /\ pc[a] \in Ended /\ a \notin tailed
    /\ tailed' = tailed \cup {a}
    /\ approvalStates' = EntriesAfter(a)
    /\ pc' = [c \in Calls |-> IF c \in parks THEN "parked"
                              ELSE IF c \in next THEN "rejected" ELSE pc[c]]
    /\ onScreen' = onScreen \cup parks
    /\ UNCHANGED << ahead, cancellation, cancelled, revoked >>

Next ==
    \/ \E a \in Approvals : AskFirstApproval(a) \/ AskNextApproval(a) \/ TailSettles(a)
    \/ \E c \in Calls \ Approvals : AskQuestion(c)
    \/ \E c \in Calls : Answer(c) \/ TimeOut(c)
    \/ \E s \in Sessions : CancelForSession(s)
    \/ CancelAll

(* Timers fire and promise reactions run; nobody has to ask, answer, cancel. *)
Fairness ==
    /\ \A c \in Calls : WF_vars(TimeOut(c))
    /\ \A a \in Approvals : WF_vars(TailSettles(a))

Spec == Init /\ [][Next]_vars
FairSpec == Spec /\ Fairness

-----------------------------------------------------------------------------
(* Two approvals of one conversation are never on show together, whatever    *)
(* was asked, settled or cancelled between them, and neither are two         *)
(* questions: ask serializes the first kind and supersedes the second.       *)
OnePromptOfAKind ==
    \A c, d \in Pending :
        SessionOf[c] = SessionOf[d] /\ (c \in Approvals <=> d \in Approvals) => c = d

(* A call in flight when its conversation was cancelled never prompts        *)
(* afterwards: a queued approval finds the shared token, however late its    *)
(* turn comes and whatever new approvals were asked since.                   *)
RevokedNeverPrompt == \A c \in revoked : pc[c] \in { "deferred", "rejected" }

(* No promise is rejected, which the gate reads as the user's deny, unless   *)
(* its own conversation was cancelled while it was in flight.                *)
RejectedOnlyByCancel == \A c \in Calls : pc[c] = "rejected" => c \in revoked

(* The prompts the surfaces show are the prompts that can still be answered: *)
(* every park and every exit announces itself on the conversation's fan-out. *)
ScreensMatchPending == onScreen = Pending

(* Every prompt settles even if nobody answers, the queued ones included.    *)
EveryAskSettles == \A c \in Calls : pc[c] # "idle" ~> pc[c] \in Ended
=============================================================================
