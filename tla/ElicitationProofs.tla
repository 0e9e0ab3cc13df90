--------------------------- MODULE ElicitationProofs ---------------------------
(* Type correctness and the safety invariants of the prompt registry, for    *)
(* any calls and conversations.  The argument is about the promise chains:   *)
(* approvals that share a token are totally ordered by `ahead`, the entry of *)
(* a conversation is the last of the one chain that is neither cancelled nor *)
(* run down, and a prompt on show has only settled tails in front of it.     *)
EXTENDS Elicitation, TLAPS

Asked(a) == pc[a] # "idle"

(* An approval that has not asked is in no chain and has no token.           *)
Fresh ==
    \A a \in Approvals :
        /\ ~Asked(a) => /\ ahead[a] = {} /\ cancellation[a] = NoCall
                        /\ a \notin cancelled /\ a \notin tailed
                        /\ \A b \in Approvals : a \notin ahead[b] /\ cancellation[b] # a
        /\ Asked(a) => cancellation[a] \in Approvals
        /\ a \in tailed => pc[a] \in Ended

(* What is chained in front of an approval shares its token and conversation *)
(* and has its own chain in front of it; once the approval is no longer      *)
(* deferred, every tail in front of it has settled.                          *)
Chained ==
    \A a \in Approvals :
        /\ a \notin ahead[a]
        /\ \A b \in ahead[a] : /\ SessionOf[b] = SessionOf[a]
                               /\ cancellation[b] = cancellation[a]
                               /\ Asked(b) /\ ahead[b] \subseteq ahead[a]
        /\ pc[a] \notin { "idle", "deferred" } => ahead[a] \subseteq tailed

(* A token belongs to one chain.                                             *)
OneChain ==
    \A a, b \in Approvals :
        Asked(a) /\ Asked(b) /\ cancellation[a] = cancellation[b]
            => a = b \/ a \in ahead[b] \/ b \in ahead[a]

(* The entry of a conversation is the last of a chain still running.         *)
IsLast(s, t) ==
    /\ SessionOf[t] = s /\ Asked(t) /\ t \notin tailed
    /\ cancellation[t] \notin cancelled
    /\ \A a \in Approvals : Asked(a) /\ cancellation[a] = cancellation[t]
                                => a = t \/ a \in ahead[t]
EntryIsLast ==
    \A s \in Sessions : \A t \in Approvals : approvalStates[s] = t => IsLast(s, t)

(* Every approval still running under a good token is in its conversation's  *)
(* current chain.                                                            *)
Current(a) ==
    /\ approvalStates[SessionOf[a]] # NoCall
    /\ cancellation[approvalStates[SessionOf[a]]] = cancellation[a]
RunningIsCurrent ==
    \A a \in Approvals :
        Asked(a) /\ a \notin tailed /\ cancellation[a] \notin cancelled => Current(a)

(* What a cancelled token means for the prompts it covers.                   *)
Revocation ==
    /\ \A a \in Approvals : pc[a] = "parked" => cancellation[a] \notin cancelled
    /\ \A a \in Approvals : pc[a] = "deferred" => (a \in revoked <=> cancellation[a] \in cancelled)
    /\ \A c \in Calls : pc[c] = "deferred" => c \in Approvals

OneQuestion ==
    \A c, d \in Pending \ Approvals : SessionOf[c] = SessionOf[d] => c = d

IInv ==
    /\ TypeOK /\ Fresh /\ Chained /\ OneChain /\ EntryIsLast /\ RunningIsCurrent
    /\ Revocation /\ OneQuestion
    /\ RevokedNeverPrompt /\ RejectedOnlyByCancel /\ ScreensMatchPending

-----------------------------------------------------------------------------
(* Initially nothing has been asked.                                         *)
LEMMA InitInvariant == Init => IInv
BY ElicitationConstants
DEF Init, IInv, TypeOK, Fresh, Chained, OneChain, EntryIsLast, RunningIsCurrent,
    IsLast, Current, Revocation, OneQuestion, RevokedNeverPrompt, RejectedOnlyByCancel,
    ScreensMatchPending, Pending, Asked, States, Ended

(* Two approvals under one token belong to one conversation.                 *)
LEMMA TokenOfOneSession ==
    ASSUME Chained, OneChain, NEW a \in Approvals, NEW b \in Approvals,
           Asked(a), Asked(b), cancellation[a] = cancellation[b]
    PROVE  SessionOf[a] = SessionOf[b]
BY DEF Chained, OneChain

(* At most one approval of a conversation is on show: of two in the current  *)
(* chain one is in front of the other, and what is in front has settled.     *)
LEMMA OneApproval ==
    ASSUME IInv, NEW a \in Approvals, NEW b \in Approvals,
           pc[a] = "parked", pc[b] = "parked", SessionOf[a] = SessionOf[b]
    PROVE  a = b
<1>1. /\ Asked(a) /\ a \notin tailed /\ cancellation[a] \notin cancelled
      /\ Asked(b) /\ b \notin tailed /\ cancellation[b] \notin cancelled
    BY DEF IInv, Fresh, Revocation, Asked, Ended
<1>2. cancellation[a] = cancellation[b]
    BY <1>1 DEF IInv, RunningIsCurrent, Current
<1>3. ahead[a] \subseteq tailed /\ ahead[b] \subseteq tailed
    BY DEF IInv, Chained
<1>4. QED
    BY <1>1, <1>2, <1>3 DEF IInv, OneChain

(* The invariant gives the property the registry promises.                   *)
LEMMA InvariantOnePrompt == IInv => OnePromptOfAKind
<1> SUFFICES ASSUME IInv, NEW c \in Pending, NEW d \in Pending,
                    SessionOf[c] = SessionOf[d], c \in Approvals <=> d \in Approvals
             PROVE  c = d
    BY DEF OnePromptOfAKind
<1>1. CASE c \in Approvals
    BY <1>1, OneApproval DEF Pending
<1>2. CASE c \notin Approvals
    BY <1>2 DEF IInv, OneQuestion
<1>3. QED
    BY <1>1, <1>2

-----------------------------------------------------------------------------
(* An approval that parks at once starts a chain of its own.                 *)
LEMMA FirstApprovalStep ==
    ASSUME IInv, NEW a \in Approvals, AskFirstApproval(a)
    PROVE  IInv'
<1> DEFINE s == SessionOf[a]
<1>1. /\ a \in Calls /\ s \in Sessions /\ TypeOK /\ a # NoCall
      /\ \A b \in Approvals : b \in Calls /\ SessionOf[b] \in Sessions /\ b # NoCall
    BY ElicitationConstants DEF IInv
<1>2. /\ pc' = [pc EXCEPT ![a] = "parked"]
      /\ approvalStates' = [approvalStates EXCEPT ![s] = a]
      /\ cancellation' = [cancellation EXCEPT ![a] = a]
      /\ onScreen' = onScreen \cup {a}
      /\ UNCHANGED << ahead, cancelled, tailed, revoked >>
      /\ ~Asked(a) /\ approvalStates[s] = NoCall
    BY DEF AskFirstApproval, TokenOf, Asked
<1>3. /\ ahead[a] = {} /\ a \notin cancelled /\ a \notin tailed
      /\ \A b \in Approvals : a \notin ahead[b] /\ cancellation[b] # a
    BY <1>2 DEF IInv, Fresh
<1>4. TypeOK'
    BY <1>1, <1>2 DEF TypeOK, States
<1>5. Fresh'
    BY <1>1, <1>2, <1>3 DEF IInv, Fresh, TypeOK, Asked, Ended
<1>6. Chained'
    BY <1>1, <1>2, <1>3 DEF IInv, Chained, TypeOK, Asked
<1>7. OneChain'
    BY <1>1, <1>2, <1>3 DEF IInv, OneChain, TypeOK, Asked
<1>8. EntryIsLast'
    BY <1>1, <1>2, <1>3 DEF IInv, EntryIsLast, IsLast, TypeOK, Asked
<1>9. RunningIsCurrent'
    <2> SUFFICES ASSUME NEW b \in Approvals,
                        (Asked(b) /\ b \notin tailed /\ cancellation[b] \notin cancelled)'
                 PROVE  Current(b)'
        BY DEF RunningIsCurrent
    <2>1. CASE b = a
        BY <2>1, <1>1, <1>2 DEF TypeOK, Current
    <2>2. CASE b # a
        <3>1. Current(b)
            BY <2>2, <1>1, <1>2 DEF IInv, RunningIsCurrent, TypeOK, Asked
        <3>2. SessionOf[b] # s
            BY <3>1, <1>2 DEF Current
        <3>3. approvalStates[SessionOf[b]] # a
            BY <3>1, <3>2, <1>1 DEF IInv, EntryIsLast, IsLast, Current
        <3>4. QED
            BY <3>1, <3>2, <3>3, <2>2, <1>1, <1>2 DEF Current, TypeOK
    <2>3. QED
        BY <2>1, <2>2
<1>10. Revocation' /\ OneQuestion'
    BY <1>1, <1>2, <1>3 DEF IInv, Revocation, OneQuestion, Pending, TypeOK
<1>11. a \notin revoked
    BY <1>1, <1>2 DEF IInv, RevokedNeverPrompt, Asked
<1>12. (RevokedNeverPrompt /\ RejectedOnlyByCancel /\ ScreensMatchPending)'
    BY <1>1, <1>2, <1>11
    DEF IInv, RevokedNeverPrompt, RejectedOnlyByCancel, ScreensMatchPending, Pending, TypeOK
<1>13. QED
    BY <1>4, <1>5, <1>6, <1>7, <1>8, <1>9, <1>10, <1>12 DEF IInv

(* Any other joins the chain of its conversation, at the end.                *)
LEMMA NextApprovalStep ==
    ASSUME IInv, NEW a \in Approvals, AskNextApproval(a)
    PROVE  IInv'
<1> DEFINE s == SessionOf[a]
           t == approvalStates[s]
<1>1. /\ a \in Calls /\ s \in Sessions /\ TypeOK /\ a # NoCall
      /\ \A b \in Approvals : b \in Calls /\ SessionOf[b] \in Sessions /\ b # NoCall
    BY ElicitationConstants DEF IInv
<1>2. /\ pc' = [pc EXCEPT ![a] = "deferred"]
      /\ approvalStates' = [approvalStates EXCEPT ![s] = a]
      /\ ahead' = [ahead EXCEPT ![a] = ahead[t] \cup {t}]
      /\ cancellation' = [cancellation EXCEPT ![a] = cancellation[t]]
      /\ UNCHANGED << cancelled, tailed, onScreen, revoked >>
      /\ ~Asked(a) /\ t # NoCall
    BY DEF AskNextApproval, TokenOf, Asked
<1>3. /\ ahead[a] = {} /\ a \notin cancelled /\ a \notin tailed
      /\ \A b \in Approvals : a \notin ahead[b] /\ cancellation[b] # a
    BY <1>2 DEF IInv, Fresh
<1>4. /\ t \in Approvals /\ t # a /\ SessionOf[t] = s /\ Asked(t)
      /\ cancellation[t] \notin cancelled /\ cancellation[t] \in Approvals
      /\ \A b \in Approvals : Asked(b) /\ cancellation[b] = cancellation[t]
                                  => b = t \/ b \in ahead[t]
    BY <1>1, <1>2 DEF IInv, EntryIsLast, IsLast, Fresh, TypeOK
<1>5. TypeOK'
    BY <1>1, <1>2, <1>4 DEF TypeOK, States
<1>6. Fresh'
    BY <1>1, <1>2, <1>3, <1>4 DEF IInv, Fresh, TypeOK, Asked, Ended
<1>7. Chained'
    <2>1. \A b \in ahead[t] \cup {t} :
              /\ b \in Approvals /\ b # a /\ SessionOf[b] = s /\ Asked(b)
              /\ cancellation[b] = cancellation[t]
              /\ ahead[b] \subseteq ahead[t] \cup {t}
        BY <1>1, <1>3, <1>4 DEF IInv, Chained, TypeOK
    <2>2. \A b \in Approvals : b # a => \A c \in ahead[b] : c \in Approvals /\ c # a
        BY <1>1, <1>3 DEF TypeOK
    <2>3. QED
        BY <2>1, <2>2, <1>1, <1>2, <1>4 DEF IInv, Chained, TypeOK, Asked
<1>8. OneChain'
    BY <1>1, <1>2, <1>3, <1>4 DEF IInv, OneChain, TypeOK, Asked
<1>9. EntryIsLast'
    <2> SUFFICES ASSUME NEW r \in Sessions, NEW u \in Approvals, approvalStates'[r] = u
                 PROVE  IsLast(r, u)'
        BY DEF EntryIsLast
    <2>1. CASE r = s
        BY <2>1, <1>1, <1>2, <1>3, <1>4 DEF TypeOK, Asked, IsLast
    <2>2. CASE r # s
        <3>1. IsLast(r, u)
            BY <2>2, <1>1, <1>2 DEF IInv, TypeOK, EntryIsLast
        <3>2. u # a /\ cancellation[t] # cancellation[u]
            BY <3>1, <2>2, <1>2, <1>4, TokenOfOneSession DEF IInv, IsLast
        <3>3. QED
            BY <3>1, <3>2, <1>1, <1>2, <1>4 DEF TypeOK, Asked, IsLast
    <2>3. QED
        BY <2>1, <2>2
<1>10. RunningIsCurrent'
    <2> SUFFICES ASSUME NEW b \in Approvals,
                        (Asked(b) /\ b \notin tailed /\ cancellation[b] \notin cancelled)'
                 PROVE  Current(b)'
        BY DEF RunningIsCurrent
    <2>1. CASE SessionOf[b] = s
        <3>1. b = a \/ cancellation[b] = cancellation[t]
            BY <2>1, <1>1, <1>2 DEF IInv, RunningIsCurrent, Current, TypeOK, Asked
        <3>2. QED
            BY <3>1, <2>1, <1>1, <1>2 DEF Current, TypeOK
    <2>2. CASE SessionOf[b] # s
        <3>1. b # a /\ Current(b)
            BY <2>2, <1>1, <1>2 DEF IInv, RunningIsCurrent, TypeOK, Asked
        <3>2. approvalStates[SessionOf[b]] # a
            BY <3>1, <2>2, <1>1 DEF IInv, EntryIsLast, IsLast, Current
        <3>3. QED
            BY <3>1, <3>2, <2>2, <1>1, <1>2 DEF Current, TypeOK
    <2>3. QED
        BY <2>1, <2>2
<1>11. a \notin revoked
    BY <1>1, <1>2 DEF IInv, RevokedNeverPrompt, Asked
<1>12. Revocation' /\ OneQuestion'
    BY <1>1, <1>2, <1>4, <1>11 DEF IInv, Revocation, OneQuestion, Pending, TypeOK
<1>13. (RevokedNeverPrompt /\ RejectedOnlyByCancel /\ ScreensMatchPending)'
    BY <1>1, <1>2, <1>11
    DEF IInv, RevokedNeverPrompt, RejectedOnlyByCancel, ScreensMatchPending, Pending,
        TypeOK, Asked
<1>14. QED
    BY <1>5, <1>6, <1>7, <1>8, <1>9, <1>10, <1>12, <1>13 DEF IInv

(* An answer or a timer ends one prompt and leaves the chains alone.         *)
LEMMA PromptEndStep ==
    ASSUME IInv, NEW c \in Calls, Answer(c) \/ TimeOut(c)
    PROVE  IInv'
<1>1. PICK e \in { "answered", "expired" } : pc' = [pc EXCEPT ![c] = e]
    BY DEF Answer, TimeOut
<1>2. /\ pc[c] = "parked" /\ onScreen' = onScreen \ {c}
      /\ UNCHANGED << approvalStates, ahead, cancellation, cancelled, tailed, revoked >>
      /\ TypeOK /\ Approvals \subseteq Calls
    BY ElicitationConstants DEF IInv, Answer, TimeOut
<1>3. TypeOK'
    BY <1>1, <1>2 DEF TypeOK, States, Ended
<1>4. Fresh' /\ Chained' /\ OneChain'
    BY <1>1, <1>2 DEF IInv, Fresh, Chained, OneChain, TypeOK, Asked, Ended
<1>5. EntryIsLast' /\ RunningIsCurrent'
    BY <1>1, <1>2 DEF IInv, EntryIsLast, IsLast, RunningIsCurrent, Current, TypeOK, Asked
<1>6. Revocation' /\ OneQuestion'
    BY <1>1, <1>2 DEF IInv, Revocation, OneQuestion, Pending, TypeOK
<1>7. (RevokedNeverPrompt /\ RejectedOnlyByCancel /\ ScreensMatchPending)'
    BY <1>1, <1>2
    DEF IInv, RevokedNeverPrompt, RejectedOnlyByCancel, ScreensMatchPending, Pending, TypeOK
<1>8. QED
    BY <1>3, <1>4, <1>5, <1>6, <1>7 DEF IInv

(* Cancelling conversations rejects their prompts and marks the tokens of    *)
(* exactly their running approvals.                                          *)
LEMMA TokensMarked ==
    ASSUME IInv, NEW S \in SUBSET Sessions, NEW a \in Approvals, Asked(a)
    PROVE  /\ cancellation[a] \in TokensOf(S) => SessionOf[a] \in S
           /\ a \notin tailed /\ SessionOf[a] \in S
                  => cancellation[a] \in cancelled \cup TokensOf(S)
<1>1. ASSUME cancellation[a] \in TokensOf(S)
      PROVE  SessionOf[a] \in S
    <2>1. PICK s \in S : approvalStates[s] # NoCall
                         /\ cancellation[a] = cancellation[approvalStates[s]]
        BY <1>1 DEF TokensOf
    <2>2. approvalStates[s] \in Approvals /\ IsLast(s, approvalStates[s])
        BY <2>1 DEF IInv, TypeOK, EntryIsLast
    <2>3. QED
        BY <2>1, <2>2, TokenOfOneSession DEF IInv, IsLast
<1>2. ASSUME a \notin tailed, SessionOf[a] \in S
      PROVE  cancellation[a] \in cancelled \cup TokensOf(S)
    BY <1>2 DEF IInv, RunningIsCurrent, Current, TokensOf
<1>3. QED
    BY <1>1, <1>2

(* The cancel inside each of the two callers: Q holds the question that      *)
(* parks in the same step, if any.                                           *)
LEMMA CancelStep ==
    ASSUME IInv, NEW S \in SUBSET Sessions, NEW Q \in SUBSET (Calls \ Approvals),
           CancelEntries(S),
           pc' = [c \in Calls |-> IF c \in Q THEN "parked" ELSE Rejected(S)[c]],
           onScreen' = (onScreen \ PendingOf(S)) \cup Q,
           \A c \in Q : pc[c] = "idle" /\ SessionOf[c] \in S,
           \A c, d \in Q : c = d
    PROVE  IInv'
<1>1. /\ TypeOK /\ Approvals \subseteq Calls
      /\ \A c \in Calls : SessionOf[c] \in Sessions
      /\ \A a \in Approvals : a # NoCall
    BY ElicitationConstants DEF IInv
<1>2. /\ cancelled' = cancelled \cup TokensOf(S)
      /\ approvalStates' = [s \in Sessions |-> IF s \in S THEN NoCall ELSE approvalStates[s]]
      /\ revoked' = revoked \cup InFlight(S)
      /\ UNCHANGED << ahead, cancellation, tailed >>
    BY DEF CancelEntries
<1>3. \A c \in Calls :
          pc'[c] = IF c \in Q THEN "parked"
                   ELSE IF pc[c] = "parked" /\ SessionOf[c] \in S THEN "rejected" ELSE pc[c]
    BY DEF Rejected, PendingOf, Pending
<1>4. Approvals \subseteq Calls /\ \A a \in Approvals : a \notin Q
    BY ElicitationConstants
<1>5. \A a \in Approvals : Asked(a)' <=> Asked(a)
    BY <1>3, <1>4 DEF Asked
<1>6. TokensOf(S) \subseteq Approvals
    BY DEF IInv, TypeOK, TokensOf, EntryIsLast, IsLast, Fresh
<1>7. TypeOK'
    <2>1. pc' \in [Calls -> States]
        BY <1>1 DEF TypeOK, States, Ended, Rejected
    <2>2. onScreen' \subseteq Calls /\ revoked' \subseteq Calls
        BY <1>1, <1>2 DEF TypeOK, InFlight
    <2>3. QED
        BY <2>1, <2>2, <1>1, <1>2, <1>6 DEF TypeOK
<1>8. \A t \in TokensOf(S) : t \in cancelled \/ Asked(t)
    <2> SUFFICES ASSUME NEW t \in TokensOf(S), ~Asked(t) PROVE FALSE
        OBVIOUS
    <2>1. PICK s \in S : approvalStates[s] # NoCall /\ t = cancellation[approvalStates[s]]
        BY DEF TokensOf
    <2>2. QED
        BY <2>1, <1>6 DEF IInv, TypeOK, Fresh
<1>9. Fresh'
    BY <1>2, <1>3, <1>4, <1>5, <1>8 DEF IInv, Fresh, Asked, Ended
<1>10. Chained' /\ OneChain'
    BY <1>2, <1>3, <1>4, <1>5 DEF IInv, Chained, OneChain, TypeOK
<1>11. EntryIsLast'
    <2> SUFFICES ASSUME NEW s \in Sessions, NEW t \in Approvals, approvalStates'[s] = t
                 PROVE  IsLast(s, t)'
        BY DEF EntryIsLast
    <2>1. s \notin S /\ approvalStates[s] = t /\ IsLast(s, t)
        BY <1>1, <1>2 DEF IInv, EntryIsLast
    <2>2. cancellation[t] \notin TokensOf(S)
        BY <2>1, TokensMarked DEF IsLast
    <2>3. QED
        BY <2>1, <2>2, <1>2, <1>5 DEF IsLast
<1>12. RunningIsCurrent'
    <2> SUFFICES ASSUME NEW a \in Approvals, Asked(a), a \notin tailed,
                        cancellation[a] \notin cancelled \cup TokensOf(S)
                 PROVE  Current(a)'
        BY <1>2, <1>5 DEF RunningIsCurrent
    <2>1. Current(a) /\ SessionOf[a] \in Sessions \ S
        BY <1>1, <1>4, TokensMarked DEF IInv, RunningIsCurrent
    <2>2. QED
        BY <2>1, <1>2 DEF Current
<1>13. Revocation'
    <2>1. \A a \in Approvals : pc'[a] = "parked" => cancellation[a] \notin cancelled'
        <3> SUFFICES ASSUME NEW a \in Approvals, pc'[a] = "parked"
                     PROVE  cancellation[a] \notin cancelled'
            OBVIOUS
        <3>1. pc[a] = "parked" /\ SessionOf[a] \notin S
            BY <1>3, <1>4
        <3>2. QED
            BY <3>1, <1>2, TokensMarked DEF IInv, Revocation, Asked
    <2>2. \A a \in Approvals :
              pc'[a] = "deferred" => (a \in revoked' <=> cancellation[a] \in cancelled')
        <3> SUFFICES ASSUME NEW a \in Approvals, pc'[a] = "deferred"
                     PROVE  a \in revoked' <=> cancellation[a] \in cancelled'
            OBVIOUS
        <3>1. pc[a] = "deferred" /\ Asked(a) /\ a \notin tailed /\ a \in Calls
            BY <1>3, <1>4 DEF IInv, Fresh, Asked, Ended
        <3>2. a \in InFlight(S) <=> SessionOf[a] \in S
            BY <3>1 DEF InFlight
        <3>3. QED
            BY <3>1, <3>2, <1>2, TokensMarked DEF IInv, Revocation
    <2>3. \A c \in Calls : pc'[c] = "deferred" => c \in Approvals
        BY <1>3 DEF IInv, Revocation
    <2>4. QED
        BY <2>1, <2>2, <2>3, <1>2 DEF Revocation
<1>14. OneQuestion'
    BY <1>1, <1>3 DEF IInv, OneQuestion, Pending
<1>15. RevokedNeverPrompt'
    <2> SUFFICES ASSUME NEW c \in revoked'
                 PROVE  pc'[c] \in { "deferred", "rejected" }
        BY DEF RevokedNeverPrompt
    <2>1. c \in Calls
        BY <1>2 DEF IInv, TypeOK, InFlight
    <2>2. c \notin Q
        BY <1>2 DEF IInv, RevokedNeverPrompt, InFlight
    <2>3. QED
        BY <2>1, <2>2, <1>2, <1>3 DEF IInv, RevokedNeverPrompt, InFlight
<1>16. RejectedOnlyByCancel' /\ ScreensMatchPending'
    BY <1>2, <1>3 DEF IInv, RejectedOnlyByCancel, ScreensMatchPending, InFlight, PendingOf, Pending
<1>17. QED
    BY <1>7, <1>9, <1>10, <1>11, <1>12, <1>13, <1>14, <1>15, <1>16 DEF IInv

(* Both forms of the cancel are such steps.                                  *)
LEMMA CancelKeeps ==
    ASSUME IInv, NEW S \in SUBSET Sessions, Cancel(S)
    PROVE  IInv'
<1> DEFINE Q == {}
<1>1. /\ CancelEntries(S) /\ onScreen' = (onScreen \ PendingOf(S)) \cup Q
      /\ pc' = [c \in Calls |-> IF c \in Q THEN "parked" ELSE Rejected(S)[c]]
    BY DEF Cancel, Rejected
<1>2. /\ Q \in SUBSET (Calls \ Approvals) /\ \A c, d \in Q : c = d
      /\ \A c \in Q : pc[c] = "idle" /\ SessionOf[c] \in S
    OBVIOUS
<1> HIDE DEF Q
<1>3. QED
    BY <1>1, <1>2, CancelStep

(* So is a question, which parks in the step that supersedes.                *)
LEMMA QuestionStep ==
    ASSUME IInv, NEW q \in Calls \ Approvals, AskQuestion(q)
    PROVE  IInv'
<1> DEFINE S == { SessionOf[q] }
           Q == { q }
<1>1. S \in SUBSET Sessions /\ Q \in SUBSET (Calls \ Approvals)
    BY ElicitationConstants
<1>2. /\ CancelEntries(S) /\ onScreen' = (onScreen \ PendingOf(S)) \cup Q
      /\ pc' = [c \in Calls |-> IF c \in Q THEN "parked" ELSE Rejected(S)[c]]
      /\ \A c \in Q : pc[c] = "idle" /\ SessionOf[c] \in S
      /\ \A c, d \in Q : c = d
    BY DEF AskQuestion, Rejected
<1>3. QED
    BY <1>1, <1>2, CancelStep

-----------------------------------------------------------------------------
(* The tail of a settled approval hands its chain on.                        *)
LEMMA TailStep ==
    ASSUME IInv, NEW a \in Approvals, TailSettles(a)
    PROVE  IInv'
<1> DEFINE next == NextInChain(a)
           parks == { b \in next : cancellation[b] \notin cancelled }
<1>1. /\ TypeOK /\ Approvals \subseteq Calls
      /\ \A b \in Approvals : b # NoCall /\ SessionOf[b] \in Sessions
    BY ElicitationConstants DEF IInv
<1>2. /\ pc[a] \in Ended /\ a \notin tailed /\ tailed' = tailed \cup {a}
      /\ approvalStates' = [s \in Sessions |->
                              IF approvalStates[s] = a THEN NoCall ELSE approvalStates[s]]
      /\ pc' = [c \in Calls |-> IF c \in parks THEN "parked"
                                ELSE IF c \in next THEN "rejected" ELSE pc[c]]
      /\ onScreen' = onScreen \cup parks
      /\ UNCHANGED << ahead, cancellation, cancelled, revoked >>
    BY DEF TailSettles, EntriesAfter
<1>3. /\ next \subseteq Approvals /\ parks \subseteq next
      /\ \A b \in next : pc[b] = "deferred" /\ ahead[b] = ahead[a] \cup {a}
    BY DEF NextInChain
<1>4. /\ Asked(a) /\ ahead[a] \subseteq tailed /\ a \notin next
    BY <1>2, <1>3 DEF IInv, Chained, Asked, Ended
<1>5. \A b \in Calls : Asked(b)' <=> Asked(b)
    BY <1>2, <1>3, <1>1 DEF Asked
<1>6. TypeOK'
    BY <1>1, <1>2, <1>3 DEF TypeOK, States, Ended
<1>7. Fresh'
    BY <1>1, <1>2, <1>3, <1>4, <1>5 DEF IInv, Fresh, Asked, Ended
<1>8. Chained' /\ OneChain'
    <2>1. OneChain'
        BY <1>1, <1>2, <1>5 DEF IInv, OneChain
    <2>2. ASSUME NEW b \in Approvals, pc'[b] \notin { "idle", "deferred" }
          PROVE  ahead[b] \subseteq tailed'
        <3>1. CASE b \in next
            BY <3>1, <1>2, <1>3, <1>4
        <3>2. CASE b \notin next
            BY <3>2, <2>2, <1>1, <1>2, <1>3 DEF IInv, Chained
        <3>3. QED
            BY <3>1, <3>2
    <2>3. \A b \in Approvals : ahead[b] \subseteq Calls
        BY <1>1 DEF TypeOK
    <2>4. Chained'
        BY <2>2, <2>3, <1>1, <1>2, <1>5 DEF IInv, Chained
    <2>5. QED
        BY <2>1, <2>4
<1>9. EntryIsLast'
    BY <1>1, <1>2, <1>5 DEF IInv, EntryIsLast, IsLast
<1>10. RunningIsCurrent'
    <2> SUFFICES ASSUME NEW b \in Approvals, Asked(b), b \notin tailed, b # a,
                        cancellation[b] \notin cancelled
                 PROVE  Current(b)'
        BY <1>1, <1>2, <1>5 DEF RunningIsCurrent
    <2>1. Current(b)
        BY DEF IInv, RunningIsCurrent
    <2>2. approvalStates[SessionOf[b]] # a
        BY <2>1, <1>1, <1>4 DEF IInv, EntryIsLast, IsLast, Current
    <2>3. QED
        BY <2>1, <2>2, <1>1, <1>2 DEF Current
<1>11. Revocation'
    BY <1>1, <1>2, <1>3 DEF IInv, Revocation
<1>12. OneQuestion'
    BY <1>1, <1>2, <1>3 DEF IInv, OneQuestion, Pending
<1>13. RevokedNeverPrompt' /\ RejectedOnlyByCancel'
    BY <1>1, <1>2, <1>3 DEF IInv, Revocation, RevokedNeverPrompt, RejectedOnlyByCancel, TypeOK
<1>14. ScreensMatchPending'
    BY <1>1, <1>2, <1>3 DEF IInv, ScreensMatchPending, Pending
<1>15. QED
    BY <1>6, <1>7, <1>8, <1>9, <1>10, <1>11, <1>12, <1>13, <1>14 DEF IInv

-----------------------------------------------------------------------------
(* Every step keeps the invariant.                                           *)
LEMMA StepInvariant == IInv /\ [Next]_vars => IInv'
<1> SUFFICES ASSUME IInv, [Next]_vars PROVE IInv'
    OBVIOUS
<1>1. CASE \E a \in Approvals : AskFirstApproval(a) \/ AskNextApproval(a) \/ TailSettles(a)
    BY <1>1, FirstApprovalStep, NextApprovalStep, TailStep
<1>2. CASE \E c \in Calls \ Approvals : AskQuestion(c)
    BY <1>2, QuestionStep
<1>3. CASE \E c \in Calls : Answer(c) \/ TimeOut(c)
    BY <1>3, PromptEndStep
<1>4. CASE \E s \in Sessions : CancelForSession(s)
    BY <1>4, CancelKeeps DEF CancelForSession
<1>5. CASE CancelAll
    BY <1>5, CancelKeeps DEF CancelAll
<1>6. CASE UNCHANGED vars
    BY <1>6
    DEF vars, IInv, TypeOK, Fresh, Chained, OneChain, EntryIsLast, IsLast, RunningIsCurrent,
        Current, Revocation, OneQuestion, RevokedNeverPrompt, RejectedOnlyByCancel,
        ScreensMatchPending, Pending, Asked
<1>7. QED
    BY <1>1, <1>2, <1>3, <1>4, <1>5, <1>6 DEF Next

(* The inductive invariant holds of every reachable state.                   *)
THEOREM ElicitationInvariant == Spec => []IInv
BY InitInvariant, StepInvariant, PTL DEF Spec

(* Every variable of the registry keeps its type.                            *)
THEOREM ElicitationTypes == Spec => []TypeOK
<1>1. IInv => TypeOK
    BY DEF IInv
<1>2. QED
    BY <1>1, ElicitationInvariant, PTL

(* Approvals of a conversation are shown one at a time, and so are           *)
(* questions, for any number of parallel tool calls.                         *)
THEOREM PromptsSerialized == Spec => []OnePromptOfAKind
BY InvariantOnePrompt, ElicitationInvariant, PTL

(* A call in flight at a cancel of its conversation never prompts again.     *)
THEOREM CancelIsFinal == Spec => []RevokedNeverPrompt
<1>1. IInv => RevokedNeverPrompt
    BY DEF IInv
<1>2. QED
    BY <1>1, ElicitationInvariant, PTL

(* A promise the gate reads as a deny was cancelled with its conversation.   *)
THEOREM NoSpuriousDeny == Spec => []RejectedOnlyByCancel
<1>1. IInv => RejectedOnlyByCancel
    BY DEF IInv
<1>2. QED
    BY <1>1, ElicitationInvariant, PTL

(* The surfaces show exactly the prompts that can still be answered.         *)
THEOREM ScreensCorrect == Spec => []ScreensMatchPending
<1>1. IInv => ScreensMatchPending
    BY DEF IInv
<1>2. QED
    BY <1>1, ElicitationInvariant, PTL
=============================================================================
