---------------------------- MODULE WorkflowEngine ----------------------------
(* One workflow from WorkflowStart to the summary its origin reads, across   *)
(* stops, resumes and restarts of the daemon: the engine that runs a DAG of  *)
(* node turns (plugins/subagent/lib/workflow.mjs and dag.mjs), its journal   *)
(* on disk, its row and its result in the store (brainDelegationStore.ts)    *)
(* and the claim of an interrupted row at boot (brainService.ts).            *)
(*                                                                           *)
(* A task is one execution of runNode: a node, and the run that created the  *)
(* state object the execution holds.  A resume replaces the objects of       *)
(* unfinished nodes, so the tasks of an earlier run keep writing to objects  *)
(* that nobody reads: they are stale.                                        *)
EXTENDS Naturals, FiniteSets

CONSTANTS
    Node,
    MaxRun,        \* bound on the runs of the workflow: 0 .. MaxRun
    MaxBoots,      \* bound on the boots of a behaviour
    MaxAttempts    \* MAX_WORKFLOW_RESUME_ATTEMPTS

ASSUME WorkflowConstants ==
    /\ Node # {} /\ IsFiniteSet(Node)
    /\ MaxRun \in Nat /\ MaxBoots \in Nat \ {0} /\ MaxAttempts \in Nat

Runs == 0 .. MaxRun
Tasks == Node \X Runs

VARIABLES
    (* the declared graph, in the journal and the row as well *)
    nodes, deps,
    (* in the process *)
    up, boot,
    engine,      \* the workflow object: none, listed in the map, or dropped from it
    state,       \* status in a node's current state object
    gen,         \* the run that created that object
    session,     \* nodes whose current object knows its child session
    status, finished, background, run,
    broken,      \* deliveryFailure
    at,          \* where a task stands
    stopped,     \* tasks whose child was told to stop
    summary,     \* where the outcome of a run stands on its way to the origin
    waiter,      \* runs whose tool call is blocked on the outcome
    claimed,     \* this boot claimed the row and has not decided about it yet
    (* on disk and in the database *)
    journal, row, attempt, inbox,
    (* history *)
    told,        \* runs whose outcome the origin was shown
    overlap      \* a run was resumed while an earlier summary was on its way

graph == << nodes, deps >>
objects == << state, gen, session >>
flags == << status, finished, background, run, broken >>
children == << at, stopped >>
outcome == << summary, waiter >>
disk == << journal, row, attempt, inbox >>
history == << told, overlap >>
vars == << graph, up, boot, engine, objects, flags, children, outcome, claimed,
           disk, history >>

Active == { "access", "spawn", "live" }
NoTasks == [t \in Tasks |-> "none"]
NoJournal == [on |-> FALSE, done |-> {}, ran |-> {}, run |-> 0]

(* The variables by their type; the run in the journal is one that was begun.*)
GraphOK == nodes \subseteq Node /\ deps \in [Node -> SUBSET Node]
SwitchesOK ==
    /\ up \in BOOLEAN /\ finished \in BOOLEAN /\ background \in BOOLEAN
    /\ broken \in BOOLEAN /\ claimed \in BOOLEAN /\ overlap \in BOOLEAN
    /\ engine \in { "none", "listed", "dropped" }
    /\ status \in { "running", "done", "error", "cancelled" }
CountersOK == boot \in 1 .. MaxBoots /\ run \in Runs /\ attempt \in 0 .. MaxBoots
ObjectsOK ==
    /\ state \in [Node -> { "pending", "running", "done", "error" }]
    /\ gen \in [Node -> Runs] /\ session \subseteq Node
    /\ at \in [Tasks -> Active \cup {"none"}] /\ stopped \subseteq Tasks
OutcomeOK ==
    /\ summary \in [Runs -> { "none", "waiting", "writing", "sending" }]
    /\ waiter \subseteq Runs /\ told \subseteq Runs
    /\ inbox \in [run : Runs, at : { "none", "pending", "acknowledged" }]
DiskOK ==
    /\ journal \in [on : BOOLEAN, done : SUBSET Node, ran : SUBSET Node, run : Runs]
    /\ row \in [status : { "none", "running", "done", "error", "cancelled" },
                done : SUBSET Node]
(* Every variable of the engine, its disk and its rows keeps its type.       *)
TypeOK == GraphOK /\ SwitchesOK /\ CountersOK /\ ObjectsOK /\ OutcomeOK /\ DiskOK
-----------------------------------------------------------------------------
(* The graph (dag.mjs)                                                       *)

(* hasCycle: a set of nodes each of which waits for another one of the set.  *)
HasCycle(S, d) ==
    \E C \in SUBSET S : C # {} /\ \A n \in C : \E m \in C : m \in d[n]

(* validateWorkflowNodes and mergeWorkflowNodes: new nodes S may wait, as d  *)
(* says, for old and new ones, and the whole graph stays acyclic.            *)
Extend(S, d) ==
    /\ \A n \in S : d[n] \subseteq (nodes \cup S) \ {n}
    /\ nodes' = nodes \cup S
    /\ deps' = [n \in Node |-> IF n \in S THEN d[n] ELSE deps[n]]
    /\ ~HasCycle(nodes', deps')

DoneIn(st) == { n \in nodes' : st[n] = "done" }
(* mutant: a dependency that failed counts as settled *)
ReadyWhenSettled(st) ==
    { n \in nodes' : st[n] = "pending"
                     /\ \A m \in deps'[n] : st[m] \in {"done", "error"} }
(* readyNodeIds *)
ReadyIn(st) == { n \in nodes' : st[n] = "pending" /\ deps'[n] \subseteq DoneIn(st) }
-----------------------------------------------------------------------------
(* The engine                                                                *)

Current(t) == gen[t[1]] = t[2]
Unfinished == { n \in nodes : state[n] # "done" }

Snapshot(s, st) == row' = [status |-> s, done |-> DoneIn(st)]
(* mutants: the journal counts the next run; it is written before the status *)
JournalledAhead(st) ==
    [on |-> TRUE, done |-> DoneIn(st), ran |-> session', run |-> run' + 1]
JournalledEarly(st) ==
    [on |-> TRUE, done |-> DoneIn(state), ran |-> session', run |-> run']
Journalled(st) ==
    [on |-> TRUE, done |-> DoneIn(st), ran |-> session', run |-> run']

(* tick with maybeFinish, and when nothing is left to run the settlement of  *)
(* the run: its status, the terminal snapshot, the end of the journal.       *)
(* States st and tasks ts are what the caller has changed before the tick.   *)
EndStatus(st) ==
    IF broken' \/ \E n \in nodes' : st[n] = "error" THEN "error" ELSE "done"
Tick(st, ts) ==
    LET ready == ReadyIn(st)
        idle == ready = {} /\ \A n \in nodes' : st[n] # "running"
    IN  /\ state' = [n \in Node |-> IF n \in ready THEN "running" ELSE st[n]]
        /\ at' = [t \in Tasks |-> IF t[1] \in ready /\ t[2] = gen'[t[1]]
                                  THEN "access" ELSE ts[t]]
        /\ finished' = idle
        /\ status' = IF idle THEN EndStatus(st) ELSE "running"
        /\ journal' = IF idle THEN NoJournal ELSE Journalled(st)
        /\ Snapshot(status', st)
        /\ summary' = [summary EXCEPT ![run'] =
                          IF ~idle THEN "waiting"
                          ELSE IF broken' THEN "sending" ELSE "writing"]

(* mutant: a node that ends does not tick *)
WriteOnly(st, ts) ==
    /\ state' = st /\ at' = ts
    /\ journal' = Journalled(st) /\ Snapshot(status, st)
    /\ UNCHANGED << finished, status, summary >>
(* A tick of a run that is over does nothing, but the journal and the row    *)
(* are written before it.                                                    *)
TickIfRunning(st, ts) ==
    IF finished
    THEN /\ state' = st /\ at' = ts
         /\ journal' = Journalled(st) /\ Snapshot(status, st)
         /\ UNCHANGED << finished, status, summary >>
    ELSE Tick(st, ts)

(* execute of WorkflowStart: a run in the background, or one that blocks.    *)
Start(S, d, async) ==
    /\ up /\ engine = "none" /\ row.status = "none"
    /\ Extend(S, d)
    /\ engine' = "listed" /\ background' = async
    /\ waiter' = IF async THEN {} ELSE {0}
    /\ UNCHANGED << gen, session, run, broken, stopped >>
    /\ Tick(state, at)
    /\ UNCHANGED << up, boot, claimed, attempt, inbox, history >>

(* addNodesFromSession *)
AddNodes(S, d) ==
    /\ engine = "listed" /\ ~finished
    /\ Extend(S, d)
    /\ gen' = [n \in Node |-> IF n \in S THEN run ELSE gen[n]]
    /\ UNCHANGED << session, background, run, broken, stopped >>
    /\ Tick([n \in Node |-> IF n \in S THEN "pending" ELSE state[n]], at)
    /\ UNCHANGED << up, boot, engine, waiter, claimed, attempt, inbox, history >>

(* The status a task writes: it shows only in the current object.            *)
Write(t, s) == IF Current(t) THEN [state EXCEPT ![t[1]] = s] ELSE state

(* runNode after buildNodeAccess: the fence, then the turn of the child.     *)
AccessReady(t) ==
    /\ at[t] = "access"
    /\ at' = [at EXCEPT ![t] = IF finished THEN "none" ELSE "spawn"]
    /\ state' = IF finished THEN Write(t, "error") ELSE state
    /\ UNCHANGED << graph, gen, session >>
    /\ IF finished THEN row' = row ELSE Snapshot(status, state)
    /\ UNCHANGED << up, boot, engine, flags, stopped, outcome, claimed, journal,
                    attempt, inbox, history >>

(* buildNodeAccess throws; for a node with dependencies that may be the      *)
(* failure to prepare the complete result of one.                            *)
AccessFails(t, reference) ==
    /\ at[t] = "access" /\ (reference => deps[t[1]] # {})
    /\ broken' = (broken \/ reference)
    /\ UNCHANGED << graph, gen, session, run >>
    /\ TickIfRunning(Write(t, "error"), [at EXCEPT ![t] = "none"])
    /\ UNCHANGED << up, boot, engine, background, stopped, waiter, claimed, attempt,
                    inbox, history >>

(* mutant: a session that comes late is not stopped *)
SessionNoted(t) ==
    /\ at[t] = "spawn" /\ at' = [at EXCEPT ![t] = "live"]
    /\ session' = IF Current(t) THEN session \cup {t[1]} ELSE session
    /\ UNCHANGED << graph, state, gen, flags >>
    /\ journal' = Journalled(state) /\ Snapshot(status, state)
    /\ UNCHANGED << up, boot, engine, stopped, outcome, claimed, attempt, inbox,
                    history >>
(* onEvent of type session: the id of the child, stopped when it comes after *)
(* the end of the run.                                                       *)
SessionReported(t) ==
    /\ at[t] = "spawn" /\ at' = [at EXCEPT ![t] = "live"]
    /\ session' = IF Current(t) THEN session \cup {t[1]} ELSE session
    /\ stopped' = IF finished THEN stopped \cup {t} ELSE stopped
    /\ UNCHANGED << graph, state, gen, flags >>
    /\ journal' = Journalled(state) /\ Snapshot(status, state)
    /\ UNCHANGED << up, boot, engine, outcome, claimed, attempt, inbox, history >>

(* The turn of a child returns an answer, or an error.                       *)
TurnEnds(t, answered) ==
    /\ at[t] \in IF answered THEN {"live"} ELSE {"spawn", "live"}
    /\ UNCHANGED << graph, gen, session, run, broken >>
    /\ TickIfRunning(Write(t, IF answered THEN "done" ELSE "error"),
                     [at EXCEPT ![t] = "none"])
    /\ stopped' = stopped \ {t}
    /\ UNCHANGED << up, boot, engine, background, waiter, claimed, attempt, inbox,
                    history >>

(* cancelWorkflow and the settlement that follows it.                        *)
Cancel ==
    /\ engine = "listed" /\ ~finished /\ finished' = TRUE
    /\ status' = IF broken THEN "error" ELSE "cancelled"
    /\ summary' = [summary EXCEPT ![run] = IF broken THEN "sending" ELSE "writing"]
    /\ journal' = NoJournal
    /\ UNCHANGED << graph, objects, background, run, broken, at >>
    /\ Snapshot(status', state)
    /\ UNCHANGED << up, boot, waiter, claimed, attempt, inbox, history >>

ChildrenKnown(W) == { t \in W : Current(t) /\ state[t[1]] = "running" }

(* execute of WorkflowStop: the run, then the children whose session it has. *)
Stop ==
    /\ Cancel /\ engine' = engine
    /\ stopped' = stopped \cup ChildrenKnown({ t \in Tasks : t[1] \in session
                                                        /\ at[t] \in {"spawn", "live"} })

(* cancelForSession: the turn that blocks on the workflow is aborted, and    *)
(* its running children with it.                                             *)
Abort ==
    /\ ~background /\ Cancel /\ engine' = engine
    /\ stopped' = stopped \cup ChildrenKnown({ t \in Tasks : at[t] = "live" })

(* plugin.reload.before: the new instance does not know the workflow.        *)
Reload == Cancel /\ engine' = "dropped" /\ stopped' = stopped

(* detachForeground: the blocked call returns, the run goes on.              *)
Detach ==
    /\ engine = "listed" /\ ~finished /\ ~background
    /\ background' = TRUE /\ waiter' = waiter \ {run}
    /\ UNCHANGED << graph, up, boot, engine, objects, status, finished, run, broken,
                    children, summary, claimed, disk, history >>

(* execute of WorkflowResume: fresh objects for the unfinished nodes, and a  *)
(* run of their own.                                                         *)
Resume(async) ==
    /\ engine = "listed" /\ finished /\ Unfinished # {} /\ run < MaxRun
    /\ run' = run + 1
    /\ gen' = [n \in Node |-> IF n \in Unfinished THEN run' ELSE gen[n]]
    /\ session' = session \ Unfinished
    /\ background' = async
    /\ waiter' = IF async THEN waiter ELSE waiter \cup {run'}
    /\ overlap' = (overlap \/ \E r \in Runs : summary[r] # "none")
    /\ UNCHANGED << graph, broken, stopped >>
    /\ Tick([n \in Node |-> IF n \in Unfinished THEN "pending" ELSE state[n]], at)
    /\ UNCHANGED << up, boot, engine, claimed, attempt, inbox, told >>
-----------------------------------------------------------------------------
(* The outcome of a run                                                      *)

(* markWorkflowFailure *)
MarkFailure == /\ status' = "error" /\ finished' = TRUE
               /\ Snapshot("error", state)

(* enqueueWorkflowResult: the row of a result carries the id of its run; the *)
(* same id again changes nothing, another one takes the row over.            *)
Accept(r) ==
    inbox' = IF inbox.at # "none" /\ inbox.run = r THEN inbox
             ELSE [run |-> r, at |-> "pending"]

(* mutant: the failure of a summary is not delivered *)
SummarisedOrDropped(r, written) ==
    /\ summary[r] = "writing"
    /\ summary' = [summary EXCEPT ![r] = IF written /\ r \notin waiter /\ background
                                         THEN "sending" ELSE "none"]
    /\ told' = IF written /\ r \in waiter THEN told \cup {r} ELSE told
    /\ waiter' = waiter \ {r}
    /\ UNCHANGED << graph, objects, background, run, broken, children >>
    /\ IF written THEN UNCHANGED << status, finished, row >> ELSE MarkFailure
    /\ UNCHANGED << up, boot, engine, claimed, journal, attempt, inbox, overlap >>

(* summarize resolves, or fails to write a long result: the call that blocks *)
(* returns, or the delivery of a background run begins.                      *)
Summarised(r, written) ==
    /\ summary[r] = "writing"
    /\ summary' = [summary EXCEPT ![r] = IF r \notin waiter /\ background
                                         THEN "sending" ELSE "none"]
    /\ told' = IF r \in waiter THEN told \cup {r} ELSE told
    /\ waiter' = waiter \ {r}
    /\ UNCHANGED << graph, objects, background, run, broken, children >>
    /\ IF written THEN UNCHANGED << status, finished, row >> ELSE MarkFailure
    /\ UNCHANGED << up, boot, engine, claimed, journal, attempt, inbox, overlap >>

(* deliverCompletion after it has stored a long summary, or failed to; a     *)
(* status that is not terminal is refused by normalizeWorkflowCompletion.    *)
Sent(r, stored) ==
    /\ summary[r] = "sending"
    /\ summary' = [summary EXCEPT ![r] = "none"]
    /\ UNCHANGED << graph, objects, background, run, broken, children >>
    /\ IF stored THEN UNCHANGED << status, finished, row >> ELSE MarkFailure
    /\ IF r \in waiter
       THEN /\ told' = told \cup {r} /\ inbox' = inbox
       ELSE /\ told' = told
            /\ IF status' = "running" THEN inbox' = inbox ELSE Accept(r)
    /\ waiter' = waiter \ {r}
    /\ UNCHANGED << up, boot, engine, claimed, journal, attempt, overlap >>

(* A turn of the origin takes the result in.                                 *)
Acknowledge ==
    /\ up /\ inbox.at = "pending"
    /\ inbox' = [inbox EXCEPT !.at = "acknowledged"]
    /\ told' = told \cup {inbox.run}
    /\ UNCHANGED << graph, up, boot, engine, objects, flags, children, outcome,
                    claimed, journal, row, attempt, overlap >>
-----------------------------------------------------------------------------
(* Restarts                                                                  *)

NothingHeld ==
    /\ engine' = "none" /\ at' = NoTasks /\ stopped' = {}
    /\ summary' = [r \in Runs |-> "none"] /\ waiter' = {}
    /\ state' = [n \in Node |-> "pending"] /\ gen' = [n \in Node |-> 0]
    /\ session' = {} /\ status' = "running" /\ finished' = FALSE
    /\ background' = FALSE /\ run' = 0 /\ broken' = FALSE

Crash ==
    /\ up /\ up' = FALSE /\ boot < MaxBoots /\ row.status # "none"
    /\ NothingHeld /\ claimed' = FALSE
    /\ UNCHANGED << graph, boot, disk, history >>

(* claimRecoverableWorkflows *)
Boot ==
    /\ ~up /\ up' = TRUE /\ boot' = boot + 1
    /\ claimed' = (row.status = "running")
    /\ attempt' = IF claimed' THEN attempt + 1 ELSE attempt
    /\ UNCHANGED << graph, engine, objects, flags, children, outcome, journal, row,
                    inbox, history >>

(* mutant: nodes that were done are run again *)
BootRepeats ==
    /\ claimed /\ attempt <= MaxAttempts /\ journal.on /\ journal.run < MaxRun
    /\ claimed' = FALSE /\ attempt' = 0
    /\ engine' = "listed" /\ background' = TRUE /\ run' = journal.run + 1
    /\ gen' = [n \in Node |-> run']
    /\ session' = journal.ran
    /\ UNCHANGED << graph, broken, stopped >>
    /\ Tick([n \in Node |-> "pending"], at)
    /\ UNCHANGED << up, boot, waiter, inbox, history >>

(* resumeInterrupted, and clearWorkflowClaimAttempts after it.               *)
BootResumes ==
    /\ claimed /\ attempt <= MaxAttempts /\ journal.on /\ journal.run < MaxRun
    /\ claimed' = FALSE /\ attempt' = 0
    /\ engine' = "listed" /\ background' = TRUE /\ run' = journal.run + 1
    /\ gen' = [n \in Node |-> run']
    /\ session' = journal.ran
    /\ UNCHANGED << graph, broken, stopped >>
    /\ Tick([n \in Node |-> IF n \in journal.done THEN "done" ELSE "pending"], at)
    /\ UNCHANGED << up, boot, waiter, inbox, history >>

(* mutant: the row is left as it was claimed *)
BootForgets(refused) ==
    /\ claimed /\ claimed' = FALSE
    /\ journal' = IF refused THEN NoJournal ELSE journal
    /\ Accept(0)
    /\ UNCHANGED << graph, up, boot, engine, objects, flags, children, outcome,
                    row, attempt, history >>

(* resumeClaimedWorkflow when the row was claimed too often, there is no     *)
(* usable journal, its authority is refused (the journal is deleted) or no   *)
(* engine is there to take it: the row and a result say so.                  *)
BootGivesUp(refused) ==
    /\ claimed /\ claimed' = FALSE
    /\ journal' = IF refused THEN NoJournal ELSE journal
    /\ row' = [row EXCEPT !.status = "cancelled"]
    /\ Accept(0)
    /\ UNCHANGED << graph, up, boot, engine, objects, flags, children, outcome,
                    attempt, history >>
-----------------------------------------------------------------------------
Init ==
    /\ nodes = {} /\ deps = [n \in Node |-> {}]
    /\ up = TRUE /\ boot = 1 /\ engine = "none"
    /\ state = [n \in Node |-> "pending"] /\ gen = [n \in Node |-> 0] /\ session = {}
    /\ status = "running" /\ finished = FALSE /\ background = FALSE
    /\ run = 0 /\ broken = FALSE
    /\ at = NoTasks /\ stopped = {}
    /\ summary = [r \in Runs |-> "none"] /\ waiter = {} /\ claimed = FALSE
    /\ journal = NoJournal /\ row = [status |-> "none", done |-> {}]
    /\ attempt = 0 /\ inbox = [run |-> 0, at |-> "none"]
    /\ told = {} /\ overlap = FALSE

(* What the tools and the controls of the plugin are called to do.           *)
Request ==
    \/ \E S \in (SUBSET (Node \ nodes)) \ {{}} : \E d \in [S -> SUBSET Node] :
          AddNodes(S, d) \/ \E async \in BOOLEAN : Start(S, d, async)
    \/ Stop \/ Abort \/ Reload \/ Detach
    \/ \E async \in BOOLEAN : Resume(async)

(* What the process does of itself: the continuations of its promises.       *)
Continuation ==
    \/ \E t \in Tasks :
          \/ AccessReady(t) \/ SessionReported(t)
          \/ \E b \in BOOLEAN : AccessFails(t, b) \/ TurnEnds(t, b)
    \/ \E r \in Runs, ok \in BOOLEAN : Summarised(r, ok) \/ Sent(r, ok)
    \/ Acknowledge

Restart == Boot \/ BootResumes \/ \E b \in BOOLEAN : BootGivesUp(b)

Next == Request \/ Continuation \/ Restart \/ Crash

Spec == Init /\ [][Next]_vars

(* The process goes on as long as a promise can settle, children end, and a  *)
(* daemon that went down is started again and recovers.                      *)
FairSpec == Spec /\ WF_vars(Continuation) /\ WF_vars(Restart)
-----------------------------------------------------------------------------
(* A node that runs or has run was given the results of all it waits for,    *)
(* whatever was resumed, restarted or added in between.                      *)
AfterDependencies ==
    \A n \in nodes : state[n] \in {"running", "done"} =>
        \A d \in deps[n] : state[d] = "done"

(* An engine that is not finished has a node that runs, and each node that   *)
(* runs has one task whose continuation will tick the engine again: no order *)
(* of ends, failures and expansions leaves it asleep or launches twice.      *)
EngineAwake ==
    engine = "listed" /\ ~finished =>
        /\ \E n \in nodes : state[n] = "running"
        /\ \A n \in nodes : state[n] = "running" <=> at[<< n, gen[n] >>] # "none"

(* While a workflow is unfinished, what a crash would leave on disk knows    *)
(* every node that is done, and the run a resume has to count on from.       *)
JournalCovers ==
    engine = "listed" /\ ~finished =>
        /\ journal.on /\ journal.run = run
        /\ journal.done = { n \in nodes : state[n] = "done" }
        /\ row.status = "running"

(* After a stop every child of the run was told to stop, as soon as its      *)
(* session is known, as long as nobody resumes the workflow.                 *)
StopReachesAll ==
    engine = "listed" /\ finished /\ status = "cancelled" =>
        \A t \in Tasks : at[t] = "live" /\ Current(t) => t \in stopped

(* The engine keeps the promise of DagRun in the row it publishes.           *)
Promise == INSTANCE DagRun WITH
    done <- row.done, verdict <- row.status,
    failed <- { n \in nodes : state[n] = "error" },
    working <- { n \in nodes : state[n] = "running" }
ImplementsDagRun == Promise!Spec

(* A row that says a workflow is running stops saying so.                    *)
RowSettles == row.status = "running" ~> row.status # "running"

(* The origin hears of every run, unless a later one replaced it, the        *)
(* process died, or it resumed the workflow while a summary was on its way.  *)
EveryRunReported ==
    \A r \in Runs : summary[r] # "none" ~>
        (r \in told \/ run > r \/ engine = "none" \/ overlap)
=============================================================================
