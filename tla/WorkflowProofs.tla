---------------------------- MODULE WorkflowProofs ----------------------------
(* What holds of a workflow of any size, over any number of runs and boots.  *)
EXTENDS WorkflowEngine, TLAPS

-----------------------------------------------------------------------------
(* The inductive invariant                                                   *)

Where == Active \cup {"none"}
Status == { "pending", "running", "done", "error" }
Done == { n \in nodes : state[n] = "done" }
Fits(N, st, ts, g) == \A n \in N : st[n] = "running" <=> ts[<< n, g[n] >>] # "none"

(* A process that has no workflow object holds nothing of it.                *)
Empty ==
    engine = "none" =>
        /\ at = NoTasks /\ state = [n \in Node |-> "pending"]
        /\ gen = [n \in Node |-> 0] /\ run = 0 /\ ~broken /\ ~finished
        /\ summary = [r \in Runs |-> "none"] /\ stopped = {}

(* Where a row, a claim and an engine can be at the same time.               *)
Phases ==
    /\ row.status = "none" => engine = "none" /\ nodes = {} /\ row.done = {} /\ ~journal.on
    /\ claimed => engine = "none" /\ row.status = "running"
    /\ ~up => engine = "none" /\ ~claimed
    /\ up \/ boot < MaxBoots
    /\ attempt <= boot

(* The graph is closed and has no cycle.                                     *)
Graph ==
    /\ \A n \in nodes : deps[n] \subseteq nodes
    /\ ~HasCycle(nodes, deps)

(* Tasks belong to nodes of the graph and to runs that were begun.           *)
Numbered ==
    /\ \A t \in Tasks : at[t] # "none" => t[1] \in nodes /\ t[2] <= run
    /\ \A n \in Node : gen[n] <= run

(* In every run, over or not, the nodes that run are those with a task.      *)
Manned == engine # "none" => Fits(nodes, state, at, gen)

(* A run goes on as long as its status says so; then a node runs, and none   *)
(* is left that could.                                                       *)
Driven ==
    /\ engine # "none" => (status = "running" <=> ~finished)
    /\ engine = "dropped" => finished
    /\ engine = "listed" /\ ~finished =>
          /\ \E n \in nodes : state[n] = "running"
          /\ \A n \in nodes : state[n] = "pending" => ~(deps[n] \subseteq Done)

(* The journal and the row know what is done.                                *)
Published ==
    /\ engine # "none" => row.status = status /\ row.done = Done
    /\ journal.on => journal.done = row.done
    /\ engine = "listed" /\ ~finished => journal.on /\ journal.run = run

(* What is done or running, and what was published as done, had all it       *)
(* waits for.                                                                *)
Fed ==
    /\ \A n \in nodes : state[n] \in {"running", "done"} =>
           \A d \in deps[n] : state[d] = "done"
    /\ row.done \subseteq nodes
    /\ \A n \in row.done : deps[n] \subseteq row.done

(* A child that is live has told its session, and was stopped if the run was.*)
Told ==
    /\ \A t \in Tasks : at[t] = "live" /\ Current(t) => t[1] \in session
    /\ StopReachesAll

IInv ==
    /\ TypeOK /\ Empty /\ Phases /\ Graph /\ Numbered /\ Manned /\ Driven
    /\ Published /\ Fed /\ Told

-----------------------------------------------------------------------------
(* What a tick does                                                          *)

Ran(st) ==
    /\ state' \in [Node -> Status] /\ at' \in [Tasks -> Where]
    /\ finished' \in BOOLEAN /\ status' \in { "running", "done", "error" }
    /\ summary' \in [Runs -> { "none", "waiting", "writing", "sending" }] /\ DiskOK'
    /\ Fits(nodes', state', at', gen')
    /\ \A n \in Node : (state'[n] = "done" <=> st[n] = "done")
                       /\ (state'[n] = "error" <=> st[n] = "error")
    /\ \A n \in nodes' : state'[n] = "running" <=> st[n] = "running" \/ n \in ReadyIn(st)
    /\ status' = "running" <=> ~finished'
    /\ IF finished'
       THEN /\ \A n \in nodes' : state'[n] # "running" /\ n \notin ReadyIn(st)
            /\ status' = "done" => \A n \in nodes' : state'[n] # "error"
       ELSE \E n \in nodes' : state'[n] = "running"
    /\ DoneIn(st) = Done'
    /\ row'.status = status' /\ row'.done = Done' /\ (journal'.on => journal'.done = Done')
    /\ ~finished' => journal'.on /\ journal'.run = run'

LEMMA Ticked ==
    ASSUME NEW st \in [Node -> Status], NEW ts \in [Tasks -> Where],
           nodes' \subseteq Node, gen' \in [Node -> Runs], run' \in Runs,
           session' \subseteq Node, broken' \in BOOLEAN,
           summary \in [Runs -> { "none", "waiting", "writing", "sending" }],
           Fits(nodes', st, ts, gen'), Tick(st, ts)
    PROVE  /\ Ran(st)
           /\ \A t \in Tasks : at'[t] = ts[t] \/ (at'[t] = "access" /\ t[1] \in nodes'
                                                  /\ t[2] = gen'[t[1]])
<1> DEFINE ready == ReadyIn(st)
           idle == ready = {} /\ \A n \in nodes' : st[n] # "running"
<1>1. ready \subseteq nodes' /\ \A n \in ready : st[n] = "pending"
    BY DEF ReadyIn
<1>2. /\ state' = [n \in Node |-> IF n \in ready THEN "running" ELSE st[n]]
      /\ at' = [t \in Tasks |-> IF t[1] \in ready /\ t[2] = gen'[t[1]]
                                THEN "access" ELSE ts[t]]
      /\ finished' = idle
      /\ status' = IF idle THEN EndStatus(st) ELSE "running"
      /\ journal' = IF idle THEN NoJournal ELSE Journalled(st)
      /\ row' = [status |-> status', done |-> DoneIn(st)]
      /\ summary' = [summary EXCEPT ![run'] =
                        IF ~idle THEN "waiting"
                        ELSE IF broken' THEN "sending" ELSE "writing"]
    BY DEF Tick, Snapshot
<1>3. idle \in BOOLEAN /\ (idle <=> ready = {} /\ \A n \in nodes' : st[n] # "running")
    OBVIOUS
<1> HIDE DEF ready, idle
<1>4. state' \in [Node -> Status] /\ at' \in [Tasks -> Where] /\ finished' \in BOOLEAN
    BY <1>2, <1>3 DEF Status, Where, Active
<1>5. /\ EndStatus(st) \in { "done", "error" }
      /\ EndStatus(st) = "done" => \A n \in nodes' : st[n] # "error"
    BY DEF EndStatus
<1>6. status' \in { "running", "done", "error" } /\ (status' = "running" <=> ~finished')
    BY <1>2, <1>3, <1>5
<1>7. summary' \in [Runs -> { "none", "waiting", "writing", "sending" }]
    BY <1>2
<1>8. \A n \in Node : (state'[n] = "done" <=> st[n] = "done")
                      /\ (state'[n] = "error" <=> st[n] = "error")
    BY <1>1, <1>2
<1>9. \A n \in nodes' : state'[n] = "running" <=> st[n] = "running" \/ n \in ready
    BY <1>2
<1>10. Fits(nodes', state', at', gen')
  <2> SUFFICES ASSUME NEW n \in nodes'
               PROVE  state'[n] = "running" <=> at'[<< n, gen'[n] >>] # "none"
      BY DEF Fits
  <2>1. << n, gen'[n] >> \in Tasks
      BY DEF Tasks
  <2>2. at'[<< n, gen'[n] >>] = IF n \in ready THEN "access" ELSE ts[<< n, gen'[n] >>]
      BY <1>2, <2>1
  <2> QED
      BY <1>9, <2>2 DEF Fits
<1>11. \A t \in Tasks : at'[t] = ts[t] \/ (at'[t] = "access" /\ t[1] \in nodes'
                                           /\ t[2] = gen'[t[1]])
    BY <1>1, <1>2
<1>12. DoneIn(st) = Done' /\ DoneIn(st) \in SUBSET Node
    BY <1>8 DEF DoneIn, Done
<1>13. DiskOK' /\ row'.status = status' /\ row'.done = Done'
  <2>1. /\ NoJournal \in [on : BOOLEAN, done : SUBSET Node, ran : SUBSET Node, run : Runs]
        /\ Journalled(st) \in [on : BOOLEAN, done : SUBSET Node, ran : SUBSET Node, run : Runs]
      BY <1>12, WorkflowConstants DEF NoJournal, Journalled, Runs
  <2>2. journal' \in [on : BOOLEAN, done : SUBSET Node, ran : SUBSET Node, run : Runs]
      BY <1>2, <2>1
  <2>3. /\ row'.status = status' /\ row'.done = Done'
        /\ row' \in [status : { "none", "running", "done", "error", "cancelled" },
                     done : SUBSET Node]
      BY <1>2, <1>6, <1>12
  <2> QED
      BY <2>2, <2>3 DEF DiskOK
<1>14. /\ journal'.on => journal'.done = Done'
       /\ ~finished' => journal'.on /\ journal'.run = run'
    BY <1>2, <1>3, <1>12 DEF NoJournal, Journalled
<1>15. IF finished'
       THEN /\ \A n \in nodes' : state'[n] # "running" /\ n \notin ready
            /\ status' = "done" => \A n \in nodes' : state'[n] # "error"
       ELSE \E n \in nodes' : state'[n] = "running"
  <2>1. CASE idle
      BY <1>2, <1>3, <1>5, <1>8, <1>9, <2>1
  <2>2. CASE ~idle
      BY <1>1, <1>2, <1>3, <1>9, <2>2
  <2> QED
      BY <2>1, <2>2
<1> QED
    BY <1>4, <1>6, <1>7, <1>8, <1>9, <1>10, <1>11, <1>12, <1>13, <1>14, <1>15 DEF Ran, ready

(* What a tick restores, whatever the caller did to the nodes before it, as  *)
(* long as what runs or is done had all it waits for.                        *)
FedIn(st) ==
    \A n \in nodes' : st[n] \in {"running", "done"} => \A e \in deps'[n] : st[e] = "done"

LEMMA Settled ==
    ASSUME NEW st \in [Node -> Status], GraphOK', Graph', Ran(st), FedIn(st),
           engine' = "listed"
    PROVE  Manned' /\ Driven' /\ Published' /\ Fed'
<1>1. \A n \in nodes' : n \in Node /\ deps'[n] \subseteq nodes'
    BY DEF GraphOK, Graph
<1>2. Manned'
    BY DEF Manned, Ran
<1>3. \A n \in nodes' : state'[n] = "pending" => ~(deps'[n] \subseteq Done')
  <2> SUFFICES ASSUME NEW n \in nodes', state'[n] = "pending"
               PROVE  ~(deps'[n] \subseteq Done')
      OBVIOUS
  <2>1. st[n] = "pending" /\ n \notin ReadyIn(st)
      BY <1>1 DEF Ran, Status
  <2> QED
      BY <2>1 DEF ReadyIn, Ran
<1>4. Driven'
    BY <1>3 DEF Driven, Ran
<1>5. Published'
    BY DEF Published, Ran
<1>6. \A n \in nodes' : state'[n] \in {"running", "done"} =>
          \A e \in deps'[n] : state'[e] = "done"
  <2> SUFFICES ASSUME NEW n \in nodes', state'[n] \in {"running", "done"}, NEW e \in deps'[n]
               PROVE  state'[e] = "done"
      OBVIOUS
  <2>1. e \in Node
      BY <1>1
  <2>2. CASE st[n] \in {"running", "done"}
      BY <2>1, <2>2 DEF FedIn, Ran
  <2>3. CASE n \in ReadyIn(st)
      BY <2>1, <2>3 DEF ReadyIn, DoneIn, Ran
  <2> QED
      BY <1>1, <2>2, <2>3 DEF Ran
<1>7. row'.done \subseteq nodes' /\ \A n \in row'.done : deps'[n] \subseteq row'.done
    BY <1>1, <1>6 DEF Ran, Done
<1> QED
    BY <1>2, <1>4, <1>5, <1>6, <1>7 DEF Fed

(* What the end of a node's turn writes, whoever still reads its object.     *)
LEMMA Written ==
    ASSUME IInv, NEW t \in Tasks, at[t] # "none", NEW s \in {"done", "error"},
           UNCHANGED << graph, gen >>
    PROVE  /\ engine # "none" /\ t[1] \in nodes /\ t[1] \in Node
           /\ Current(t) => state[t[1]] = "running"
           /\ Write(t, s) \in [Node -> Status]
           /\ [at EXCEPT ![t] = "none"] \in [Tasks -> Where]
           /\ \A n \in Node : Write(t, s)[n] = IF n = t[1] /\ Current(t) THEN s ELSE state[n]
           /\ Fits(nodes, Write(t, s), [at EXCEPT ![t] = "none"], gen)
           /\ FedIn(Write(t, s))
<1> DEFINE st == Write(t, s)
           ts == [at EXCEPT ![t] = "none"]
<1> USE DEF IInv
<1>1. /\ engine # "none" /\ t \in Node \X Runs /\ t[1] \in nodes /\ t[1] \in Node /\ t[2] \in Runs
      /\ t = << t[1], t[2] >> /\ state \in [Node -> Status] /\ at \in [Tasks -> Where]
      /\ gen \in [Node -> Runs] /\ nodes \subseteq Node /\ deps \in [Node -> SUBSET Node]
    BY DEF Empty, NoTasks, Numbered, Tasks, TypeOK, GraphOK, ObjectsOK, Status, Where
<1>2. /\ nodes' = nodes /\ deps' = deps /\ gen' = gen
    BY DEF graph
<1>3. Current(t) => state[t[1]] = "running"
    BY <1>1 DEF Current, Manned, Fits
<1>4. /\ st \in [Node -> Status] /\ ts \in [Tasks -> Where]
      /\ \A n \in Node : st[n] = IF n = t[1] /\ Current(t) THEN s ELSE state[n]
      /\ \A u \in Tasks : ts[u] = IF u = t THEN "none" ELSE at[u]
    BY <1>1 DEF Write, Status, Where
<1> HIDE DEF st, ts
<1>5. Fits(nodes, st, ts, gen)
  <2> SUFFICES ASSUME NEW n \in nodes
               PROVE  st[n] = "running" <=> ts[<< n, gen[n] >>] # "none"
      BY DEF Fits
  <2>1. << n, gen[n] >> \in Tasks /\ n \in Node
      BY <1>1 DEF Tasks
  <2>2. state[n] = "running" <=> at[<< n, gen[n] >>] # "none"
      BY <1>1 DEF Manned, Fits
  <2>3. << n, gen[n] >> = t <=> n = t[1] /\ Current(t)
      BY <1>1 DEF Current
  <2> QED
      BY <1>4, <2>1, <2>2, <2>3
<1>6. FedIn(st)
  <2> SUFFICES ASSUME NEW n \in nodes, st[n] \in {"running", "done"}, NEW e \in deps[n]
               PROVE  st[e] = "done"
      BY <1>2 DEF FedIn
  <2>1. state[n] \in {"running", "done"} /\ n \in Node /\ e \in Node
      BY <1>1, <1>3, <1>4
  <2>2. state[e] = "done"
      BY <2>1 DEF Fed
  <2> QED
      BY <1>3, <1>4, <2>1, <2>2
<1> QED
    BY <1>1, <1>3, <1>4, <1>5, <1>6 DEF st, ts

(* The end of a node's turn, whoever still reads its object.                 *)
LEMMA Ended ==
    ASSUME IInv, NEW t \in Tasks, at[t] # "none", NEW s \in {"done", "error"},
           UNCHANGED << graph, engine, gen, session, run >>, broken' \in BOOLEAN,
           TickIfRunning(Write(t, s), [at EXCEPT ![t] = "none"])
    PROVE  /\ state' \in [Node -> Status] /\ at' \in [Tasks -> Where]
           /\ finished' \in BOOLEAN
           /\ status' \in { "running", "done", "error", "cancelled" }
           /\ summary' \in [Runs -> { "none", "waiting", "writing", "sending" }] /\ DiskOK'
           /\ Manned' /\ Driven' /\ Published' /\ Fed' /\ Numbered'
           /\ \A u \in Tasks : at'[u] = "live" => at[u] = "live" /\ u # t
           /\ IF finished THEN finished' /\ status' = status ELSE status' # "cancelled"
           /\ row'.status # "none"
<1> DEFINE st == Write(t, s)
           ts == [at EXCEPT ![t] = "none"]
<1> USE DEF IInv
<1>1. gen \in [Node -> Runs] /\ nodes \subseteq Node /\ engine # "none"
    BY Written DEF TypeOK, GraphOK, ObjectsOK
<1>2. /\ nodes' = nodes /\ deps' = deps /\ gen' = gen /\ session' = session
      /\ run' = run /\ engine' = engine
    BY DEF graph
<1>4. /\ st \in [Node -> Status] /\ ts \in [Tasks -> Where]
      /\ Fits(nodes, st, ts, gen) /\ FedIn(st)
    BY Written
<1>5. \A u \in Tasks : ts[u] = IF u = t THEN "none" ELSE at[u]
    BY DEF TypeOK, ObjectsOK
<1> HIDE DEF st, ts
<1>7. GraphOK' /\ Graph'
    BY <1>2 DEF TypeOK, GraphOK, Graph
<1>8. CASE finished
  <2>1. /\ state' = st /\ at' = ts /\ journal' = Journalled(st) /\ UNCHANGED << finished, status, summary >>
        /\ row' = [status |-> status, done |-> DoneIn(st)]
      BY <1>8 DEF TickIfRunning, Snapshot, st, ts
  <2>2. status # "running" /\ engine \in { "listed", "dropped" }
        /\ status \in { "running", "done", "error", "cancelled" }
        /\ finished \in BOOLEAN /\ session \subseteq Node /\ run \in Runs
        /\ summary \in [Runs -> { "none", "waiting", "writing", "sending" }]
      BY <1>1, <1>8 DEF Driven, TypeOK, SwitchesOK, ObjectsOK, CountersOK, OutcomeOK
  <2>3. DoneIn(st) = Done' /\ DoneIn(st) \in SUBSET Node
      BY <1>1, <1>2, <2>1 DEF DoneIn, Done
  <2>4. DiskOK' /\ row'.status = status /\ row'.done = Done' /\ journal'.done = Done'
      BY <1>2, <2>1, <2>2, <2>3 DEF DiskOK, Journalled
  <2>5. Manned' /\ Driven' /\ Published'
      BY <1>2, <1>4, <1>8, <2>1, <2>2, <2>4 DEF Manned, Driven, Published
  <2>6. Fed'
      BY <1>1, <1>2, <1>4, <1>7, <2>1, <2>4 DEF Fed, FedIn, Done, Graph
  <2>7. Numbered'
      BY <1>2, <1>5, <2>1 DEF Numbered
  <2> QED
      BY <1>2, <1>4, <1>5, <1>8, <2>1, <2>2, <2>4, <2>5, <2>6, <2>7
<1>9. CASE ~finished
  <2>1. Tick(st, ts)
      BY <1>9 DEF TickIfRunning, st, ts
  <2>2. session \subseteq Node /\ run \in Runs /\ engine = "listed"
        /\ summary \in [Runs -> { "none", "waiting", "writing", "sending" }]
      BY <1>1, <1>9 DEF Driven, TypeOK, SwitchesOK, ObjectsOK, CountersOK, OutcomeOK
  <2>3. /\ Ran(st)
        /\ \A u \in Tasks : at'[u] = ts[u] \/ (at'[u] = "access" /\ u[1] \in nodes
                                                /\ u[2] = gen[u[1]])
      BY <1>1, <1>2, <1>4, <2>1, <2>2, Ticked
  <2>4. Manned' /\ Driven' /\ Published' /\ Fed'
      BY <1>2, <1>4, <1>7, <2>2, <2>3, Settled
  <2>5. Numbered'
    <3> SUFFICES ASSUME NEW u \in Tasks, at'[u] # "none"
                 PROVE  u[1] \in nodes /\ u[2] <= run
        BY <1>2 DEF Numbered
    <3>1. CASE at[u] # "none"
        BY <3>1 DEF Numbered
    <3>2. CASE u[1] \in nodes /\ u[2] = gen[u[1]]
        BY <1>1, <3>2 DEF Numbered
    <3> QED
        BY <1>5, <2>3, <3>1, <3>2
  <2>6. \A u \in Tasks : at'[u] = "live" => at[u] = "live" /\ u # t
      BY <1>5, <2>3
  <2> QED
      BY <1>9, <2>3, <2>4, <2>5, <2>6 DEF Ran
<1> QED
    BY <1>8, <1>9 DEF TypeOK, SwitchesOK

(* New nodes keep the graph closed and acyclic, and the old ones as they are.*)
LEMMA Extended ==
    ASSUME IInv, NEW S \in (SUBSET (Node \ nodes)) \ {{}},
           NEW d \in [S -> SUBSET Node],
           Extend(S, d)
    PROVE  /\ GraphOK' /\ Graph' /\ nodes' = nodes \cup S
           /\ \A n \in nodes : deps'[n] = deps[n]
<1>1. /\ nodes' = nodes \cup S
      /\ deps' = [n \in Node |-> IF n \in S THEN d[n] ELSE deps[n]]
      /\ \A n \in S : d[n] \subseteq nodes \cup S
      /\ ~HasCycle(nodes', deps')
    BY DEF Extend
<1>2. nodes \subseteq Node /\ deps \in [Node -> SUBSET Node] /\ S \subseteq Node /\ S \cap nodes = {}
    BY DEF IInv, TypeOK, GraphOK
<1>3. GraphOK'
    BY <1>1, <1>2 DEF GraphOK
<1>4. \A n \in nodes : deps'[n] = deps[n]
    BY <1>1, <1>2
<1>5. \A n \in nodes' : deps'[n] \subseteq nodes'
    BY <1>1, <1>2 DEF IInv, Graph
<1> QED
    BY <1>1, <1>3, <1>4, <1>5 DEF Graph

(* A row written for the state at hand, and a journal.                       *)
LEMMA Snapped ==
    ASSUME TypeOK, nodes' = nodes, NEW s \in { "running", "done", "error", "cancelled" },
           Snapshot(s, state), \A n \in nodes : state'[n] = "done" <=> state[n] = "done"
    PROVE  /\ row'.status = s /\ row'.done = Done /\ Done' = Done
           /\ row' \in [status : { "none", "running", "done", "error", "cancelled" },
                        done : SUBSET Node]
<1>1. row' = [status |-> s, done |-> DoneIn(state)]
    BY DEF Snapshot
<1>2. DoneIn(state) = Done /\ Done' = Done /\ Done \in SUBSET Node
    BY DEF DoneIn, Done, TypeOK, GraphOK
<1> QED
    BY <1>1, <1>2

LEMMA JournalWritten ==
    ASSUME TypeOK, nodes' = nodes, session' \subseteq Node, run' \in Runs,
           journal' = Journalled(state)
    PROVE  /\ journal'.on /\ journal'.done = Done /\ journal'.run = run'
           /\ journal' \in [on : BOOLEAN, done : SUBSET Node, ran : SUBSET Node, run : Runs]
<1>1. DoneIn(state) = Done /\ Done \in SUBSET Node
    BY DEF DoneIn, Done, TypeOK, GraphOK
<1> QED
    BY <1>1 DEF Journalled

(* The nodes as a caller of tick leaves them: some of them new, or those     *)
(* that the journal knows to be done.                                        *)
Renewed(S) == [n \in Node |-> IF n \in S THEN "pending" ELSE state[n]]
Recovered == [n \in Node |-> IF n \in journal.done THEN "done" ELSE "pending"]

(* A workflow begins.                                                        *)
LEMMA StartTicks ==
    ASSUME IInv, NEW S \in (SUBSET (Node \ nodes)) \ {{}},
           NEW d \in [S -> SUBSET Node], NEW async \in BOOLEAN,
           Start(S, d, async)
    PROVE  /\ state \in [Node -> Status] /\ GraphOK' /\ Graph'
           /\ nodes' = nodes \cup S /\ nodes' \subseteq Node
           /\ gen' = gen /\ run' = run /\ session' = session /\ broken' = broken
           /\ gen' \in [Node -> Runs] /\ run' \in Runs /\ session' \subseteq Node
           /\ broken' \in BOOLEAN /\ engine' = "listed" /\ engine = "none" /\ Tick(state, at)
           /\ row.status = "none" /\ up /\ ~claimed
           /\ Ran(state)
           /\ \A t \in Tasks : at'[t] = at[t] \/ (at'[t] = "access" /\ t[1] \in nodes'
                                                   /\ t[2] = gen'[t[1]])
           /\ Manned' /\ Driven' /\ Published' /\ Fed'
<1> USE DEF IInv
<1>a. /\ state \in [Node -> Status] /\ GraphOK' /\ Graph'
      /\ nodes' = nodes \cup S /\ nodes' \subseteq Node
      /\ gen' = gen /\ run' = run /\ session' = session /\ broken' = broken
      /\ gen' \in [Node -> Runs] /\ run' \in Runs /\ session' \subseteq Node
      /\ broken' \in BOOLEAN /\ engine' = "listed" /\ engine = "none" /\ Tick(state, at)
      /\ row.status = "none" /\ up /\ ~claimed
    BY Extended DEF Start, TypeOK, GraphOK, ObjectsOK, SwitchesOK, CountersOK, Status, Phases
<1>b. Fits(nodes', state, at, gen') /\ FedIn(state)
  <2>1. \A n \in nodes' : state[n] = "pending" /\ at[<< n, gen'[n] >>] = "none"
      BY <1>a DEF Empty, NoTasks, Tasks, GraphOK
  <2> QED
      BY <2>1 DEF Fits, FedIn
<1>f. /\ at \in [Tasks -> Where]
      /\ summary \in [Runs -> { "none", "waiting", "writing", "sending" }]
    BY DEF TypeOK, ObjectsOK, OutcomeOK, Where
<1>c. /\ Ran(state)
      /\ \A t \in Tasks : at'[t] = at[t] \/ (at'[t] = "access" /\ t[1] \in nodes'
                                              /\ t[2] = gen'[t[1]])
    BY <1>a, <1>b, <1>f, Ticked
<1>d. Manned' /\ Driven' /\ Published' /\ Fed'
    BY <1>a, <1>b, <1>c, Settled
<1> QED
    BY <1>a, <1>c, <1>d

(* A running workflow grows.                                                 *)
LEMMA AddNodesTicks ==
    ASSUME IInv, NEW S \in (SUBSET (Node \ nodes)) \ {{}},
           NEW d \in [S -> SUBSET Node],
           AddNodes(S, d)
    PROVE  /\ Renewed(S) \in [Node -> Status] /\ GraphOK' /\ Graph'
           /\ nodes' = nodes \cup S /\ nodes' \subseteq Node
           /\ \A n \in nodes : deps'[n] = deps[n]
           /\ gen' = [n \in Node |-> IF n \in S THEN run ELSE gen[n]]
           /\ run' = run /\ session' = session /\ broken' = broken
           /\ gen' \in [Node -> Runs] /\ run' \in Runs /\ session' \subseteq Node
           /\ broken' \in BOOLEAN /\ engine' = "listed" /\ engine = "listed" /\ Tick(Renewed(S), at)
           /\ ~finished /\ up /\ ~claimed /\ row.status # "none"
           /\ Ran(Renewed(S))
           /\ \A t \in Tasks : at'[t] = at[t] \/ (at'[t] = "access" /\ t[1] \in nodes'
                                                   /\ t[2] = gen'[t[1]])
           /\ Manned' /\ Driven' /\ Published' /\ Fed'
<1> USE DEF IInv
<1> USE DEF Renewed
<1> DEFINE st == Renewed(S)
<1>a. /\ st \in [Node -> Status] /\ GraphOK' /\ Graph'
      /\ nodes' = nodes \cup S /\ nodes' \subseteq Node
      /\ \A n \in nodes : deps'[n] = deps[n]
      /\ gen' = [n \in Node |-> IF n \in S THEN run ELSE gen[n]]
      /\ run' = run /\ session' = session /\ broken' = broken
      /\ gen' \in [Node -> Runs] /\ run' \in Runs /\ session' \subseteq Node
      /\ broken' \in BOOLEAN /\ engine' = "listed" /\ engine = "listed" /\ Tick(st, at)
      /\ ~finished /\ up /\ ~claimed /\ row.status # "none"
    BY Extended DEF AddNodes, TypeOK, GraphOK, ObjectsOK, SwitchesOK, CountersOK, Status, Phases
<1>b. Fits(nodes', st, at, gen') /\ FedIn(st)
  <2>1. nodes \subseteq Node /\ S \cap nodes = {} /\ S \subseteq Node /\ gen \in [Node -> Runs]
      BY DEF TypeOK, GraphOK, ObjectsOK
  <2>2. \A n \in S : st[n] = "pending" /\ at[<< n, gen'[n] >>] = "none"
    <3> SUFFICES ASSUME NEW n \in S, at[<< n, run >>] # "none"
                 PROVE  FALSE
        BY <1>a, <2>1
    <3>1. << n, run >> \in Tasks
        BY <1>a, <2>1 DEF Tasks
    <3> QED
        BY <2>1, <3>1 DEF Numbered
  <2>3. \A n \in nodes : st[n] = state[n] /\ gen'[n] = gen[n]
      BY <1>a, <2>1
  <2>4. Fits(nodes', st, at, gen')
      BY <1>a, <2>2, <2>3 DEF Manned, Fits
  <2>5. FedIn(st)
      BY <1>a, <2>2, <2>3 DEF FedIn, Fed, Graph
  <2> QED
      BY <2>4, <2>5
<1> HIDE DEF st, Renewed
<1>f. /\ at \in [Tasks -> Where]
      /\ summary \in [Runs -> { "none", "waiting", "writing", "sending" }]
    BY DEF TypeOK, ObjectsOK, OutcomeOK, Where
<1>c. /\ Ran(st)
      /\ \A t \in Tasks : at'[t] = at[t] \/ (at'[t] = "access" /\ t[1] \in nodes'
                                              /\ t[2] = gen'[t[1]])
    BY <1>a, <1>b, <1>f, Ticked
<1>d. Manned' /\ Driven' /\ Published' /\ Fed'
    BY <1>a, <1>b, <1>c, Settled
<1> QED
    BY <1>a, <1>c, <1>d DEF st

(* A run begins for the unfinished nodes.                                    *)
LEMMA ResumeTicks ==
    ASSUME IInv, NEW async \in BOOLEAN, Resume(async)
    PROVE  /\ Renewed(Unfinished) \in [Node -> Status] /\ GraphOK' /\ Graph'
           /\ nodes' = nodes /\ deps' = deps
           /\ nodes' \subseteq Node
           /\ gen' = [n \in Node |-> IF n \in Unfinished THEN run + 1 ELSE gen[n]]
           /\ run' = run + 1 /\ session' = session \ Unfinished /\ broken' = broken
           /\ gen' \in [Node -> Runs] /\ run' \in Runs /\ session' \subseteq Node
           /\ broken' \in BOOLEAN /\ engine' = "listed" /\ engine = "listed" /\ Tick(Renewed(Unfinished), at)
           /\ up /\ ~claimed /\ row.status # "none"
           /\ Ran(Renewed(Unfinished))
           /\ \A t \in Tasks : at'[t] = at[t] \/ (at'[t] = "access" /\ t[1] \in nodes'
                                                   /\ t[2] = gen'[t[1]])
           /\ Manned' /\ Driven' /\ Published' /\ Fed'
<1> USE DEF IInv
<1> USE DEF Renewed
<1> DEFINE st == Renewed(Unfinished)
<1>a. /\ st \in [Node -> Status] /\ GraphOK' /\ Graph' /\ nodes' = nodes /\ deps' = deps
      /\ nodes' \subseteq Node
      /\ gen' = [n \in Node |-> IF n \in Unfinished THEN run + 1 ELSE gen[n]]
      /\ run' = run + 1 /\ session' = session \ Unfinished /\ broken' = broken
      /\ gen' \in [Node -> Runs] /\ run' \in Runs /\ session' \subseteq Node
      /\ broken' \in BOOLEAN /\ engine' = "listed" /\ engine = "listed" /\ Tick(st, at)
      /\ up /\ ~claimed /\ row.status # "none"
  <2>1. GraphOK' /\ Graph' /\ nodes' = nodes /\ deps' = deps /\ nodes' \subseteq Node
      BY DEF Resume, graph, TypeOK, GraphOK, Graph
  <2>2. st \in [Node -> Status] /\ Tick(st, at)
      BY DEF Resume, TypeOK, ObjectsOK, Status
  <2>3. run' = run + 1 /\ run' \in Runs
      BY WorkflowConstants DEF Resume, TypeOK, CountersOK, Runs
  <2>4. gen' = [n \in Node |-> IF n \in Unfinished THEN run + 1 ELSE gen[n]]
      BY <2>3 DEF Resume
  <2>5. gen' \in [Node -> Runs]
      BY <2>3, <2>4 DEF TypeOK, ObjectsOK
  <2>6. session' = session \ Unfinished /\ session' \subseteq Node
      BY DEF Resume, TypeOK, ObjectsOK
  <2>7. /\ broken' = broken /\ broken' \in BOOLEAN /\ engine' = "listed" /\ engine = "listed"
        /\ up /\ ~claimed /\ row.status # "none"
      BY DEF Resume, TypeOK, SwitchesOK, Phases
  <2> QED
      BY <2>1, <2>2, <2>3, <2>4, <2>5, <2>6, <2>7
<1>b. Fits(nodes', st, at, gen') /\ FedIn(st)
  <2>1. nodes \subseteq Node /\ gen \in [Node -> Runs] /\ run \in Nat
      BY DEF TypeOK, GraphOK, ObjectsOK, CountersOK, Runs
  <2>2. \A n \in Unfinished : st[n] = "pending" /\ at[<< n, gen'[n] >>] = "none"
    <3> SUFFICES ASSUME NEW n \in Unfinished, at[<< n, run + 1 >>] # "none"
                 PROVE  FALSE
        BY <1>a, <2>1 DEF Unfinished
    <3>1. << n, run + 1 >> \in Tasks
        BY <1>a, <2>1 DEF Tasks, Unfinished
    <3> QED
        BY <2>1, <3>1 DEF Numbered
  <2>3. \A n \in nodes \ Unfinished : st[n] = state[n] /\ gen'[n] = gen[n] /\ state[n] = "done"
      BY <1>a, <2>1 DEF Unfinished
  <2>4. Fits(nodes', st, at, gen')
      BY <1>a, <2>2, <2>3 DEF Manned, Fits
  <2>5. FedIn(st)
      BY <1>a, <2>1, <2>2, <2>3 DEF FedIn, Fed, Graph, Unfinished
  <2> QED
      BY <2>4, <2>5
<1> HIDE DEF st, Renewed
<1>f. /\ at \in [Tasks -> Where]
      /\ summary \in [Runs -> { "none", "waiting", "writing", "sending" }]
    BY DEF TypeOK, ObjectsOK, OutcomeOK, Where
<1>c. /\ Ran(st)
      /\ \A t \in Tasks : at'[t] = at[t] \/ (at'[t] = "access" /\ t[1] \in nodes'
                                              /\ t[2] = gen'[t[1]])
    BY <1>a, <1>b, <1>f, Ticked
<1>d. Manned' /\ Driven' /\ Published' /\ Fed'
    BY <1>a, <1>b, <1>c, Settled
<1> QED
    BY <1>a, <1>c, <1>d DEF st

(* A run begins from the journal.                                            *)
LEMMA BootResumesTicks ==
    ASSUME IInv, BootResumes
    PROVE  /\ Recovered \in [Node -> Status] /\ GraphOK' /\ Graph'
           /\ nodes' = nodes /\ deps' = deps
           /\ nodes' \subseteq Node
           /\ gen' = [n \in Node |-> journal.run + 1]
           /\ run' = journal.run + 1 /\ broken' = broken
           /\ gen' \in [Node -> Runs] /\ run' \in Runs /\ session' \subseteq Node
           /\ broken' \in BOOLEAN /\ engine' = "listed" /\ engine = "none" /\ Tick(Recovered, at)
           /\ up /\ ~claimed' /\ row.status # "none"
           /\ Ran(Recovered)
           /\ \A t \in Tasks : at'[t] = at[t] \/ (at'[t] = "access" /\ t[1] \in nodes'
                                                   /\ t[2] = gen'[t[1]])
           /\ Manned' /\ Driven' /\ Published' /\ Fed'
<1> USE DEF IInv
<1> USE DEF Recovered
<1> DEFINE st == Recovered
<1>a. /\ st \in [Node -> Status] /\ GraphOK' /\ Graph' /\ nodes' = nodes /\ deps' = deps
      /\ nodes' \subseteq Node
      /\ gen' = [n \in Node |-> journal.run + 1]
      /\ run' = journal.run + 1 /\ broken' = broken
      /\ gen' \in [Node -> Runs] /\ run' \in Runs /\ session' \subseteq Node
      /\ broken' \in BOOLEAN /\ engine' = "listed" /\ engine = "none" /\ Tick(st, at)
      /\ up /\ ~claimed' /\ row.status # "none"
  <2>1. GraphOK' /\ Graph' /\ nodes' = nodes /\ deps' = deps /\ nodes' \subseteq Node
      BY DEF BootResumes, graph, TypeOK, GraphOK, Graph
  <2>2. st \in [Node -> Status] /\ Tick(st, at)
      BY DEF BootResumes, Status
  <2>3. run' = journal.run + 1 /\ run' \in Runs
      BY WorkflowConstants DEF BootResumes, TypeOK, DiskOK, Runs
  <2>4. gen' = [n \in Node |-> journal.run + 1] /\ gen' \in [Node -> Runs]
      BY <2>3 DEF BootResumes
  <2>5. session' \subseteq Node
      BY DEF BootResumes, TypeOK, DiskOK
  <2>6. /\ broken' = broken /\ broken' \in BOOLEAN /\ engine' = "listed" /\ engine = "none"
        /\ up /\ ~claimed' /\ row.status # "none"
      BY DEF BootResumes, TypeOK, SwitchesOK, Phases
  <2> QED
      BY <2>1, <2>2, <2>3, <2>4, <2>5, <2>6
<1>b. Fits(nodes', st, at, gen') /\ FedIn(st)
  <2>1. \A n \in nodes : at[<< n, gen'[n] >>] = "none" /\ st[n] # "running" /\ n \in Node
      BY <1>a DEF Empty, NoTasks, Tasks, TypeOK, GraphOK
  <2>2. journal.done = row.done
      BY DEF BootResumes, Published
  <2>3. FedIn(st)
      BY <1>a, <2>1, <2>2 DEF FedIn, Fed, Graph
  <2> QED
      BY <1>a, <2>1, <2>3 DEF Fits
<1> HIDE DEF st, Recovered
<1>f. /\ at \in [Tasks -> Where]
      /\ summary \in [Runs -> { "none", "waiting", "writing", "sending" }]
    BY DEF TypeOK, ObjectsOK, OutcomeOK, Where
<1>c. /\ Ran(st)
      /\ \A t \in Tasks : at'[t] = at[t] \/ (at'[t] = "access" /\ t[1] \in nodes'
                                              /\ t[2] = gen'[t[1]])
    BY <1>a, <1>b, <1>f, Ticked
<1>d. Manned' /\ Driven' /\ Published' /\ Fed'
    BY <1>a, <1>b, <1>c, Settled
<1> QED
    BY <1>a, <1>c, <1>d DEF st

-----------------------------------------------------------------------------
(* The steps                                                                 *)

LEMMA StartStep ==
    ASSUME IInv, NEW S \in (SUBSET (Node \ nodes)) \ {{}},
           NEW d \in [S -> SUBSET Node], NEW async \in BOOLEAN,
           Start(S, d, async) PROVE IInv'
<1>a. /\ state \in [Node -> Status] /\ GraphOK' /\ Graph'
      /\ nodes' = nodes \cup S /\ nodes' \subseteq Node
      /\ gen' = gen /\ run' = run /\ session' = session /\ broken' = broken
      /\ gen' \in [Node -> Runs] /\ run' \in Runs /\ session' \subseteq Node
      /\ broken' \in BOOLEAN /\ engine' = "listed" /\ engine = "none" /\ Tick(state, at)
      /\ row.status = "none" /\ up /\ ~claimed
    BY StartTicks
<1>c. /\ Ran(state)
      /\ \A t \in Tasks : at'[t] = at[t] \/ (at'[t] = "access" /\ t[1] \in nodes'
                                              /\ t[2] = gen'[t[1]])
    BY StartTicks
<1>d. Manned' /\ Driven' /\ Published' /\ Fed'
    BY StartTicks
<1> USE WorkflowConstants DEF IInv
<1>1. GraphOK' /\ SwitchesOK' /\ CountersOK' /\ Empty'
    BY <1>a, <1>c DEF Start, history, SwitchesOK, TypeOK, Ran, CountersOK,
       Empty
<1>2. ObjectsOK'
    BY <1>a, <1>c DEF Start, ObjectsOK, TypeOK, Status, Where, NoTasks, Ran
<1>3. OutcomeOK'
    BY <1>a, <1>c DEF Start, history, OutcomeOK, TypeOK, GraphOK,
       SwitchesOK, CountersOK, ObjectsOK, DiskOK, Runs, Status, Where,
       Active, Tasks, Accept, Empty, Ran
<1>4. DiskOK'
    BY <1>c DEF Ran
<1>5. Phases'
    BY <1>a, <1>c, <1>d DEF Start, history, Phases, TypeOK, GraphOK,
       SwitchesOK, CountersOK, ObjectsOK, OutcomeOK, DiskOK, Runs, Status,
       Where, Active, Tasks, Empty, Driven, Published, Ran
<1>6. Graph'
    BY <1>a
<1>7. Numbered'
    BY <1>a, <1>c DEF Start, history, Numbered, TypeOK, GraphOK, SwitchesOK,
       CountersOK, ObjectsOK, OutcomeOK, DiskOK, Runs, Status, Where,
       Active, Tasks, Empty, NoTasks, Ran
<1>8. Manned'
    BY <1>d
<1>9. Driven'
    BY <1>d
<1>10. Published'
    BY <1>d
<1>11. Fed'
    BY <1>d
<1>12. Told'
    BY <1>a, <1>c, <1>d DEF Start, history, Told, TypeOK, GraphOK,
       SwitchesOK, CountersOK, ObjectsOK, OutcomeOK, DiskOK, Runs, Status,
       Where, Active, Tasks, Current, StopReachesAll, Manned, Fits,
       Numbered, Empty, NoTasks, Ran
<1> QED
    BY <1>1, <1>2, <1>3, <1>4, <1>5, <1>6, <1>7, <1>8, <1>9, <1>10, <1>11,
       <1>12 DEF TypeOK

LEMMA AddNodesStep ==
    ASSUME IInv, NEW S \in (SUBSET (Node \ nodes)) \ {{}},
           NEW d \in [S -> SUBSET Node],
           AddNodes(S, d) PROVE IInv'
<1>a. /\ Renewed(S) \in [Node -> Status] /\ GraphOK' /\ Graph'
      /\ nodes' = nodes \cup S /\ nodes' \subseteq Node
      /\ \A n \in nodes : deps'[n] = deps[n]
      /\ gen' = [n \in Node |-> IF n \in S THEN run ELSE gen[n]]
      /\ run' = run /\ session' = session /\ broken' = broken
      /\ gen' \in [Node -> Runs] /\ run' \in Runs /\ session' \subseteq Node
      /\ broken' \in BOOLEAN /\ engine' = "listed" /\ engine = "listed" /\ Tick(Renewed(S), at)
      /\ ~finished /\ up /\ ~claimed /\ row.status # "none"
    BY AddNodesTicks
<1>c. /\ Ran(Renewed(S))
      /\ \A t \in Tasks : at'[t] = at[t] \/ (at'[t] = "access" /\ t[1] \in nodes'
                                              /\ t[2] = gen'[t[1]])
    BY AddNodesTicks
<1>d. Manned' /\ Driven' /\ Published' /\ Fed'
    BY AddNodesTicks
<1> USE WorkflowConstants DEF IInv
<1>1. GraphOK' /\ SwitchesOK' /\ CountersOK' /\ Empty'
    BY <1>a, <1>c DEF AddNodes, history, SwitchesOK, TypeOK, Ran,
       CountersOK, Empty
<1>2. ObjectsOK'
    BY <1>a, <1>c DEF AddNodes, ObjectsOK, TypeOK, Status, Where, NoTasks,
       Ran
<1>3. OutcomeOK'
    BY <1>a, <1>c DEF AddNodes, history, OutcomeOK, TypeOK, GraphOK,
       SwitchesOK, CountersOK, ObjectsOK, DiskOK, Runs, Status, Where,
       Active, Tasks, Accept, Empty, Ran
<1>4. DiskOK'
    BY <1>c DEF Ran
<1>5. Phases'
    BY <1>a, <1>c, <1>d DEF AddNodes, history, Phases, TypeOK, GraphOK,
       SwitchesOK, CountersOK, ObjectsOK, OutcomeOK, DiskOK, Runs, Status,
       Where, Active, Tasks, Empty, Driven, Published, Ran
<1>6. Graph'
    BY <1>a
<1>7. Numbered'
    BY <1>a, <1>c DEF AddNodes, history, Numbered, TypeOK, GraphOK,
       SwitchesOK, CountersOK, ObjectsOK, OutcomeOK, DiskOK, Runs, Status,
       Where, Active, Tasks, Empty, NoTasks, Ran
<1>8. Manned'
    BY <1>d
<1>9. Driven'
    BY <1>d
<1>10. Published'
    BY <1>d
<1>11. Fed'
    BY <1>d
<1>12. Told'
  <2>1. \A t \in Tasks : at'[t] = "live" => at[t] = "live" /\ t[1] \in nodes /\ t[1] \in Node
      BY <1>c DEF Numbered, TypeOK, GraphOK
  <2>2. nodes \subseteq Node /\ S \cap nodes = {} /\ gen \in [Node -> Runs]
      BY DEF TypeOK, GraphOK, ObjectsOK
  <2>3. \A t \in Tasks : at'[t] = "live" /\ Current(t)' => Current(t)
      BY <1>a, <2>1, <2>2 DEF Current
  <2>4. \A t \in Tasks : at'[t] = "live" /\ Current(t)' => t[1] \in session'
      BY <1>a, <2>1, <2>3 DEF Told
  <2> QED
      BY <1>c, <2>4 DEF Told, StopReachesAll, Ran
<1> QED
    BY <1>1, <1>2, <1>3, <1>4, <1>5, <1>6, <1>7, <1>8, <1>9, <1>10, <1>11,
       <1>12 DEF TypeOK

LEMMA AccessReadyStep ==
    ASSUME IInv, NEW t \in Tasks, AccessReady(t) PROVE IInv'
<1> USE WorkflowConstants DEF IInv
<1>a. /\ Done' = Done
      /\ row'.status = row.status /\ row'.done = Done
      /\ row' \in [status : { "none", "running", "done", "error", "cancelled" },
                   done : SUBSET Node]
  <2>1. /\ t[1] \in nodes /\ t[1] \in Node /\ engine # "none" /\ nodes' = nodes
        /\ Current(t) => state[t[1]] = "running"
      BY DEF AccessReady, graph, Numbered, Manned, Fits, Current, Empty, NoTasks, Tasks, TypeOK, GraphOK
  <2>2. \A n \in nodes : state'[n] = "done" <=> state[n] = "done"
      BY <2>1 DEF AccessReady, Write, TypeOK, ObjectsOK, GraphOK
  <2>3. CASE finished
      BY <2>1, <2>2, <2>3 DEF AccessReady, Done, Published, TypeOK, DiskOK
  <2>4. CASE ~finished
    <3>1. status \in { "running", "done", "error", "cancelled" } /\ Snapshot(status, state)
        BY <2>4 DEF AccessReady, TypeOK, SwitchesOK
    <3> QED
        BY <2>1, <2>2, <3>1, Snapped DEF Published
  <2> QED
      BY <2>3, <2>4 DEF TypeOK, SwitchesOK
<1>b. engine # "none"
    BY DEF AccessReady, Empty, NoTasks
<1>1. GraphOK' /\ SwitchesOK' /\ CountersOK' /\ DiskOK'
    BY <1>a, <1>b DEF AccessReady, graph, GraphOK, TypeOK, flags, history,
       SwitchesOK, CountersOK, DiskOK
<1>2. ObjectsOK' /\ OutcomeOK'
    BY <1>a, <1>b DEF AccessReady, Write, ObjectsOK, TypeOK, Active,
       NoTasks, outcome, history, OutcomeOK
<1>3. Empty' /\ Phases' /\ Graph' /\ Numbered' /\ Driven'
    BY <1>a, <1>b DEF AccessReady, Empty, NoTasks, Phases, graph, Graph,
       flags, Numbered, Driven
<1>4. Manned'
    BY DEF AccessReady, Write, Current, graph, Manned, TypeOK, ObjectsOK,
       Tasks, Fits
<1>5. Published' /\ Fed'
    BY <1>a, <1>b DEF AccessReady, flags, Published, Write, graph, Fed,
       Done, Graph
<1>6. Told'
    BY DEF AccessReady, Write, Current, Snapshot, graph, flags, outcome,
       history, Told, TypeOK, GraphOK, SwitchesOK, CountersOK, ObjectsOK,
       OutcomeOK, DiskOK, Runs, Status, Where, Active, Tasks,
       StopReachesAll, Manned, Fits, Numbered, Empty, NoTasks
<1> QED
    BY <1>1, <1>2, <1>3, <1>4, <1>5, <1>6 DEF TypeOK

LEMMA AccessFailsStep ==
    ASSUME IInv, NEW t \in Tasks, NEW reference \in BOOLEAN, AccessFails(t, reference) PROVE IInv'
<1> USE WorkflowConstants DEF IInv
<1>a. /\ state' \in [Node -> Status] /\ at' \in [Tasks -> Where]
      /\ finished' \in BOOLEAN
      /\ status' \in { "running", "done", "error", "cancelled" }
      /\ summary' \in [Runs -> { "none", "waiting", "writing", "sending" }] /\ DiskOK'
      /\ Manned' /\ Driven' /\ Published' /\ Fed' /\ Numbered'
      /\ \A u \in Tasks : at'[u] = "live" => at[u] = "live" /\ u # t
      /\ IF finished THEN finished' /\ status' = status ELSE status' # "cancelled"
      /\ row'.status # "none"
  <2> DEFINE s == "error"
  <2>1. /\ at[t] # "none" /\ s \in {"done", "error"} /\ broken' \in BOOLEAN
        /\ UNCHANGED << graph, engine, gen, session, run >>
        /\ TickIfRunning(Write(t, s), [at EXCEPT ![t] = "none"])
      BY DEF AccessFails, TypeOK, SwitchesOK
  <2> HIDE DEF s
  <2> QED
      BY <2>1, Ended
<1>b. engine # "none" /\ up /\ ~claimed /\ engine' = engine /\ row.status # "none"
    BY DEF AccessFails, Empty, NoTasks, Phases
<1>1. GraphOK' /\ SwitchesOK' /\ CountersOK' /\ Empty' /\ Phases'
    BY <1>a, <1>b DEF AccessFails, graph, GraphOK, TypeOK, history,
       SwitchesOK, CountersOK, Empty, Phases
<1>2. ObjectsOK'
    BY <1>a, <1>b DEF AccessFails, ObjectsOK, TypeOK, Status, Where, NoTasks
<1>3. OutcomeOK'
    BY <1>a, <1>b DEF AccessFails, graph, history, OutcomeOK, TypeOK,
       GraphOK, SwitchesOK, CountersOK, ObjectsOK, DiskOK, Runs, Status,
       Where, Active, Tasks, Accept, Empty
<1>4. DiskOK'
    BY <1>a
<1>5. Graph'
    BY DEF AccessFails, graph, history, Graph, TypeOK, GraphOK, SwitchesOK,
       CountersOK, ObjectsOK, OutcomeOK, DiskOK, Runs, Status, Where,
       Active, Tasks
<1>6. Numbered'
    BY <1>a
<1>7. Manned'
    BY <1>a
<1>8. Driven'
    BY <1>a
<1>9. Published'
    BY <1>a
<1>10. Fed'
    BY <1>a
<1>11. Told'
    BY <1>a, <1>b DEF AccessFails, graph, history, Told, TypeOK, GraphOK,
       SwitchesOK, CountersOK, ObjectsOK, OutcomeOK, DiskOK, Runs, Status,
       Where, Active, Tasks, Current, StopReachesAll, Manned, Fits,
       Numbered, Empty, NoTasks
<1> QED
    BY <1>1, <1>2, <1>3, <1>4, <1>5, <1>6, <1>7, <1>8, <1>9, <1>10, <1>11
       DEF TypeOK

LEMMA SessionReportedStep ==
    ASSUME IInv, NEW t \in Tasks, SessionReported(t) PROVE IInv'
<1> USE WorkflowConstants DEF IInv
<1>a. /\ Done' = Done
      /\ row'.status = status /\ row'.done = Done
      /\ row' \in [status : { "none", "running", "done", "error", "cancelled" },
                   done : SUBSET Node]
  <2>1. /\ status \in { "running", "done", "error", "cancelled" } /\ Snapshot(status, state)
        /\ nodes' = nodes /\ state' = state
      BY DEF SessionReported, graph, TypeOK, SwitchesOK
  <2> QED
      BY <2>1, Snapped
<1>b. /\ journal'.on /\ journal'.done = Done /\ journal'.run = run
      /\ journal' \in [on : BOOLEAN, done : SUBSET Node, ran : SUBSET Node, run : Runs]
  <2>1. session' \subseteq Node /\ run' \in Runs /\ run' = run /\ nodes' = nodes
        /\ journal' = Journalled(state)
      BY DEF SessionReported, graph, flags, TypeOK, ObjectsOK, CountersOK, Tasks
  <2> QED
      BY <2>1, JournalWritten
<1>c. engine # "none"
    BY DEF SessionReported, Empty, NoTasks
<1>1. GraphOK' /\ SwitchesOK' /\ CountersOK' /\ DiskOK'
    BY <1>a, <1>b, <1>c DEF SessionReported, graph, GraphOK, TypeOK, flags,
       history, SwitchesOK, CountersOK, DiskOK
<1>2. ObjectsOK' /\ Empty'
    BY DEF SessionReported, ObjectsOK, TypeOK, Status, Where, Active, Tasks,
       NoTasks, Empty
<1>3. OutcomeOK' /\ Phases' /\ Graph'
    BY <1>a, <1>b, <1>c DEF SessionReported, outcome, history, OutcomeOK,
       TypeOK, Phases, SwitchesOK, graph, Graph
<1>4. Numbered' /\ Manned' /\ Driven' /\ Published'
    BY <1>a, <1>b, <1>c DEF SessionReported, graph, flags, Numbered, Manned,
       Fits, Driven, Published
<1>5. Fed'
    BY <1>a, <1>b, <1>c DEF SessionReported, graph, Fed, Done, Graph
<1>6. Told'
    BY DEF SessionReported, Current, Journalled, Snapshot, graph, flags,
       outcome, history, Told, TypeOK, GraphOK, SwitchesOK, CountersOK,
       ObjectsOK, OutcomeOK, DiskOK, Runs, Status, Where, Active, Tasks,
       StopReachesAll, Manned, Fits, Numbered, Empty, NoTasks
<1> QED
    BY <1>1, <1>2, <1>3, <1>4, <1>5, <1>6 DEF TypeOK

LEMMA TurnEndsStep ==
    ASSUME IInv, NEW t \in Tasks, NEW answered \in BOOLEAN, TurnEnds(t, answered) PROVE IInv'
<1> USE WorkflowConstants DEF IInv
<1>a. /\ state' \in [Node -> Status] /\ at' \in [Tasks -> Where]
      /\ finished' \in BOOLEAN
      /\ status' \in { "running", "done", "error", "cancelled" }
      /\ summary' \in [Runs -> { "none", "waiting", "writing", "sending" }] /\ DiskOK'
      /\ Manned' /\ Driven' /\ Published' /\ Fed' /\ Numbered'
      /\ \A u \in Tasks : at'[u] = "live" => at[u] = "live" /\ u # t
      /\ IF finished THEN finished' /\ status' = status ELSE status' # "cancelled"
      /\ row'.status # "none"
  <2> DEFINE s == IF answered THEN "done" ELSE "error"
  <2>1. /\ at[t] # "none" /\ s \in {"done", "error"} /\ broken' \in BOOLEAN
        /\ UNCHANGED << graph, engine, gen, session, run >>
        /\ TickIfRunning(Write(t, s), [at EXCEPT ![t] = "none"])
      BY DEF TurnEnds, TypeOK, SwitchesOK
  <2> HIDE DEF s
  <2> QED
      BY <2>1, Ended
<1>b. engine # "none" /\ up /\ ~claimed /\ engine' = engine /\ row.status # "none"
    BY DEF TurnEnds, Empty, NoTasks, Phases
<1>1. GraphOK' /\ SwitchesOK' /\ CountersOK' /\ Empty' /\ Phases'
    BY <1>a, <1>b DEF TurnEnds, graph, GraphOK, TypeOK, history, SwitchesOK,
       CountersOK, Empty, Phases
<1>2. ObjectsOK'
    BY <1>a, <1>b DEF TurnEnds, ObjectsOK, TypeOK, Status, Where, NoTasks
<1>3. OutcomeOK'
    BY <1>a, <1>b DEF TurnEnds, graph, history, OutcomeOK, TypeOK, GraphOK,
       SwitchesOK, CountersOK, ObjectsOK, DiskOK, Runs, Status, Where,
       Active, Tasks, Accept, Empty
<1>4. DiskOK'
    BY <1>a
<1>5. Graph'
    BY DEF TurnEnds, graph, history, Graph, TypeOK, GraphOK, SwitchesOK,
       CountersOK, ObjectsOK, OutcomeOK, DiskOK, Runs, Status, Where,
       Active, Tasks
<1>6. Numbered'
    BY <1>a
<1>7. Manned'
    BY <1>a
<1>8. Driven'
    BY <1>a
<1>9. Published'
    BY <1>a
<1>10. Fed'
    BY <1>a
<1>11. Told'
    BY <1>a, <1>b DEF TurnEnds, graph, history, Told, TypeOK, GraphOK,
       SwitchesOK, CountersOK, ObjectsOK, OutcomeOK, DiskOK, Runs, Status,
       Where, Active, Tasks, Current, StopReachesAll, Manned, Fits,
       Numbered, Empty, NoTasks
<1> QED
    BY <1>1, <1>2, <1>3, <1>4, <1>5, <1>6, <1>7, <1>8, <1>9, <1>10, <1>11
       DEF TypeOK

LEMMA StopStep == ASSUME IInv, Stop PROVE IInv'
<1> USE WorkflowConstants DEF IInv
<1>a. /\ Done' = Done
      /\ row'.status = status' /\ row'.done = Done
      /\ row' \in [status : { "none", "running", "done", "error", "cancelled" },
                   done : SUBSET Node]
  <2>1. /\ status' \in { "error", "cancelled" } /\ Snapshot(status', state) /\ nodes' = nodes
        /\ state' = state
      BY DEF Stop, Cancel, graph, objects
  <2> QED
      BY <2>1, Snapped
<1>1. GraphOK' /\ SwitchesOK' /\ CountersOK' /\ OutcomeOK'
    BY <1>a DEF Stop, Cancel, graph, GraphOK, TypeOK, history, SwitchesOK,
       CountersOK, OutcomeOK
<1>2. ObjectsOK' /\ DiskOK'
    BY <1>a DEF Stop, Cancel, ChildrenKnown, objects, ObjectsOK, TypeOK,
       NoJournal, DiskOK, Runs
<1>3. Empty' /\ Phases' /\ Graph' /\ Numbered' /\ Manned'
    BY <1>a DEF Stop, Cancel, Empty, Phases, graph, Graph, objects,
       Numbered, Manned
<1>4. Driven' /\ Published'
    BY <1>a DEF Stop, Cancel, Driven, NoJournal, Published
<1>5. Fed'
    BY <1>a DEF Stop, NoJournal, Cancel, ChildrenKnown, graph, objects,
       history, Fed, TypeOK, GraphOK, SwitchesOK, CountersOK, ObjectsOK,
       OutcomeOK, DiskOK, Runs, Status, Where, Active, Tasks, Done, Graph,
       Published, Manned, Fits, Numbered, Empty
<1>6. Told'
  <2>1. \A t \in Tasks : at'[t] = at[t] /\ (Current(t)' <=> Current(t)) /\ session' = session
      BY DEF Stop, Cancel, objects, Current
  <2>2. engine # "none"
      BY DEF Stop, Cancel
  <2>3. \A t \in Tasks : at[t] = "live" /\ Current(t) => t[1] \in session /\ state[t[1]] = "running"
      BY <2>2 DEF Told, Numbered, Manned, Fits, Current, Tasks
  <2>4. \A t \in Tasks : at[t] = "live" /\ Current(t) => t \in stopped'
      BY <2>3 DEF Stop, ChildrenKnown
  <2> QED
      BY <2>1, <2>3, <2>4 DEF Told, StopReachesAll
<1> QED
    BY <1>1, <1>2, <1>3, <1>4, <1>5, <1>6 DEF TypeOK

LEMMA AbortStep == ASSUME IInv, Abort PROVE IInv'
<1> USE WorkflowConstants DEF IInv
<1>a. /\ Done' = Done
      /\ row'.status = status' /\ row'.done = Done
      /\ row' \in [status : { "none", "running", "done", "error", "cancelled" },
                   done : SUBSET Node]
  <2>1. /\ status' \in { "error", "cancelled" } /\ Snapshot(status', state) /\ nodes' = nodes
        /\ state' = state
      BY DEF Abort, Cancel, graph, objects
  <2> QED
      BY <2>1, Snapped
<1>1. GraphOK' /\ SwitchesOK' /\ CountersOK' /\ OutcomeOK'
    BY <1>a DEF Abort, Cancel, graph, GraphOK, TypeOK, history, SwitchesOK,
       CountersOK, OutcomeOK
<1>2. ObjectsOK' /\ DiskOK'
    BY <1>a DEF Abort, Cancel, ChildrenKnown, objects, ObjectsOK, TypeOK,
       NoJournal, DiskOK, Runs
<1>3. Empty' /\ Phases' /\ Graph' /\ Numbered' /\ Manned'
    BY <1>a DEF Abort, Cancel, Empty, Phases, graph, Graph, objects,
       Numbered, Manned
<1>4. Driven' /\ Published'
    BY <1>a DEF Abort, Cancel, Driven, NoJournal, Published
<1>5. Fed'
    BY <1>a DEF Abort, Cancel, graph, objects, Fed, Done, Graph
<1>6. Told'
    BY DEF Abort, NoJournal, Cancel, ChildrenKnown, Snapshot, graph,
       objects, history, Told, TypeOK, GraphOK, SwitchesOK, CountersOK,
       ObjectsOK, OutcomeOK, DiskOK, Runs, Status, Where, Active, Tasks,
       Current, StopReachesAll, Manned, Fits, Numbered, Empty, NoTasks
<1> QED
    BY <1>1, <1>2, <1>3, <1>4, <1>5, <1>6 DEF TypeOK

LEMMA ReloadStep == ASSUME IInv, Reload PROVE IInv'
<1> USE WorkflowConstants DEF IInv
<1>a. /\ Done' = Done
      /\ row'.status = status' /\ row'.done = Done
      /\ row' \in [status : { "none", "running", "done", "error", "cancelled" },
                   done : SUBSET Node]
  <2>1. /\ status' \in { "error", "cancelled" } /\ Snapshot(status', state) /\ nodes' = nodes
        /\ state' = state
      BY DEF Reload, Cancel, graph, objects
  <2> QED
      BY <2>1, Snapped
<1>1. GraphOK' /\ SwitchesOK' /\ CountersOK' /\ OutcomeOK'
    BY <1>a DEF Reload, Cancel, graph, GraphOK, TypeOK, history, SwitchesOK,
       CountersOK, OutcomeOK
<1>2. ObjectsOK' /\ DiskOK' /\ Empty'
    BY <1>a DEF Reload, Cancel, objects, ObjectsOK, TypeOK, NoJournal,
       DiskOK, Runs, Empty
<1>3. Phases' /\ Graph' /\ Numbered' /\ Manned' /\ Driven'
    BY <1>a DEF Reload, Cancel, Phases, graph, Graph, objects, Numbered,
       Manned, Driven
<1>4. Published' /\ Fed'
    BY <1>a DEF Reload, NoJournal, Cancel, Published, graph, objects, Fed,
       Done, Graph
<1>5. Told'
    BY DEF Reload, NoJournal, Cancel, Snapshot, graph, objects, history,
       Told, TypeOK, GraphOK, SwitchesOK, CountersOK, ObjectsOK, OutcomeOK,
       DiskOK, Runs, Status, Where, Active, Tasks, Current, StopReachesAll,
       Manned, Fits, Numbered, Empty, NoTasks
<1> QED
    BY <1>1, <1>2, <1>3, <1>4, <1>5 DEF TypeOK

LEMMA DetachStep == ASSUME IInv, Detach PROVE IInv'
<1> USE WorkflowConstants DEF IInv
<1>1. GraphOK' /\ SwitchesOK' /\ CountersOK' /\ OutcomeOK'
    BY DEF Detach, graph, GraphOK, TypeOK, history, SwitchesOK, disk,
       CountersOK, OutcomeOK
<1>2. ObjectsOK' /\ DiskOK' /\ Empty' /\ Phases'
    BY DEF Detach, objects, children, ObjectsOK, TypeOK, disk, DiskOK,
       Empty, Phases
<1>3. Graph' /\ Numbered' /\ Manned' /\ Driven'
    BY DEF Detach, graph, Graph, objects, children, Numbered, Manned,
       Driven, Done
<1>4. Published' /\ Fed'
    BY DEF Detach, graph, objects, disk, Published, Status, Where, Done, Fed
<1>5. Told'
    BY DEF Detach, graph, objects, children, disk, history, Told, TypeOK,
       GraphOK, SwitchesOK, CountersOK, ObjectsOK, OutcomeOK, DiskOK, Runs,
       Status, Where, Active, Tasks, Current, StopReachesAll, Manned, Fits,
       Numbered, Empty, NoTasks
<1> QED
    BY <1>1, <1>2, <1>3, <1>4, <1>5 DEF TypeOK

LEMMA ResumeStep ==
    ASSUME IInv, NEW async \in BOOLEAN, Resume(async) PROVE IInv'
<1>a. /\ Renewed(Unfinished) \in [Node -> Status] /\ GraphOK' /\ Graph'
      /\ nodes' = nodes /\ deps' = deps
      /\ nodes' \subseteq Node
      /\ gen' = [n \in Node |-> IF n \in Unfinished THEN run + 1 ELSE gen[n]]
      /\ run' = run + 1 /\ session' = session \ Unfinished /\ broken' = broken
      /\ gen' \in [Node -> Runs] /\ run' \in Runs /\ session' \subseteq Node
      /\ broken' \in BOOLEAN /\ engine' = "listed" /\ engine = "listed" /\ Tick(Renewed(Unfinished), at)
      /\ up /\ ~claimed /\ row.status # "none"
    BY ResumeTicks
<1>c. /\ Ran(Renewed(Unfinished))
      /\ \A t \in Tasks : at'[t] = at[t] \/ (at'[t] = "access" /\ t[1] \in nodes'
                                              /\ t[2] = gen'[t[1]])
    BY ResumeTicks
<1>d. Manned' /\ Driven' /\ Published' /\ Fed'
    BY ResumeTicks
<1> USE WorkflowConstants DEF IInv
<1>1. GraphOK' /\ SwitchesOK' /\ CountersOK' /\ ObjectsOK'
    BY <1>a, <1>c DEF Resume, SwitchesOK, TypeOK, Ran, CountersOK,
       ObjectsOK, Status, Where, NoTasks
<1>2. OutcomeOK'
    BY <1>a, <1>c DEF Resume, graph, history, OutcomeOK, TypeOK, GraphOK,
       SwitchesOK, CountersOK, ObjectsOK, DiskOK, Runs, Status, Where,
       Active, Tasks, Accept, Empty, Ran
<1>3. DiskOK'
    BY <1>c DEF Ran
<1>4. Empty'
    BY <1>a, <1>c DEF history, Empty
<1>5. Phases'
    BY <1>a, <1>c, <1>d DEF Resume, graph, history, Phases, TypeOK, GraphOK,
       SwitchesOK, CountersOK, ObjectsOK, OutcomeOK, DiskOK, Runs, Status,
       Where, Active, Tasks, Empty, Driven, Published, Ran
<1>6. Graph'
    BY <1>a
<1>7. Numbered'
  <2>1. run \in Nat /\ \A n \in Node : gen[n] \in Nat /\ gen[n] <= run
      BY DEF Numbered, TypeOK, CountersOK, ObjectsOK, Runs
  <2>2. \A n \in Node : gen'[n] <= run + 1
      BY <1>a, <2>1
  <2>3. \A t \in Tasks : at'[t] # "none" => t[1] \in nodes /\ t[2] <= run + 1
    <3> SUFFICES ASSUME NEW t \in Tasks, at'[t] # "none"
                 PROVE  t[1] \in nodes /\ t[2] <= run + 1
        OBVIOUS
    <3>1. t[1] \in Node /\ t[2] \in Nat
        BY DEF Tasks, Runs
    <3>2. CASE at[t] # "none"
        BY <2>1, <3>1, <3>2 DEF Numbered
    <3>3. CASE t[1] \in nodes' /\ t[2] = gen'[t[1]]
        BY <1>a, <2>2, <3>1, <3>3
    <3> QED
        BY <1>c, <3>2, <3>3
  <2> QED
      BY <1>a, <2>2, <2>3 DEF Numbered
<1>8. Manned'
    BY <1>d
<1>9. Driven'
    BY <1>d
<1>10. Published'
    BY <1>d
<1>11. Fed'
    BY <1>d
<1>12. Told'
  <2>1. run \in Nat /\ nodes \subseteq Node /\ gen \in [Node -> Runs]
      BY DEF TypeOK, GraphOK, CountersOK, ObjectsOK, Runs
  <2>2. \A t \in Tasks : at'[t] = "live" => ~Current(t)'
    <3> SUFFICES ASSUME NEW t \in Tasks, at'[t] = "live", Current(t)'
                 PROVE  FALSE
        OBVIOUS
    <3>1. /\ at[t] = "live" /\ t[1] \in nodes /\ t[1] \in Node /\ t[2] \in Nat /\ t[2] <= run
          /\ t = << t[1], t[2] >>
        BY <1>c, <2>1 DEF Numbered, Tasks, Runs
    <3>2. CASE t[1] \in Unfinished
        BY <1>a, <2>1, <3>1, <3>2 DEF Current
    <3>3. CASE t[1] \notin Unfinished
        BY <1>a, <2>1, <3>1, <3>3 DEF Current, Unfinished, Manned, Fits
    <3> QED
        BY <3>2, <3>3
  <2> QED
      BY <1>c, <2>2 DEF Told, StopReachesAll, Ran
<1> QED
    BY <1>1, <1>2, <1>3, <1>4, <1>5, <1>6, <1>7, <1>8, <1>9, <1>10, <1>11,
       <1>12 DEF TypeOK

LEMMA SummarisedStep ==
    ASSUME IInv, NEW r \in Runs, NEW written \in BOOLEAN, Summarised(r, written) PROVE IInv'
<1> USE WorkflowConstants DEF IInv
<1>a. /\ Done' = Done
      /\ row'.status = status' /\ row'.done = Done
      /\ row' \in [status : { "none", "running", "done", "error", "cancelled" },
                   done : SUBSET Node]
  <2>1. /\ nodes' = nodes /\ state' = state /\ engine # "none"
      BY DEF Summarised, graph, objects, Empty
  <2>2. CASE written
      BY <2>1, <2>2 DEF Summarised, Done, Published, TypeOK, DiskOK
  <2>3. CASE ~written
    <3>1. status' = "error" /\ Snapshot("error", state)
        BY <2>3 DEF Summarised, MarkFailure
    <3> QED
        BY <2>1, <3>1, Snapped
  <2> QED
      BY <2>2, <2>3
<1>b. engine # "none"
    BY DEF Summarised, Empty
<1>1. GraphOK' /\ SwitchesOK'
    BY DEF Summarised, graph, GraphOK, TypeOK, MarkFailure, SwitchesOK
<1>2. CountersOK' /\ OutcomeOK' /\ DiskOK'
    BY <1>a, <1>b DEF Summarised, CountersOK, TypeOK, OutcomeOK, DiskOK
<1>3. ObjectsOK' /\ Empty' /\ Phases'
    BY <1>a, <1>b DEF Summarised, objects, children, ObjectsOK, TypeOK,
       history, Empty, MarkFailure, Phases
<1>4. Graph' /\ Numbered' /\ Manned'
    BY DEF Summarised, graph, history, Graph, objects, children, Numbered,
       Manned
<1>5. Driven' /\ Published'
    BY <1>a, <1>b DEF Summarised, MarkFailure, graph, objects, history,
       Driven, Published
<1>6. Fed'
    BY <1>a, <1>b DEF Summarised, graph, objects, Fed, Done, Graph
<1>7. Told'
    BY DEF Summarised, MarkFailure, Snapshot, graph, objects, children,
       history, Told, TypeOK, GraphOK, SwitchesOK, CountersOK, ObjectsOK,
       OutcomeOK, DiskOK, Runs, Status, Where, Active, Tasks, Current,
       StopReachesAll, Manned, Fits, Numbered, Empty, NoTasks
<1> QED
    BY <1>1, <1>2, <1>3, <1>4, <1>5, <1>6, <1>7 DEF TypeOK

LEMMA SentStep ==
    ASSUME IInv, NEW r \in Runs, NEW stored \in BOOLEAN, Sent(r, stored) PROVE IInv'
<1> USE WorkflowConstants DEF IInv
<1>a. /\ Done' = Done
      /\ row'.status = status' /\ row'.done = Done
      /\ row' \in [status : { "none", "running", "done", "error", "cancelled" },
                   done : SUBSET Node]
  <2>1. /\ nodes' = nodes /\ state' = state /\ engine # "none"
      BY DEF Sent, graph, objects, Empty
  <2>2. CASE stored
      BY <2>1, <2>2 DEF Sent, Done, Published, TypeOK, DiskOK
  <2>3. CASE ~stored
    <3>1. status' = "error" /\ Snapshot("error", state)
        BY <2>3 DEF Sent, MarkFailure
    <3> QED
        BY <2>1, <3>1, Snapped
  <2> QED
      BY <2>2, <2>3
<1>b. engine # "none"
    BY DEF Sent, Empty
<1>1. GraphOK' /\ SwitchesOK' /\ CountersOK' /\ DiskOK'
    BY <1>a, <1>b DEF Sent, graph, GraphOK, TypeOK, MarkFailure, SwitchesOK,
       CountersOK, DiskOK
<1>2. ObjectsOK'
    BY DEF Sent, MarkFailure, Snapshot, Accept, graph, objects, children,
       history, ObjectsOK, TypeOK, GraphOK, SwitchesOK, CountersOK,
       OutcomeOK, DiskOK, Runs, Status, Where, Active, Tasks, NoTasks
<1>3. OutcomeOK'
  <2>1. inbox' \in [run : Runs, at : { "none", "pending", "acknowledged" }]
      BY DEF Sent, Accept, TypeOK, OutcomeOK
  <2> QED
      BY <2>1 DEF Sent, TypeOK, OutcomeOK
<1>4. Empty' /\ Phases' /\ Graph' /\ Driven'
    BY <1>a, <1>b DEF Sent, history, Empty, MarkFailure, Phases, graph,
       Graph, objects, Driven
<1>5. Numbered' /\ Manned' /\ Published'
    BY <1>a, <1>b DEF Sent, graph, objects, children, history, Numbered,
       Manned, MarkFailure, Published
<1>6. Fed'
    BY <1>a, <1>b DEF Sent, graph, objects, Fed, Done, Graph
<1>7. Told'
    BY DEF Sent, MarkFailure, Snapshot, Accept, graph, objects, children,
       history, Told, TypeOK, GraphOK, SwitchesOK, CountersOK, ObjectsOK,
       OutcomeOK, DiskOK, Runs, Status, Where, Active, Tasks, Current,
       StopReachesAll, Manned, Fits, Numbered, Empty, NoTasks
<1> QED
    BY <1>1, <1>2, <1>3, <1>4, <1>5, <1>6, <1>7 DEF TypeOK

LEMMA AcknowledgeStep == ASSUME IInv, Acknowledge PROVE IInv'
<1> USE WorkflowConstants DEF IInv
<1>1. GraphOK' /\ SwitchesOK' /\ CountersOK' /\ OutcomeOK'
    BY DEF Acknowledge, graph, GraphOK, TypeOK, flags, SwitchesOK,
       CountersOK, outcome, OutcomeOK
<1>2. ObjectsOK' /\ DiskOK' /\ Graph'
    BY DEF Acknowledge, objects, children, ObjectsOK, TypeOK, DiskOK, graph,
       history, Graph
<1>3. Empty' /\ Phases'
    BY DEF Acknowledge, objects, flags, children, outcome, history, Empty,
       graph, Phases
<1>4. Numbered' /\ Manned' /\ Fed'
    BY DEF Acknowledge, graph, objects, flags, children, history, Numbered,
       Manned, Fed
<1>5. Driven' /\ Published'
    BY DEF Acknowledge, graph, objects, flags, Driven, Done, Published,
       Status, Where
<1>6. Told'
    BY DEF Acknowledge, graph, objects, flags, children, outcome, history,
       Told, TypeOK, GraphOK, SwitchesOK, CountersOK, ObjectsOK, OutcomeOK,
       DiskOK, Runs, Status, Where, Active, Tasks, Current, StopReachesAll,
       Manned, Fits, Numbered, Empty, NoTasks
<1> QED
    BY <1>1, <1>2, <1>3, <1>4, <1>5, <1>6 DEF TypeOK

LEMMA CrashStep == ASSUME IInv, Crash PROVE IInv'
<1> USE WorkflowConstants DEF IInv
<1>1. GraphOK' /\ SwitchesOK' /\ OutcomeOK'
    BY DEF Crash, graph, GraphOK, TypeOK, NothingHeld, history, SwitchesOK,
       disk, OutcomeOK
<1>2. CountersOK' /\ ObjectsOK' /\ DiskOK'
    BY DEF Crash, NothingHeld, disk, CountersOK, TypeOK, Runs, ObjectsOK,
       NoTasks, DiskOK
<1>3. Empty' /\ Phases' /\ Graph' /\ Numbered'
    BY DEF Crash, NothingHeld, Empty, disk, Phases, graph, Graph, Numbered,
       NoTasks
<1>4. Manned' /\ Driven' /\ Published'
    BY DEF Crash, NothingHeld, Manned, Driven, disk, Published
<1>5. Fed'
    BY DEF Crash, NothingHeld, graph, disk, Fed, TypeOK, GraphOK
<1>6. Told'
    BY DEF Crash, NothingHeld, graph, disk, history, Told, TypeOK, GraphOK,
       SwitchesOK, CountersOK, ObjectsOK, OutcomeOK, DiskOK, Runs, Status,
       Where, Active, Tasks, Current, StopReachesAll, Manned, Fits,
       Numbered, Empty, NoTasks
<1> QED
    BY <1>1, <1>2, <1>3, <1>4, <1>5, <1>6 DEF TypeOK

LEMMA BootStep == ASSUME IInv, Boot PROVE IInv'
<1> USE WorkflowConstants DEF IInv
<1>1. GraphOK' /\ SwitchesOK' /\ CountersOK' /\ Phases'
    BY DEF Boot, graph, GraphOK, TypeOK, flags, history, SwitchesOK,
       CountersOK, Phases
<1>2. ObjectsOK' /\ OutcomeOK' /\ DiskOK'
    BY DEF Boot, objects, children, ObjectsOK, TypeOK, outcome, history,
       OutcomeOK, DiskOK
<1>3. Empty' /\ Graph' /\ Numbered'
    BY DEF Boot, objects, flags, children, outcome, Empty, graph, Graph,
       Numbered
<1>4. Manned' /\ Driven' /\ Fed'
    BY DEF Boot, graph, objects, children, Manned, flags, Driven, Done, Fed
<1>5. Published'
    BY DEF Boot, graph, objects, flags, Published, Status, Where, Done
<1>6. Told'
    BY DEF Boot, graph, objects, flags, children, outcome, history, Told,
       TypeOK, GraphOK, SwitchesOK, CountersOK, ObjectsOK, OutcomeOK,
       DiskOK, Runs, Status, Where, Active, Tasks, Current, StopReachesAll,
       Manned, Fits, Numbered, Empty, NoTasks
<1> QED
    BY <1>1, <1>2, <1>3, <1>4, <1>5, <1>6 DEF TypeOK

LEMMA BootResumesStep == ASSUME IInv, BootResumes PROVE IInv'
<1>a. /\ Recovered \in [Node -> Status] /\ GraphOK' /\ Graph' /\ nodes' = nodes /\ deps' = deps
      /\ nodes' \subseteq Node
      /\ gen' = [n \in Node |-> journal.run + 1]
      /\ run' = journal.run + 1 /\ broken' = broken
      /\ gen' \in [Node -> Runs] /\ run' \in Runs /\ session' \subseteq Node
      /\ broken' \in BOOLEAN /\ engine' = "listed" /\ engine = "none" /\ Tick(Recovered, at)
      /\ up /\ ~claimed' /\ row.status # "none"
    BY BootResumesTicks
<1>c. /\ Ran(Recovered)
      /\ \A t \in Tasks : at'[t] = at[t] \/ (at'[t] = "access" /\ t[1] \in nodes'
                                              /\ t[2] = gen'[t[1]])
    BY BootResumesTicks
<1>d. Manned' /\ Driven' /\ Published' /\ Fed'
    BY BootResumesTicks
<1> USE WorkflowConstants DEF IInv
<1>1. GraphOK' /\ SwitchesOK'
    BY <1>a, <1>c DEF BootResumes, history, SwitchesOK, TypeOK, Ran
<1>2. CountersOK' /\ Empty'
    BY <1>a, <1>c DEF BootResumes, CountersOK, TypeOK, Empty
<1>3. ObjectsOK'
    BY <1>a, <1>c DEF BootResumes, ObjectsOK, TypeOK, Status, Where,
       NoTasks, Ran
<1>4. OutcomeOK'
    BY <1>a, <1>c DEF BootResumes, graph, history, OutcomeOK, TypeOK,
       GraphOK, SwitchesOK, CountersOK, ObjectsOK, DiskOK, Runs, Status,
       Where, Active, Tasks, Accept, Empty, Ran
<1>5. DiskOK'
    BY <1>c DEF Ran
<1>6. Phases'
    BY <1>a, <1>c, <1>d DEF BootResumes, graph, history, Phases, TypeOK,
       GraphOK, SwitchesOK, CountersOK, ObjectsOK, OutcomeOK, DiskOK, Runs,
       Status, Where, Active, Tasks, Empty, Driven, Published, Ran
<1>7. Graph'
    BY <1>a
<1>8. Numbered'
    BY <1>a, <1>c DEF BootResumes, graph, history, Numbered, TypeOK,
       GraphOK, SwitchesOK, CountersOK, ObjectsOK, OutcomeOK, DiskOK, Runs,
       Status, Where, Active, Tasks, Empty, NoTasks, Ran
<1>9. Manned'
    BY <1>d
<1>10. Driven'
    BY <1>d
<1>11. Published'
    BY <1>d
<1>12. Fed'
    BY <1>d
<1>13. Told'
  <2>1. \A t \in Tasks : at'[t] # "live"
      BY <1>a, <1>c DEF Empty, NoTasks
  <2> QED
      BY <2>1 DEF Told, StopReachesAll
<1> QED
    BY <1>1, <1>2, <1>3, <1>4, <1>5, <1>6, <1>7, <1>8, <1>9, <1>10, <1>11,
       <1>12, <1>13 DEF TypeOK

LEMMA BootGivesUpStep ==
    ASSUME IInv, NEW refused \in BOOLEAN, BootGivesUp(refused) PROVE IInv'
<1> USE WorkflowConstants DEF IInv
<1>1. GraphOK' /\ SwitchesOK'
    BY DEF BootGivesUp, graph, GraphOK, TypeOK, flags, history, SwitchesOK
<1>2. CountersOK' /\ Phases'
    BY DEF BootGivesUp, flags, CountersOK, TypeOK, Phases
<1>3. ObjectsOK' /\ Empty'
    BY DEF BootGivesUp, objects, children, ObjectsOK, TypeOK, flags,
       outcome, Empty
<1>4. OutcomeOK'
    BY DEF BootGivesUp, NoJournal, Accept, graph, objects, flags, children,
       outcome, history, OutcomeOK, TypeOK, GraphOK, SwitchesOK, CountersOK,
       ObjectsOK, DiskOK, Runs, Status, Where, Active, Tasks, Empty
<1>5. DiskOK'
  <2>1. journal' \in [on : BOOLEAN, done : SUBSET Node, ran : SUBSET Node, run : Runs]
      BY DEF BootGivesUp, NoJournal, Runs, TypeOK, DiskOK
  <2>2. row' \in [status : { "none", "running", "done", "error", "cancelled" }, done : SUBSET Node]
      BY DEF BootGivesUp, TypeOK, DiskOK
  <2> QED
      BY <2>1, <2>2 DEF DiskOK
<1>6. Graph' /\ Numbered' /\ Manned' /\ Fed'
    BY DEF BootGivesUp, graph, Graph, objects, flags, children, Numbered,
       Manned, Fed
<1>7. Driven'
    BY DEF BootGivesUp, graph, objects, flags, Driven, Done
<1>8. Published'
    BY DEF BootGivesUp, NoJournal, Published, Status, Where, Phases
<1>9. Told'
    BY DEF BootGivesUp, NoJournal, Accept, graph, objects, flags, children,
       outcome, history, Told, TypeOK, GraphOK, SwitchesOK, CountersOK,
       ObjectsOK, OutcomeOK, DiskOK, Runs, Status, Where, Active, Tasks,
       Current, StopReachesAll, Manned, Fits, Numbered, Empty, NoTasks
<1> QED
    BY <1>1, <1>2, <1>3, <1>4, <1>5, <1>6, <1>7, <1>8, <1>9 DEF TypeOK

-----------------------------------------------------------------------------
(* The invariant                                                             *)

LEMMA EmptyGraph == ASSUME NEW d PROVE ~HasCycle({}, d)
<1> SUFFICES ASSUME NEW C \in SUBSET {}, C # {} PROVE FALSE
    BY DEF HasCycle
<1> QED
    OBVIOUS

LEMMA InitInvariant == ASSUME Init PROVE IInv
<1> USE WorkflowConstants DEF Init, NoTasks, NoJournal, Runs
<1>1. TypeOK
  <2>1. GraphOK /\ SwitchesOK
      BY DEF GraphOK, SwitchesOK
  <2>7. CountersOK
      BY DEF CountersOK
  <2>2. gen \in [Node -> Runs] /\ session \subseteq Node /\ stopped \subseteq Tasks
      OBVIOUS
  <2>5. state \in [Node -> { "pending", "running", "done", "error" }]
      OBVIOUS
  <2>6. at \in [Tasks -> Active \cup {"none"}]
      OBVIOUS
  <2>4. OutcomeOK
      BY DEF OutcomeOK
  <2>3. DiskOK
      BY DEF DiskOK
  <2> QED
      BY <2>1, <2>2, <2>3, <2>4, <2>5, <2>6, <2>7 DEF TypeOK, ObjectsOK
<1>2. Empty /\ Phases
    BY DEF Empty, Phases
<1>3. Graph
  <2>1. ~HasCycle({}, deps)
      BY EmptyGraph
  <2> QED
      BY <2>1 DEF Graph
<1>4. Numbered /\ Manned /\ Driven /\ Published
    BY DEF Numbered, Manned, Driven, Published
<1>5. Fed /\ Told
    BY DEF Fed, Told, StopReachesAll
<1> QED
    BY <1>1, <1>2, <1>3, <1>4, <1>5 DEF IInv

LEMMA StutterStep == ASSUME IInv, UNCHANGED vars PROVE IInv'
<1> USE DEF IInv, vars, graph, objects, flags, children, outcome, disk, history
<1>1. TypeOK'
    BY DEF TypeOK, GraphOK, SwitchesOK, CountersOK, ObjectsOK, OutcomeOK, DiskOK
<1>2. Empty' /\ Phases' /\ Graph'
    BY DEF Empty, Phases, Graph
<1>3. Numbered' /\ Manned' /\ Driven' /\ Published'
    BY DEF Numbered, Manned, Fits, Driven, Published, Done
<1>4. Fed' /\ Told'
    BY DEF Fed, Told, StopReachesAll, Current
<1> QED
    BY <1>1, <1>2, <1>3, <1>4

LEMMA NextStep == ASSUME IInv, Next PROVE IInv'
<1>1. CASE Request
    BY <1>1, StartStep, AddNodesStep, StopStep, AbortStep, ReloadStep, DetachStep, ResumeStep
    DEF Request
<1>2. CASE Continuation
    BY <1>2, AccessReadyStep, SessionReportedStep, AccessFailsStep, TurnEndsStep,
       SummarisedStep, SentStep, AcknowledgeStep DEF Continuation
<1>3. CASE Restart
    BY <1>3, BootStep, BootResumesStep, BootGivesUpStep DEF Restart
<1> QED
    BY <1>1, <1>2, <1>3, CrashStep DEF Next

(* Every state of every behaviour of the engine satisfies the invariant.     *)
THEOREM WorkflowInvariant == Spec => []IInv
<1>1. Init => IInv
    BY InitInvariant
<1>2. IInv /\ [Next]_vars => IInv'
    BY NextStep, StutterStep
<1> QED
    BY <1>1, <1>2, PTL DEF Spec

(* Every variable of the engine keeps its type, whatever the graph.          *)
THEOREM WorkflowTypes == Spec => []TypeOK
<1>1. IInv => TypeOK
    BY DEF IInv
<1> QED
    BY <1>1, WorkflowInvariant, PTL

(* tick launches a node only when all it waits for is done, and no resume,   *)
(* restart or expansion takes a result back while the node uses it.          *)
THEOREM NodesAfterDependencies == Spec => []AfterDependencies
<1>1. IInv => AfterDependencies
    BY DEF IInv, Fed, AfterDependencies
<1> QED
    BY <1>1, WorkflowInvariant, PTL

(* An unfinished run of any graph has a node whose continuation is due.      *)
THEOREM EngineNeverSleeps == Spec => []EngineAwake
<1>1. IInv => EngineAwake
    BY DEF IInv, Driven, Manned, Fits, EngineAwake
<1> QED
    BY <1>1, WorkflowInvariant, PTL

(* A crash at any point of an unfinished run leaves a journal that resumes   *)
(* it with every result it had.                                              *)
THEOREM JournalResumes == Spec => []JournalCovers
<1>1. IInv => JournalCovers
    BY DEF IInv, Driven, Published, Done, JournalCovers
<1> QED
    BY <1>1, WorkflowInvariant, PTL

(* A stop reaches the children of the run, also those that appear after it,  *)
(* while the run stays cancelled.                                            *)
THEOREM StopIsHeard == Spec => []StopReachesAll
<1>1. IInv => StopReachesAll
    BY DEF IInv, Told
<1> QED
    BY <1>1, WorkflowInvariant, PTL

-----------------------------------------------------------------------------
(* The engine implements DagRun: what the row of a workflow says, and which  *)
(* nodes run, is what a workflow promises to those who watch it.             *)

Failed == { n \in nodes : state[n] = "error" }
Working == { n \in nodes : state[n] = "running" }
In(N, st, s) == { n \in N : st[n] = s }

-----------------------------------------------------------------------------
(* Ticks                                                                     *)

(* When nothing runs, nothing is ready and nothing failed, then all is done: *)
(* the nodes that wait would form a cycle.                                   *)
LEMMA AllDone ==
    ASSUME NEW N \in SUBSET Node, NEW D \in [Node -> SUBSET Node], NEW st \in [Node -> Status],
           ~HasCycle(N, D), \A n \in N : D[n] \subseteq N,
           \A n \in N : st[n] \notin {"running", "error"},
           \A n \in N : st[n] = "pending" => ~(D[n] \subseteq In(N, st, "done"))
    PROVE  In(N, st, "done") = N
<1> DEFINE C == In(N, st, "pending")
<1>1. \A n \in C : \E m \in C : m \in D[n]
    BY DEF In, Status
<1>2. C \in SUBSET N
    BY DEF In
<1> HIDE DEF C
<1>3. C = {}
    BY <1>1, <1>2 DEF HasCycle
<1> QED
    BY <1>3 DEF C, In, Status

(* What the abstract run sees of a tick: the nodes that can run are started, *)
(* and if there is nothing to run, the workflow is over.                     *)
Dispatches(st) ==
    LET dn == In(nodes', st, "done")
        fl == In(nodes', st, "error")
        wk == In(nodes', st, "running")
        ready == { n \in nodes' \ (dn \cup fl \cup wk) : deps'[n] \subseteq dn }
    IN  /\ row'.done = dn /\ Failed' = fl /\ Working' = wk \cup ready
        /\ row'.status \in IF wk \cup ready # {} THEN {"running"}
                           ELSE {"error"} \cup { v \in {"done"} : dn = nodes' }

LEMMA Dispatched ==
    ASSUME NEW st \in [Node -> Status], GraphOK', Graph', Ran(st)
    PROVE  Dispatches(st)
<1> DEFINE N == nodes'
           ready == { n \in N \ (In(N, st, "done") \cup In(N, st, "error") \cup In(N, st, "running")) :
                        deps'[n] \subseteq In(N, st, "done") }
<1>1. N \subseteq Node /\ deps' \in [Node -> SUBSET Node] /\ ~HasCycle(N, deps')
      /\ \A n \in N : deps'[n] \subseteq N
    BY DEF GraphOK, Graph
<1>2. DoneIn(st) = In(N, st, "done") /\ ready = ReadyIn(st)
    BY <1>1 DEF DoneIn, ReadyIn, In, Status
<1>3. row'.done = In(N, st, "done")
    BY <1>2 DEF Ran
<1>4. { n \in N : state'[n] = "error" } = In(N, st, "error")
    BY <1>1 DEF Ran, In
<1>5. { n \in N : state'[n] = "running" } = In(N, st, "running") \cup ready
    BY <1>1, <1>2 DEF Ran, In, ReadyIn
<1>6. row'.status \in IF In(N, st, "running") \cup ready # {} THEN {"running"}
                      ELSE {"error"} \cup { v \in {"done"} : In(N, st, "done") = N }
  <2>1. CASE ~finished'
    <3>1. In(N, st, "running") \cup ready # {}
        BY <1>5, <2>1 DEF Ran
    <3> QED
        BY <2>1, <3>1 DEF Ran
  <2>2. CASE finished'
    <3>1. In(N, st, "running") \cup ready = {}
        BY <1>5, <2>2 DEF Ran
    <3>2. row'.status = "error" \/ row'.status = "done"
        BY <2>2 DEF Ran
    <3>3. ASSUME row'.status = "done"
          PROVE  In(N, st, "done") = N
      <4>1. \A n \in N : st[n] \notin {"running", "error"}
          BY <1>1, <2>2, <3>1, <3>3 DEF Ran, In
      <4>2. \A n \in N : st[n] = "pending" => ~(deps'[n] \subseteq In(N, st, "done"))
          BY <3>1, <1>2 DEF ReadyIn
      <4> QED
          BY <1>1, <4>1, <4>2, AllDone
    <3> QED
        BY <3>1, <3>2, <3>3
  <2> QED
      BY <2>1, <2>2
<1> QED
    BY <1>3, <1>4, <1>5, <1>6 DEF Dispatches, Failed, Working

-----------------------------------------------------------------------------
(* The steps                                                                 *)

Abstract == Promise!Next \/ UNCHANGED Promise!vars

(* What the abstract run sees of a step that leaves the nodes as they are.   *)
LEMMA Unseen ==
    ASSUME UNCHANGED << nodes, deps >>, Failed' = Failed, Working' = Working,
           row'.done = row.done,
           \/ row'.status = row.status
           \/ row.status # "none" /\ row'.status = "error"
           \/ row.status = "running" /\ row'.status = "cancelled"
    PROVE  Abstract
<1>1. CASE row'.status = row.status
    BY <1>1 DEF Abstract, Promise!vars, Failed, Working
<1>2. CASE \/ row.status # "none" /\ row'.status = "error"
           \/ row.status = "running" /\ row'.status = "cancelled"
  <2>1. Promise!Halt
      BY <1>2 DEF Promise!Halt, Failed, Working
  <2> QED
      BY <2>1 DEF Abstract, Promise!Next
<1> QED
    BY <1>1, <1>2

(* New nodes are declared, of a workflow that begins or goes on.             *)
LEMMA Declared ==
    ASSUME NEW S \in SUBSET Node, S # {}, S \cap nodes = {}, nodes' = nodes \cup S,
           NEW D \in [Node -> SUBSET Node], deps' = D, \A n \in nodes : D[n] = deps[n],
           row.status = "none" \/ (row.status = "running" /\ Working # {}),
           NEW st \in [Node -> Status], Dispatches(st),
           In(nodes', st, "done") = row.done, In(nodes', st, "error") = Failed,
           In(nodes', st, "running") = Working
    PROVE  Abstract
<1> DEFINE ready == { n \in (nodes \cup S) \ (row.done \cup Failed \cup Working) :
                        D[n] \subseteq row.done }
<1>1. /\ row'.done = row.done /\ Failed' = Failed /\ Working' = Working \cup ready
      /\ row'.status \in IF Working \cup ready # {} THEN {"running"}
                         ELSE {"error"} \cup { v \in {"done"} : row.done = nodes \cup S }
  <2>1. { n \in nodes' \ (In(nodes', st, "done") \cup In(nodes', st, "error")
                           \cup In(nodes', st, "running")) :
              deps'[n] \subseteq In(nodes', st, "done") } = ready
    <3>1. nodes' \ (In(nodes', st, "done") \cup In(nodes', st, "error")
                    \cup In(nodes', st, "running")) = (nodes \cup S) \ (row.done \cup Failed \cup Working)
        OBVIOUS
    <3>2. \A n : deps'[n] \subseteq In(nodes', st, "done") <=> D[n] \subseteq row.done
        OBVIOUS
    <3> QED
        BY <3>1, <3>2
  <2> HIDE DEF ready
  <2>2. row'.done = row.done /\ Failed' = Failed /\ Working' = Working \cup ready
      BY <2>1 DEF Dispatches
  <2>3. CASE Working \cup ready # {}
      BY <2>1, <2>2, <2>3 DEF Dispatches
  <2>4. CASE Working \cup ready = {}
    <3>1. row'.status \in {"error"} \cup { v \in {"done"} : In(nodes', st, "done") = nodes' }
        BY <2>1, <2>4 DEF Dispatches
    <3> QED
        BY <2>2, <2>4, <3>1
  <2> QED
      BY <2>2, <2>3, <2>4
<1>2. Promise!Declare(S, D)
    BY <1>1 DEF Promise!Declare, Promise!Dispatch, Failed, Working
<1>3. \E U \in SUBSET Node, E \in [Node -> SUBSET Node] : Promise!Declare(U, E)
    BY <1>2
<1> QED
    BY <1>3 DEF Abstract, Promise!Next

(* A node ends while the workflow goes on, or when it is over.               *)
LEMMA EndsInRun ==
    ASSUME NEW n \in Working, nodes' = nodes, deps' = deps, row.status = "running",
           NEW st \in [Node -> Status], Dispatches(st), In(nodes, st, "running") = Working \ {n},
           NEW dn \in SUBSET Node, NEW fl \in SUBSET Node,
           In(nodes, st, "done") = dn, In(nodes, st, "error") = fl,
           \/ dn = row.done \cup {n} /\ fl = Failed
           \/ dn = row.done /\ fl = Failed \cup {n}
    PROVE  Abstract
<1>1. Promise!Ends(n, dn, fl)
    BY DEF Promise!Ends, Promise!Dispatch, Dispatches, Failed, Working
<1>2. \E m \in Working, x, y \in SUBSET Node : Promise!Ends(m, x, y)
    BY <1>1
<1> QED
    BY <1>2 DEF Abstract, Promise!Next, Working

LEMMA EndsAfterwards ==
    ASSUME NEW n \in Working, nodes' = nodes, deps' = deps,
           row.status # "running", row'.status = row.status,
           NEW dn \in SUBSET Node, NEW fl \in SUBSET Node,
           row'.done = dn, Failed' = fl, Working' = Working \ {n},
           \/ dn = row.done \cup {n} /\ fl = Failed
           \/ dn = row.done /\ fl = Failed \cup {n}
    PROVE  Abstract
<1>1. Promise!Ends(n, dn, fl)
    BY DEF Promise!Ends, Failed, Working
<1>2. \E m \in Working, x, y \in SUBSET Node : Promise!Ends(m, x, y)
    BY <1>1
<1> QED
    BY <1>2 DEF Abstract, Promise!Next, Working

(* A run begins for what is not done.                                        *)
LEMMA Redone ==
    ASSUME nodes' = nodes, deps' = deps, row.status # "none",
           \/ row.status # "running" /\ row.done # nodes
           \/ row.status = "running" /\ Working = {},
           NEW st \in [Node -> Status], Dispatches(st),
           In(nodes', st, "done") = row.done, In(nodes', st, "error") = {},
           In(nodes', st, "running") = {}
    PROVE  Abstract
<1>1. Promise!Redo
    BY DEF Promise!Redo, Promise!Dispatch, Dispatches, Failed, Working
<1> QED
    BY <1>1 DEF Abstract, Promise!Next

LEMMA StartRefines ==
    ASSUME IInv, NEW S \in (SUBSET (Node \ nodes)) \ {{}}, NEW d \in [S -> SUBSET Node],
           NEW async \in BOOLEAN, Start(S, d, async)
    PROVE  Abstract
<1>1. /\ state \in [Node -> Status] /\ GraphOK' /\ Graph' /\ nodes' = nodes \cup S /\ Ran(state)
    BY StartTicks
<1>2. /\ nodes = {} /\ row.status = "none" /\ row.done = {} /\ S \in SUBSET Node /\ S # {}
      /\ \A n \in Node : state[n] = "pending"
    BY DEF Start, IInv, Phases, Empty
<1>3. Dispatches(state) /\ deps' \in [Node -> SUBSET Node]
    BY <1>1, Dispatched DEF GraphOK
<1>4. /\ In(nodes', state, "done") = {} /\ In(nodes', state, "error") = {}
      /\ In(nodes', state, "running") = {} /\ Failed = {} /\ Working = {}
    BY <1>1, <1>2 DEF In, Failed, Working
<1> QED
    BY <1>1, <1>2, <1>3, <1>4, Declared

LEMMA AddNodesRefines ==
    ASSUME IInv, NEW S \in (SUBSET (Node \ nodes)) \ {{}}, NEW d \in [S -> SUBSET Node],
           AddNodes(S, d)
    PROVE  Abstract
<1>1. /\ Renewed(S) \in [Node -> Status] /\ GraphOK' /\ Graph' /\ nodes' = nodes \cup S
      /\ \A n \in nodes : deps'[n] = deps[n]
      /\ Ran(Renewed(S)) /\ engine = "listed" /\ ~finished
    BY AddNodesTicks
<1>2. /\ nodes \subseteq Node /\ S \in SUBSET Node /\ S # {} /\ S \cap nodes = {}
    BY DEF IInv, TypeOK, GraphOK
<1>3. /\ row.done = Done /\ row.status = "running" /\ Working # {}
    BY <1>1 DEF IInv, Published, Driven, Working
<1>4. /\ In(nodes', Renewed(S), "done") = row.done /\ In(nodes', Renewed(S), "error") = Failed
      /\ In(nodes', Renewed(S), "running") = Working
  <2>1. \A n \in nodes' : Renewed(S)[n] = IF n \in S THEN "pending" ELSE state[n]
      BY <1>1, <1>2 DEF Renewed
  <2> QED
      BY <1>1, <1>2, <1>3, <2>1 DEF In, Done, Failed, Working
<1>5. Dispatches(Renewed(S)) /\ deps' \in [Node -> SUBSET Node]
    BY <1>1, Dispatched DEF GraphOK
<1> QED
    BY <1>1, <1>2, <1>3, <1>4, <1>5, Declared

(* The end of a node's turn, as part of the run or after it.                 *)
LEMMA EndedRefines ==
    ASSUME IInv, NEW t \in Tasks, at[t] # "none", NEW s \in {"done", "error"},
           UNCHANGED << graph, engine, gen, session, run >>, broken' \in BOOLEAN,
           TickIfRunning(Write(t, s), [at EXCEPT ![t] = "none"])
    PROVE  Abstract
<1> DEFINE st == Write(t, s)
           ts == [at EXCEPT ![t] = "none"]
           dn == In(nodes, st, "done")
           fl == In(nodes, st, "error")
           wk == In(nodes, st, "running")
<1>1. /\ st \in [Node -> Status] /\ ts \in [Tasks -> Where] /\ Fits(nodes, st, ts, gen)
      /\ t[1] \in nodes /\ t[1] \in Node /\ engine # "none"
      /\ Current(t) => state[t[1]] = "running"
      /\ \A n \in Node : st[n] = IF n = t[1] /\ Current(t) THEN s ELSE state[n]
    BY Written
<1>2. /\ nodes' = nodes /\ deps' = deps /\ gen' = gen /\ nodes \subseteq Node
      /\ gen' \in [Node -> Runs] /\ run' \in Runs /\ session' \subseteq Node
      /\ summary \in [Runs -> { "none", "waiting", "writing", "sending" }]
      /\ GraphOK' /\ Graph'
    BY DEF IInv, TypeOK, GraphOK, ObjectsOK, CountersOK, OutcomeOK, graph, Graph
<1>3. /\ row.status = status /\ row.done = Done /\ (status = "running" <=> ~finished)
    BY <1>1 DEF IInv, Published, Driven
<1>4. CASE finished
  <2>1. /\ state' = st /\ row'.status = row.status /\ row'.done = dn
        /\ Failed' = fl /\ Working' = wk
      BY <1>2, <1>3, <1>4 DEF TickIfRunning, Snapshot, DoneIn, In, Failed, Working
  <2>2. CASE Current(t)
    <3>1. /\ t[1] \in Working /\ wk = Working \ {t[1]}
          /\ \/ dn = Done \cup {t[1]} /\ fl = Failed
             \/ dn = Done /\ fl = Failed \cup {t[1]}
        BY <1>1, <1>2, <2>2 DEF In, Done, Failed, Working
    <3>2. dn \in SUBSET Node /\ fl \in SUBSET Node
        BY <1>2 DEF In
    <3> HIDE DEF dn, fl, wk
    <3> QED
        BY <1>2, <1>3, <1>4, <2>1, <3>1, <3>2, EndsAfterwards
  <2>3. CASE ~Current(t)
    <3>1. dn = Done /\ fl = Failed /\ wk = Working
        BY <1>1, <1>2, <2>3 DEF In, Done, Failed, Working
    <3> QED
        BY <1>2, <1>3, <2>1, <3>1, Unseen
  <2> QED
      BY <2>2, <2>3
<1>5. CASE ~finished
  <2>1. Tick(st, ts)
      BY <1>5 DEF TickIfRunning
  <2>2. Ran(st)
    <3> HIDE DEF st, ts
    <3> QED
        BY <1>1, <1>2, <2>1, Ticked
  <2>3. CASE Current(t)
    <3>1. /\ t[1] \in Working /\ wk = Working \ {t[1]}
          /\ \/ dn = Done \cup {t[1]} /\ fl = Failed
             \/ dn = Done /\ fl = Failed \cup {t[1]}
        BY <1>1, <1>2, <2>3 DEF In, Done, Failed, Working
    <3> HIDE DEF st
    <3>2. Dispatches(st)
        BY <1>1, <1>2, <2>2, Dispatched
    <3>3. dn \in SUBSET Node /\ fl \in SUBSET Node
        BY <1>2 DEF In
    <3> QED
        BY <1>1, <1>2, <1>3, <1>5, <3>1, <3>2, <3>3, EndsInRun
  <2>4. CASE ~Current(t)
    <3>1. \A n \in Node : st[n] = state[n]
        BY <1>1, <2>4
    <3>2. engine = "listed"
        BY <1>1, <1>5 DEF IInv, TypeOK, SwitchesOK, Driven
    <3>3. /\ \E n \in nodes : state[n] = "running"
          /\ \A n \in nodes : state[n] = "pending" => ~(deps[n] \subseteq Done)
        BY <1>5, <3>2 DEF IInv, Driven
    <3> HIDE DEF st
    <3>4. DoneIn(st) = Done /\ ReadyIn(st) = {}
        BY <1>2, <3>1, <3>3 DEF DoneIn, ReadyIn, Done
    <3>5. Failed' = Failed /\ Working' = Working /\ row'.done = Done
        BY <1>2, <2>2, <3>1, <3>4 DEF Ran, Failed, Working
    <3>6. row'.status = "running"
        BY <1>2, <2>2, <3>1, <3>3 DEF Ran
    <3> QED
        BY <1>2, <1>3, <1>5, <3>5, <3>6, Unseen
  <2> QED
      BY <2>3, <2>4
<1> QED
    BY <1>4, <1>5

LEMMA AccessFailsRefines ==
    ASSUME IInv, NEW t \in Tasks, NEW reference \in BOOLEAN, AccessFails(t, reference)
    PROVE  Abstract
<1>1. /\ at[t] # "none" /\ broken' \in BOOLEAN /\ UNCHANGED << graph, engine, gen, session, run >>
      /\ TickIfRunning(Write(t, "error"), [at EXCEPT ![t] = "none"])
    BY DEF AccessFails, IInv, TypeOK, SwitchesOK
<1> QED
    BY <1>1, EndedRefines

LEMMA TurnEndsRefines ==
    ASSUME IInv, NEW t \in Tasks, NEW answered \in BOOLEAN, TurnEnds(t, answered)
    PROVE  Abstract
<1> DEFINE s == IF answered THEN "done" ELSE "error"
<1>1. /\ at[t] # "none" /\ broken' \in BOOLEAN /\ UNCHANGED << graph, engine, gen, session, run >>
      /\ s \in {"done", "error"}
      /\ TickIfRunning(Write(t, s), [at EXCEPT ![t] = "none"])
    BY DEF TurnEnds, IInv, TypeOK, SwitchesOK
<1> HIDE DEF s
<1> QED
    BY <1>1, EndedRefines

(* A snapshot of the nodes as they are, under another status.                *)
LEMMA SnapshotRefines ==
    ASSUME IInv, engine # "none", UNCHANGED << nodes, deps, state >>,
           NEW s \in { "running", "done", "error", "cancelled" }, Snapshot(s, state),
           s = status \/ s = "error" \/ (status = "running" /\ s = "cancelled")
    PROVE  Abstract
<1>1. row'.status = s /\ row'.done = Done
    BY Snapped DEF IInv
<1>2. row.status = status /\ row.done = Done /\ row.status # "none"
    BY DEF IInv, Published, Phases
<1>3. Failed' = Failed /\ Working' = Working
    BY DEF Failed, Working
<1> QED
    BY <1>1, <1>2, <1>3, Unseen

LEMMA AccessReadyRefines ==
    ASSUME IInv, NEW t \in Tasks, AccessReady(t)
    PROVE  Abstract
<1>1. /\ engine # "none" /\ t[1] \in nodes /\ t[1] \in Node /\ nodes \subseteq Node
      /\ Current(t) => state[t[1]] = "running"
      /\ state \in [Node -> { "pending", "running", "done", "error" }]
    BY DEF AccessReady, IInv, Empty, NoTasks, Numbered, Manned, Fits, Current, Tasks,
           TypeOK, GraphOK, ObjectsOK
<1>2. nodes' = nodes /\ deps' = deps
    BY DEF AccessReady, graph
<1>3. /\ row.status = status /\ row.done = Done /\ (status = "running" <=> ~finished)
      /\ status \in { "running", "done", "error", "cancelled" }
    BY <1>1 DEF IInv, Published, Driven, TypeOK, SwitchesOK
<1>4. CASE ~finished
    BY <1>1, <1>2, <1>3, <1>4, SnapshotRefines DEF AccessReady
<1>5. CASE finished /\ Current(t)
  <2>1. \A n \in nodes : state'[n] = IF n = t[1] THEN "error" ELSE state[n]
      BY <1>1, <1>5 DEF AccessReady, Write
  <2>2. t[1] \in Working /\ Working' = Working \ {t[1]} /\ Failed' = Failed \cup {t[1]}
      BY <1>1, <1>2, <1>5, <2>1 DEF Failed, Working
  <2>3. row' = row
      BY <1>5 DEF AccessReady
  <2>4. row.done \in SUBSET Node /\ Failed \cup {t[1]} \in SUBSET Node
      BY <1>1, <1>3 DEF Done, Failed
  <2> QED
      BY <1>2, <1>3, <1>5, <2>2, <2>3, <2>4, EndsAfterwards
<1>6. CASE finished /\ ~Current(t)
  <2>1. state' = state /\ row' = row
      BY <1>6 DEF AccessReady, Write
  <2>2. Failed' = Failed /\ Working' = Working
      BY <1>2, <2>1 DEF Failed, Working
  <2> QED
      BY <1>2, <2>1, <2>2, Unseen
<1> QED
    BY <1>4, <1>5, <1>6

LEMMA SessionReportedRefines ==
    ASSUME IInv, NEW t \in Tasks, SessionReported(t)
    PROVE  Abstract
<1>1. /\ engine # "none" /\ UNCHANGED << nodes, deps, state >> /\ Snapshot(status, state)
      /\ status \in { "running", "done", "error", "cancelled" }
    BY DEF SessionReported, graph, IInv, Empty, NoTasks, TypeOK, SwitchesOK
<1> QED
    BY <1>1, SnapshotRefines

LEMMA CancelRefines ==
    ASSUME IInv, Cancel
    PROVE  Abstract
<1>1. /\ engine # "none" /\ UNCHANGED << nodes, deps, state >> /\ Snapshot(status', state)
      /\ status' \in { "error", "cancelled" } /\ status = "running"
    BY DEF Cancel, graph, objects, IInv, Driven
<1> QED
    BY <1>1, SnapshotRefines

LEMMA ResumeRefines ==
    ASSUME IInv, NEW async \in BOOLEAN, Resume(async)
    PROVE  Abstract
<1> DEFINE st == Renewed(Unfinished)
<1>1. /\ st \in [Node -> Status] /\ GraphOK' /\ Graph' /\ nodes' = nodes /\ deps' = deps
      /\ Ran(st) /\ engine = "listed" /\ row.status # "none"
    BY ResumeTicks
<1>2. /\ row.done = Done /\ Done # nodes /\ row.status # "running"
    BY <1>1 DEF Resume, IInv, Published, Driven, Done, Unfinished
<1>3. /\ In(nodes', st, "done") = row.done /\ In(nodes', st, "error") = {}
      /\ In(nodes', st, "running") = {}
  <2>1. \A n \in nodes' : st[n] = IF n \in Unfinished THEN "pending" ELSE state[n]
      BY <1>1 DEF Renewed, GraphOK
  <2> HIDE DEF st
  <2> QED
      BY <1>1, <1>2, <2>1 DEF In, Done, Unfinished
<1> HIDE DEF st
<1>4. Dispatches(st)
    BY <1>1, Dispatched
<1> QED
    BY <1>1, <1>2, <1>3, <1>4, Redone

LEMMA BootResumesRefines ==
    ASSUME IInv, BootResumes
    PROVE  Abstract
<1>1. /\ Recovered \in [Node -> Status] /\ GraphOK' /\ Graph' /\ nodes' = nodes /\ deps' = deps
      /\ Ran(Recovered) /\ engine = "none"
    BY BootResumesTicks
<1>2. /\ row.status = "running" /\ journal.done = row.done /\ row.done \subseteq nodes
      /\ \A n \in Node : state[n] = "pending"
    BY <1>1 DEF BootResumes, IInv, Phases, Published, Fed, Empty
<1>3. Working = {}
    BY <1>1, <1>2 DEF Working, GraphOK
<1>4. /\ In(nodes', Recovered, "done") = row.done /\ In(nodes', Recovered, "error") = {}
      /\ In(nodes', Recovered, "running") = {}
  <2>1. \A n \in nodes' : Recovered[n] = IF n \in journal.done THEN "done" ELSE "pending"
      BY <1>1 DEF Recovered, GraphOK
  <2> QED
      BY <1>1, <1>2, <2>1 DEF In
<1>5. Dispatches(Recovered)
    BY <1>1, Dispatched
<1> QED
    BY <1>1, <1>2, <1>3, <1>4, <1>5, Redone

(* The summary of a run, delivered or not.                                   *)
LEMMA OutcomeRefines ==
    ASSUME IInv, NEW r \in Runs, NEW ok \in BOOLEAN, Summarised(r, ok) \/ Sent(r, ok)
    PROVE  Abstract
<1>1. /\ engine # "none" /\ UNCHANGED << nodes, deps, state >>
      /\ IF ok THEN row' = row ELSE Snapshot("error", state)
    BY DEF Summarised, Sent, MarkFailure, graph, objects, IInv, Empty
<1>2. CASE ok
  <2>1. Failed' = Failed /\ Working' = Working
      BY <1>1 DEF Failed, Working
  <2> QED
      BY <1>1, <1>2, <2>1, Unseen
<1>3. CASE ~ok
    BY <1>1, <1>3, SnapshotRefines
<1> QED
    BY <1>2, <1>3

LEMMA CrashRefines ==
    ASSUME IInv, Crash
    PROVE  Abstract
<1>1. /\ nodes' = nodes /\ deps' = deps /\ row' = row /\ nodes \subseteq Node
      /\ \A n \in Node : state'[n] = "pending"
    BY DEF Crash, NothingHeld, graph, disk, IInv, TypeOK, GraphOK
<1>2. Failed' = {} /\ Working' = {}
    BY <1>1 DEF Failed, Working
<1>3. Promise!Lose
    BY <1>1, <1>2 DEF Promise!Lose, Failed, Working
<1> QED
    BY <1>3 DEF Abstract, Promise!Next

(* What concerns only the process, the claim or the inbox; a claim given up  *)
(* cancels the row.                                                          *)
LEMMA AsideRefines ==
    ASSUME IInv, UNCHANGED << nodes, deps, state >>,
           \/ row' = row
           \/ claimed /\ row' = [row EXCEPT !.status = "cancelled"]
    PROVE  Abstract
<1>1. Failed' = Failed /\ Working' = Working
    BY DEF Failed, Working
<1>2. \/ row' = row
      \/ row'.done = row.done /\ row.status = "running" /\ row'.status = "cancelled"
    BY DEF IInv, Phases, TypeOK, DiskOK
<1> QED
    BY <1>1, <1>2, Unseen

-----------------------------------------------------------------------------
(* The refinement                                                            *)

LEMMA NextRefines == ASSUME IInv, Next PROVE Abstract
<1> USE DEF graph, objects, disk
<1>1. CASE Request
  <2>1. CASE Stop \/ Abort \/ Reload
      BY <2>1, CancelRefines DEF Stop, Abort, Reload
  <2>2. CASE Detach
      BY <2>2, AsideRefines DEF Detach
  <2> QED
      BY <1>1, <2>1, <2>2, StartRefines, AddNodesRefines, ResumeRefines DEF Request
<1>2. CASE Continuation
  <2>1. CASE Acknowledge
      BY <2>1, AsideRefines DEF Acknowledge
  <2> QED
      BY <1>2, <2>1, AccessReadyRefines, SessionReportedRefines, AccessFailsRefines,
         TurnEndsRefines, OutcomeRefines DEF Continuation
<1>3. CASE Restart
  <2>1. CASE Boot
      BY <2>1, AsideRefines DEF Boot
  <2>2. CASE \E b \in BOOLEAN : BootGivesUp(b)
      BY <2>2, AsideRefines DEF BootGivesUp
  <2> QED
      BY <1>3, <2>1, <2>2, BootResumesRefines DEF Restart
<1> QED
    BY <1>1, <1>2, <1>3, CrashRefines DEF Next

(* The row a workflow publishes and the nodes it runs behave as DagRun       *)
(* promises, for any graph and any number of runs and boots: only what can   *)
(* run is started, all of it at once, a verdict "done" means every node is   *)
(* done, and no stop, failure, resume or restart takes back what is done.    *)
THEOREM EngineKeepsPromise == Spec => ImplementsDagRun
<1>1. Init => Promise!Init
    BY DEF Init, Promise!Init
<1>2. IInv /\ [Next]_vars => [Promise!Next]_(Promise!vars)
  <2>1. ASSUME IInv, Next
        PROVE  [Promise!Next]_(Promise!vars)
      BY <2>1, NextRefines DEF Abstract
  <2>2. ASSUME UNCHANGED vars
        PROVE  UNCHANGED Promise!vars
      BY <2>2 DEF vars, graph, objects, disk, Promise!vars
  <2> QED
      BY <2>1, <2>2
<1> QED
    BY <1>1, <1>2, WorkflowInvariant, PTL DEF Spec, Promise!Spec, ImplementsDagRun
=============================================================================
