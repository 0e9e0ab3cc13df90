------------------------------- MODULE DagRun ---------------------------------
(* What a workflow promises to those who watch its row: every node that can  *)
(* run is running, none runs before all it waits for is done, a result that  *)
(* was shown stays, and the verdict "done" means that every node is done.    *)
(* Failures, stops, resumes and restarts are part of the promise.            *)
CONSTANT Node

VARIABLES nodes, deps, done, failed, working, verdict

vars == << nodes, deps, done, failed, working, verdict >>

(* All nodes that can run are started; when there is nothing to run, the     *)
(* workflow is over.  It is done, or has failed to deliver what it has.      *)
Dispatch(N, D, dn, fl, wk) ==
    LET ready == { n \in N \ (dn \cup fl \cup wk) : D[n] \subseteq dn }
    IN  /\ nodes' = N /\ deps' = D /\ done' = dn /\ failed' = fl
        /\ working' = wk \cup ready
        /\ verdict' \in IF wk \cup ready # {} THEN {"running"}
                        ELSE {"error"} \cup { v \in {"done"} : dn = N }

Init ==
    /\ nodes = {} /\ deps = [n \in Node |-> {}]
    /\ done = {} /\ failed = {} /\ working = {} /\ verdict = "none"

(* The workflow starts, or grows while it runs.                              *)
Declare(S, D) ==
    /\ verdict = "none" \/ (verdict = "running" /\ working # {})
    /\ S # {} /\ S \cap nodes = {} /\ \A n \in nodes : D[n] = deps[n]
    /\ Dispatch(nodes \cup S, D, done, failed, working)

(* A node that runs delivers or fails.  When the workflow is over that still *)
(* counts, but starts nothing.                                               *)
Ends(n, dn, fl) ==
    /\ n \in working
    /\ << dn, fl >> \in { << done \cup {n}, failed >>, << done, failed \cup {n} >> }
    /\ IF verdict = "running"
       THEN Dispatch(nodes, deps, dn, fl, working \ {n})
       ELSE /\ done' = dn /\ failed' = fl /\ working' = working \ {n}
            /\ UNCHANGED << nodes, deps, verdict >>

(* A stop, or a summary that could not be delivered.                         *)
Halt ==
    /\ verdict # "none"
    /\ verdict' \in {"error"} \cup { v \in {"cancelled"} : verdict = "running" }
    /\ UNCHANGED << nodes, deps, done, failed, working >>

(* A restart: what ran is lost, what was delivered is not.                   *)
Lose ==
    /\ working' = {} /\ failed' = {}
    /\ UNCHANGED << nodes, deps, done, verdict >>

(* What is unfinished is started over.                                       *)
Redo ==
    /\ verdict # "none"
    /\ \/ verdict # "running" /\ done # nodes
       \/ verdict = "running" /\ working = {}
    /\ Dispatch(nodes, deps, done, {}, {})

Next ==
    \/ \E S \in SUBSET Node, D \in [Node -> SUBSET Node] : Declare(S, D)
    \/ \E n \in working, dn, fl \in SUBSET Node : Ends(n, dn, fl)
    \/ Halt \/ Lose \/ Redo

Spec == Init /\ [][Next]_vars
=============================================================================
