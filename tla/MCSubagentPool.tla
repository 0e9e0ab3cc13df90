---------------------------- MODULE MCSubagentPool ----------------------------
(* Three turns of two parents over two child channels and one nested channel: *)
(* the turns of a channel share it, so a turn can be pinned to a runner that *)
(* is full while another one has room.                                       *)
EXTENDS SubagentPool

CONSTANTS t1, t2, t3, chanA, chanB, chanN, planner, chat

MCTurns == {t1, t2, t3}
MCChannels == {chanA, chanB, chanN}
MCParents == {planner, chat}
MCChannelOf == [t \in MCTurns |-> IF t \in {t1, t3} THEN chanA ELSE chanB]
MCParentOf == [t \in MCTurns |-> IF t = t2 THEN chat ELSE planner]
MCNested == {chanN}
=============================================================================
