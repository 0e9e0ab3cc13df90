---------------------------- MODULE MCElicitation ----------------------------
(* Three approvals and a question race in one conversation, beside the       *)
(* question of another one.                                                  *)
EXTENDS Elicitation

CONSTANTS a1, a2, a3, q1, q2, s1, s2

MCApprovals == { a1, a2, a3 }
MCCalls == MCApprovals \cup { q1, q2 }
MCSessions == { s1, s2 }
MCSessionOf == [c \in MCCalls |-> IF c = q2 THEN s2 ELSE s1]
=============================================================================
