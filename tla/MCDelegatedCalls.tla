--------------------------- MODULE MCDelegatedCalls ---------------------------
(* The owner blocks on a review.  The review blocks on a test run and has a  *)
(* search in the background.                                                 *)
EXTENDS DelegatedCalls

CONSTANTS review, testRun, search

MCCalls == { review, testRun, search }
MCCaller == [c \in MCCalls |-> IF c = review THEN Root ELSE review]
MCBackground == { search }
MCNone == {}
=============================================================================
