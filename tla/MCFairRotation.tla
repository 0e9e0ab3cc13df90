---------------------------- MODULE MCFairRotation ----------------------------
(* Three producers with up to three items each: enough for one producer to   *)
(* flood the queue while two others wait.  Producers are interchangeable.    *)
EXTENDS FairRotation, TLC

CONSTANTS workflow, chat, review

MCProducers == {workflow, chat, review}
Interchangeable == Permutations(MCProducers)
=============================================================================
