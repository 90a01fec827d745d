--------------------------- MODULE MCOutboundSender ---------------------------
(* OutboundSender on small instances; jobs, workers and keys are symmetric. *)
EXTENDS OutboundSender, TLC

Symmetry == Permutations(Job) \union Permutations(Worker) \union Permutations(Key)
=============================================================================
