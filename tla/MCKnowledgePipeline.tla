------------------------ MODULE MCKnowledgePipeline ------------------------
(* One document: the actors contend for its rows. *)
EXTENDS KnowledgePipeline
=============================================================================
