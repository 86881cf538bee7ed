--------------------------- MODULE MCDocsIngestion ---------------------------
(* DocsIngestion on small instances; documents, requests and workers are     *)
(* interchangeable.                                                           *)
EXTENDS DocsIngestion, TLC

Symmetry == Permutations(Docs) \cup Permutations(Handlers) \cup Permutations(Workers)
=============================================================================
