------------------------------ MODULE MCSpool ------------------------------
(* Instances of Spool for TLC. *)
EXTENDS Spool, TLC

\* Workers and requests are interchangeable.
MCSymmetry == Permutations(Workers) \cup Permutations(Writers)

\* Without existing files the names are interchangeable until the first save,
\* so the first open may be taken to be of one of them.
FirstName ==
  nextId > 1 \/ \A w \in Writers : wr[w].pc = "idle" \/ wr[w].path = SomePath
=============================================================================
