---------------------------- MODULE MCNamespace ----------------------------
(* Instances of Namespace for TLC. *)
EXTENDS Namespace, TLC

\* A folder, a file in it, and a file beside it spelled through "..".
MCRawNames == {<<"d">>, <<"d", "f">>, <<"d", "..", "g">>, <<"g">>}

\* A mutation of the folder, and a rename of the file out of it (which the
\* first excludes), and a mutation of the file beside it (which it does not).
MCRequests == {{<<"d">>}, {<<"d", "f">>, <<"d", "..", "g">>}, {<<"g">>}}

MCSymmetry == Permutations(Ops) \cup Permutations(Readers)
=============================================================================
