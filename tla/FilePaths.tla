----------------------------- MODULE FilePaths -----------------------------
(***************************************************************************)
(* A path as the sequence of its names, for the modules that are proved    *)
(* about: the few operators they need, so that a proof obligation does not *)
(* carry the whole of SequencesExt.                                        *)
(***************************************************************************)
EXTENDS Naturals, Sequences

Parent(p) == SubSeq(p, 1, Len(p) - 1)

\* The name of an entry in its directory.
Last(p) == p[Len(p)]

\* q is p, or lies below it.
IsPrefix(p, q) == Len(p) <= Len(q) /\ SubSeq(q, 1, Len(p)) = p
=============================================================================
