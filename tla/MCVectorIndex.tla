--------------------------- MODULE MCVectorIndex ---------------------------
(* Model-checking instances of VectorIndex.                                *)
EXTENDS VectorIndex, TLC

CONSTANTS d1, d2, d3, old, new, wide

\* Two models of one width and one of another.
Widths == [e \in Spaces |-> IF e = wide THEN 3 ELSE 2]

\* The documents of the instance, in the order of their names.
OldestFirst == SelectSeq(<<d1, d2, d3>>, LAMBDA d : d \in Documents)

\* Processes are interchangeable, and so are the models of one width.
Interchangeable == Permutations(Processes) \cup Permutations({old, new} \cap Spaces)
=============================================================================
