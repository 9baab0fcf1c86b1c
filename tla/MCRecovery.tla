----------------------------- MODULE MCRecovery -----------------------------
(* A table of two buckets of one record, of which every key may use both. *)
EXTENDS Recovery, FiniteSets

\* Tags are 1, 2, ... in the order of the keys; buckets are 0, 1, ...
NumberedTag == [k \in Key |-> k]

SpreadHome == [k \in Key |-> k % Cardinality(Buckets)]

FlipPair(b, tag) == 1 - b

NeighbourCells(tag, low) == {tag % Cardinality(Cells), (tag + 1) % Cardinality(Cells)}
=============================================================================
