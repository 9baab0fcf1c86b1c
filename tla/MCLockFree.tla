----------------------------- MODULE MCLockFree ------------------------------
(* A clock that is only ticked by hand and one spawned with a ticker; a      *)
(* warning interval longer than a note; idle times of whole and half         *)
(* milliseconds; two shards, one of them with two keys.                      *)
EXTENDS LockFree

\* One key alone in the second shard.
TwoShards == [k \in Key |-> IF k = CHOOSE l \in Key : TRUE THEN 1 ELSE 0]
=============================================================================
