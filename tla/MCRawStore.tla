----------------------------- MODULE MCRawStore -----------------------------
(* Small instances of RawStore: lines of 1, 1 and 2 bytes in segments of 3   *)
(* bytes with a buffer of 1, so that a line may be buffered, flush the       *)
(* buffer, bypass it, fill a segment exactly, and be one byte too many.      *)
EXTENDS RawStore

CONSTANTS p1, p2, k1, k2, r1, r2, r3

MCLineLen == [r \in Recs |-> IF r = r3 THEN 2 ELSE 1]

\* One directory per key, the same for every process that shares the tree.
MCDir == [p \in Procs |-> [k \in Keys |-> IF k = k1 THEN "a" ELSE "b"]]
=============================================================================
