----------------------------- MODULE MCPipeline -----------------------------
(* Small instances of Pipeline: e1 and e2 carry the same bytes, e3 other     *)
(* bytes of the same tenant; e4 belongs to a second tenant and, in the run   *)
(* with two threads, does not decode.                                        *)
EXTENDS Pipeline, TLC

CONSTANTS t1, t2, e1, e2, e3, e4

MCContent  == [e \in Envs |-> CASE e \in {e1, e2} -> "c1" [] e = e3 -> "c2" [] e = e4 -> "d1"]
MCSourceOf == [e \in Envs |-> IF e = e4 THEN "s2" ELSE "s1"]
MCTenantOf == [e \in Envs |-> IF e = e4 THEN "n2" ELSE "n1"]

\* All through process_batch; or e1, of another source than e2 to e4, through
\* process and the others through process_batch.
MCBatch    == [e \in Envs |-> "batch"]
MCMixed    == [e \in Envs |-> IF e = e1 THEN "single" ELSE "batch"]
MCSources  == [e \in Envs |-> IF e = e1 THEN "s2" ELSE "s1"]
MCSymmetry == Permutations(Threads)
=============================================================================
