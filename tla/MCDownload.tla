----------------------------- MODULE MCDownload -----------------------------
(* Three terminals and two variants of one model. *)
EXTENDS Download, TLC

CONSTANTS t1, t2, t3, q4, q8, f1, f2, f3

MCFilesOf == [v \in Variants |-> IF v = q4 THEN {f1, f2} ELSE {f3}]

\* Three commands at once in a GGUF repository, two in another: the lock is the same.
AtWork == {t \in Terminals : pc[t] # "idle"}
FewAtWork == gguf \/ Cardinality(AtWork) <= 2

AnyOrder == Permutations({t1, t2, t3})
=============================================================================
