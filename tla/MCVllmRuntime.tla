--------------------------- MODULE MCVllmRuntime ---------------------------
(* Two terminals of one user. *)
EXTENDS VllmRuntime

CONSTANTS alice, t1, t2

MCUserOf == [c \in Cmds |-> alice]
MCJobsOf == [c \in Cmds |-> IF c = t1 THEN {"run", "clean"}
                                      ELSE {"check", "upgrade"}]
=============================================================================
