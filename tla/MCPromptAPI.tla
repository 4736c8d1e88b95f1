----------------------------- MODULE MCPromptAPI -----------------------------
(* An instance of PromptAPI for TLC: an administrator, and the calls of one *)
(* org, whose prompt is one of two.                                         *)
EXTENDS PromptAPI

CONSTANTS v1, v2, bad

MCScope == [c \in {"c1", "c2", "c3"} |-> IF c = "c2" THEN "" ELSE "acme"]
MCSubject == [c \in {"c1", "c2", "c3"} |-> IF c = "c1" THEN "ci-bot" ELSE ""]
MCOrgOf == [u \in {"p", "q"} |-> IF u = "p" THEN "acme" ELSE "beta"]

L(u, v) == [uri |-> u, version |-> v]
MCFile == {<<L("p", v1), L("q", v2)>>, <<L("p", v2), L("p", v1)>>, <<L("p", v1), L("q", bad)>>}
MCLoaded == {L("p", v2)}

(* Bound: imports are explored in the first tick, where every writer is.    *)
ImportsInTheFirstTick == now = 0 \/ imports = 0
=============================================================================
