------------------------- MODULE MCPromptTimedServer -------------------------
(* Instances of PromptTimedServer for TLC.  *)
EXTENDS PromptTimedServer

CONSTANTS v1, v2

MCVersion == {v1, v2}
LiveLoadable == {v1}

R(op, v) == [op |-> op, branch |-> "main", from |-> "main", version |-> v, commit |-> 0]

(* Two nodes: one publishes, both read, and restore writes the row now and *)
(* then.                                                                   *)
LiveNode == [w \in {"a", "b"} |-> IF w = "a" THEN "n1" ELSE "n2"]
LiveJob == [w \in {"a", "b"} |->
              IF w = "a" THEN {R("get", v1), R("publish", v2)} ELSE {R("get", v1)}]

ReadJob == [w \in {"a", "b"} |-> IF w = "a" THEN {R("get", v1)} ELSE {R("put", v2)}]
=============================================================================
