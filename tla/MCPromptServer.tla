-------------------------- MODULE MCPromptServer ---------------------------
(* Instances of PromptServer for TLC: who the workers are and what each of *)
(* them may be asked.                                                      *)
EXTENDS PromptServerProperties

CONSTANTS v1, v2, v3, bad

MCVersion == {v1, v2}
MCVersionBad == {v1, v2, bad}

R(op, b, f, v) == [op |-> op, branch |-> b, from |-> f, version |-> v, commit |-> 0]
Get == R("get", "main", "main", v1)
Publishes(V) == {R("publish", "main", "main", v) : v \in V}
Rollback == R("rollback", "main", "main", v1)
OnBranch(v) == R("publish", "exp", "main", v)
MergeExp == R("merge", "main", "exp", v1)
MergeBack == R("merge", "exp", "main", v1)
ForkExp == R("branch", "exp", "main", v1)
Put(v) == R("put", "main", "main", v)
Import(v) == R("import", "main", "main", v)
Seed(v) == R("seed", "main", "main", v)

On(ja, jb) == [w \in {"a", "b"} |-> IF w = "a" THEN ja ELSE jb]

Everything == {Get, Rollback, OnBranch(v2), MergeExp, ForkExp} \cup Publishes(MCVersion)

(* Two server nodes: on one all that changes the prompt, on the other a    *)
(* reader, a second publisher and an operator who rolls back.              *)
DuoNode == [w \in {"a", "b"} |-> IF w = "a" THEN "n1" ELSE "n2"]
DuoJob == On(Everything \ {Get}, {Get, Rollback} \cup Publishes({v2}))

(* One server, its cache in memory, and the command line on another host.  *)
CLIJob == On({Get, Rollback, MergeExp, OnBranch(v1)} \cup Publishes({v2, bad}),
             {Put(v1), Put(bad), Import(v2), Seed(v1)})

(* One caller that does one thing at a time.  *)
SoloNode == [w \in {"a"} |-> "n1"]
SoloJob == [w \in {"a"} |-> (Everything \ {ForkExp}) \cup {MergeBack}]

RollbackJob == On(Publishes({v2}) \cup {Rollback}, {Get})
MergeJob == On({OnBranch(v1), MergeExp}, Publishes({v2}))
=============================================================================
