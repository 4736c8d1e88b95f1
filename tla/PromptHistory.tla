--------------------------- MODULE PromptHistory ---------------------------
(***************************************************************************)
(* What the prompt store promises about ONE prompt, with every operation   *)
(* atomic: a growing set of commits, branch pointers into it, and the row  *)
(* of the prompts table that HEAD readers are served.  PromptServer, where *)
(* operations are split into the calls the server makes, implements this.  *)
(*                                                                         *)
(* The store is the module github.com/priompt/db-adapters, which is not    *)
(* part of this repository: its operations are taken from how              *)
(* internal/server and cmd/priompt call them and from README.md 257-279    *)
(* and 699.                                                                *)
(***************************************************************************)
EXTENDS Integers, Sequences

CONSTANTS
    Version,        \* prompt contents (template + slots), told apart by hash
    Branch,         \* branch names, "main" among them
    NoPrompt        \* the row of a prompt that is not there, no version

VARIABLES
    commits,        \* the prompt's commits; a commit's hash is its index here
    refs,           \* the commit each branch points at, 0 when there is no branch
    rows            \* every value the prompts row has had; the row is the last

historyVars == <<commits, refs, rows>>

(* A commit and its first and second parent (0: none).  *)
Commit == [version : Version, parent : Nat, parent2 : Nat]

(* A served row and the commit it was materialised from (0: from none).  *)
Row == [version : Version \cup {NoPrompt}, commit : Nat]

HistoryTypeOK ==
    /\ commits \in Seq(Commit)
    /\ refs \in [Branch -> 0 .. Len(commits)]
    /\ rows \in Seq(Row)
    /\ rows # <<>>

(* The database before any request: no such prompt, or one commit on main. *)
Empty ==
    /\ commits = <<>>
    /\ refs = [b \in Branch |-> 0]
    /\ rows = <<[version |-> NoPrompt, commit |-> 0]>>

Holding(v) ==
    /\ commits = <<[version |-> v, parent |-> 0, parent2 |-> 0]>>
    /\ refs = [b \in Branch |-> IF b = "main" THEN 1 ELSE 0]
    /\ rows = <<[version |-> v, commit |-> 1]>>

Init == Empty \/ \E v \in Version : Holding(v)

(* Branch b moves to commit c of the (new) commits; main carries the row.  *)
PointTo(b, c) ==
    /\ refs' = [refs EXCEPT ![b] = c]
    /\ rows' = IF b = "main"
                 THEN Append(rows, [version |-> commits'[c].version, commit |-> c])
                 ELSE rows

(* Store.Commit: a new commit on top of the branch's tip; the first commit *)
(* of an absent branch has no parent.                                      *)
Record(b, v) ==
    /\ commits' = Append(commits, [version |-> v, parent |-> refs[b], parent2 |-> 0])
    /\ PointTo(b, Len(commits) + 1)

(* Store.Merge: a two-parent commit that takes the content of the commit s *)
(* the source branch pointed at while the merge ran.                       *)
MergeIn(b, s) ==
    /\ refs[b] # 0
    /\ commits' = Append(commits, [version |-> commits[s].version,
                                   parent |-> refs[b], parent2 |-> s])
    /\ PointTo(b, Len(commits) + 1)

(* Store.SetBranch: the pointer moves to a commit of this prompt.  *)
PointAt(b, c) ==
    /\ c \in 1 .. Len(commits)
    /\ commits' = commits
    /\ PointTo(b, c)

(* Store.Branch: a new branch, at another branch's tip.  *)
Fork(b, f) ==
    /\ refs[b] = 0
    /\ refs[f] # 0
    /\ refs' = [refs EXCEPT ![b] = refs[f]]
    /\ UNCHANGED <<commits, rows>>

(* Store.Put as restore uses it on a bare prompt line: the row alone.  *)
LoadRow(v) ==
    /\ rows' = Append(rows, [version |-> v, commit |-> 0])
    /\ UNCHANGED <<commits, refs>>

Next ==
    \/ \E b \in Branch, v \in Version : Record(b, v)
    \/ \E b \in Branch, c \in 1 .. Len(commits) : MergeIn(b, c) \/ PointAt(b, c)
    \/ \E b, f \in Branch : Fork(b, f)
    \/ \E v \in Version : LoadRow(v)

Spec == Init /\ [][Next]_historyVars
=============================================================================
