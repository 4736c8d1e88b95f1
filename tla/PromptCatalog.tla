---------------------------- MODULE PromptCatalog ----------------------------
(***************************************************************************)
(* Several prompts in one store: one table of commits for all of them, the *)
(* answers the read RPCs of internal/server/server.go make from it, and    *)
(* `priompt import` of a whole file (cmd/priompt/main.go).                 *)
(*                                                                         *)
(* What the other writers do is one store operation at a time: each of     *)
(* their handlers is one operation of PromptHistory at most (theorem       *)
(* ImplementsHistory of PromptServerRefinement), and `priompt restore' of  *)
(* bare prompt lines puts rows.                                            *)
(***************************************************************************)
EXTENDS Integers, Sequences, FiniteSets

CONSTANTS
    Uri,
    Version, NoPrompt, Branch,      \* see PromptHistory
    Malformed,      \* the versions validate.Prompt refuses
    Author,         \* whom commits may name
    File,           \* the files there are to import
    Loaded,         \* the bare prompt lines there are to restore
    MaxCommits,     \* bound on the table
    MaxMoves,       \* bound on the rows of each prompt
    MaxImports      \* bound on the imports

VARIABLES
    table,      \* every prompt's commits; a hash is an index here
    refs,       \* the commit of each prompt's branches, 0: none
    rows,       \* every value each prompt's served row has had
    at,         \* where the import is: "idle", "resolve" or "commit"
    file, next, \* its lines, and the one it is at
    seen,       \* the tip of main its Resolve returned
    report,     \* how the last import ended
    made,       \* the commits it made
    raced,      \* those of them whose branch others moved after its Resolve
    moved,      \* the prompts whose row others wrote since it began
    imports

storeVars == <<table, refs, rows>>
lineVars == <<next, seen>>
ghostVars == <<made, raced, moved>>
importVars == <<at, file, lineVars, report, ghostVars, imports>>
catalogVars == <<storeVars, importVars>>

Line == [uri : Uri, version : Version]

ASSUME CatalogAssumption ==
    /\ "main" \in Branch /\ NoPrompt \notin Version /\ Malformed \subseteq Version
    /\ "priompt" \in Author
    /\ \A f \in File : f \in Seq(Line)
    /\ Loaded \subseteq Line
    /\ MaxCommits \in Nat /\ MaxMoves \in Nat /\ MaxImports \in Nat

CatalogInit ==
    /\ table = <<>>
    /\ refs = [u \in Uri |-> [b \in Branch |-> 0]]
    /\ rows = [u \in Uri |-> <<[version |-> NoPrompt, commit |-> 0]>>]
    /\ at = "idle" /\ file = <<>> /\ next = 1 /\ seen = 0 /\ report = "none"
    /\ made = {} /\ raced = {} /\ moved = {}
    /\ imports = 0

-----------------------------------------------------------------------------
(* The store's operations, on a table that all prompts share.  *)

Commits == 1 .. Len(table)
Own(u) == {c \in Commits : table[c].uri = u}

RowStays(u, b, c) ==      \* mutation: a pointer that moves back leaves the row
    /\ refs' = [refs EXCEPT ![u][b] = c]
    /\ rows' = IF b = "main" /\ table' # table
                 THEN [rows EXCEPT ![u] = Append(@, [version |-> table'[c].version, commit |-> c])]
                 ELSE rows

PointTo(u, b, c) ==
    /\ refs' = [refs EXCEPT ![u][b] = c]
    /\ rows' = IF b = "main"
                 THEN [rows EXCEPT ![u] = Append(@, [version |-> table'[c].version, commit |-> c])]
                 ELSE rows

Add(u, b, v, p, p2, a) ==
    /\ Len(table) < MaxCommits
    /\ table' = Append(table, [uri |-> u, version |-> v, parent |-> p, parent2 |-> p2, author |-> a])
    /\ PointTo(u, b, Len(table) + 1)

Commit(u, b, v, a) == Add(u, b, v, refs[u][b], 0, a)

Merge(u, b, f, a) ==
    LET s == refs[u][f]
    IN  s # 0 /\ refs[u][b] # 0 /\ Add(u, b, table[s].version, refs[u][b], s, a)

SetBranch(u, b, c) ==
    /\ c \in Own(u)
    /\ Len(rows[u]) <= MaxMoves
    /\ table' = table
    /\ PointTo(u, b, c)

Fork(u, b, f) ==
    /\ refs[u][b] = 0 /\ refs[u][f] # 0
    /\ refs' = [refs EXCEPT ![u][b] = refs[u][f]]
    /\ UNCHANGED <<table, rows>>

(* Store.Put of a bare prompt line, which restore does not validate.  *)
LoadRow(u, v) ==
    /\ Len(rows[u]) <= MaxMoves
    /\ rows' = [rows EXCEPT ![u] = Append(@, [version |-> v, commit |-> 0])]
    /\ UNCHANGED <<table, refs>>

(* What the handler of an author a may do to prompt u.  No request creates *)
(* main, see ServerAssumption of PromptServer.                             *)
Operation(u, a) ==
    \/ \E b \in Branch :
        \/ \E v \in Version \ Malformed : Commit(u, b, v, a)
        \/ \E f \in Branch : Merge(u, b, f, a) \/ (b # "main" /\ Fork(u, b, f))
        \/ \E c \in Commits : SetBranch(u, b, c)

BesideImport(u) ==
    /\ moved' = IF rows'[u] # rows[u] THEN moved \cup {u} ELSE moved
    /\ UNCHANGED <<at, file, lineVars, report, made, raced, imports>>

Write(u, a) == Operation(u, a) /\ BesideImport(u)

(* restore, backup.go 192-205: a line at a time, beside everything else.   *)
RestoreLine(l) == LoadRow(l.uri, l.version) /\ BesideImport(l.uri)

ServedRow(u) == rows[u][Len(rows[u])]

(* What is served came in as a bare line: main may be absent, or hold      *)
(* something else.                                                         *)
Bare(u) == ServedRow(u).commit = 0 /\ ServedRow(u).version # NoPrompt

-----------------------------------------------------------------------------
(* The answers of the read RPCs, from the part K of the table.  *)

NotFound == <<"NOT_FOUND">>

(* commitOf, server.go 344-353.  *)
OfAnybody(u, c, K) == c \in K           \* mutation: the URI is not compared
IsCommitOf(u, c, K) == c \in K /\ table[c].uri = u

(* Both hashes are looked up, server.go 333-340.  *)
DiffCommits(u, from, to, K) ==
    IF IsCommitOf(u, from, K) /\ IsCommitOf(u, to, K)
      THEN <<table[from].version, table[to].version>>
      ELSE NotFound

(* A served row is diffed with the edit, server.go 186-198.  *)
DiffPrompt(u, v) ==
    LET old == ServedRow(u).version
    IN  IF old = NoPrompt THEN NotFound ELSE <<old, v>>

(* Store.Resolve of a branch or a commit keeps to the prompt: README.md    *)
(* 252-254, which the server relies on.                                    *)
Resolve(u, ref) ==
    LET c == IF ref[1] = "branch" THEN refs[u][ref[2]] ELSE ref[2]
    IN  IF c \in Own(u) THEN c ELSE 0

(* server.go 365-377: validated before it is served.  *)
GetByRef(u, ref) ==
    LET c == Resolve(u, ref)
    IN  IF c = 0 THEN NotFound
        ELSE IF table[c].version \in Malformed THEN <<"DATA_LOSS">>
        ELSE <<table[c].version, c>>

(* The first-parent chain of a branch, newest first (README.md 277).  *)
FirstParents(K) ==
    LET chain[c \in Nat] == IF c = 0 THEN <<>>
                            ELSE IF c \notin K THEN NotFound
                            ELSE <<c>> \o chain[table[c].parent]
    IN  chain

History(u, b, K) == IF refs[u][b] = 0 THEN NotFound ELSE FirstParents(K)[refs[u][b]]

ListCommits(u, K) == {c \in K : table[c].uri = u}

ListBranches(u) == {<<b, refs[u][b]>> : b \in {x \in Branch : refs[u][x] # 0}}

-----------------------------------------------------------------------------
(* import: main.go 758-796 and 502-517.  *)

(* The whole file is decoded and validated before anything is written.     *)
ChecksFirst(f) == Len(f) = 0 \/ f[1].version \notin Malformed    \* mutation: not every line
Accepts(f) == \A i \in 1 .. Len(f) : f[i].version \notin Malformed

ImportStarts(f) ==
    /\ at = "idle" /\ imports < MaxImports
    /\ imports' = imports + 1
    /\ file' = f /\ UNCHANGED lineVars
    /\ made' = {} /\ raced' = {} /\ moved' = {}
    /\ IF Accepts(f) THEN at' = "resolve" /\ report' = "none"
                     ELSE at' = "idle" /\ report' = "refused"
    /\ UNCHANGED storeVars

Entry == file[next]
MainOf(u) == refs[u]["main"]

(* commitMain: main already holds the content.  *)
AlwaysNew(e) == FALSE          \* mutation: commits whatever main holds
Has(e) == MainOf(e.uri) # 0 /\ table[MainOf(e.uri)].version = e.version

ImportResolves ==
    /\ at = "resolve" /\ next <= Len(file)
    /\ Entry.version \notin Malformed
    /\ IF Has(Entry) THEN next' = next + 1 /\ UNCHANGED <<at, seen>>
                       ELSE at' = "commit" /\ seen' = MainOf(Entry.uri) /\ UNCHANGED next
    /\ UNCHANGED <<storeVars, file, report, ghostVars, imports>>

StaleParent(u) == seen          \* mutation: commits on what Resolve saw
Parent(u) == MainOf(u)

Leaves(how) == at' = "idle" /\ report' = how /\ next' = 1

(* Store.Commit; its answer may be lost, which ends the import.  *)
ImportCommits ==
    LET u == Entry.uri
        c == Len(table) + 1
    IN  /\ at = "commit"
        /\ Add(u, "main", Entry.version, Parent(u), 0, "priompt")
        /\ made' = made \cup {c}
        /\ raced' = IF MainOf(u) # seen THEN raced \cup {c} ELSE raced
        /\ seen' = 0
        /\ \/ at' = "resolve" /\ next' = next + 1 /\ UNCHANGED report
           \/ Leaves("failed")
        /\ UNCHANGED <<file, moved, imports>>

(* A store call fails (another writer's conflict among them), the second   *)
(* validation does, or somebody stops the command.                         *)
ImportStops ==
    /\ at # "idle"
    /\ Leaves("failed") /\ seen' = 0
    /\ UNCHANGED <<storeVars, file, ghostVars, imports>>

LastButOne == next >= Len(file)     \* mutation: one line short
AtEnd == next > Len(file)

ImportEnds ==
    /\ at = "resolve" /\ AtEnd
    /\ Leaves("done") /\ seen' = 0
    /\ UNCHANGED <<storeVars, file, ghostVars, imports>>

Import ==
    \/ \E f \in File : ImportStarts(f)
    \/ ImportResolves \/ ImportCommits \/ ImportStops \/ ImportEnds

-----------------------------------------------------------------------------

(* server.go 344-346 and diffcommits_test.go 15-17: what the diff and the  *)
(* log of a prompt answer does not depend on what commits other prompts    *)
(* have, a commit of theirs is answered like a hash that does not exist.   *)
AnswersAreOfThePrompt ==
    \A u \in Uri :
        /\ \A c, d \in Commits : DiffCommits(u, c, d, Commits) = DiffCommits(u, c, d, Own(u))
        /\ \A b \in Branch : History(u, b, Commits) = History(u, b, Own(u))

(* server.go 186-198, 226-265 and 362-377: what the reads of a prompt show *)
(* agrees.  A log begins at the tip its branch is listed with, and is of   *)
(* commits of the prompt that can all be read by hash.  HEAD, which        *)
(* publish and diff go by, is what main, which import and pinned readers   *)
(* go by, resolves to, unless it came in as a bare line (backup.go 18-23). *)
ReadsAgree ==
    \A u \in Uri :
        /\ \A t \in ListBranches(u) :
              LET log == History(u, t[1], Commits)
              IN  /\ log[1] = t[2]
                  /\ \A i \in 1 .. Len(log) :
                        /\ log[i] \in ListCommits(u, Commits)
                        /\ GetByRef(u, <<"commit", log[i]>>) = <<table[log[i]].version, log[i]>>
        /\ LET main == GetByRef(u, <<"branch", "main">>)
           IN  ~Bare(u) =>
                 \A v \in Version :
                   DiffPrompt(u, v) = IF main = NotFound THEN NotFound ELSE <<main[1], v>>

(* main.go 724-726, "safe to repeat": however often and however far a file *)
(* is imported, an import commits nothing that main holds, unless somebody *)
(* moved main while it was at that line.                                   *)
ImportAddsNoTwin ==
    \A c \in made \ raced :
        table[c].parent # 0 => table[table[c].parent].version # table[c].version

(* main.go 756-757 and README.md 759: nothing of a file with an invalid    *)
(* line is ever written.                                                   *)
RefusedWhole == (\E i \in 1 .. Len(file) : file[i].version \in Malformed) => made = {}

(* main.go 752: when import reports success, main of every prompt of the   *)
(* file that nobody else wrote holds what its last line says, and that is  *)
(* what is served; but import goes by main (506-509), so a row that a      *)
(* restore put there before, with main left behind, stays.                 *)
ImportTookEffect ==
    report = "done" =>
        \A i \in 1 .. Len(file) :
            LET u == file[i].uri
            IN  \/ u \in moved
                \/ \E j \in i + 1 .. Len(file) : file[j].uri = u
                \/ /\ Has(file[i])
                   /\ Bare(u) \/ ServedRow(u).version = file[i].version

(* README.md 169, "each prompt has its own independent history": seen on   *)
(* its own, numbered among its own commits, every prompt is a history.     *)
Local(u, c) == Cardinality({k \in Own(u) : k <= c})

CommitsOf(u) ==
    [i \in 1 .. Cardinality(Own(u)) |->
        LET c == table[CHOOSE k \in Own(u) : Local(u, k) = i]
        IN  [version |-> c.version, parent |-> Local(u, c.parent), parent2 |-> Local(u, c.parent2)]]

H(u) == INSTANCE PromptHistory WITH
    commits <- CommitsOf(u),
    refs <- [b \in Branch |-> Local(u, refs[u][b])],
    rows <- [i \in 1 .. Len(rows[u]) |->
                [version |-> rows[u][i].version, commit |-> Local(u, rows[u][i].commit)]]

PromptsApart ==
    /\ \A u \in Uri : H(u)!Init
    /\ [][storeVars' # storeVars => \A u \in Uri : [H(u)!Next]_(H(u)!historyVars)]_catalogVars
=============================================================================
