------------------------- MODULE PromptCatalogProofs -------------------------
(***************************************************************************)
(* Theorems about many prompts in one store (PromptCatalog), behind the    *)
(* interceptors (PromptAPI), for any prompts, orgs, files and calls.       *)
(*                                                                         *)
(* The import: Inv is about the line it is at.  Whatever is behind it is   *)
(* on main and served, or others moved it, or a restore had put another    *)
(* row over main before (TakenInv), and what the import saw last is not    *)
(* what it is about to commit (SeenInv).  TakenInv needs what a served row *)
(* says of main (Fits, in StoreInv): all but a bare one is main's tip.     *)
(*                                                                         *)
(* The reads: OwnInv, what a prompt's branches, rows and commits refer to  *)
(* are commits of that prompt, and parents are older than their commits.   *)
(* A log is a recursive function, defined because parents are older        *)
(* (ChainDefined); what it returns is proved by induction on the commit.   *)
(*                                                                         *)
(* Authorship: AccountInv, the commits with the names of one org and its   *)
(* calls whose handler may yet sign are no more than were let through.     *)
(*                                                                         *)
(* Isolation: the number of a commit among its prompt's own (Rank) never   *)
(* changes, so that each step of the store is one step of one prompt's     *)
(* PromptHistory and none of the others'.                                  *)
(***************************************************************************)
EXTENDS PromptAPI, FiniteSetTheorems, WellFoundedInduction, TLAPS

CommitRecord == [uri : Uri, version : Version, parent : Nat, parent2 : Nat, author : Author]
Row == [version : Version \cup {NoPrompt}, commit : Nat]

HeadOf(u) == rows[u][Len(rows[u])].version

StoreType ==
    /\ table \in Seq(CommitRecord)
    /\ refs \in [Uri -> [Branch -> Nat]]
    /\ rows \in [Uri -> Seq(Row)]

(* A row that came from a commit is main's tip; a row that never was says  *)
(* that there is no main.  A bare row says nothing.                        *)
Fits(u) ==
    /\ ServedRow(u).commit # 0 => /\ refs[u]["main"] = ServedRow(u).commit
                                  /\ HeadOf(u) = table[ServedRow(u).commit].version
    /\ HeadOf(u) = NoPrompt => refs[u]["main"] = 0

StoreInv ==
    /\ StoreType
    /\ \A u \in Uri, b \in Branch : refs[u][b] <= Len(table)
    /\ \A u \in Uri : Len(rows[u]) > 0
    /\ \A u \in Uri : Fits(u)

ImportType ==
    /\ at \in {"idle", "resolve", "commit"}
    /\ file \in Seq(Line) /\ next \in Nat \ {0} /\ seen \in Nat
    /\ at = "commit" => next <= Len(file)
    /\ at = "idle" => next = 1

(* Nothing is written of a file before all of it was accepted.  *)
AcceptedInv == at # "idle" \/ made # {} \/ report = "done" => Accepts(file)

(* A line that is behind the import.  *)
Taken(i) ==
    \/ file[i].uri \in moved
    \/ \E j \in i + 1 .. Len(file) : file[j].uri = file[i].uri
    \/ /\ Has(file[i])
       /\ Bare(file[i].uri) \/ HeadOf(file[i].uri) = file[i].version

TakenInv ==
    /\ \A i \in 1 .. Len(file) : i < next => Taken(i)
    /\ report = "done" => \A i \in 1 .. Len(file) : Taken(i)
    /\ at # "idle" => report = "none"

SeenInv ==
    /\ at = "commit" /\ seen # 0 =>
          seen <= Len(table) /\ table[seen].version # file[next].version
    /\ \A c \in made \ raced :
          /\ c \in 1 .. Len(table)
          /\ table[c].parent <= Len(table)
          /\ table[c].parent # 0 => table[table[c].parent].version # table[c].version

Inv == StoreInv /\ ImportType /\ AcceptedInv /\ TakenInv /\ SeenInv

(* What no operation of the store does: change a commit.  *)
Grows ==
    /\ Len(table') >= Len(table)
    /\ \A c \in 1 .. Len(table) : table'[c] = table[c]

Left(u) == rows'[u] = rows[u] /\ refs'[u]["main"] = refs[u]["main"]

(* What an operation on prompt u leaves: the others, and u when its row is *)
(* not put.                                                                *)
OthersStay(u) ==
    /\ \A w \in Uri \ {u} : Left(w)
    /\ rows'[u] = rows[u] => Left(u)

-----------------------------------------------------------------------------
(* The store's operations.  *)

LEMMA MainIsBranch == "main" \in Branch
BY CatalogAssumption

LEMMA Element == ASSUME NEW S, NEW s \in Seq(S), NEW i \in 1 .. Len(s) PROVE s[i] \in S
OBVIOUS

LEMMA InitInv == CatalogInit => Inv
<1> SUFFICES ASSUME CatalogInit PROVE Inv
    OBVIOUS
<1>1. StoreType
    BY DEF CatalogInit, StoreType, Row
<1>2. StoreInv
    BY <1>1, MainIsBranch DEF CatalogInit, StoreInv, HeadOf, Fits, ServedRow
<1>3. ImportType /\ AcceptedInv /\ TakenInv /\ SeenInv
    BY DEF CatalogInit, ImportType, AcceptedInv, TakenInv, SeenInv
<1> QED BY <1>2, <1>3 DEF Inv

LEMMA FitStays ==
    ASSUME StoreInv, Grows, NEW w \in Uri, Left(w)
    PROVE  Fits(w)'
<1>1. ServedRow(w)' = ServedRow(w) /\ HeadOf(w)' = HeadOf(w)
    BY DEF Left, ServedRow, HeadOf
<1>2. refs'[w]["main"] = refs[w]["main"] /\ refs[w]["main"] \in 0 .. Len(table) /\ Fits(w)
    BY MainIsBranch DEF Left, StoreInv, StoreType
<1>3. ASSUME ServedRow(w).commit # 0
      PROVE  table'[ServedRow(w).commit] = table[ServedRow(w).commit]
    BY <1>2, <1>3 DEF Fits, Grows
<1> QED BY <1>1, <1>2, <1>3 DEF Fits

LEMMA PointKeeps ==
    ASSUME StoreInv, NEW u \in Uri, NEW b \in Branch, NEW c \in 1 .. Len(table'),
           table' \in Seq(CommitRecord), Grows, PointTo(u, b, c)
    PROVE  /\ StoreInv' /\ OthersStay(u)
           /\ b = "main" => HeadOf(u)' = table'[c].version
<1> DEFINE row == [version |-> table'[c].version, commit |-> c]
<1>1. c \in Nat /\ row \in Row /\ Len(table) \in Nat /\ Len(table') \in Nat
    <2>1. table'[c] \in CommitRecord
        BY Element
    <2>2. Len(table) \in Nat /\ Len(table') \in Nat
        BY DEF StoreInv, StoreType
    <2>3. row \in Row
        BY <2>1, <2>2 DEF CommitRecord, Row
    <2> QED BY <2>2, <2>3
<1>2. refs' = [refs EXCEPT ![u][b] = c]
    BY DEF PointTo
<1>3. refs' \in [Uri -> [Branch -> Nat]] /\ \A w \in Uri, x \in Branch :
            refs'[w][x] = IF w = u /\ x = b THEN c ELSE refs[w][x]
    BY <1>1, <1>2 DEF StoreInv, StoreType
<1>4. \A w \in Uri, x \in Branch : refs'[w][x] <= Len(table')
    <2> SUFFICES ASSUME NEW w \in Uri, NEW x \in Branch PROVE refs'[w][x] <= Len(table')
        OBVIOUS
    <2>1. refs[w][x] \in Nat /\ refs[w][x] <= Len(table) /\ c <= Len(table')
        BY <1>1 DEF StoreInv, StoreType
    <2> QED BY <2>1, <1>1, <1>3 DEF Grows
<1>5. CASE b = "main"
    <2>1. rows' = [rows EXCEPT ![u] = Append(@, row)]
        BY <1>5 DEF PointTo
    <2>2. /\ rows' \in [Uri -> Seq(Row)]
          /\ rows'[u] = Append(rows[u], row) /\ \A w \in Uri \ {u} : rows'[w] = rows[w]
        BY <2>1, <1>1 DEF StoreInv, StoreType
    <2>3. /\ rows[u] \in Seq(Row) /\ Len(rows'[u]) > 0 /\ rows'[u] # rows[u]
          /\ ServedRow(u)' = row /\ HeadOf(u)' = table'[c].version
        <3>1. rows[u] \in Seq(Row)
            BY DEF StoreInv, StoreType
        <3> HIDE DEF row
        <3>2. /\ Len(rows'[u]) = Len(rows[u]) + 1 /\ Len(rows[u]) \in Nat
              /\ rows'[u][Len(rows'[u])] = row
            BY <3>1, <2>2, <1>1
        <3> QED BY <3>1, <3>2 DEF ServedRow, HeadOf, row
    <2>4. OthersStay(u)
        BY <2>2, <2>3, <1>3, <1>5, MainIsBranch DEF OthersStay, Left
    <2>5. Fits(u)'
        <3>1. table'[c].version # NoPrompt
            <4>1. table'[c] \in CommitRecord
                BY Element
            <4> QED BY <4>1, CatalogAssumption DEF CommitRecord
        <3> QED BY <3>1, <2>3, <1>3, <1>5, MainIsBranch DEF Fits
    <2>6. \A w \in Uri : Fits(w)'
        BY <2>4, <2>5, FitStays DEF OthersStay
    <2>7. \A w \in Uri : Len(rows'[w]) > 0
        BY <2>2, <2>3 DEF StoreInv
    <2> QED BY <1>3, <1>4, <2>2, <2>3, <2>4, <2>6, <2>7 DEF StoreInv, StoreType
<1>6. CASE b # "main"
    <2>1. rows' = rows /\ \A w \in Uri : Left(w)
        BY <1>6, <1>3, MainIsBranch DEF PointTo, Left
    <2>2. \A w \in Uri : Fits(w)'
        BY <2>1, FitStays
    <2> QED BY <1>3, <1>4, <1>6, <2>1, <2>2 DEF StoreInv, StoreType, OthersStay
<1> QED BY <1>5, <1>6

LEMMA AddKeeps ==
    ASSUME StoreInv, NEW u \in Uri, NEW b \in Branch, NEW v \in Version,
           NEW p \in 0 .. Len(table), NEW p2 \in 0 .. Len(table), NEW a \in Author,
           Add(u, b, v, p, p2, a)
    PROVE  /\ StoreInv' /\ Grows /\ OthersStay(u)
           /\ Len(table') = Len(table) + 1
           /\ table'[Len(table) + 1] = [uri |-> u, version |-> v, parent |-> p, parent2 |-> p2, author |-> a]
           /\ table'[Len(table) + 1].version = v /\ table'[Len(table) + 1].parent = p
           /\ b = "main" => HeadOf(u)' = v
<1> DEFINE r == [uri |-> u, version |-> v, parent |-> p, parent2 |-> p2, author |-> a]
<1>1. r \in CommitRecord /\ table \in Seq(CommitRecord) /\ Len(table) \in Nat
    BY DEF CommitRecord, StoreInv, StoreType
<1>2. table' = Append(table, r) /\ PointTo(u, b, Len(table) + 1)
    BY DEF Add
<1> HIDE DEF r
<1>3. /\ table' \in Seq(CommitRecord) /\ Len(table') = Len(table) + 1
      /\ table'[Len(table) + 1] = r /\ Grows
    BY <1>1, <1>2 DEF Grows
<1>4. StoreInv' /\ OthersStay(u) /\ (b = "main" => HeadOf(u)' = table'[Len(table) + 1].version)
    BY <1>1, <1>2, <1>3, PointKeeps
<1>5. r.version = v /\ r.parent = p
    BY DEF r
<1> QED BY <1>3, <1>4, <1>5 DEF r

LEMMA OperationKeeps ==
    ASSUME StoreInv, NEW u \in Uri, NEW a \in Author, Operation(u, a)
    PROVE  StoreInv' /\ Grows /\ OthersStay(u)
<1>1. /\ table \in Seq(CommitRecord) /\ Len(table) \in Nat
      /\ \A b \in Branch : refs[u][b] \in 0 .. Len(table)
    BY DEF StoreInv, StoreType
<1>2. ASSUME NEW b \in Branch, NEW v \in Version \ Malformed, Commit(u, b, v, a)
      PROVE  StoreInv' /\ Grows /\ OthersStay(u)
    <2>1. refs[u][b] \in 0 .. Len(table) /\ 0 \in 0 .. Len(table) /\ v \in Version
        BY <1>1
    <2>2. Add(u, b, v, refs[u][b], 0, a)
        BY <1>2 DEF Commit
    <2> QED BY <2>1, <2>2, AddKeeps
<1>3. ASSUME NEW b \in Branch, NEW f \in Branch, Merge(u, b, f, a)
      PROVE  StoreInv' /\ Grows /\ OthersStay(u)
    <2> DEFINE s == refs[u][f]
    <2>1. s \in 1 .. Len(table) /\ refs[u][b] \in 0 .. Len(table)
        BY <1>1, <1>3 DEF Merge
    <2>2. Add(u, b, table[s].version, refs[u][b], s, a)
        BY <1>3 DEF Merge
    <2>3. s \in 0 .. Len(table) /\ table[s].version \in Version
        <3>1. table[s] \in CommitRecord
            BY <1>1, <2>1, Element
        <3> QED BY <3>1, <2>1, <1>1 DEF CommitRecord
    <2> HIDE DEF s
    <2> QED BY <2>1, <2>2, <2>3, AddKeeps
<1>4. ASSUME NEW b \in Branch, NEW c \in Commits, SetBranch(u, b, c)
      PROVE  StoreInv' /\ Grows /\ OthersStay(u)
    <2>1. table' = table /\ c \in 1 .. Len(table') /\ PointTo(u, b, c)
        BY <1>4 DEF SetBranch, Commits
    <2>2. table' \in Seq(CommitRecord) /\ Grows
        BY <1>1, <2>1 DEF Grows
    <2> QED BY <2>1, <2>2, PointKeeps
<1>5. ASSUME NEW b \in Branch, NEW f \in Branch, b # "main", Fork(u, b, f)
      PROVE  StoreInv' /\ Grows /\ OthersStay(u)
    <2>1. UNCHANGED <<table, rows>> /\ refs' = [refs EXCEPT ![u][b] = refs[u][f]]
        BY <1>5 DEF Fork
    <2>2. refs' \in [Uri -> [Branch -> Nat]] /\ \A w \in Uri, x \in Branch :
              refs'[w][x] = IF w = u /\ x = b THEN refs[u][f] ELSE refs[w][x]
        BY <2>1, <1>1 DEF StoreInv, StoreType
    <2>3. \A w \in Uri : Left(w)
        BY <2>1, <2>2, <1>5, MainIsBranch DEF Left
    <2>4. \A w \in Uri, x \in Branch : refs'[w][x] <= Len(table')
        BY <2>1, <2>2, <1>1 DEF StoreInv
    <2>5. Grows /\ OthersStay(u)
        BY <2>1, <2>3, <1>1 DEF Grows, OthersStay
    <2>6. \A w \in Uri : Fits(w)'
        BY <2>3, <2>5, FitStays
    <2> QED BY <2>1, <2>2, <2>4, <2>5, <2>6 DEF StoreInv, StoreType
<1> QED BY <1>2, <1>3, <1>4, <1>5 DEF Operation

LEMMA LoadKeeps ==
    ASSUME StoreInv, NEW u \in Uri, NEW v \in Version, LoadRow(u, v)
    PROVE  StoreInv' /\ Grows /\ OthersStay(u)
<1> DEFINE row == [version |-> v, commit |-> 0]
<1>1. row \in Row /\ row.commit = 0 /\ row.version = v /\ rows[u] \in Seq(Row) /\ Len(table) \in Nat
    <2>1. row \in Row
        BY DEF Row
    <2>2. rows[u] \in Seq(Row) /\ Len(table) \in Nat
        BY DEF StoreInv, StoreType
    <2> QED BY <2>1, <2>2
<1>2. UNCHANGED <<table, refs>> /\ rows' = [rows EXCEPT ![u] = Append(@, row)]
    BY DEF LoadRow
<1> HIDE DEF row
<1>3. /\ rows' \in [Uri -> Seq(Row)]
      /\ rows'[u] = Append(rows[u], row) /\ \A w \in Uri \ {u} : rows'[w] = rows[w]
    BY <1>1, <1>2 DEF StoreInv, StoreType
<1>4. /\ Len(rows'[u]) > 0 /\ rows'[u] # rows[u] /\ rows'[u][Len(rows'[u])] = row
    <2>1. Len(rows'[u]) = Len(rows[u]) + 1 /\ Len(rows[u]) \in Nat
        BY <1>1, <1>3
    <2> QED BY <2>1, <1>1, <1>3
<1>5. Grows /\ OthersStay(u)
    BY <1>1, <1>2, <1>3, <1>4 DEF Grows, OthersStay, Left
<1>6. Fits(u)'
    BY <1>1, <1>4, CatalogAssumption DEF Fits, ServedRow, HeadOf
<1>7. \A w \in Uri : Fits(w)'
    BY <1>5, <1>6, FitStays DEF OthersStay
<1> QED BY <1>2, <1>3, <1>4, <1>5, <1>7 DEF StoreInv, StoreType

-----------------------------------------------------------------------------
(* What others write leaves of an import: the line it is at.  *)

LEMMA EntryType ==
    ASSUME ImportType, NEW i \in 1 .. Len(file)
    PROVE  file[i].uri \in Uri /\ file[i].version \in Version
<1>1. file[i] \in Line
    BY Element DEF ImportType
<1> QED BY <1>1 DEF Line

LEMMA SeenKept ==
    ASSUME StoreInv, ImportType, SeenInv, Grows, UNCHANGED <<made, raced, file, next, seen>>, at' = at
    PROVE  SeenInv'
<1>1. Len(table) \in Nat /\ Len(table') \in Nat
    BY DEF StoreInv, StoreType, Grows
<1>2. ASSUME at = "commit", seen # 0
      PROVE  seen <= Len(table') /\ table'[seen].version # file[next].version
    <2>1. seen \in 1 .. Len(table) /\ table[seen].version # file[next].version
        BY <1>2, <1>1 DEF SeenInv, ImportType
    <2> QED BY <2>1, <1>1 DEF Grows
<1>3. ASSUME NEW d \in made \ raced
      PROVE  /\ d \in 1 .. Len(table')
             /\ table'[d].parent <= Len(table')
             /\ table'[d].parent # 0 => table'[table'[d].parent].version # table'[d].version
    <2>1. /\ d \in 1 .. Len(table) /\ table[d].parent <= Len(table)
          /\ table[d].parent # 0 => table[table[d].parent].version # table[d].version
        BY DEF SeenInv
    <2>2. table[d] \in CommitRecord
        BY <2>1, Element DEF StoreInv, StoreType
    <2>3. table[d].parent \in Nat /\ table'[d] = table[d]
        BY <2>1, <2>2 DEF CommitRecord, Grows
    <2> QED BY <2>1, <2>3, <1>1 DEF Grows
<1> QED BY <1>2, <1>3 DEF SeenInv

LEMMA TakenStays ==
    ASSUME StoreInv, ImportType, Grows, NEW i \in 1 .. Len(file), file' = file,
           Taken(i), moved \subseteq moved', Left(file[i].uri)
    PROVE  Taken(i)'
<1>1. file[i].uri \in Uri
    BY EntryType
<1>2. PICK u \in Uri : u = file[i].uri
    BY <1>1
<1>3. HeadOf(u)' = HeadOf(u) /\ Bare(u)' = Bare(u)
    BY <1>2 DEF Left, HeadOf, Bare, ServedRow
<1>4. Has(file[i]) => Has(file[i])'
    <2>1. MainOf(u) \in 0 .. Len(table) /\ MainOf(u)' = MainOf(u)
        BY <1>2, MainIsBranch DEF MainOf, Left, StoreInv, StoreType
    <2>2. MainOf(u) # 0 => table'[MainOf(u)] = table[MainOf(u)]
        BY <2>1 DEF Grows
    <2> QED BY <2>1, <2>2, <1>2 DEF Has
<1> QED BY <1>2, <1>3, <1>4 DEF Taken

LEMMA BesideInv ==
    ASSUME Inv, NEW u \in Uri, BesideImport(u), StoreInv', Grows, OthersStay(u)
    PROVE  Inv'
<1>1. UNCHANGED <<at, file, next, seen, report, made, raced, imports>>
    BY DEF BesideImport, lineVars
<1>2. ImportType' /\ AcceptedInv'
    BY <1>1 DEF Inv, ImportType, AcceptedInv, Accepts
<1>3. ASSUME NEW i \in 1 .. Len(file), Taken(i)
      PROVE  Taken(i)'
    <2>1. moved \subseteq moved' /\ (rows'[u] # rows[u] => u \in moved')
        BY DEF BesideImport
    <2>2. file[i].uri \in Uri
        BY EntryType DEF Inv
    <2>3. file[i].uri \in moved' \/ Left(file[i].uri)
        BY <2>1, <2>2 DEF OthersStay
    <2>4. CASE file[i].uri \in moved'
        BY <2>4, <1>1 DEF Taken
    <2>5. CASE Left(file[i].uri)
        BY <2>1, <2>5, <1>1, <1>3, TakenStays DEF Inv
    <2> QED BY <2>3, <2>4, <2>5
<1>4. TakenInv'
    BY <1>1, <1>3 DEF Inv, TakenInv
<1>5. SeenInv'
    <2>1. UNCHANGED <<made, raced, file, next, seen>> /\ at' = at
        BY <1>1
    <2>2. StoreInv /\ ImportType /\ SeenInv
        BY DEF Inv
    <2> QED BY <2>1, <2>2, SeenKept
<1> QED BY <1>2, <1>4, <1>5 DEF Inv

LEMMA WriteInv ==
    ASSUME Inv, NEW u \in Uri, NEW a \in Author, Write(u, a)
    PROVE  Inv'
<1>1. StoreInv' /\ Grows /\ OthersStay(u) /\ BesideImport(u)
    BY OperationKeeps DEF Write, Inv
<1> QED BY <1>1, BesideInv

LEMMA RestoreInv ==
    ASSUME Inv, NEW l \in Loaded, RestoreLine(l)
    PROVE  Inv'
<1>1. l.uri \in Uri /\ l.version \in Version
    BY CatalogAssumption DEF Line
<1>2. PICK u \in Uri, v \in Version : u = l.uri /\ v = l.version
    BY <1>1
<1>3. StoreInv' /\ Grows /\ OthersStay(u) /\ BesideImport(u)
    BY <1>2, LoadKeeps DEF RestoreLine, Inv
<1> QED BY <1>3, BesideInv

-----------------------------------------------------------------------------
(* The steps of an import.  *)

LEMMA StoreUnchanged ==
    ASSUME StoreInv, UNCHANGED storeVars
    PROVE  StoreInv' /\ Grows /\ \A u : Left(u)
<1>1. Len(table) \in Nat
    BY DEF StoreInv, StoreType
<1> QED BY <1>1 DEF StoreInv, StoreType, storeVars, HeadOf, Fits, ServedRow, Left, Grows

LEMMA StartsInv ==
    ASSUME Inv, NEW f \in File, ImportStarts(f)
    PROVE  Inv'
<1>1. StoreInv'
    BY StoreUnchanged DEF Inv, ImportStarts
<1>2. /\ next' = next /\ seen' = seen /\ file' = f /\ at = "idle" /\ next = 1
      /\ made' = {} /\ raced' = {} /\ report' \in {"none", "refused"}
    BY DEF ImportStarts, lineVars, Inv, ImportType
<1>3. \/ at' = "resolve" /\ report' = "none" /\ Accepts(f)
      \/ at' = "idle" /\ report' = "refused"
    BY DEF ImportStarts
<1>4. f \in Seq(Line)
    BY CatalogAssumption
<1>5. ImportType'
    BY <1>2, <1>3, <1>4 DEF Inv, ImportType
<1>6. AcceptedInv'
    BY <1>2, <1>3 DEF AcceptedInv, Accepts
<1>7. TakenInv'
    BY <1>2, <1>3 DEF TakenInv
<1>8. SeenInv'
    BY <1>2, <1>3 DEF SeenInv
<1> QED BY <1>1, <1>5, <1>6, <1>7, <1>8 DEF Inv

LEMMA ResolvesInv ==
    ASSUME Inv, ImportResolves
    PROVE  Inv'
<1> DEFINE u == Entry.uri
<1>1. /\ UNCHANGED <<table, refs, rows, file, report, made, raced, moved>>
      /\ at = "resolve" /\ next \in 1 .. Len(file)
    BY DEF ImportResolves, storeVars, ghostVars, Inv, ImportType
<1>2. StoreInv' /\ Grows /\ \A w : Left(w)
    BY <1>1, StoreUnchanged DEF Inv, storeVars
<1>3. u \in Uri /\ Entry = file[next]
    BY <1>1, EntryType DEF Inv, Entry
<1>4. MainOf(u) \in Nat /\ MainOf(u) <= Len(table)
    BY <1>3, MainIsBranch DEF MainOf, Inv, StoreInv, StoreType
<1>5. ASSUME NEW i \in 1 .. Len(file), Taken(i)
      PROVE  Taken(i)'
    <2>1. StoreInv /\ ImportType /\ moved \subseteq moved'
        BY <1>1 DEF Inv
    <2> QED BY <2>1, <1>1, <1>2, <1>5, TakenStays
<1>6. AcceptedInv' /\ report' = "none"
    BY <1>1 DEF Inv, AcceptedInv, Accepts, TakenInv
<1>7. CASE Has(Entry)
    <2>1. at' = "resolve" /\ next' = next + 1 /\ seen' = seen
        BY <1>1, <1>7 DEF ImportResolves
    <2>2. Taken(next)
        <3>1. Fits(u) /\ MainOf(u) # 0 /\ table[MainOf(u)].version = Entry.version
            BY <1>3, <1>7 DEF Has, Inv, StoreInv
        <3>2. Bare(u) \/ HeadOf(u) = Entry.version
            BY <3>1 DEF Fits, Bare, MainOf, HeadOf, ServedRow
        <3> QED BY <3>2, <1>3, <1>7 DEF Taken
    <2>3. ImportType'
        BY <1>1, <2>1 DEF Inv, ImportType
    <2>4. TakenInv'
        <3>1. \A i \in 1 .. Len(file) : i < next' => i < next \/ i = next
            BY <1>1, <2>1
        <3> QED BY <3>1, <2>2, <1>1, <1>5, <1>6 DEF Inv, TakenInv
    <2>5. SeenInv'
        BY <1>1, <2>1 DEF Inv, SeenInv
    <2> QED BY <1>2, <1>6, <2>3, <2>4, <2>5 DEF Inv
<1>8. CASE ~Has(Entry)
    <2>1. at' = "commit" /\ next' = next /\ seen' = MainOf(u)
        BY <1>8 DEF ImportResolves
    <2>2. ImportType'
        BY <1>1, <1>4, <2>1 DEF Inv, ImportType
    <2>3. TakenInv'
        BY <1>1, <1>5, <1>6, <2>1 DEF Inv, TakenInv
    <2>4. SeenInv'
        BY <1>1, <1>3, <1>4, <1>8, <2>1 DEF Inv, SeenInv, Has
    <2> QED BY <1>2, <1>6, <2>2, <2>3, <2>4 DEF Inv
<1> QED BY <1>7, <1>8

LEMMA CommitsInv ==
    ASSUME Inv, ImportCommits
    PROVE  Inv'
<1>0. at = "commit" /\ next \in 1 .. Len(file) /\ Len(table) \in Nat
    BY DEF ImportCommits, Inv, ImportType, StoreInv, StoreType
<1>a. PICK k \in 1 .. Len(file), c \in Nat : k = next /\ c = Len(table) + 1
    BY <1>0
<1>b. Entry.uri \in Uri /\ Entry.version \in Version
    BY <1>0, EntryType DEF Inv, Entry
<1>c. PICK u \in Uri, v \in Version : u = Entry.uri /\ v = Entry.version
    BY <1>b
<1>1. /\ file' = file /\ moved' = moved /\ seen' = 0
      /\ made' = made \cup {c}
      /\ raced' = IF MainOf(u) # seen THEN raced \cup {c} ELSE raced
      /\ \/ at' = "resolve" /\ next' = next + 1 /\ report' = report
         \/ at' = "idle" /\ next' = 1 /\ report' = "failed"
    BY <1>a, <1>c DEF ImportCommits, Leaves
<1>2. u = file[k].uri /\ v = file[k].version
    BY <1>a, <1>c DEF Entry
<1>3. Len(table) \in Nat /\ MainOf(u) \in 0 .. Len(table)
    BY <1>0, MainIsBranch DEF MainOf, Inv, StoreInv, StoreType
<1>4. /\ StoreInv' /\ Grows /\ OthersStay(u)
      /\ Len(table') = Len(table) + 1
      /\ table'[c].version = v /\ table'[c].parent = MainOf(u)
      /\ HeadOf(u)' = v /\ MainOf(u)' = c
    <2>1. Add(u, "main", v, MainOf(u), 0, "priompt")
        BY <1>c DEF ImportCommits, Parent
    <2>2. "priompt" \in Author /\ 0 \in 0 .. Len(table) /\ StoreInv
        BY <1>3, CatalogAssumption DEF Inv
    <2>3. MainOf(u)' = c
        BY <2>1, <1>a, MainIsBranch DEF Add, PointTo, MainOf, Inv, StoreInv, StoreType
    <2> QED BY <2>1, <2>2, <2>3, <1>a, <1>3, MainIsBranch, AddKeeps
<1>5. ImportType'
    BY <1>0, <1>1 DEF Inv, ImportType
<1>6. AcceptedInv'
    BY <1>0, <1>1 DEF Inv, AcceptedInv, Accepts
<1>7. ASSUME NEW i \in 1 .. Len(file), i < k
      PROVE  Taken(i)'
    <2>1. CASE file[i].uri = u
        <3>1. k \in i + 1 .. Len(file) /\ file[k].uri = file[i].uri
            BY <2>1, <1>2, <1>7
        <3> QED BY <3>1, <1>1 DEF Taken
    <2>2. CASE file[i].uri # u
        <3>1. file[i].uri \in Uri /\ Taken(i)
            BY <1>7, <1>a, EntryType DEF Inv, TakenInv
        <3>2. Left(file[i].uri)
            BY <3>1, <2>2, <1>4 DEF OthersStay
        <3> QED BY <3>1, <3>2, <1>1, <1>4, TakenStays DEF Inv
    <2> QED BY <2>1, <2>2
<1>8. Taken(k)'
    <2>1. HeadOf(file[k].uri)' = file[k].version
        BY <1>1, <1>2, <1>4
    <2>2. Has(file[k])'
        BY <1>1, <1>2, <1>4, <1>a DEF Has, MainOf
    <2> QED BY <2>1, <2>2, <1>1 DEF Taken
<1>9. TakenInv'
    <2>1. report = "none"
        BY <1>0 DEF Inv, TakenInv
    <2>2. \A i \in 1 .. Len(file) : i < next' => i < k \/ i = k
        BY <1>0, <1>a, <1>1
    <2> QED BY <2>1, <2>2, <1>1, <1>7, <1>8 DEF TakenInv
<1>10. SeenInv'
    <2>1. ASSUME NEW d \in (made \ raced)
          PROVE  /\ d \in 1 .. Len(table')
                 /\ table'[d].parent <= Len(table')
                 /\ table'[d].parent # 0 => table'[table'[d].parent].version # table'[d].version
        <3>1. /\ d \in 1 .. Len(table) /\ table[d].parent <= Len(table)
              /\ table[d].parent # 0 => table[table[d].parent].version # table[d].version
            BY DEF Inv, SeenInv
        <3>2. table[d].parent \in Nat /\ table'[d] = table[d]
            <4>1. table[d] \in CommitRecord
                BY <3>1, Element DEF Inv, StoreInv, StoreType
            <4> QED BY <4>1, <3>1, <1>4 DEF CommitRecord, Grows
        <3> QED BY <3>1, <3>2, <1>3, <1>4 DEF Grows
    <2>2. ASSUME MainOf(u) = seen
          PROVE  /\ c \in 1 .. Len(table')
                 /\ table'[c].parent <= Len(table')
                 /\ table'[c].parent # 0 => table'[table'[c].parent].version # table'[c].version
        <3>1. seen # 0 => seen \in 1 .. Len(table) /\ table[seen].version # v
            BY <2>2, <1>0, <1>a, <1>2, <1>3 DEF Inv, SeenInv
        <3> QED BY <3>1, <2>2, <1>a, <1>3, <1>4 DEF Grows
    <2>3. \A d \in made' \ raced' : d \in made \ raced \/ (d = c /\ MainOf(u) = seen)
        BY <1>1
    <2> QED BY <2>1, <2>2, <2>3, <1>1 DEF SeenInv
<1> QED BY <1>4, <1>5, <1>6, <1>9, <1>10 DEF Inv

LEMMA LeavesInv ==
    ASSUME Inv, ImportStops \/ ImportEnds
    PROVE  Inv'
<1>1. /\ UNCHANGED <<table, refs, rows, file, made, raced, moved>>
      /\ at # "idle" /\ at' = "idle" /\ next' = 1 /\ seen' = 0
      /\ report' \in {"failed", "done"}
      /\ report' = "done" => next > Len(file)
    BY DEF ImportStops, ImportEnds, Leaves, AtEnd, storeVars, ghostVars
<1>2. StoreInv' /\ Grows /\ \A w : Left(w)
    BY <1>1, StoreUnchanged DEF Inv, storeVars
<1>3. ImportType' /\ AcceptedInv' /\ SeenInv'
    BY <1>1 DEF Inv, ImportType, AcceptedInv, Accepts, SeenInv
<1>4. ASSUME report' = "done", NEW i \in 1 .. Len(file)
      PROVE  Taken(i)'
    <2>1. file[i].uri \in Uri /\ i < next
        BY <1>1, <1>4, EntryType DEF Inv, ImportType
    <2>2. Taken(i) /\ moved \subseteq moved'
        BY <2>1, <1>1 DEF Inv, TakenInv
    <2> QED BY <2>2, <1>1, <1>2, TakenStays DEF Inv
<1>5. TakenInv'
    BY <1>1, <1>4 DEF TakenInv
<1> QED BY <1>2, <1>3, <1>5 DEF Inv

-----------------------------------------------------------------------------

LEMMA StepInv ==
    ASSUME Inv, [APINext]_apiVars
    PROVE  Inv'
<1>1. ASSUME UNCHANGED catalogVars PROVE Inv'
    <2>1. /\ UNCHANGED <<table, refs, rows, at, file, next, seen, report, made, raced, moved>>
        BY <1>1 DEF catalogVars, storeVars, importVars, lineVars, ghostVars
    <2>2. StoreInv'
        BY <2>1, StoreUnchanged DEF Inv, storeVars
    <2>3. ImportType' /\ AcceptedInv' /\ SeenInv'
        BY <2>1 DEF Inv, ImportType, AcceptedInv, Accepts, SeenInv
    <2>4. TakenInv'
        BY <2>1 DEF Inv, TakenInv, Taken, HeadOf, Has, MainOf, Bare, ServedRow
    <2> QED BY <2>2, <2>3, <2>4 DEF Inv
<1>2. ASSUME NEW x \in Call, Handles(x) PROVE Inv'
    <2>1. CASE UNCHANGED catalogVars
        BY <2>1, <1>1
    <2>2. ASSUME NEW u \in Uri, Write(u, Signature(x)) PROVE Inv'
        <3>1. Signature(x) \in Author
            BY APIAssumption
        <3> QED BY <3>1, <2>2, WriteInv
    <2> QED BY <1>2, <2>1, <2>2 DEF Handles
<1>3. ASSUME Import PROVE Inv'
    BY <1>3, StartsInv, ResolvesInv, CommitsInv, LeavesInv DEF Import
<1>4. ASSUME NEW x \in Call, Arrives(x) \/ Enters(x) \/ Rejected(x) PROVE Inv'
    BY <1>4, <1>1 DEF Arrives, Enters, Rejected
<1>5. ASSUME UNCHANGED apiVars PROVE Inv'
    BY <1>5, <1>1 DEF apiVars
<1>6. ASSUME NEW l \in Loaded, RestoreLine(l) PROVE Inv'
    BY <1>6, RestoreInv
<1> QED BY <1>1, <1>2, <1>3, <1>4, <1>5, <1>6 DEF APINext

(* The invariant of the store and the import, PromptCatalog's actions.     *)
THEOREM Invariance == APISpec => []Inv
<1>1. APIInit => Inv
    BY InitInv DEF APIInit
<1> QED BY <1>1, StepInv, PTL DEF APISpec

(* main.go 756-757: nothing of a file with an invalid line is written,     *)
(* whatever else is done to the store and however often it is tried.       *)
THEOREM RefusedFilesLeaveNothing == APISpec => []RefusedWhole
<1>1. Inv => RefusedWhole
    BY DEF Inv, AcceptedInv, Accepts, RefusedWhole
<1> QED BY <1>1, Invariance, PTL

(* main.go 752: what import reports as done is on main, but for prompts    *)
(* that others wrote meanwhile, and served, but for those whose row a      *)
(* restore had put beside main before.                                     *)
THEOREM ImportedIsServed == APISpec => []ImportTookEffect
<1>1. Inv => ImportTookEffect
    BY DEF Inv, TakenInv, Taken, HeadOf, ServedRow, ImportTookEffect
<1> QED BY <1>1, Invariance, PTL

(* main.go 724-726: an import commits nothing that main held already, but  *)
(* where others moved main between the look and the commit.                *)
THEOREM ImportIsRepeatable == APISpec => []ImportAddsNoTwin
<1>1. Inv => ImportAddsNoTwin
    BY DEF Inv, SeenInv, ImportAddsNoTwin
<1> QED BY <1>1, Invariance, PTL

-----------------------------------------------------------------------------
(* Induction, as a fact about sets of numbers.  *)

LEMMA Least ==
    ASSUME NEW T \in SUBSET Nat, T # {}
    PROVE  \E n \in T : \A m \in T : n <= m
<1> DEFINE R == {p \in Nat \X Nat : p[1] < p[2]}
<1>1. IsWellFoundedOn(OpToRel(<, Nat), Nat)
    BY NatLessThanWellFounded
<1>2. OpToRel(<, Nat) = R
    BY Zenon DEF OpToRel
<1>3. IsWellFoundedOn(R, Nat)
    BY <1>1, <1>2
<1> HIDE DEF R
<1>4. PICK n \in T : \A m \in T : ~(<<m, n>> \in R)
    BY <1>3, WFMin
<1>5. ASSUME NEW m \in T PROVE n <= m
    <2>1. n \in Nat /\ m \in Nat /\ ~(m < n)
        BY <1>4 DEF R
    <2> QED BY <2>1
<1> QED BY <1>5

LEMMA Induct ==
    ASSUME NEW T, 0 \in T, \A n \in Nat : n \in T => n + 1 \in T
    PROVE  Nat \subseteq T
<1> SUFFICES ASSUME NEW k \in Nat, k \notin T PROVE FALSE
    OBVIOUS
<1>1. PICK n \in Nat \ T : \A m \in Nat \ T : n <= m
    BY Least
<1>2. n - 1 \in Nat /\ n - 1 \in T
    BY <1>1
<1> QED BY <1>1, <1>2

(* What is so of 0, and of n when it is so of all below, is so of all.     *)
LEMMA InductBelow ==
    ASSUME NEW T, \A n \in Nat : (\A m \in Nat : m < n => m \in T) => n \in T
    PROVE  Nat \subseteq T
<1> SUFFICES ASSUME NEW k \in Nat, k \notin T PROVE FALSE
    OBVIOUS
<1>1. PICK n \in Nat \ T : \A m \in Nat \ T : n <= m
    BY Least
<1>2. \A m \in Nat : m < n => m \in T
    BY <1>1
<1> QED BY <1>1, <1>2

-----------------------------------------------------------------------------
(* The function FirstParents(K) is defined by: parents come first.  *)

Chain(K, par, f, c) == IF c = 0 THEN <<>> ELSE IF c \notin K THEN NotFound ELSE <<c>> \o f[par[c]]

IsChain(K, par, f, n) == f = [c \in 0 .. n |-> Chain(K, par, f, c)]

LEMMA ChainsAgree ==
    ASSUME NEW K, NEW par, \A c \in K \cap Nat : c # 0 => par[c] \in 0 .. c - 1,
           NEW m \in Nat, NEW n \in Nat, NEW f, NEW g, IsChain(K, par, f, m), IsChain(K, par, g, n),
           NEW x \in Nat, x <= m, x <= n
    PROVE  f[x] = g[x]
<1> DEFINE T == {c \in Nat : c \in 0 .. m /\ c \in 0 .. n => f[c] = g[c]}
<1>1. ASSUME NEW c \in Nat, \A d \in Nat : d < c => d \in T
      PROVE  c \in T
    <2> SUFFICES ASSUME c \in 0 .. m, c \in 0 .. n PROVE f[c] = g[c]
        OBVIOUS
    <2>1. f[c] = Chain(K, par, f, c) /\ g[c] = Chain(K, par, g, c)
        <3>1. \A y \in 0 .. m : f[y] = Chain(K, par, f, y)
            BY Zenon DEF IsChain
        <3>2. \A y \in 0 .. n : g[y] = Chain(K, par, g, y)
            BY Zenon DEF IsChain
        <3> QED BY <3>1, <3>2
    <2>2. CASE c = 0 \/ c \notin K
        BY <2>1, <2>2 DEF Chain
    <2>3. CASE c # 0 /\ c \in K
        <3>1. par[c] \in 0 .. c - 1
            BY <2>3
        <3>2. f[par[c]] = g[par[c]]
            BY <3>1, <1>1
        <3> QED BY <2>1, <2>3, <3>2 DEF Chain
    <2> QED BY <2>2, <2>3
<1> HIDE DEF T
<1>2. Nat \subseteq T
    BY <1>1, InductBelow
<1> QED BY <1>2 DEF T

LEMMA ChainsExist ==
    ASSUME NEW K, NEW par, \A c \in K \cap Nat : c # 0 => par[c] \in 0 .. c - 1, NEW n \in Nat
    PROVE  \E f : IsChain(K, par, f, n)
<1> DEFINE T == {k \in Nat : \E f : IsChain(K, par, f, k)}
<1>1. 0 \in T
    <2> DEFINE f == [c \in 0 .. 0 |-> <<>>]
    <2>1. f = [c \in 0 .. 0 |-> Chain(K, par, f, c)]
        BY DEF Chain
    <2> HIDE DEF f
    <2> QED BY <2>1 DEF IsChain
<1>2. ASSUME NEW k \in Nat, k \in T PROVE k + 1 \in T
    <2>1. PICK f : IsChain(K, par, f, k)
        BY <1>2
    <2> DEFINE g == [c \in 0 .. k + 1 |-> IF c = k + 1 THEN Chain(K, par, f, k + 1) ELSE f[c]]
    <2>2. ASSUME NEW c \in 0 .. k + 1 PROVE g[c] = Chain(K, par, g, c)
        <3>0. \A y \in 0 .. k : f[y] = Chain(K, par, f, y) /\ g[y] = f[y]
            <4>1. \A y \in 0 .. k : f[y] = Chain(K, par, f, y)
                BY <2>1, Zenon DEF IsChain
            <4> QED BY <4>1
        <3>1. g[c] = Chain(K, par, f, c)
            <4>1. CASE c = k + 1
                BY <4>1
            <4>2. CASE c # k + 1
                <5>1. c \in 0 .. k
                    BY <4>2
                <5> QED BY <5>1, <3>0
            <4> QED BY <4>1, <4>2
        <3>2. Chain(K, par, f, c) = Chain(K, par, g, c)
            <4>1. CASE c = 0 \/ c \notin K
                BY <4>1 DEF Chain
            <4>2. CASE c # 0 /\ c \in K
                <5>1. par[c] \in 0 .. k
                    BY <4>2
                <5>2. g[par[c]] = f[par[c]]
                    BY <5>1, <3>0
                <5> HIDE DEF g
                <5> QED BY <4>2, <5>2 DEF Chain
            <4> QED BY <4>1, <4>2
        <3> HIDE DEF g
        <3> QED BY <3>1, <3>2
    <2>3. g = [c \in 0 .. k + 1 |-> g[c]]
        OBVIOUS
    <2> HIDE DEF g
    <2>4. IsChain(K, par, g, k + 1)
        BY <2>2, <2>3 DEF IsChain
    <2> QED BY <2>4
<1> HIDE DEF T
<1>3. Nat \subseteq T
    BY <1>1, <1>2, Induct
<1> QED BY <1>3 DEF T

LEMMA ChainDefined ==
    ASSUME NEW K, NEW par, \A c \in K \cap Nat : c # 0 => par[c] \in 0 .. c - 1
    PROVE  \E f : f = [c \in Nat |-> Chain(K, par, f, c)]
<1> DEFINE part(n) == CHOOSE f : IsChain(K, par, f, n)
           f == [c \in Nat |-> part(c)[c]]
<1>1. ASSUME NEW n \in Nat PROVE IsChain(K, par, part(n), n)
    BY ChainsExist, Zenon
<1> HIDE DEF part
<1>2. ASSUME NEW c \in Nat PROVE f[c] = Chain(K, par, f, c)
    <2>1. f[c] = Chain(K, par, part(c), c)
        <3>1. \A y \in 0 .. c : part(c)[y] = Chain(K, par, part(c), y)
            BY <1>1, Zenon DEF IsChain
        <3> QED BY <3>1
    <2>2. CASE c = 0 \/ c \notin K
        BY <2>1, <2>2 DEF Chain
    <2>3. CASE c # 0 /\ c \in K
        <3>1. par[c] \in 0 .. c - 1
            BY <2>3
        <3>2. par[c] \in Nat /\ par[c] \in 0 .. c /\ par[c] \in 0 .. par[c]
            BY <3>1
        <3>3. part(par[c])[par[c]] = part(c)[par[c]]
            <4>1. PICK d \in Nat : d = par[c] /\ d <= c /\ d <= d
                BY <3>2
            <4>2. PICK p, q : p = part(d) /\ q = part(c) /\ IsChain(K, par, p, d) /\ IsChain(K, par, q, c)
                BY <1>1
            <4> HIDE DEF part
            <4>3. p[d] = q[d]
                <5>1. \A k \in K \cap Nat : k # 0 => par[k] \in 0 .. k - 1
                    OBVIOUS
                <5>2. IsChain(K, par, p, d) /\ IsChain(K, par, q, c) /\ d \in Nat /\ c \in Nat /\ d <= d /\ d <= c
                    BY <4>1, <4>2
                <5> QED BY ONLY <5>1, <5>2, ChainsAgree
            <4> QED BY <4>1, <4>2, <4>3
        <3>4. f[par[c]] = part(c)[par[c]]
            BY <3>2, <3>3
        <3> HIDE DEF f
        <3> QED BY <2>1, <2>3, <3>4 DEF Chain
    <2> QED BY <2>2, <2>3
<1>3. f = [c \in Nat |-> f[c]]
    OBVIOUS
<1> HIDE DEF f
<1>4. f = [c \in Nat |-> Chain(K, par, f, c)]
    BY <1>2, <1>3
<1> QED BY <1>4

(* What FirstParents returns, where parents are older than their commits.  *)
LEMMA FirstParentsEquation ==
    ASSUME NEW K \in SUBSET Nat, \A c \in K : c # 0 => table[c].parent \in 0 .. c - 1,
           NEW c \in Nat
    PROVE  FirstParents(K)[c] = IF c = 0 THEN <<>> ELSE IF c \notin K THEN NotFound
                                ELSE <<c>> \o FirstParents(K)[table[c].parent]
<1> DEFINE par == [k \in K |-> table[k].parent]
           D(f) == f = [k \in Nat |-> IF k = 0 THEN <<>> ELSE IF k \notin K THEN NotFound
                                      ELSE <<k>> \o f[table[k].parent]]
<1>1. PICK f : f = [k \in Nat |-> Chain(K, par, f, k)]
    <2>1. \A k \in K \cap Nat : k # 0 => par[k] \in 0 .. k - 1
        OBVIOUS
    <2> HIDE DEF par
    <2> QED BY <2>1, ChainDefined
<1>2. ASSUME NEW k \in Nat
      PROVE  Chain(K, par, f, k) = IF k = 0 THEN <<>> ELSE IF k \notin K THEN NotFound
                                      ELSE <<k>> \o f[table[k].parent]
    BY DEF Chain
<1>3. D(f)
    BY <1>1, <1>2
<1>4. FirstParents(K) = CHOOSE g : D(g)
    BY DEF FirstParents
<1>5. D(FirstParents(K))
    BY <1>3, <1>4, Zenon
<1> DEFINE F == FirstParents(K)
<1>6. \A k \in Nat : F[k] = IF k = 0 THEN <<>> ELSE IF k \notin K THEN NotFound
                                      ELSE <<k>> \o F[table[k].parent]
    <2>1. D(F)
        BY <1>5
    <2> HIDE DEF F
    <2> QED BY <2>1
<1> QED BY <1>6

-----------------------------------------------------------------------------
(* Every prompt's commits and branches are its own.  *)

OwnOrNone(u) == {0} \cup Own(u)

OwnCommit(c) ==
    /\ table[c].version \notin Malformed
    /\ table[c].parent \in OwnOrNone(table[c].uri) /\ table[c].parent < c
    /\ table[c].parent2 \in OwnOrNone(table[c].uri) /\ table[c].parent2 < c

OwnTable == \A c \in Commits : OwnCommit(c)

OwnRefs ==
    /\ \A u \in Uri, b \in Branch : refs[u][b] \in OwnOrNone(u)
    /\ \A u \in Uri : \A i \in 1 .. Len(rows[u]) : rows[u][i].commit \in OwnOrNone(u)

OwnInv == OwnTable /\ OwnRefs

LEMMA OwnGrows ==
    ASSUME StoreInv, Grows, NEW u
    PROVE  OwnOrNone(u) \subseteq OwnOrNone(u)'
<1>1. Len(table) \in Nat /\ Len(table') \in Nat
    BY DEF StoreInv, StoreType, Grows
<1> QED BY <1>1 DEF OwnOrNone, Own, Commits, Grows

LEMMA InitOwn == CatalogInit => OwnInv
<1> SUFFICES ASSUME CatalogInit PROVE OwnInv
    OBVIOUS
<1>1. table = <<>> /\ Commits = {}
    BY DEF CatalogInit, Commits
<1>2. OwnTable
    BY <1>1 DEF OwnTable
<1>3. \A u \in Uri : /\ Len(rows[u]) = 1 /\ rows[u][1].commit = 0 /\ rows[u][1].version = NoPrompt
                     /\ \A b \in Branch : refs[u][b] = 0
    BY DEF CatalogInit
<1> QED BY <1>2, <1>3 DEF OwnInv, OwnRefs, OwnOrNone

LEMMA PointOwn ==
    ASSUME StoreInv, OwnRefs, NEW u \in Uri, NEW b \in Branch, NEW c \in 1 .. Len(table'),
           table' \in Seq(CommitRecord), Grows, PointTo(u, b, c), table'[c].uri = u
    PROVE  OwnRefs'
<1> DEFINE row == [version |-> table'[c].version, commit |-> c]
<1>1. /\ rows \in [Uri -> Seq(Row)] /\ refs \in [Uri -> [Branch -> Nat]]
      /\ Len(table) \in Nat /\ Len(table') \in Nat
    BY DEF StoreInv, StoreType
<1>2. c # 0 /\ c \in OwnOrNone(u)'
    BY <1>1 DEF OwnOrNone, Own, Commits
<1>3. \A w \in Uri, x \in Branch : refs'[w][x] = IF w = u /\ x = b THEN c ELSE refs[w][x]
    BY <1>1 DEF PointTo
<1>4. \A w \in Uri : OwnOrNone(w) \subseteq OwnOrNone(w)'
    BY OwnGrows
<1>5. \A w \in Uri, x \in Branch : refs'[w][x] \in OwnOrNone(w)'
    BY <1>2, <1>3, <1>4 DEF OwnRefs
<1>6. \A w \in Uri : rows'[w] = IF w = u /\ b = "main" THEN Append(rows[w], row) ELSE rows[w]
    BY <1>1 DEF PointTo
<1>7. ASSUME NEW w \in Uri, NEW i \in 1 .. Len(rows'[w])
      PROVE  rows'[w][i].commit \in OwnOrNone(w)'
    <2>1. \A j \in 1 .. Len(rows[w]) : rows[w][j].commit \in OwnOrNone(w)'
        BY <1>4 DEF OwnRefs
    <2>2. CASE rows'[w] = rows[w]
        BY <2>1, <2>2
    <2>3. CASE w = u /\ rows'[w] = Append(rows[w], row)
        <3>1. rows[w] \in Seq(Row) /\ row.commit = c
            BY <1>1
        <3> HIDE DEF row
        <3>2. (i \in 1 .. Len(rows[w]) /\ rows'[w][i] = rows[w][i]) \/ rows'[w][i] = row
            BY <2>3, <3>1
        <3> QED BY <2>1, <2>3, <3>1, <3>2, <1>2
    <2> QED BY <2>2, <2>3, <1>6
<1> QED BY <1>5, <1>7 DEF OwnRefs

LEMMA AddOwn ==
    ASSUME StoreInv, OwnInv, NEW u \in Uri, NEW b \in Branch, NEW v \in Version \ Malformed,
           NEW p \in OwnOrNone(u), NEW p2 \in OwnOrNone(u), NEW a \in Author,
           Add(u, b, v, p, p2, a)
    PROVE  OwnInv'
<1>1. /\ p \in 0 .. Len(table) /\ p2 \in 0 .. Len(table)
      /\ table \in Seq(CommitRecord) /\ Len(table) \in Nat
    BY DEF OwnOrNone, Own, Commits, StoreInv, StoreType
<1>2. /\ StoreInv' /\ Grows /\ Len(table') = Len(table) + 1
      /\ table'[Len(table) + 1] = [uri |-> u, version |-> v, parent |-> p, parent2 |-> p2, author |-> a]
    BY <1>1, AddKeeps
<1>3. PointTo(u, b, Len(table) + 1) /\ table' \in Seq(CommitRecord) /\ Len(table) + 1 \in 1 .. Len(table')
    BY <1>1, <1>2 DEF Add, StoreInv, StoreType
<1>4. OwnRefs'
    BY <1>1, <1>2, <1>3, PointOwn DEF OwnInv
<1>5. ASSUME NEW c \in Commits' PROVE OwnCommit(c)'
    <2>1. CASE c = Len(table) + 1
        <3>1. p \in OwnOrNone(u)' /\ p2 \in OwnOrNone(u)'
            BY <1>2, OwnGrows
        <3> QED BY <2>1, <3>1, <1>1, <1>2 DEF OwnCommit, OwnOrNone, Own
    <2>2. CASE c \in Commits
        <3>1. table'[c] = table[c]
            BY <2>2, <1>2 DEF Grows, Commits
        <3>2. PICK w : w = table[c].uri
            OBVIOUS
        <3>3. OwnOrNone(w) \subseteq OwnOrNone(w)'
            BY <1>2, OwnGrows
        <3>4. OwnCommit(c)
            BY <2>2 DEF OwnInv, OwnTable
        <3> QED BY <3>1, <3>2, <3>3, <3>4 DEF OwnCommit, OwnOrNone, Own
    <2> QED BY <2>1, <2>2, <1>1, <1>2 DEF Commits
<1>6. OwnTable'
    BY <1>5 DEF OwnTable
<1> QED BY <1>4, <1>6 DEF OwnInv

LEMMA OperationOwn ==
    ASSUME StoreInv, OwnInv, NEW u \in Uri, NEW a \in Author, Operation(u, a)
    PROVE  OwnInv'
<1>1. /\ table \in Seq(CommitRecord) /\ Len(table) \in Nat /\ StoreInv'
      /\ \A b \in Branch : refs[u][b] \in OwnOrNone(u)
    BY OperationKeeps DEF OwnInv, OwnRefs, StoreInv, StoreType
<1>2. ASSUME NEW b \in Branch, NEW v \in Version \ Malformed, Commit(u, b, v, a)
      PROVE  OwnInv'
    <2>1. refs[u][b] \in OwnOrNone(u) /\ 0 \in OwnOrNone(u)
        BY <1>1 DEF OwnOrNone
    <2>2. Add(u, b, v, refs[u][b], 0, a)
        BY <1>2 DEF Commit
    <2> QED BY <2>1, <2>2, AddOwn
<1>3. ASSUME NEW b \in Branch, NEW f \in Branch, Merge(u, b, f, a)
      PROVE  OwnInv'
    <2> DEFINE s == refs[u][f]
    <2>1. s # 0 /\ s \in OwnOrNone(u) /\ refs[u][b] \in OwnOrNone(u)
        BY <1>1, <1>3 DEF Merge
    <2>2. Add(u, b, table[s].version, refs[u][b], s, a)
        BY <1>3 DEF Merge
    <2> HIDE DEF s
    <2>3. s \in Commits /\ table[s] \in CommitRecord
        BY <2>1, <1>1, Element DEF OwnOrNone, Own, Commits
    <2>4. table[s].version \in Version \ Malformed
        BY <2>3 DEF CommitRecord, OwnInv, OwnTable, OwnCommit
    <2> QED BY <2>1, <2>2, <2>4, AddOwn
<1>4. ASSUME NEW b \in Branch, NEW c \in Commits, SetBranch(u, b, c)
      PROVE  OwnInv'
    <2>1. table' = table /\ c \in 1 .. Len(table') /\ PointTo(u, b, c) /\ table'[c].uri = u
        BY <1>4 DEF SetBranch, Commits, Own
    <2>2. table' \in Seq(CommitRecord) /\ Grows
        BY <1>1, <2>1 DEF Grows
    <2>3. OwnRefs'
        BY <2>1, <2>2, PointOwn DEF OwnInv
    <2> QED BY <2>1, <2>3 DEF OwnInv, OwnTable, OwnCommit, OwnOrNone, Own, Commits
<1>5. ASSUME NEW b \in Branch, NEW f \in Branch, b # "main", Fork(u, b, f)
      PROVE  OwnInv'
    <2>1. UNCHANGED <<table, rows>> /\ refs' = [refs EXCEPT ![u][b] = refs[u][f]]
        BY <1>5 DEF Fork
    <2>2. \A w \in Uri, x \in Branch :
              refs'[w][x] = IF w = u /\ x = b THEN refs[u][f] ELSE refs[w][x]
        BY <2>1 DEF StoreInv, StoreType
    <2>3. Own(u)' = Own(u) /\ \A w : OwnOrNone(w)' = OwnOrNone(w)
        BY <2>1 DEF OwnOrNone, Own, Commits
    <2>4. \A w \in Uri, x \in Branch : refs'[w][x] \in OwnOrNone(w)'
        BY <2>2, <2>3 DEF OwnInv, OwnRefs
    <2>5. OwnRefs'
        BY <2>1, <2>3, <2>4 DEF OwnInv, OwnRefs
    <2> QED BY <2>1, <2>5 DEF OwnInv, OwnTable, OwnCommit, OwnOrNone, Own, Commits
<1> QED BY <1>2, <1>3, <1>4, <1>5 DEF Operation

LEMMA LoadOwn ==
    ASSUME StoreInv, OwnInv, NEW u \in Uri, NEW v \in Version, LoadRow(u, v)
    PROVE  OwnInv'
<1> DEFINE row == [version |-> v, commit |-> 0]
<1>1. row.commit = 0 /\ row \in Row /\ rows \in [Uri -> Seq(Row)]
    BY DEF Row, StoreInv, StoreType
<1>2. UNCHANGED <<table, refs>> /\ rows' = [rows EXCEPT ![u] = Append(@, row)]
    BY DEF LoadRow
<1> HIDE DEF row
<1>3. \A w : OwnOrNone(w)' = OwnOrNone(w)
    BY <1>2 DEF OwnOrNone, Own, Commits
<1>4. ASSUME NEW w \in Uri, NEW i \in 1 .. Len(rows'[w])
      PROVE  rows'[w][i].commit \in OwnOrNone(w)
    <2>1. \A j \in 1 .. Len(rows[w]) : rows[w][j].commit \in OwnOrNone(w)
        BY DEF OwnInv, OwnRefs
    <2>2. CASE w # u
        BY <2>1, <2>2, <1>1, <1>2
    <2>3. CASE w = u
        <3>1. rows'[w] = Append(rows[w], row) /\ rows[w] \in Seq(Row)
            BY <2>3, <1>1, <1>2
        <3>2. (i \in 1 .. Len(rows[w]) /\ rows'[w][i] = rows[w][i]) \/ rows'[w][i] = row
            BY <3>1, <1>1
        <3> QED BY <2>1, <3>2, <1>1 DEF OwnOrNone
    <2> QED BY <2>2, <2>3
<1>5. OwnRefs'
    BY <1>2, <1>3, <1>4 DEF OwnInv, OwnRefs
<1> QED BY <1>2, <1>5 DEF OwnInv, OwnTable, OwnCommit, OwnOrNone, Own, Commits

LEMMA StepOwn ==
    ASSUME Inv, OwnInv, [APINext]_apiVars
    PROVE  OwnInv'
<1>1. ASSUME UNCHANGED storeVars PROVE OwnInv'
    BY <1>1 DEF storeVars, OwnInv, OwnTable, OwnCommit, OwnRefs, OwnOrNone, Own, Commits
<1>2. ASSUME NEW x \in Call, Handles(x) PROVE OwnInv'
    <2>1. CASE UNCHANGED catalogVars
        BY <2>1, <1>1 DEF catalogVars
    <2>2. ASSUME NEW u \in Uri, Write(u, Signature(x)) PROVE OwnInv'
        <3>1. Signature(x) \in Author
            BY APIAssumption
        <3> QED BY <3>1, <2>2, OperationOwn DEF Write, Inv
    <2> QED BY <1>2, <2>1, <2>2 DEF Handles
<1>3. ASSUME ImportCommits PROVE OwnInv'
    <2>1. at = "commit" /\ next \in 1 .. Len(file)
        BY <1>3 DEF ImportCommits, Inv, ImportType
    <2>2. Entry.uri \in Uri /\ Entry.version \in Version \ Malformed
        BY <2>1, EntryType DEF Inv, Entry, AcceptedInv, Accepts
    <2>3. PICK u \in Uri, v \in Version \ Malformed : u = Entry.uri /\ v = Entry.version
        BY <2>2
    <2>4. Add(u, "main", v, MainOf(u), 0, "priompt")
        BY <1>3, <2>3 DEF ImportCommits, Parent
    <2>5. MainOf(u) \in OwnOrNone(u) /\ 0 \in OwnOrNone(u) /\ "priompt" \in Author
        BY MainIsBranch, CatalogAssumption DEF MainOf, OwnInv, OwnRefs, OwnOrNone
    <2> QED BY <2>4, <2>5, MainIsBranch, AddOwn DEF Inv
<1>4. ASSUME Import, ~ImportCommits PROVE OwnInv'
    BY <1>4, <1>1 DEF Import, ImportStarts, ImportResolves, ImportStops, ImportEnds
<1>5. ASSUME NEW x \in Call, Arrives(x) \/ Enters(x) \/ Rejected(x) PROVE OwnInv'
    BY <1>5, <1>1 DEF Arrives, Enters, Rejected, catalogVars
<1>6. ASSUME UNCHANGED apiVars PROVE OwnInv'
    BY <1>6, <1>1 DEF apiVars, catalogVars
<1>7. ASSUME NEW l \in Loaded, RestoreLine(l) PROVE OwnInv'
    <2>1. l.uri \in Uri /\ l.version \in Version
        BY CatalogAssumption DEF Line
    <2> QED BY <1>7, <2>1, LoadOwn DEF RestoreLine, Inv
<1> QED BY <1>1, <1>2, <1>3, <1>4, <1>5, <1>6, <1>7 DEF APINext, catalogVars

(* With it, nothing a prompt refers to is another prompt's.                *)
THEOREM OwnInvariance == APISpec => [](Inv /\ OwnInv)
<1>1. APIInit => Inv /\ OwnInv
    BY InitInv, InitOwn DEF APIInit
<1>2. Inv /\ OwnInv /\ [APINext]_apiVars => Inv' /\ OwnInv'
    BY StepInv, StepOwn
<1> QED BY <1>1, <1>2, PTL DEF APISpec

-----------------------------------------------------------------------------
(* What reads show.  *)

(* The commits a log may be made of: all of them, or one prompt's.  *)
LEMMA ChainOfPrompt ==
    ASSUME StoreInv, OwnInv, NEW u \in Uri, NEW K, K = Commits \/ K = Own(u), NEW c \in Nat
    PROVE  FirstParents(K)[c] = IF c = 0 THEN <<>> ELSE IF c \notin K THEN NotFound
                                ELSE <<c>> \o FirstParents(K)[table[c].parent]
<1>1. K \in SUBSET Nat /\ K \subseteq Commits
    BY DEF StoreInv, StoreType, Commits, Own
<1>2. ASSUME NEW k \in K PROVE table[k].parent \in 0 .. k - 1
    <2>1. OwnCommit(k) /\ k \in Nat /\ table[k] \in CommitRecord
        BY <1>1, Element DEF OwnInv, OwnTable, StoreInv, StoreType, Commits
    <2> QED BY <2>1 DEF OwnCommit, CommitRecord
<1> HIDE DEF Commits, Own
<1> QED BY <1>1, <1>2, FirstParentsEquation

LEMMA OwnParent ==
    ASSUME StoreInv, OwnInv, NEW u \in Uri, NEW c \in Own(u)
    PROVE  /\ c \in Nat /\ c # 0 /\ c \in Commits
           /\ table[c].parent \in Nat /\ table[c].parent < c /\ table[c].parent \in OwnOrNone(u)
<1>1. c \in Commits /\ table[c].uri = u /\ c \in Nat /\ c # 0
    BY DEF Own, Commits, StoreInv, StoreType
<1>2. OwnCommit(c) /\ table[c] \in CommitRecord
    BY <1>1, Element DEF OwnInv, OwnTable, StoreInv, StoreType, Commits
<1> QED BY <1>1, <1>2 DEF OwnCommit, CommitRecord

LEMMA ChainsAreOfThePrompt ==
    ASSUME StoreInv, OwnInv, NEW u \in Uri, NEW c \in OwnOrNone(u)
    PROVE  FirstParents(Commits)[c] = FirstParents(Own(u))[c]
<1> DEFINE F == FirstParents(Commits)
           G == FirstParents(Own(u))
           T == {k \in Nat : k \in OwnOrNone(u) => F[k] = G[k]}
<1>1. ASSUME NEW n \in Nat, \A m \in Nat : m < n => m \in T
      PROVE  n \in T
    <2> SUFFICES ASSUME n \in OwnOrNone(u) PROVE F[n] = G[n]
        OBVIOUS
    <2>1. /\ F[n] = IF n = 0 THEN <<>> ELSE IF n \notin Commits THEN NotFound
                     ELSE <<n>> \o F[table[n].parent]
          /\ G[n] = IF n = 0 THEN <<>> ELSE IF n \notin Own(u) THEN NotFound
                     ELSE <<n>> \o G[table[n].parent]
        BY ChainOfPrompt
    <2>2. CASE n # 0
        <3>1. n \in Own(u) /\ n \in Commits
            BY <2>2 DEF OwnOrNone, Own
        <3>2. F[table[n].parent] = G[table[n].parent]
            BY <3>1, <1>1, OwnParent
        <3> HIDE DEF F, G
        <3> QED BY <2>1, <2>2, <3>1, <3>2
    <2> HIDE DEF F, G
    <2> QED BY <2>1, <2>2
<1>2. c \in Nat
    BY DEF OwnOrNone, Own, Commits, StoreInv, StoreType
<1> HIDE DEF T
<1>3. Nat \subseteq T
    BY <1>1, InductBelow
<1> QED BY <1>2, <1>3 DEF T

LEMMA ChainsStayInThePrompt ==
    ASSUME StoreInv, OwnInv, NEW u \in Uri, NEW c \in OwnOrNone(u)
    PROVE  /\ FirstParents(Commits)[c] \in Seq(Own(u))
           /\ c # 0 => FirstParents(Commits)[c][1] = c
<1> DEFINE F == FirstParents(Commits)
           T == {k \in Nat : k \in OwnOrNone(u) => F[k] \in Seq(Own(u)) /\ (k # 0 => F[k][1] = k)}
<1>1. ASSUME NEW n \in Nat, \A m \in Nat : m < n => m \in T
      PROVE  n \in T
    <2> SUFFICES ASSUME n \in OwnOrNone(u)
                 PROVE  F[n] \in Seq(Own(u)) /\ (n # 0 => F[n][1] = n)
        OBVIOUS
    <2>1. F[n] = IF n = 0 THEN <<>> ELSE IF n \notin Commits THEN NotFound
                     ELSE <<n>> \o F[table[n].parent]
        BY ChainOfPrompt
    <2>2. CASE n # 0
        <3>1. n \in Own(u) /\ n \in Commits
            BY <2>2 DEF OwnOrNone, Own
        <3>2. F[table[n].parent] \in Seq(Own(u))
            BY <3>1, <1>1, OwnParent
        <3> HIDE DEF F
        <3>3. F[n] = <<n>> \o F[table[n].parent] /\ <<n>> \in Seq(Own(u))
            BY <2>1, <2>2, <3>1
        <3> HIDE DEF Own, Commits
        <3> QED BY <3>2, <3>3
    <2> HIDE DEF F
    <2> QED BY <2>1, <2>2
<1>2. c \in Nat
    BY DEF OwnOrNone, Own, Commits, StoreInv, StoreType
<1> HIDE DEF T
<1>3. Nat \subseteq T
    BY <1>1, InductBelow
<1> QED BY <1>2, <1>3 DEF T

(* server.go 344-346: what DiffCommits and History answer for a prompt is  *)
(* the same whatever commits other prompts have.                           *)
THEOREM AnswersKeptApart == APISpec => []AnswersAreOfThePrompt
<1>1. ASSUME Inv, OwnInv PROVE AnswersAreOfThePrompt
    <2> SUFFICES ASSUME NEW u \in Uri
                 PROVE  /\ \A c, d \in Commits : DiffCommits(u, c, d, Commits) = DiffCommits(u, c, d, Own(u))
                        /\ \A b \in Branch : History(u, b, Commits) = History(u, b, Own(u))
        BY DEF AnswersAreOfThePrompt
    <2>1. \A c : IsCommitOf(u, c, Commits) <=> IsCommitOf(u, c, Own(u))
        BY DEF IsCommitOf, Own
    <2>2. ASSUME NEW b \in Branch PROVE History(u, b, Commits) = History(u, b, Own(u))
        <3>1. refs[u][b] \in OwnOrNone(u)
            BY <1>1 DEF OwnInv, OwnRefs
        <3>2. FirstParents(Commits)[refs[u][b]] = FirstParents(Own(u))[refs[u][b]]
            BY <3>1, <1>1, ChainsAreOfThePrompt DEF Inv
        <3> QED BY <3>2 DEF History
    <2> QED BY <2>1, <2>2 DEF DiffCommits
<1> QED BY <1>1, OwnInvariance, PTL

(* A commit of the prompt reads as what it holds.  *)
LEMMA OwnIsRead ==
    ASSUME Inv, OwnInv, NEW u \in Uri, NEW ref, NEW c \in Own(u), Resolve(u, ref) = c
    PROVE  GetByRef(u, ref) = <<table[c].version, c>>
<1>1. c # 0 /\ OwnCommit(c)
    BY DEF Own, Commits, OwnInv, OwnTable, Inv, StoreInv, StoreType
<1> QED BY <1>1 DEF GetByRef, OwnCommit

(* server.go 186-198, 226-265 and 362-377: a log begins at the tip it is   *)
(* asked for, never leaves the prompt, however long it is, and is of       *)
(* commits that can be read; and HEAD, unless it came in as a bare line,   *)
(* is what main resolves to.                                               *)
THEOREM ReadsAgreeAlways == APISpec => []ReadsAgree
<1>1. ASSUME Inv, OwnInv PROVE ReadsAgree
    <2> SUFFICES ASSUME NEW u \in Uri
                 PROVE  /\ \A t \in ListBranches(u) :
                              LET log == History(u, t[1], Commits)
                              IN  /\ log[1] = t[2]
                                  /\ \A i \in 1 .. Len(log) :
                                        /\ log[i] \in ListCommits(u, Commits)
                                        /\ GetByRef(u, <<"commit", log[i]>>) = <<table[log[i]].version, log[i]>>
                        /\ LET main == GetByRef(u, <<"branch", "main">>)
                           IN  ~Bare(u) =>
                                 \A v \in Version :
                                   DiffPrompt(u, v) = IF main = NotFound THEN NotFound ELSE <<main[1], v>>
        BY DEF ReadsAgree
    <2>1. ASSUME NEW b \in Branch, refs[u][b] # 0
          PROVE  /\ History(u, b, Commits)[1] = refs[u][b]
                 /\ \A i \in 1 .. Len(History(u, b, Commits)) :
                        History(u, b, Commits)[i] \in ListCommits(u, Commits)
        <3>1. refs[u][b] \in OwnOrNone(u)
            BY <1>1 DEF OwnInv, OwnRefs
        <3>2. PICK log : log = FirstParents(Commits)[refs[u][b]]
            OBVIOUS
        <3>3. log \in Seq(Own(u)) /\ log[1] = refs[u][b]
            BY <3>1, <3>2, <2>1, <1>1, ChainsStayInThePrompt DEF Inv
        <3>4. History(u, b, Commits) = log
            BY <3>2, <2>1 DEF History
        <3>5. ListCommits(u, Commits) = Own(u)
            BY DEF ListCommits, Own
        <3> HIDE DEF Own, Commits
        <3> QED BY <3>3, <3>4, <3>5, Element
    <2>2. \A t \in ListBranches(u) :
              t[1] \in Branch /\ refs[u][t[1]] # 0 /\ t[2] = refs[u][t[1]]
        BY DEF ListBranches
    <2>3. ASSUME NEW c \in ListCommits(u, Commits)
          PROVE  GetByRef(u, <<"commit", c>>) = <<table[c].version, c>>
        <3>1. c \in Own(u)
            BY DEF ListCommits, Own
        <3>2. Resolve(u, <<"commit", c>>) = c
            BY <3>1 DEF Resolve
        <3> QED BY <3>1, <3>2, <1>1, OwnIsRead
    <2> DEFINE main == GetByRef(u, <<"branch", "main">>)
               c == refs[u]["main"]
    <2>4. \A v : DiffPrompt(u, v) = IF HeadOf(u) = NoPrompt THEN NotFound ELSE <<HeadOf(u), v>>
        BY DEF DiffPrompt, HeadOf, ServedRow
    <2>5. Fits(u) /\ Resolve(u, <<"branch", "main">>) = IF c \in Own(u) THEN c ELSE 0
        BY <1>1 DEF Inv, StoreInv, Resolve
    <2>6. CASE HeadOf(u) = NoPrompt
        <3>1. c = 0
            BY <2>5, <2>6 DEF Fits
        <3>2. main = NotFound
            BY <3>1, <2>5 DEF GetByRef
        <3> QED BY <2>1, <2>2, <2>3, <2>4, <2>6, <3>2
    <2>7. CASE HeadOf(u) # NoPrompt /\ ~Bare(u)
        <3>1. c # 0 /\ c \in OwnOrNone(u) /\ HeadOf(u) = table[c].version
            <4>1. ServedRow(u).commit # 0 /\ c = ServedRow(u).commit /\ HeadOf(u) = table[c].version
                BY <2>5, <2>7 DEF Fits, Bare, HeadOf, ServedRow
            <4> QED BY <4>1, <1>1, MainIsBranch DEF OwnInv, OwnRefs
        <3>2. c \in Own(u)
            BY <3>1 DEF OwnOrNone
        <3>3. main = <<HeadOf(u), c>>
            BY <3>1, <3>2, <2>5, <1>1, OwnIsRead
        <3> HIDE DEF main, c
        <3>4. main # NotFound /\ main[1] = HeadOf(u)
            <4>1. Len(main) = 2 /\ Len(NotFound) = 1
                BY <3>3 DEF NotFound
            <4> QED BY <3>3, <4>1
        <3> QED BY <2>1, <2>2, <2>3, <2>4, <2>7, <3>4 DEF main
    <2>8. CASE Bare(u)
        BY <2>1, <2>2, <2>3, <2>8
    <2> QED BY <2>6, <2>7, <2>8
<1> QED BY <1>1, OwnInvariance, PTL

-----------------------------------------------------------------------------
(* Whose the commits are.  *)

By(o) == {k \in Commits : table[k].author \in OnlyOf(o)}
ServedFor(o) == {c \in serving : ScopeOf[c] = o}

MayName(u, a) == a = "priompt" \/ \E c \in Writes : a = Signature(c) /\ ScopeOf[c] \in {"", OrgOf[u]}

AuthorInv == \A k \in Commits : MayName(table[k].uri, table[k].author)

(* What an org's names may still be signed with: the commits there are,    *)
(* and its calls whose handler runs, are no more than were let through.    *)
LedgerInv ==
    /\ serving \subseteq Call /\ IsFiniteSet(serving)
    /\ admitted \in [Org -> Nat]
    /\ \A o \in Org : Cardinality(By(o)) + Cardinality(ServedFor(o)) <= admitted[o]

AccountInv == AuthorInv /\ LedgerInv

LEMMA FiniteLedger ==
    ASSUME StoreInv, IsFiniteSet(serving), NEW o
    PROVE  /\ IsFiniteSet(By(o)) /\ Cardinality(By(o)) \in Nat
           /\ IsFiniteSet(ServedFor(o)) /\ Cardinality(ServedFor(o)) \in Nat
<1>1. IsFiniteSet(Commits)
    <2>1. Len(table) \in Nat /\ 1 \in Int
        BY DEF StoreInv, StoreType
    <2> QED BY <2>1, FS_Interval DEF Commits
<1>2. IsFiniteSet(By(o)) /\ IsFiniteSet(ServedFor(o))
    <2>1. By(o) \in SUBSET Commits /\ ServedFor(o) \in SUBSET serving
        BY DEF By, ServedFor
    <2> QED BY <2>1, <1>1, FS_Subset
<1> QED BY <1>2, FS_CardinalityType

(* What stands for one org alone is signed by its calls alone.  *)
LEMMA SignedByOwn ==
    ASSUME NEW x \in Call, NEW o \in Org, Signature(x) \in OnlyOf(o)
    PROVE  ScopeOf[x] = o
<1>1. ScopeOf[x] \in Org /\ Signature(x) \in Names(ScopeOf[x])
    BY LimiterAssumption DEF Names
<1> QED BY <1>1, Zenon DEF OnlyOf

(* What an operation on u on behalf of a adds to the table.  *)
Signs(u, a) ==
    /\ Len(table') = Len(table) + 1
    /\ \A c \in 1 .. Len(table) : table'[c] = table[c]
    /\ table'[Len(table) + 1].uri = u /\ table'[Len(table) + 1].author = a

LEMMA AddSigns ==
    ASSUME StoreInv, NEW u, NEW b, NEW v, NEW p, NEW p2, NEW a, Add(u, b, v, p, p2, a)
    PROVE  Signs(u, a)
<1> DEFINE r == [uri |-> u, version |-> v, parent |-> p, parent2 |-> p2, author |-> a]
<1>1. table \in Seq(CommitRecord) /\ table' = Append(table, r) /\ r.uri = u /\ r.author = a
    BY DEF Add, StoreInv, StoreType
<1> HIDE DEF r
<1>2. /\ Len(table') = Len(table) + 1 /\ table'[Len(table) + 1] = r
      /\ \A c \in 1 .. Len(table) : table'[c] = table[c]
    BY <1>1
<1> QED BY <1>1, <1>2 DEF Signs

LEMMA OperationSigns ==
    ASSUME StoreInv, NEW u, NEW a, Operation(u, a)
    PROVE  table' = table \/ Signs(u, a)
<1>1. ASSUME NEW b, NEW v, Commit(u, b, v, a) PROVE Signs(u, a)
    BY <1>1, AddSigns DEF Commit
<1>2. ASSUME NEW b, NEW f, Merge(u, b, f, a) PROVE Signs(u, a)
    BY <1>2, AddSigns DEF Merge
<1> QED BY <1>1, <1>2 DEF Operation, SetBranch, Fork

LEMMA SignsCounts ==
    ASSUME StoreInv, IsFiniteSet(serving), NEW u, NEW a, Signs(u, a), NEW o
    PROVE  Cardinality(By(o))' = IF a \in OnlyOf(o) THEN Cardinality(By(o)) + 1 ELSE Cardinality(By(o))
<1> DEFINE new == Len(table) + 1
<1>1. Len(table) \in Nat /\ Commits' = Commits \cup {new} /\ new \notin Commits
    BY DEF StoreInv, StoreType, Signs, Commits
<1>2. By(o)' = IF a \in OnlyOf(o) THEN By(o) \cup {new} ELSE By(o)
    BY <1>1 DEF By, Signs, Commits
<1>3. new \notin By(o) /\ IsFiniteSet(By(o))
    BY <1>1, FiniteLedger DEF By
<1>4. Cardinality(By(o) \cup {new}) = Cardinality(By(o)) + 1
    BY <1>3, FS_AddElement
<1> QED BY <1>2, <1>4

LEMMA SignsAuthor ==
    ASSUME StoreInv, AuthorInv, NEW u \in Uri, NEW a, MayName(u, a), Signs(u, a)
    PROVE  AuthorInv'
<1>1. /\ Len(table) \in Nat /\ Len(table') = Len(table) + 1
      /\ \A c \in 1 .. Len(table) : table'[c] = table[c]
      /\ table'[Len(table) + 1].uri = u /\ table'[Len(table) + 1].author = a
    <2>1. Len(table) \in Nat
        BY DEF StoreInv, StoreType
    <2> QED BY <2>1 DEF Signs
<1>2. ASSUME NEW c \in 1 .. Len(table') PROVE MayName(table'[c].uri, table'[c].author)
    <2>1. CASE c = Len(table) + 1
        BY <2>1, <1>1
    <2>2. CASE c \in 1 .. Len(table)
        BY <2>2, <1>1 DEF AuthorInv, Commits
    <2> QED BY <2>1, <2>2, <1>1
<1> QED BY <1>2 DEF AuthorInv, Commits, MayName

LEMMA ServedOne ==
    ASSUME LedgerInv, NEW x, NEW o
    PROVE  /\ serving' = serving \cup {x} =>
                  /\ IsFiniteSet(serving') /\ Cardinality(ServedFor(o))' \in Nat
                  /\ Cardinality(ServedFor(o))' <= Cardinality(ServedFor(o)) + (IF ScopeOf[x] = o THEN 1 ELSE 0)
           /\ serving' = serving \ {x} =>
                  /\ IsFiniteSet(serving') /\ Cardinality(ServedFor(o))' \in Nat
                  /\ Cardinality(ServedFor(o))' <= Cardinality(ServedFor(o))
                  /\ x \in serving /\ ScopeOf[x] = o =>
                        Cardinality(ServedFor(o))' = Cardinality(ServedFor(o)) - 1
<1>1. IsFiniteSet(serving) /\ IsFiniteSet(ServedFor(o)) /\ Cardinality(ServedFor(o)) \in Nat
    <2>1. ServedFor(o) \in SUBSET serving /\ IsFiniteSet(serving)
        BY DEF ServedFor, LedgerInv
    <2> QED BY <2>1, FS_Subset, FS_CardinalityType
<1>2. ASSUME serving' = serving \cup {x}
      PROVE  /\ IsFiniteSet(serving') /\ Cardinality(ServedFor(o))' \in Nat
             /\ Cardinality(ServedFor(o))' <= Cardinality(ServedFor(o)) + (IF ScopeOf[x] = o THEN 1 ELSE 0)
    <2>1. ServedFor(o)' = IF ScopeOf[x] = o THEN ServedFor(o) \cup {x} ELSE ServedFor(o)
        BY <1>2 DEF ServedFor
    <2>2. Cardinality(ServedFor(o) \cup {x}) <= Cardinality(ServedFor(o)) + 1
              /\ Cardinality(ServedFor(o) \cup {x}) \in Nat
        <3>1. Cardinality(ServedFor(o) \cup {x}) =
                  IF x \in ServedFor(o) THEN Cardinality(ServedFor(o)) ELSE Cardinality(ServedFor(o)) + 1
            BY <1>1, FS_AddElement
        <3> QED BY <3>1, <1>1
    <2>3. IsFiniteSet(serving')
        BY <1>1, <1>2, FS_AddElement
    <2> QED BY <2>1, <2>2, <2>3, <1>1
<1>3. ASSUME serving' = serving \ {x}
      PROVE  /\ IsFiniteSet(serving') /\ Cardinality(ServedFor(o))' \in Nat
             /\ Cardinality(ServedFor(o))' <= Cardinality(ServedFor(o))
             /\ x \in serving /\ ScopeOf[x] = o =>
                    Cardinality(ServedFor(o))' = Cardinality(ServedFor(o)) - 1
    <2>1. ServedFor(o)' = ServedFor(o) \ {x}
        BY <1>3 DEF ServedFor
    <2>2. Cardinality(ServedFor(o) \ {x}) =
              IF x \in ServedFor(o) THEN Cardinality(ServedFor(o)) - 1 ELSE Cardinality(ServedFor(o))
        BY <1>1, FS_RemoveElement
    <2>3. IsFiniteSet(serving')
        BY <1>1, <1>3, FS_RemoveElement
    <2>4. x \in serving /\ ScopeOf[x] = o => x \in ServedFor(o)
        BY DEF ServedFor
    <2>5. Cardinality(ServedFor(o) \ {x}) \in Nat
        BY <1>1, FS_RemoveElement, FS_CardinalityType
    <2> QED BY <2>1, <2>2, <2>3, <2>4, <2>5, <1>1
<1> QED BY <1>2, <1>3

LEMMA InitAccount == APIInit => AccountInv
<1> SUFFICES ASSUME APIInit PROVE AccountInv
    OBVIOUS
<1>1. table = <<>> /\ serving = {} /\ admitted = [o \in Org |-> 0] /\ Commits = {}
    BY DEF APIInit, CatalogInit, LimiterInit, Commits
<1>2. \A o : By(o) = {} /\ ServedFor(o) = {}
    BY <1>1 DEF By, ServedFor
<1>3. admitted \in [Org -> Nat] /\ \A o \in Org : admitted[o] = 0
    BY <1>1
<1>4. ASSUME NEW o \in Org PROVE Cardinality(By(o)) + Cardinality(ServedFor(o)) <= admitted[o]
    <2>1. Cardinality(By(o)) = 0 /\ Cardinality(ServedFor(o)) = 0
        BY <1>2, FS_EmptySet
    <2> QED BY <2>1, <1>3
<1>5. serving \subseteq Call /\ IsFiniteSet(serving)
    BY <1>1, FS_EmptySet
<1>6. LedgerInv
    BY <1>3, <1>4, <1>5 DEF LedgerInv
<1> QED BY <1>1, <1>6 DEF AccountInv, AuthorInv

LEMMA StepAccount ==
    ASSUME Inv, AccountInv, [APINext]_apiVars
    PROVE  AccountInv'
<1>0. /\ StoreInv /\ LedgerInv /\ AuthorInv /\ IsFiniteSet(serving) /\ serving \subseteq Call
      /\ admitted \in [Org -> Nat]
    BY DEF Inv, AccountInv, LedgerInv
<1>a. \A o : Cardinality(By(o)) \in Nat /\ Cardinality(ServedFor(o)) \in Nat
    BY <1>0, FiniteLedger
<1>b. \A o \in Org : Cardinality(By(o)) + Cardinality(ServedFor(o)) <= admitted[o] /\ admitted[o] \in Nat
    BY <1>0 DEF LedgerInv
<1>1. ASSUME table' = table, serving' = serving, admitted' = admitted PROVE AccountInv'
    BY <1>0, <1>1 DEF AccountInv, AuthorInv, MayName, LedgerInv, By, ServedFor, Commits
<1>2. ASSUME NEW x \in Call, Enters(x) PROVE AccountInv'
    <2>1. /\ table' = table /\ serving' = serving \cup {x}
          /\ admitted' = [admitted EXCEPT ![ScopeOf[x]] = @ + 1] /\ ScopeOf[x] \in Org
        BY <1>2, LimiterAssumption DEF Enters, Admit, catalogVars, storeVars
    <2>2. admitted' \in [Org -> Nat] /\ \A o \in Org :
              admitted'[o] = IF ScopeOf[x] = o THEN admitted[o] + 1 ELSE admitted[o]
        BY <2>1, <1>0
    <2>3. ASSUME NEW o \in Org
          PROVE  (Cardinality(By(o)) + Cardinality(ServedFor(o)))' <= admitted'[o]
        <3>1. By(o)' = By(o)
            BY <2>1 DEF By, Commits
        <3>2. Cardinality(ServedFor(o))' <= Cardinality(ServedFor(o)) + (IF ScopeOf[x] = o THEN 1 ELSE 0)
              /\ Cardinality(ServedFor(o))' \in Nat
            BY <2>1, <1>0, ServedOne
        <3> QED BY <3>1, <3>2, <2>2, <1>a, <1>b
    <2>4. IsFiniteSet(serving') /\ serving' \subseteq Call
        BY <2>1, <1>0, ServedOne
    <2>5. AuthorInv'
        BY <2>1, <1>0 DEF AuthorInv, MayName, Commits
    <2> QED BY <2>2, <2>3, <2>4, <2>5 DEF AccountInv, LedgerInv
<1>3. ASSUME NEW x \in Call, Handles(x) PROVE AccountInv'
    <2>1. serving' = serving \ {x} /\ x \in serving /\ admitted' = admitted
        BY <1>3 DEF Handles, limiterVars
    <2>2. IsFiniteSet(serving') /\ serving' \subseteq Call
        BY <2>1, <1>0, ServedOne
    <2>3. CASE table' = table
        <3>1. ASSUME NEW o \in Org
              PROVE  (Cardinality(By(o)) + Cardinality(ServedFor(o)))' <= admitted'[o]
            <4>1. By(o)' = By(o)
                BY <2>3 DEF By, Commits
            <4>2. Cardinality(ServedFor(o))' <= Cardinality(ServedFor(o)) /\ Cardinality(ServedFor(o))' \in Nat
                BY <2>1, <1>0, ServedOne
            <4> QED BY <4>1, <4>2, <2>1, <1>a, <1>b
        <3>2. AuthorInv'
            BY <2>3, <1>0 DEF AuthorInv, MayName, Commits
        <3> QED BY <3>1, <3>2, <2>1, <2>2, <1>0 DEF AccountInv, LedgerInv
    <2>4. CASE table' # table
        <3>1. PICK u \in Uri : x \in Writes /\ Authorize(x, u) /\ Write(u, Signature(x))
            BY <1>3, <2>4 DEF Handles, RequireWrite, catalogVars, storeVars
        <3>2. PICK s : s = Signature(x)
            OBVIOUS
        <3>3. Signs(u, s)
            BY <3>1, <3>2, <2>4, <1>0, OperationSigns DEF Write
        <3>4. MayName(u, s)
            BY <3>1, <3>2 DEF Authorize, MayName
        <3>5. AuthorInv'
            BY <3>3, <3>4, <1>0, SignsAuthor
        <3>6. ASSUME NEW o \in Org
              PROVE  (Cardinality(By(o)) + Cardinality(ServedFor(o)))' <= admitted'[o]
            <4>1. Cardinality(By(o))' = IF s \in OnlyOf(o) THEN Cardinality(By(o)) + 1 ELSE Cardinality(By(o))
                BY <3>3, <1>0, SignsCounts
            <4>2. /\ Cardinality(ServedFor(o))' <= Cardinality(ServedFor(o)) /\ Cardinality(ServedFor(o))' \in Nat
                  /\ ScopeOf[x] = o => Cardinality(ServedFor(o))' = Cardinality(ServedFor(o)) - 1
                BY <2>1, <1>0, ServedOne
            <4>3. s \in OnlyOf(o) => ScopeOf[x] = o
                BY <3>2, SignedByOwn
            <4> QED BY <4>1, <4>2, <4>3, <2>1, <1>a, <1>b
        <3> QED BY <3>5, <3>6, <2>1, <2>2, <1>0 DEF AccountInv, LedgerInv
    <2> QED BY <2>3, <2>4
<1>4. ASSUME ImportCommits, UNCHANGED <<limiterVars, serving>> PROVE AccountInv'
    <2>1. at = "commit" /\ next \in 1 .. Len(file)
        BY <1>4 DEF ImportCommits, Inv, ImportType
    <2>2. PICK u \in Uri : u = Entry.uri
        BY <2>1, EntryType DEF Inv, Entry
    <2>3. Signs(u, "priompt")
        BY <1>4, <2>2, <1>0, AddSigns DEF ImportCommits
    <2>4. AuthorInv'
        <3>1. MayName(u, "priompt")
            BY DEF MayName
        <3> QED BY <3>1, <2>3, <1>0, SignsAuthor
    <2>5. serving' = serving /\ admitted' = admitted
        BY <1>4 DEF limiterVars
    <2>6. ASSUME NEW o \in Org
          PROVE  (Cardinality(By(o)) + Cardinality(ServedFor(o)))' <= admitted'[o]
        <3>1. "priompt" \notin OnlyOf(o)
            BY DEF OnlyOf
        <3>2. Cardinality(By(o))' = Cardinality(By(o))
            BY <3>1, <2>3, <1>0, SignsCounts
        <3>3. ServedFor(o)' = ServedFor(o)
            BY <2>5 DEF ServedFor
        <3> QED BY <3>2, <3>3, <2>5, <1>b
    <2> QED BY <2>4, <2>5, <2>6, <1>0 DEF AccountInv, LedgerInv
<1>5. ASSUME Import, ~ImportCommits, UNCHANGED <<limiterVars, serving>> PROVE AccountInv'
    BY <1>5, <1>1 DEF Import, ImportStarts, ImportResolves, ImportStops, ImportEnds, storeVars, limiterVars
<1>6. ASSUME NEW x \in Call, Arrives(x) \/ Rejected(x) PROVE AccountInv'
    BY <1>6, <1>1 DEF Arrives, Rejected, FindLimiter, Refuse, catalogVars, storeVars
<1>7. ASSUME Tick, UNCHANGED <<catalogVars, serving>> PROVE AccountInv'
    BY <1>7, <1>1 DEF Tick, catalogVars, storeVars
<1>8. ASSUME NEW l \in Loaded, RestoreLine(l), UNCHANGED <<limiterVars, serving>> PROVE AccountInv'
    BY <1>8, <1>1 DEF RestoreLine, LoadRow, limiterVars
<1>9. ASSUME UNCHANGED apiVars PROVE AccountInv'
    BY <1>9, <1>1 DEF apiVars, catalogVars, storeVars, limiterVars
<1> QED BY <1>2, <1>3, <1>4, <1>5, <1>6, <1>7, <1>8, <1>9 DEF APINext

(* auth.go 48-58: a commit names the command line or a credential that may *)
(* write its prompt, and the names that stand for one org alone are on no  *)
(* more commits than the rate limiter let calls of that org through,       *)
(* whatever subjects the credentials have.                                 *)
THEOREM EveryCommitIsAccountedFor == APISpec => []CommitsAreAccountedFor
<1>1. APIInit => Inv /\ AccountInv
    BY InitInv, InitAccount DEF APIInit
<1>2. Inv /\ AccountInv /\ [APINext]_apiVars => Inv' /\ AccountInv'
    BY StepInv, StepAccount
<1>3. ASSUME Inv, AccountInv PROVE CommitsAreAccountedFor
    <2>1. ASSUME NEW o \in Org PROVE Cardinality(By(o)) <= admitted[o]
        <3>1. Cardinality(By(o)) + Cardinality(ServedFor(o)) <= admitted[o] /\ admitted[o] \in Nat
            BY <1>3 DEF AccountInv, LedgerInv
        <3>2. /\ Cardinality(By(o)) \in Nat /\ Cardinality(ServedFor(o)) \in Nat
            BY <1>3, FiniteLedger DEF Inv, AccountInv, LedgerInv
        <3> QED BY <3>1, <3>2
    <2> QED BY <2>1, <1>3 DEF CommitsAreAccountedFor, AccountInv, AuthorInv, MayName, By
<1> QED BY <1>1, <1>2, <1>3, PTL DEF APISpec

-----------------------------------------------------------------------------
(* The numbers the members of a finite set of numbers have in it.  *)

UpTo(S, c) == {k \in S : k <= c}
Rank(S, c) == Cardinality(UpTo(S, c))
Nth(S, i) == CHOOSE k \in S : Rank(S, k) = i

LEMMA MembersType ==
    ASSUME NEW n \in Nat, NEW S \in SUBSET (1 .. n)
    PROVE  /\ IsFiniteSet(S) /\ Cardinality(S) \in Nat
           /\ \A k \in S : k \in Nat /\ k >= 1 /\ k <= n
<1>1. IsFiniteSet(1 .. n)
    BY FS_Interval
<1>2. IsFiniteSet(S) /\ Cardinality(S) \in Nat
    BY <1>1, FS_Subset, FS_CardinalityType
<1>3. \A k \in S : k \in 1 .. n
    OBVIOUS
<1> QED BY <1>2, <1>3

LEMMA RankType ==
    ASSUME NEW n \in Nat, NEW S \in SUBSET (1 .. n), NEW c \in Nat
    PROVE  /\ IsFiniteSet(S) /\ Cardinality(S) \in Nat
           /\ IsFiniteSet(UpTo(S, c)) /\ Rank(S, c) \in 0 .. Cardinality(S)
           /\ c \in S => Rank(S, c) \in 1 .. Cardinality(S)
           /\ c = 0 => Rank(S, c) = 0
<1>2. /\ IsFiniteSet(S) /\ Cardinality(S) \in Nat
      /\ \A k \in S : k \in Nat /\ k >= 1 /\ k <= n
    BY MembersType
<1>3. UpTo(S, c) \in SUBSET S
    BY DEF UpTo
<1>4. IsFiniteSet(UpTo(S, c)) /\ Rank(S, c) <= Cardinality(S) /\ Rank(S, c) \in Nat
    BY <1>2, <1>3, FS_Subset, FS_CardinalityType DEF Rank
<1>5. ASSUME c \in S PROVE Rank(S, c) # 0
    <2>1. c \in UpTo(S, c)
        BY <1>5 DEF UpTo
    <2>2. UpTo(S, c) # {}
        BY <2>1
    <2> QED BY <2>2, <1>4, FS_EmptySet DEF Rank
<1>6. ASSUME c = 0 PROVE Rank(S, c) = 0
    <2>1. \A k \in S : ~(k <= c)
        BY <1>2, <1>6
    <2>2. UpTo(S, c) = {}
        BY <2>1 DEF UpTo
    <2> QED BY <2>2, FS_EmptySet DEF Rank
<1> QED BY <1>2, <1>4, <1>5, <1>6

LEMMA RankGrows ==
    ASSUME NEW n \in Nat, NEW S \in SUBSET (1 .. n), NEW c \in S, NEW d \in S, c < d
    PROVE  Rank(S, c) < Rank(S, d)
<1>1. /\ IsFiniteSet(UpTo(S, c)) /\ IsFiniteSet(UpTo(S, d)) /\ c \in Nat /\ d \in Nat
      /\ Rank(S, c) \in Nat /\ Rank(S, d) \in Nat /\ \A k \in S : k \in Nat
    <2>1. c \in Nat /\ d \in Nat /\ \A k \in S : k \in Nat
        BY MembersType
    <2>2. IsFiniteSet(UpTo(S, c)) /\ Rank(S, c) \in 0 .. Cardinality(S)
        BY <2>1, RankType
    <2>3. IsFiniteSet(UpTo(S, d)) /\ Rank(S, d) \in 0 .. Cardinality(S)
        BY <2>1, RankType
    <2> QED BY <2>1, <2>2, <2>3
<1>2. UpTo(S, c) \cup {d} \in SUBSET UpTo(S, d) /\ d \notin UpTo(S, c)
    <2>1. \A k \in S : k <= c => k <= d
        BY <1>1
    <2>2. d <= d /\ ~(d <= c)
        BY <1>1
    <2> QED BY <2>1, <2>2 DEF UpTo
<1>3. Cardinality(UpTo(S, c) \cup {d}) = Rank(S, c) + 1
    BY <1>1, <1>2, FS_AddElement DEF Rank
<1>4. Cardinality(UpTo(S, c) \cup {d}) <= Rank(S, d)
    BY <1>1, <1>2, FS_Subset DEF Rank
<1> QED BY <1>1, <1>3, <1>4

LEMMA NthOfRank ==
    ASSUME NEW n \in Nat, NEW S \in SUBSET (1 .. n), NEW c \in S
    PROVE  Nth(S, Rank(S, c)) = c
<1>1. ASSUME NEW d \in S, Rank(S, d) = Rank(S, c) PROVE d = c
    <2>1. c \in Nat /\ d \in Nat
        BY MembersType
    <2>2. Rank(S, c) \in 0 .. Cardinality(S) /\ Cardinality(S) \in Nat
        BY <2>1, RankType, MembersType
    <2>3. ~(c < d) /\ ~(d < c)
        BY <1>1, <2>2, RankGrows
    <2> QED BY <2>1, <2>3
<1> QED BY <1>1 DEF Nth

LEMMA RankOfNth ==
    ASSUME NEW n \in Nat, NEW S \in SUBSET (1 .. n), NEW i \in 1 .. Cardinality(S)
    PROVE  Nth(S, i) \in S /\ Rank(S, Nth(S, i)) = i
<1> DEFINE f == [c \in S |-> Rank(S, c)]
           m == Cardinality(S)
<1>1. IsFiniteSet(S) /\ m \in Nat /\ \A k \in S : k \in Nat
    BY MembersType
<1>2. f \in [S -> 1 .. m]
    <2>1. \A c \in S : Rank(S, c) \in 1 .. m
        BY <1>1, RankType
    <2> QED BY <2>1
<1>3. ASSUME NEW c \in S, NEW d \in S, f[c] = f[d] PROVE c = d
    <2>1. Nth(S, Rank(S, c)) = c /\ Nth(S, Rank(S, d)) = d
        BY NthOfRank
    <2> QED BY <2>1, <1>3
<1>4. IsFiniteSet(1 .. m) /\ Cardinality(1 .. m) = m
    BY <1>1, FS_Interval
<1> HIDE DEF f
<1>5. f \in Injection(S, 1 .. m)
    BY <1>2, <1>3 DEF Injection, IsInjective
<1>6. f \in Surjection(S, 1 .. m)
    BY <1>1, <1>4, <1>5, FS_Injection
<1>7. PICK c \in S : f[c] = i
    BY <1>6 DEF Surjection
<1>8. Rank(S, c) = i
    BY <1>7 DEF f
<1> QED BY <1>8 DEF Nth

(* A new member above all others changes no number.  *)
LEMMA RankOfNew ==
    ASSUME NEW n \in Nat, NEW S \in SUBSET (1 .. n), NEW T, T = S \cup {n + 1}
    PROVE  /\ T \in SUBSET (1 .. n + 1) /\ Cardinality(T) = Cardinality(S) + 1
           /\ \A c \in 0 .. n : Rank(T, c) = Rank(S, c)
           /\ Rank(T, n + 1) = Cardinality(S) + 1
           /\ \A i \in 1 .. Cardinality(S) : Nth(T, i) = Nth(S, i)
           /\ Nth(T, Cardinality(S) + 1) = n + 1
<1>1. /\ IsFiniteSet(S) /\ Cardinality(S) \in Nat /\ n + 1 \notin S
      /\ \A k \in S : k \in Nat /\ k >= 1 /\ k <= n
    BY MembersType
<1>2. T \in SUBSET (1 .. n + 1) /\ Cardinality(T) = Cardinality(S) + 1
    <2>1. Cardinality(T) = IF n + 1 \in S THEN Cardinality(S) ELSE Cardinality(S) + 1
        BY <1>1, FS_AddElement
    <2> QED BY <2>1, <1>1
<1>3. ASSUME NEW c \in 0 .. n PROVE Rank(T, c) = Rank(S, c)
    <2>1. UpTo(T, c) = UpTo(S, c)
        BY DEF UpTo
    <2> QED BY <2>1 DEF Rank
<1>4. Rank(T, n + 1) = Cardinality(S) + 1
    <2>1. \A k \in T : k <= n + 1
        BY <1>1
    <2>2. UpTo(T, n + 1) = T
        BY <2>1 DEF UpTo
    <2> QED BY <2>2, <1>2 DEF Rank
<1>5. n + 1 \in Nat /\ n + 1 \in T /\ S \subseteq T
    OBVIOUS
<1>6. Nth(T, Cardinality(S) + 1) = n + 1
    <2>1. Nth(T, Rank(T, n + 1)) = n + 1
        BY <1>2, <1>5, NthOfRank
    <2> QED BY <2>1, <1>4
<1>7. ASSUME NEW i \in 1 .. Cardinality(S) PROVE Nth(T, i) = Nth(S, i)
    <2>1. PICK c : c = Nth(S, i)
        OBVIOUS
    <2>2. c \in S /\ Rank(S, c) = i
        BY <2>1, RankOfNth
    <2>3. Rank(T, c) = i /\ c \in T
        BY <2>2, <1>1, <1>3
    <2>4. Nth(T, Rank(T, c)) = c
        <3>1. PICK m \in Nat : m = n + 1
            BY <1>5
        <3>2. T \in SUBSET (1 .. m) /\ c \in T
            BY <3>1, <2>3, <1>2
        <3> QED BY <3>2, NthOfRank
    <2> QED BY <2>1, <2>3, <2>4
<1> QED BY <1>2, <1>3, <1>4, <1>6, <1>7

LEMMA AppendIs ==
    ASSUME NEW n \in Nat, NEW s, s = [i \in 1 .. n |-> s[i]], NEW new
    PROVE  Append(s, new) = [i \in 1 .. n + 1 |-> IF i = n + 1 THEN new ELSE s[i]] /\ Len(s) = n
<1> DEFINE S == {s[i] : i \in 1 .. n} \cup {new}
<1>1. s \in [1 .. n -> S]
    OBVIOUS
<1>2. s \in Seq(S) /\ new \in S
    BY <1>1 DEF Seq
<1> HIDE DEF S
<1>3. Len(s) = n
    BY <1>1, <1>2
<1>4. Append(s, new) \in Seq(S) /\ Len(Append(s, new)) = n + 1
      /\ \A i \in 1 .. n + 1 : Append(s, new)[i] = IF i = n + 1 THEN new ELSE s[i]
    BY <1>2, <1>3
<1>5. Append(s, new) = [i \in 1 .. n + 1 |-> Append(s, new)[i]]
    BY <1>4
<1> QED BY <1>3, <1>4, <1>5

-----------------------------------------------------------------------------
(* Each prompt as H sees it.  *)

RefsOf(u) == [b \in Branch |-> Local(u, refs[u][b])]
RowsOf(u) == [i \in 1 .. Len(rows[u]) |->
                [version |-> rows[u][i].version, commit |-> Local(u, rows[u][i].commit)]]

Alone(S, r) == [version |-> r.version, parent |-> Rank(S, r.parent), parent2 |-> Rank(S, r.parent2)]

Stays(u) == CommitsOf(u)' = CommitsOf(u) /\ RefsOf(u)' = RefsOf(u) /\ RowsOf(u)' = RowsOf(u)

Moves(u, b, c) ==
    /\ RefsOf(u)' = [RefsOf(u) EXCEPT ![b] = c]
    /\ RowsOf(u)' = IF b = "main"
                      THEN Append(RowsOf(u), [version |-> CommitsOf(u)'[c].version, commit |-> c])
                      ELSE RowsOf(u)

LEMMA OwnType ==
    ASSUME StoreInv, OwnInv, NEW u \in Uri
    PROVE  /\ Len(table) \in Nat /\ Own(u) \in SUBSET (1 .. Len(table))
           /\ \A b \in Branch : refs[u][b] \in 0 .. Len(table)
           /\ \A i \in 1 .. Len(rows[u]) : rows[u][i].commit \in 0 .. Len(table)
           /\ \A c \in Own(u) : /\ c \in 1 .. Len(table) /\ table[c] \in CommitRecord
                                /\ table[c].parent \in 0 .. Len(table)
                                /\ table[c].parent2 \in 0 .. Len(table)
<1>1. Len(table) \in Nat /\ Own(u) \in SUBSET (1 .. Len(table)) /\ OwnOrNone(u) \subseteq 0 .. Len(table)
    BY DEF StoreInv, StoreType, Own, OwnOrNone, Commits
<1>2. ASSUME NEW c \in Own(u)
      PROVE  /\ c \in 1 .. Len(table) /\ table[c] \in CommitRecord
             /\ table[c].parent \in 0 .. Len(table)
             /\ table[c].parent2 \in 0 .. Len(table)
    <2>1. c \in 1 .. Len(table) /\ table[c].uri = u
        BY DEF Own, Commits
    <2>2. table[c] \in CommitRecord /\ OwnCommit(c)
        BY <2>1, Element DEF StoreInv, StoreType, OwnInv, OwnTable, Commits
    <2> QED BY <2>1, <2>2, <1>1 DEF OwnCommit
<1>3. /\ \A b \in Branch : refs[u][b] \in 0 .. Len(table)
      /\ \A i \in 1 .. Len(rows[u]) : rows[u][i].commit \in 0 .. Len(table)
    BY <1>1 DEF OwnInv, OwnRefs
<1> QED BY <1>1, <1>2, <1>3

LEMMA LocalIs == ASSUME NEW u, NEW c PROVE Local(u, c) = Rank(Own(u), c)
BY DEF Local, Rank, UpTo

LEMMA CommitsOfIs ==
    ASSUME NEW u
    PROVE  CommitsOf(u) = [i \in 1 .. Cardinality(Own(u)) |-> Alone(Own(u), table[Nth(Own(u), i)])]
BY DEF CommitsOf, Local, Alone, Nth, Rank, UpTo

(* What does not touch a prompt's commits, branches and row leaves it be.  *)
LEMMA OtherStays ==
    ASSUME StoreInv, OwnInv, Grows, NEW w \in Uri,
           Own(w)' = Own(w), refs'[w] = refs[w], rows'[w] = rows[w]
    PROVE  Stays(w)
<1>1. /\ RefsOf(w)' = RefsOf(w) /\ RowsOf(w)' = RowsOf(w)
    BY DEF RefsOf, RowsOf, Local
<1>2. ASSUME NEW i \in 1 .. Cardinality(Own(w))
      PROVE  table'[Nth(Own(w), i)] = table[Nth(Own(w), i)]
    <2>1. Nth(Own(w), i) \in Own(w)
        BY OwnType, RankOfNth
    <2>2. Nth(Own(w), i) \in 1 .. Len(table)
        BY <2>1, OwnType
    <2> QED BY <2>2 DEF Grows
<1>3. CommitsOf(w)' = [i \in 1 .. Cardinality(Own(w)) |-> Alone(Own(w), table'[Nth(Own(w), i)])]
    <2>1. CommitsOf(w)' = [i \in 1 .. Cardinality(Own(w)') |-> Alone(Own(w)', table'[Nth(Own(w)', i)])]
        BY DEF CommitsOf, Local, Alone, Nth, Rank, UpTo
    <2> QED BY <2>1
<1>4. CommitsOf(w)' = CommitsOf(w)
    BY <1>2, <1>3, CommitsOfIs
<1> QED BY <1>1, <1>4 DEF Stays

(* A branch of u moves to the commit that is its k-th.  *)
LEMMA BranchMoves ==
    ASSUME StoreInv, OwnInv, NEW u \in Uri, NEW b \in Branch, NEW c \in Nat, PointTo(u, b, c),
           \A d \in 0 .. Len(table) : Rank(Own(u)', d) = Rank(Own(u), d),
           NEW k, k = Rank(Own(u)', c), CommitsOf(u)'[k].version = table'[c].version
    PROVE  Moves(u, b, k)
<1> DEFINE row == [version |-> table'[c].version, commit |-> c]
<1>1. /\ \A x \in Branch : refs'[u][x] = IF x = b THEN c ELSE refs[u][x]
      /\ rows'[u] = IF b = "main" THEN Append(rows[u], row) ELSE rows[u]
      /\ rows[u] \in Seq(Row)
    BY DEF PointTo, StoreInv, StoreType
<1>2. RefsOf(u)' = [x \in Branch |-> Rank(Own(u)', refs'[u][x])]
    BY DEF RefsOf, Local, Rank, UpTo
<1>3. RefsOf(u) = [x \in Branch |-> Rank(Own(u), refs[u][x])]
    BY DEF RefsOf, Local, Rank, UpTo
<1>4. ASSUME NEW x \in Branch, x # b PROVE Rank(Own(u)', refs'[u][x]) = Rank(Own(u), refs[u][x])
    BY <1>1, <1>4, OwnType
<1>5. RefsOf(u)' = [RefsOf(u) EXCEPT ![b] = k]
    BY <1>1, <1>2, <1>3, <1>4
<1>6. RowsOf(u)' = [i \in 1 .. Len(rows'[u]) |->
                      [version |-> rows'[u][i].version, commit |-> Rank(Own(u)', rows'[u][i].commit)]]
    BY DEF RowsOf, Local, Rank, UpTo
<1>7. RowsOf(u) = [i \in 1 .. Len(rows[u]) |->
                      [version |-> rows[u][i].version, commit |-> Rank(Own(u), rows[u][i].commit)]]
    BY DEF RowsOf, Local, Rank, UpTo
<1>8. \A i \in 1 .. Len(rows[u]) : Rank(Own(u)', rows[u][i].commit) = Rank(Own(u), rows[u][i].commit)
    BY OwnType
<1>9. CASE b # "main"
    <2>1. RowsOf(u)' = RowsOf(u)
        BY <1>1, <1>6, <1>7, <1>8, <1>9
    <2> QED BY <2>1, <1>5, <1>9 DEF Moves
<1>10. CASE b = "main"
    <2> DEFINE n == Len(rows[u])
               new == [version |-> table'[c].version, commit |-> k]
    <2>1. n \in Nat /\ Len(rows'[u]) = n + 1 /\ rows'[u][n + 1] = row
          /\ \A i \in 1 .. n : rows'[u][i] = rows[u][i]
        <3> HIDE DEF row
        <3> QED BY <1>1, <1>10
    <2>2. RowsOf(u)' = [i \in 1 .. n + 1 |-> IF i = n + 1 THEN new ELSE RowsOf(u)[i]]
        <3>1. ASSUME NEW i \in 1 .. n + 1
              PROVE  [version |-> rows'[u][i].version, commit |-> Rank(Own(u)', rows'[u][i].commit)]
                       = IF i = n + 1 THEN new ELSE RowsOf(u)[i]
            <4>1. CASE i = n + 1
                BY <4>1, <2>1
            <4>2. CASE i # n + 1
                <5>1. i \in 1 .. n
                    BY <4>2, <2>1
                <5> QED BY <4>2, <5>1, <2>1, <1>7, <1>8
            <4> QED BY <4>1, <4>2
        <3> HIDE DEF n, new
        <3> QED BY <3>1, <2>1, <1>6
    <2>3. RowsOf(u)' = Append(RowsOf(u), new)
        <3>1. RowsOf(u) = [i \in 1 .. n |-> RowsOf(u)[i]]
            BY <1>7
        <3> HIDE DEF n, new
        <3> QED BY <2>1, <2>2, <3>1, AppendIs
    <2> QED BY <2>3, <1>5, <1>10 DEF Moves
<1> QED BY <1>9, <1>10

LEMMA AddMoves ==
    ASSUME StoreInv, OwnInv, NEW u \in Uri, NEW b \in Branch, NEW v \in Version,
           NEW p \in OwnOrNone(u), NEW p2 \in OwnOrNone(u), NEW a \in Author,
           Add(u, b, v, p, p2, a)
    PROVE  /\ CommitsOf(u)' = Append(CommitsOf(u), [version |-> v, parent |-> Local(u, p),
                                                    parent2 |-> Local(u, p2)])
           /\ Moves(u, b, Len(CommitsOf(u)) + 1)
           /\ \A w \in Uri \ {u} : Stays(w)
<1> DEFINE n == Len(table)
           m == Cardinality(Own(u))
           r == [uri |-> u, version |-> v, parent |-> p, parent2 |-> p2, author |-> a]
           new == [version |-> v, parent |-> Local(u, p), parent2 |-> Local(u, p2)]
<1>1. /\ n \in Nat /\ Own(u) \in SUBSET (1 .. n) /\ m \in Nat
      /\ p \in 0 .. n /\ p2 \in 0 .. n
    <2>1. n \in Nat /\ Own(u) \in SUBSET (1 .. n)
        BY OwnType
    <2> QED BY <2>1, MembersType DEF OwnOrNone
<1>2. /\ StoreInv' /\ Grows /\ Len(table') = n + 1 /\ table'[n + 1] = r
    BY <1>1, AddKeeps
<1>3. PointTo(u, b, n + 1)
    BY DEF Add
<1>4. /\ Own(u)' = Own(u) \cup {n + 1}
      /\ \A w \in Uri \ {u} : Own(w)' = Own(w)
    <2>1. r.uri = u
        OBVIOUS
    <2> HIDE DEF r
    <2>2. Commits' = Commits \cup {n + 1} /\ \A c \in Commits : table'[c] = table[c]
        BY <1>1, <1>2 DEF Commits, Grows
    <2> QED BY <1>2, <2>1, <2>2 DEF Own
<1>5. /\ Cardinality(Own(u)') = m + 1
      /\ \A c \in 0 .. n : Rank(Own(u)', c) = Rank(Own(u), c)
      /\ Rank(Own(u)', n + 1) = m + 1
      /\ \A i \in 1 .. m : Nth(Own(u)', i) = Nth(Own(u), i)
      /\ Nth(Own(u)', m + 1) = n + 1
    <2>0. PICK k \in Nat : k = n
        BY <1>1
    <2>1. PICK S \in SUBSET (1 .. k) : k = n /\ S = Own(u)
        BY <1>1, <2>0
    <2>2. PICK T : T = Own(u)'
        OBVIOUS
    <2>3. k \in Nat /\ S \in SUBSET (1 .. k) /\ T = S \cup {k + 1}
        BY <2>1, <2>2, <1>4
    <2>4. /\ Cardinality(T) = Cardinality(S) + 1
          /\ \A c \in 0 .. k : Rank(T, c) = Rank(S, c)
          /\ Rank(T, k + 1) = Cardinality(S) + 1
          /\ \A i \in 1 .. Cardinality(S) : Nth(T, i) = Nth(S, i)
          /\ Nth(T, Cardinality(S) + 1) = k + 1
        BY ONLY <2>3, RankOfNew
    <2> QED BY <2>1, <2>2, <2>4
<1>6. CommitsOf(u)' = [i \in 1 .. m + 1 |-> Alone(Own(u)', table'[Nth(Own(u)', i)])]
    <2>1. CommitsOf(u)' = [i \in 1 .. Cardinality(Own(u)') |-> Alone(Own(u)', table'[Nth(Own(u)', i)])]
        BY DEF CommitsOf, Local, Alone, Nth, Rank, UpTo
    <2> QED BY <2>1, <1>5
<1>7. CommitsOf(u) = [i \in 1 .. m |-> Alone(Own(u), table[Nth(Own(u), i)])]
    BY CommitsOfIs
<1>8. ASSUME NEW i \in 1 .. m + 1
      PROVE  Alone(Own(u)', table'[Nth(Own(u)', i)]) = IF i = m + 1 THEN new ELSE CommitsOf(u)[i]
    <2>1. CASE i = m + 1
        <3>1. Alone(Own(u)', r) = new
            BY <1>1, <1>5, LocalIs DEF Alone
        <3> HIDE DEF r, new
        <3> QED BY <2>1, <3>1, <1>2, <1>5
    <2>2. CASE i # m + 1
        <3>1. i \in 1 .. m
            BY <2>2, <1>1
        <3>2. PICK c \in Own(u) : c = Nth(Own(u), i)
            BY <3>1, <1>1, RankOfNth
        <3>3. /\ table'[c] = table[c] /\ table[c].parent \in 0 .. n /\ table[c].parent2 \in 0 .. n
            BY <1>2, OwnType DEF Grows
        <3>4. Alone(Own(u)', table'[c]) = Alone(Own(u), table[c])
            BY <3>3, <1>5 DEF Alone
        <3>5. CommitsOf(u)[i] = Alone(Own(u), table[c])
            BY <3>1, <3>2, <1>7
        <3> QED BY <2>2, <3>1, <3>2, <3>4, <3>5, <1>5
    <2> QED BY <2>1, <2>2
<1>9. CommitsOf(u)' = Append(CommitsOf(u), new) /\ Len(CommitsOf(u)) = m /\ CommitsOf(u)'[m + 1] = new
    <2>1. CommitsOf(u) = [i \in 1 .. m |-> CommitsOf(u)[i]]
        BY <1>7
    <2>2. CommitsOf(u)' = [i \in 1 .. m + 1 |-> IF i = m + 1 THEN new ELSE CommitsOf(u)[i]]
        BY <1>6, <1>8
    <2> HIDE DEF new, m
    <2> QED BY <2>1, <2>2, <1>1, AppendIs
<1>10. Moves(u, b, m + 1)
    <2>1. CommitsOf(u)'[m + 1].version = table'[n + 1].version
        BY <1>2, <1>9
    <2> HIDE DEF m, n
    <2>2. PICK k, c \in Nat : k = m + 1 /\ c = n + 1
        BY <1>1
    <2>3. PointTo(u, b, c) /\ k = Rank(Own(u)', c) /\ CommitsOf(u)'[k].version = table'[c].version
          /\ \A d \in 0 .. Len(table) : Rank(Own(u)', d) = Rank(Own(u), d)
        BY <2>1, <2>2, <1>3, <1>5 DEF n
    <2>4. Moves(u, b, k)
        BY <2>3, BranchMoves
    <2> QED BY <2>2, <2>4
<1>11. ASSUME NEW w \in Uri \ {u} PROVE Stays(w)
    <2>1. refs'[w] = refs[w] /\ rows'[w] = rows[w]
        BY <1>3 DEF PointTo, StoreInv, StoreType
    <2> QED BY <2>1, <1>2, <1>4, OtherStays
<1> QED BY <1>9, <1>10, <1>11

(* What H promises of one prompt, read off its numbered view.  *)
LEMMA ViewInit ==
    ASSUME NEW u, CommitsOf(u) = <<>>, RefsOf(u) = [b \in Branch |-> 0],
           RowsOf(u) = <<[version |-> NoPrompt, commit |-> 0]>>
    PROVE  H(u)!Init
BY DEF H!Init, H!Empty, RefsOf, RowsOf

LEMMA ViewRecords ==
    ASSUME NEW u, NEW b \in Branch, NEW v \in Version,
           CommitsOf(u)' = Append(CommitsOf(u), [version |-> v, parent |-> RefsOf(u)[b], parent2 |-> 0]),
           Moves(u, b, Len(CommitsOf(u)) + 1)
    PROVE  H(u)!Next
<1>1. H(u)!Record(b, v)
   BY DEF H!Record, H!PointTo, RefsOf, RowsOf, Moves
<1> QED BY <1>1 DEF H!Next

LEMMA ViewMerges ==
    ASSUME NEW u, NEW b \in Branch, NEW s \in 1 .. Len(CommitsOf(u)), RefsOf(u)[b] # 0,
           CommitsOf(u)' = Append(CommitsOf(u), [version |-> CommitsOf(u)[s].version,
                                                 parent |-> RefsOf(u)[b], parent2 |-> s]),
           Moves(u, b, Len(CommitsOf(u)) + 1)
    PROVE  H(u)!Next
<1>1. H(u)!MergeIn(b, s)
   BY DEF H!MergeIn, H!PointTo, RefsOf, RowsOf, Moves
<1> QED BY <1>1 DEF H!Next

LEMMA ViewPoints ==
    ASSUME NEW u, NEW b \in Branch, NEW c \in 1 .. Len(CommitsOf(u)),
           CommitsOf(u)' = CommitsOf(u), Moves(u, b, c)
    PROVE  H(u)!Next
<1>1. H(u)!PointAt(b, c)
   BY DEF H!PointAt, H!PointTo, RefsOf, RowsOf, Moves
<1> QED BY <1>1 DEF H!Next

LEMMA ViewForks ==
    ASSUME NEW u, NEW b \in Branch, NEW f \in Branch, RefsOf(u)[b] = 0, RefsOf(u)[f] # 0,
           RefsOf(u)' = [RefsOf(u) EXCEPT ![b] = RefsOf(u)[f]],
           CommitsOf(u)' = CommitsOf(u), RowsOf(u)' = RowsOf(u)
    PROVE  H(u)!Next
<1>1. H(u)!Fork(b, f)
   BY DEF H!Fork, RefsOf, RowsOf
<1> QED BY <1>1 DEF H!Next

LEMMA ViewLoads ==
    ASSUME NEW u, NEW v \in Version,
           RowsOf(u)' = Append(RowsOf(u), [version |-> v, commit |-> 0]),
           CommitsOf(u)' = CommitsOf(u), RefsOf(u)' = RefsOf(u)
    PROVE  H(u)!Next
<1>1. H(u)!LoadRow(v)
   BY DEF H!LoadRow, RefsOf, RowsOf
<1> QED BY <1>1 DEF H!Next

LEMMA ViewStays ==
    ASSUME NEW u, Stays(u)
    PROVE  UNCHANGED H(u)!historyVars
BY DEF Stays, H!historyVars, RefsOf, RowsOf

LEMMA ViewOf ==
    ASSUME StoreInv, OwnInv, NEW u \in Uri
    PROVE  /\ Len(CommitsOf(u)) = Cardinality(Own(u)) /\ Local(u, 0) = 0
           /\ \A c \in Own(u) : /\ Local(u, c) \in 1 .. Len(CommitsOf(u))
                                /\ CommitsOf(u)[Local(u, c)].version = table[c].version
<1>1. Len(table) \in Nat /\ Own(u) \in SUBSET (1 .. Len(table)) /\ Cardinality(Own(u)) \in Nat
    <2>1. Len(table) \in Nat /\ Own(u) \in SUBSET (1 .. Len(table))
        BY OwnType
    <2> QED BY <2>1, MembersType
<1>2. CommitsOf(u) = [i \in 1 .. Cardinality(Own(u)) |-> Alone(Own(u), table[Nth(Own(u), i)])]
    BY CommitsOfIs
<1>3. Len(CommitsOf(u)) = Cardinality(Own(u))
    BY <1>1, <1>2
<1>4. Local(u, 0) = 0
    BY <1>1, RankType, LocalIs
<1>5. ASSUME NEW c \in Own(u)
      PROVE  /\ Local(u, c) \in 1 .. Cardinality(Own(u))
             /\ CommitsOf(u)[Local(u, c)].version = table[c].version
    <2>1. c \in Nat
        BY <1>1
    <2>2. PICK i : i = Rank(Own(u), c)
        OBVIOUS
    <2>3. i \in 1 .. Cardinality(Own(u)) /\ Nth(Own(u), i) = c
        BY <1>1, <2>1, <2>2, RankType, NthOfRank
    <2>4. CommitsOf(u)[i] = Alone(Own(u), table[c])
        BY <1>2, <2>3
    <2>5. Local(u, c) = i
        BY <2>2, LocalIs
    <2> QED BY <2>3, <2>4, <2>5 DEF Alone
<1> QED BY <1>3, <1>4, <1>5

LEMMA OwnTip ==
    ASSUME StoreInv, OwnInv, NEW u \in Uri, NEW b \in Branch
    PROVE  /\ RefsOf(u)[b] = Local(u, refs[u][b]) /\ refs[u][b] \in OwnOrNone(u)
           /\ refs[u][b] = 0 => RefsOf(u)[b] = 0
           /\ refs[u][b] # 0 => /\ refs[u][b] \in Own(u) /\ RefsOf(u)[b] \in 1 .. Len(CommitsOf(u))
                                /\ CommitsOf(u)[RefsOf(u)[b]].version = table[refs[u][b]].version
<1>1. RefsOf(u)[b] = Local(u, refs[u][b])
    BY DEF RefsOf
<1>2. refs[u][b] \in OwnOrNone(u)
    BY DEF OwnInv, OwnRefs
<1> QED BY <1>1, <1>2, ViewOf DEF OwnOrNone

LEMMA OperationApart ==
    ASSUME StoreInv, OwnInv, NEW u \in Uri, NEW a \in Author, Operation(u, a)
    PROVE  H(u)!Next /\ \A w \in Uri \ {u} : Stays(w)
<1>1. /\ table \in Seq(CommitRecord) /\ Len(table) \in Nat /\ Grows
      /\ 0 \in OwnOrNone(u) /\ Local(u, 0) = 0
    BY OperationKeeps, ViewOf DEF StoreInv, StoreType, OwnOrNone
<1>2. ASSUME NEW b \in Branch, NEW v \in Version \ Malformed, Commit(u, b, v, a)
      PROVE  H(u)!Next /\ \A w \in Uri \ {u} : Stays(w)
    <2>1. Add(u, b, v, refs[u][b], 0, a)
        BY <1>2 DEF Commit
    <2>2. /\ CommitsOf(u)' = Append(CommitsOf(u), [version |-> v, parent |-> RefsOf(u)[b], parent2 |-> 0])
          /\ Moves(u, b, Len(CommitsOf(u)) + 1)
          /\ \A w \in Uri \ {u} : Stays(w)
        BY <2>1, <1>1, OwnTip, AddMoves
    <2> QED BY <2>2, ViewRecords
<1>3. ASSUME NEW b \in Branch, NEW f \in Branch, Merge(u, b, f, a)
      PROVE  H(u)!Next /\ \A w \in Uri \ {u} : Stays(w)
    <2>1. PICK s \in Own(u) : s = refs[u][f]
        BY <1>3, OwnTip DEF Merge
    <2>2. Add(u, b, table[s].version, refs[u][b], s, a) /\ refs[u][b] # 0
        BY <1>3, <2>1 DEF Merge
    <2>3. table[s].version \in Version /\ s \in OwnOrNone(u)
        BY OwnType DEF CommitRecord, OwnOrNone
    <2>4. PICK k \in 1 .. Len(CommitsOf(u)) :
              k = Local(u, s) /\ CommitsOf(u)[k].version = table[s].version
        BY ViewOf
    <2>5. RefsOf(u)[b] = Local(u, refs[u][b]) /\ RefsOf(u)[b] # 0 /\ refs[u][b] \in OwnOrNone(u)
        BY <2>2, OwnTip
    <2>6. /\ CommitsOf(u)' = Append(CommitsOf(u), [version |-> table[s].version,
                                  parent |-> Local(u, refs[u][b]), parent2 |-> Local(u, s)])
          /\ Moves(u, b, Len(CommitsOf(u)) + 1)
          /\ \A w \in Uri \ {u} : Stays(w)
        BY <2>2, <2>3, <2>5, AddMoves
    <2>7. CommitsOf(u)' = Append(CommitsOf(u), [version |-> CommitsOf(u)[k].version,
                                  parent |-> RefsOf(u)[b], parent2 |-> k])
        BY <2>4, <2>5, <2>6
    <2> QED BY <2>5, <2>6, <2>7, ViewMerges
<1>4. ASSUME NEW b \in Branch, NEW c \in Commits, SetBranch(u, b, c)
      PROVE  H(u)!Next /\ \A w \in Uri \ {u} : Stays(w)
    <2>1. table' = table /\ c \in Own(u) /\ PointTo(u, b, c) /\ c \in Nat
        BY <1>1, <1>4 DEF SetBranch, Commits
    <2>2. \A w : Own(w)' = Own(w) /\ CommitsOf(w)' = CommitsOf(w)
        BY <2>1 DEF CommitsOf, Local, Own, Commits
    <2>3. PICK k \in 1 .. Len(CommitsOf(u)) :
              k = Rank(Own(u), c) /\ CommitsOf(u)[k].version = table[c].version
        BY <2>1, ViewOf, LocalIs
    <2>4. Moves(u, b, k)
        <3>1. /\ k = Rank(Own(u)', c) /\ CommitsOf(u)'[k].version = table'[c].version
              /\ \A d \in 0 .. Len(table) : Rank(Own(u)', d) = Rank(Own(u), d)
            BY <2>1, <2>2, <2>3
        <3> QED BY <3>1, <2>1, BranchMoves
    <2>5. H(u)!Next
        BY <2>2, <2>4, ViewPoints
    <2>6. ASSUME NEW w \in Uri \ {u} PROVE Stays(w)
        <3>1. refs'[w] = refs[w] /\ rows'[w] = rows[w]
            BY <2>1 DEF PointTo, StoreInv, StoreType
        <3> QED BY <3>1, <2>2, <1>1, OtherStays
    <2> QED BY <2>5, <2>6
<1>5. ASSUME NEW b \in Branch, NEW f \in Branch, Fork(u, b, f)
      PROVE  H(u)!Next /\ \A w \in Uri \ {u} : Stays(w)
    <2>1. UNCHANGED <<table, rows>> /\ refs' = [refs EXCEPT ![u][b] = refs[u][f]]
          /\ refs[u][b] = 0 /\ refs[u][f] # 0
        BY <1>5 DEF Fork
    <2>2. \A w : Own(w)' = Own(w) /\ CommitsOf(w)' = CommitsOf(w)
        BY <2>1 DEF CommitsOf, Local, Own, Commits
    <2>3. \A x \in Branch : refs'[u][x] = IF x = b THEN refs[u][f] ELSE refs[u][x]
        BY <2>1 DEF StoreInv, StoreType
    <2>4. RefsOf(u)' = [x \in Branch |-> Rank(Own(u), refs'[u][x])]
        BY <2>2 DEF RefsOf, Local, Rank, UpTo
    <2>5. RefsOf(u) = [x \in Branch |-> Rank(Own(u), refs[u][x])]
        BY DEF RefsOf, Local, Rank, UpTo
    <2>6. RefsOf(u)' = [RefsOf(u) EXCEPT ![b] = RefsOf(u)[f]]
        BY <2>3, <2>4, <2>5
    <2>7. RowsOf(u)' = RowsOf(u)
        BY <2>1, <2>2 DEF RowsOf, Local
    <2>8. RefsOf(u)[b] = 0 /\ RefsOf(u)[f] # 0
        BY <2>1, OwnTip
    <2>9. H(u)!Next
        BY <2>2, <2>6, <2>7, <2>8, ViewForks
    <2>10. ASSUME NEW w \in Uri \ {u} PROVE Stays(w)
        <3>1. refs'[w] = refs[w] /\ rows'[w] = rows[w]
            BY <2>1 DEF StoreInv, StoreType
        <3> QED BY <3>1, <2>2, <1>1, OtherStays
    <2> QED BY <2>9, <2>10
<1> QED BY <1>2, <1>3, <1>4, <1>5 DEF Operation

LEMMA LoadApart ==
    ASSUME StoreInv, OwnInv, NEW u \in Uri, NEW v \in Version, LoadRow(u, v)
    PROVE  H(u)!Next /\ \A w \in Uri \ {u} : Stays(w)
<1> DEFINE row == [version |-> v, commit |-> 0]
           n == Len(rows[u])
<1>1. row \in Row /\ rows[u] \in Seq(Row) /\ n \in Nat /\ Grows /\ Local(u, 0) = 0
    <2>1. row \in Row
        BY DEF Row
    <2>2. rows[u] \in Seq(Row)
        BY DEF StoreInv, StoreType
    <2> HIDE DEF row
    <2> QED BY <2>1, <2>2, LoadKeeps, ViewOf
<1>2. UNCHANGED <<table, refs>> /\ rows' = [rows EXCEPT ![u] = Append(@, row)]
    BY DEF LoadRow
<1>3. rows'[u] = Append(rows[u], row) /\ \A w \in Uri \ {u} : rows'[w] = rows[w]
    BY <1>2 DEF StoreInv, StoreType
<1>4. \A w : /\ Own(w)' = Own(w) /\ CommitsOf(w)' = CommitsOf(w) /\ RefsOf(w)' = RefsOf(w)
             /\ \A c : Local(w, c)' = Local(w, c)
    BY <1>2 DEF CommitsOf, RefsOf, Local, Own, Commits
<1>5. RowsOf(u)' = Append(RowsOf(u), row)
    <2>1. Len(rows'[u]) = n + 1 /\ rows'[u][n + 1] = row /\ \A i \in 1 .. n : rows'[u][i] = rows[u][i]
        <3> HIDE DEF row
        <3> QED BY <1>1, <1>3
    <2>2. RowsOf(u)' = [i \in 1 .. n + 1 |->
                          [version |-> rows'[u][i].version, commit |-> Rank(Own(u), rows'[u][i].commit)]]
        BY <1>4, <2>1 DEF RowsOf, Local, Rank, UpTo
    <2>3. RowsOf(u) = [i \in 1 .. n |->
                          [version |-> rows[u][i].version, commit |-> Rank(Own(u), rows[u][i].commit)]]
        BY DEF RowsOf, Local, Rank, UpTo
    <2>4. ASSUME NEW i \in 1 .. n + 1
          PROVE  [version |-> rows'[u][i].version, commit |-> Rank(Own(u), rows'[u][i].commit)]
                   = IF i = n + 1 THEN row ELSE RowsOf(u)[i]
        <3>1. CASE i = n + 1
            BY <3>1, <2>1, <1>1, LocalIs
        <3>2. CASE i # n + 1
            <4>1. i \in 1 .. n
                BY <3>2, <1>1
            <4> QED BY <3>2, <4>1, <2>1, <2>3
        <3> QED BY <3>1, <3>2
    <2>5. RowsOf(u) = [i \in 1 .. n |-> RowsOf(u)[i]]
        BY <2>3
    <2> HIDE DEF n, row
    <2>6. RowsOf(u)' = [i \in 1 .. n + 1 |-> IF i = n + 1 THEN row ELSE RowsOf(u)[i]]
        BY <2>2, <2>4
    <2> QED BY <2>5, <2>6, <1>1, AppendIs
<1>6. H(u)!Next
    BY <1>4, <1>5, ViewLoads
<1>7. ASSUME NEW w \in Uri \ {u} PROVE Stays(w)
    <2>1. refs'[w] = refs[w] /\ rows'[w] = rows[w] /\ Own(w)' = Own(w)
        BY <1>2, <1>3, <1>4
    <2> QED BY <2>1, <1>1, OtherStays
<1> QED BY <1>6, <1>7

LEMMA StoreStays ==
    ASSUME NEW u, UNCHANGED storeVars
    PROVE  Stays(u)
BY DEF storeVars, Stays, CommitsOf, RefsOf, RowsOf, Local, Own, Commits

(* Every step is a step of one prompt's history, and none of the others'.  *)
LEMMA StepApart ==
    ASSUME Inv, OwnInv, [APINext]_apiVars, NEW u \in Uri
    PROVE  H(u)!Next \/ Stays(u)
<1>1. ASSUME UNCHANGED storeVars PROVE Stays(u)
    BY <1>1, StoreStays
<1>2. ASSUME NEW x \in Call, Handles(x) PROVE H(u)!Next \/ Stays(u)
    <2>1. CASE UNCHANGED catalogVars
        BY <2>1, <1>1 DEF catalogVars
    <2>2. ASSUME NEW w \in Uri, Write(w, Signature(x)) PROVE H(u)!Next \/ Stays(u)
        <3>1. Signature(x) \in Author
            BY APIAssumption
        <3>2. H(w)!Next /\ \A o \in Uri \ {w} : Stays(o)
            BY <3>1, <2>2, OperationApart DEF Write, Inv
        <3> QED BY <3>2
    <2> QED BY <1>2, <2>1, <2>2 DEF Handles
<1>3. ASSUME ImportCommits PROVE H(u)!Next \/ Stays(u)
    <2>1. at = "commit" /\ next \in 1 .. Len(file)
        BY <1>3 DEF ImportCommits, Inv, ImportType
    <2>2. PICK w \in Uri, v \in Version : w = Entry.uri /\ v = Entry.version
        BY <2>1, EntryType DEF Inv, Entry
    <2>3. Add(w, "main", v, refs[w]["main"], 0, "priompt") /\ StoreInv
        BY <1>3, <2>2 DEF ImportCommits, Parent, MainOf, Inv
    <2>4. 0 \in OwnOrNone(w) /\ Local(w, 0) = 0 /\ "priompt" \in Author
        BY <2>3, ViewOf, CatalogAssumption DEF OwnOrNone
    <2>5. /\ CommitsOf(w)' = Append(CommitsOf(w), [version |-> v, parent |-> RefsOf(w)["main"], parent2 |-> 0])
          /\ Moves(w, "main", Len(CommitsOf(w)) + 1)
          /\ \A o \in Uri \ {w} : Stays(o)
        BY <2>3, <2>4, MainIsBranch, OwnTip, AddMoves
    <2>6. H(w)!Next
        BY <2>5, MainIsBranch, ViewRecords
    <2> QED BY <2>5, <2>6
<1>4. ASSUME Import, ~ImportCommits PROVE Stays(u)
    BY <1>4, <1>1 DEF Import, ImportStarts, ImportResolves, ImportStops, ImportEnds
<1>5. ASSUME NEW x \in Call, Arrives(x) \/ Enters(x) \/ Rejected(x) PROVE Stays(u)
    BY <1>5, <1>1 DEF Arrives, Enters, Rejected, catalogVars
<1>6. ASSUME UNCHANGED apiVars PROVE Stays(u)
    BY <1>6, <1>1 DEF apiVars, catalogVars
<1>7. ASSUME NEW l \in Loaded, RestoreLine(l) PROVE H(u)!Next \/ Stays(u)
    <2>1. PICK w \in Uri, v \in Version : w = l.uri /\ v = l.version
        BY CatalogAssumption DEF Line
    <2>2. H(w)!Next /\ \A o \in Uri \ {w} : Stays(o)
        BY <1>7, <2>1, LoadApart DEF RestoreLine, Inv
    <2> QED BY <2>2
<1> QED BY <1>1, <1>2, <1>3, <1>4, <1>5, <1>6, <1>7 DEF APINext, catalogVars

LEMMA BeginsApart ==
    ASSUME CatalogInit, NEW u \in Uri
    PROVE  H(u)!Init
<1>1. table = <<>> /\ Own(u) = {}
    BY DEF CatalogInit, Own, Commits
<1>2. Cardinality(Own(u)) = 0 /\ \A c : Local(u, c) = 0
    <2>1. \A c : {k \in Own(u) : k <= c} = {}
        BY <1>1
    <2> QED BY <2>1, <1>1, FS_EmptySet DEF Local
<1>3. CommitsOf(u) = <<>>
    BY <1>2 DEF CommitsOf
<1>4. RefsOf(u) = [b \in Branch |-> 0]
    BY <1>2 DEF RefsOf
<1>5. RowsOf(u) = <<[version |-> NoPrompt, commit |-> 0]>>
    BY <1>2 DEF RowsOf, CatalogInit
<1> QED BY <1>3, <1>4, <1>5, ViewInit

(* README.md 169: numbered among its own commits, every prompt is a        *)
(* history of PromptHistory's, whatever is done to the others.             *)
THEOREM PromptsKeptApart == APISpec => PromptsApart
<1>1. APIInit => \A u \in Uri : H(u)!Init
    BY BeginsApart DEF APIInit
<1>2. Inv /\ OwnInv /\ [APINext]_apiVars =>
          [storeVars' # storeVars => \A u \in Uri : [H(u)!Next]_(H(u)!historyVars)]_catalogVars
    BY StepApart, ViewStays
<1> QED BY <1>1, <1>2, OwnInvariance, PTL DEF APISpec, PromptsApart

(* The same as a refinement: one store of many prompts implements, for     *)
(* each of them, the history of one prompt.                                *)
THEOREM EveryPromptIsAHistory ==
    ASSUME NEW u \in Uri
    PROVE  APISpec => H(u)!Spec
<1>1. APIInit => H(u)!Init
    BY BeginsApart DEF APIInit
<1>2. Inv /\ OwnInv /\ [APINext]_apiVars => [H(u)!Next]_(H(u)!historyVars)
    BY StepApart, ViewStays
<1> QED BY <1>1, <1>2, OwnInvariance, PTL DEF APISpec, H!Spec
=============================================================================
