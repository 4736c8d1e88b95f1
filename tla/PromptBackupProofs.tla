------------------------- MODULE PromptBackupProofs -------------------------
(***************************************************************************)
(* Theorems about PromptBackup, for any versions and branches, any number  *)
(* of files, and backups and restores that stop anywhere.                  *)
(***************************************************************************)
EXTENDS PromptBackup, TLAPS

(* S holds the parents of its commits; a commit of S has version v.  *)
Closed(S) == \A d \in S : {commits[d].parent, commits[d].parent2} \subseteq S \cup {0}
Has(S, v) == \E c \in S : commits[c].version = v

(* The live database: parents come before children, and what is served was *)
(* committed, unless its row is a bare one.                                *)
LiveInv ==
    /\ H!HistoryTypeOK
    /\ \A c \in 1 .. Len(commits) : commits[c].parent < c /\ commits[c].parent2 < c
    /\ ~Bare => Has(1 .. Len(commits), Live.prompts)

(* Every pointer of the tables t is to a commit that has its history in t. *)
PointsInside(t) ==
    \A b \in Branch : t.refs[b] # 0 => t.refs[b] \in t.commits /\ Closed(t.commits)

(* What a backup has established when it is about to take its next step.   *)
DraftInv ==
    /\ reading \in {"idle", "prompts", "commits", "refs", "write"}
    /\ draft \in [tables : Tables, bare : BOOLEAN, torn : BOOLEAN]
    /\ draft.tables.commits \subseteq 1 .. Len(commits)
    /\ reading = "commits" /\ ~draft.bare => Has(1 .. Len(commits), draft.tables.prompts)
    /\ reading \in {"refs", "write"} /\ ~draft.bare =>
          Has(draft.tables.commits, draft.tables.prompts)
    /\ reading = "refs" /\ ~draft.torn => draft.tables.commits = 1 .. Len(commits)
    /\ reading = "write" /\ ~draft.torn => PointsInside(draft.tables)

FileOK(f) ==
    /\ f \in File
    /\ f.tables.commits \subseteq 1 .. Len(commits)
    /\ ~f.torn => PointsInside(f.tables)
    /\ f.kind = "backup" /\ ~f.cut /\ ~f.bare => Has(f.tables.commits, f.tables.prompts)

FilesInv == files \in Seq(File) /\ \A i \in 1 .. Len(files) : FileOK(files[i])

(* Every record of the tables t is in the target, or still to be put.  *)
InOrPending(t) ==
    /\ pending.commits \subseteq t.commits
    /\ t.commits \subseteq target.commits \cup pending.commits
    /\ \A b \in Branch : t.refs[b] # 0 => b \in pending.refs \/ target.refs[b] = t.refs[b]
    /\ \A b \in pending.refs : t.refs[b] # 0
    /\ t.prompts # NoPrompt => pending.prompts \/ target.prompts = t.prompts
    /\ pending.prompts => t.prompts # NoPrompt

RestoreInv ==
    /\ pending \in [file : 0 .. Len(files), commits : SUBSET Nat,
                    refs : SUBSET Branch, prompts : BOOLEAN]
    /\ pending.file = 0 => pending = NothingPending
    /\ forced \in BOOLEAN
    /\ target \in Tables
    /\ last \in 0 .. Len(files)
    /\ crashes \in 0 .. MaxCrashes
    /\ pending.file # 0 => InOrPending(files[pending.file].tables)
    /\ pending.file # 0 /\ last # 0 => last = pending.file

(* The inductive invariant: the properties are about the target alone, and *)
(* hold only because of what every file, and every step on the way to a    *)
(* file, carries.                                                          *)
Inv ==
    /\ LiveInv /\ DraftInv /\ FilesInv /\ RestoreInv
    /\ target.commits \subseteq 1 .. Len(commits)
    /\ PointersHaveHistory /\ RestoredHoldsBackup /\ HistoriesStayApart

(* Nothing rewrites the commits of the live database.  *)
Grows ==
    /\ Len(commits) \in Nat /\ Len(commits') \in Nat /\ Len(commits) <= Len(commits')
    /\ \A c \in 1 .. Len(commits) : commits'[c] = commits[c]

-----------------------------------------------------------------------------
(* The live database.  *)

(* What a well-formed database holds.  *)
LEMMA LiveTypes ==
    ASSUME H!HistoryTypeOK
    PROVE  /\ Len(commits) \in Nat /\ Len(rows) \in Nat \ {0}
           /\ \A c \in 1 .. Len(commits) : /\ commits[c] \in H!Commit
                                           /\ commits[c].version \in Version
           /\ \A b \in Branch : refs[b] \in 0 .. Len(commits)
           /\ Live \in Tables
  <1>1. commits \in Seq(H!Commit) /\ rows \in Seq(H!Row) /\ rows # <<>>
        /\ refs \in [Branch -> 0 .. Len(commits)]
    BY DEF H!HistoryTypeOK
  <1>2. Len(commits) \in Nat /\ Len(rows) \in Nat \ {0}
    BY <1>1
  <1>3. \A c \in 1 .. Len(commits) : commits[c] \in H!Commit
    BY <1>1
  <1>4. rows[Len(rows)] \in H!Row
    BY <1>1, <1>2
  <1>5. rows[Len(rows)].version \in Version \cup {NoPrompt}
    BY <1>4 DEF H!Row
  <1>6. 1 .. Len(commits) \in SUBSET Nat /\ refs \in [Branch -> Nat]
    BY <1>1, <1>2
  <1>7. Live \in Tables
    BY <1>5, <1>6 DEF Live, Tables
  <1> QED
    BY <1>1, <1>2, <1>3, <1>7 DEF H!Commit

(* A branch that moves to a commit of the grown history leaves the         *)
(* database well formed, with the content of main committed.               *)
LEMMA PointToLive ==
    ASSUME LiveInv, Grows, commits' \in Seq(H!Commit),
           NEW b \in Branch, NEW c \in 1 .. Len(commits'), H!PointTo(b, c)
    PROVE  H!HistoryTypeOK' /\ (~Bare' => Has(1 .. Len(commits), Live.prompts)')
  <1>1. H!HistoryTypeOK /\ (~Bare => Has(1 .. Len(commits), Live.prompts))
    BY DEF LiveInv
  <1>2. refs \in [Branch -> 0 .. Len(commits)] /\ rows \in Seq(H!Row) /\ rows # <<>>
    BY <1>1 DEF H!HistoryTypeOK
  <1>3. refs' \in [Branch -> 0 .. Len(commits')]
    BY <1>2 DEF H!PointTo, Grows
  <1>4. CASE b = "main"
    <2> DEFINE row == [version |-> commits'[c].version, commit |-> c]
    <2>1. commits'[c] \in H!Commit
      BY SMT
    <2>2. row \in H!Row
      BY <2>1 DEF H!Row, H!Commit, Grows
    <2>3. rows' = Append(rows, row)
      BY <1>4 DEF H!PointTo
    <2>4. rows' \in Seq(H!Row) /\ rows' # <<>> /\ rows'[Len(rows')] = row
      BY <1>2, <2>2, <2>3
    <2>5. Has(1 .. Len(commits), Live.prompts)'
      BY <2>4 DEF Has, Live
    <2> QED
      BY <1>3, <2>4, <2>5 DEF H!HistoryTypeOK
  <1>5. CASE b # "main"
    <2>1. rows' = rows
      BY <1>5 DEF H!PointTo
    <2>2. ASSUME ~Bare PROVE Has(1 .. Len(commits), Live.prompts)'
      <3>1. PICK d \in 1 .. Len(commits) : commits[d].version = Live.prompts
        BY <1>1, <2>2 DEF Has
      <3>2. d \in 1 .. Len(commits') /\ commits'[d].version = Live.prompts
        BY <3>1 DEF Grows
      <3> QED
        BY <2>1, <3>2 DEF Has, Live
    <2>4. ~Bare' => Has(1 .. Len(commits), Live.prompts)'
      BY <2>1, <2>2 DEF Bare
    <2> QED
      BY <1>2, <1>3, <2>1, <2>4 DEF H!HistoryTypeOK
  <1> QED
    BY <1>4, <1>5

(* A commit whose parents are there keeps the history well founded.  *)
LEMMA AppendLive ==
    ASSUME LiveInv, NEW x \in H!Commit, commits' = Append(commits, x),
           x.parent <= Len(commits), x.parent2 <= Len(commits),
           NEW b \in Branch, H!PointTo(b, Len(commits) + 1)
    PROVE  LiveInv' /\ Grows
  <1>1. H!HistoryTypeOK /\ commits \in Seq(H!Commit) /\ Len(commits) \in Nat
    BY DEF LiveInv, H!HistoryTypeOK
  <1>2. commits' \in Seq(H!Commit) /\ Len(commits') = Len(commits) + 1
        /\ commits'[Len(commits')] = x /\ \A c \in 1 .. Len(commits) : commits'[c] = commits[c]
    BY <1>1
  <1>3. Grows
    BY <1>1, <1>2 DEF Grows
  <1>4. H!HistoryTypeOK' /\ (~Bare' => Has(1 .. Len(commits), Live.prompts)')
    <2>1. Len(commits) + 1 \in 1 .. Len(commits')
      BY <1>1, <1>2
    <2> QED
      BY <1>2, <1>3, <2>1, PointToLive
  <1>5. x.parent \in Nat /\ x.parent2 \in Nat
    BY DEF H!Commit
  <1>6. ASSUME NEW c \in 1 .. Len(commits')
        PROVE  commits'[c].parent < c /\ commits'[c].parent2 < c
    <2>1. CASE c \in 1 .. Len(commits)
      BY <1>2, <2>1 DEF LiveInv
    <2>2. CASE c = Len(commits')
      BY <1>1, <1>2, <1>5, <2>2
    <2> QED
      BY <1>1, <1>2, <2>1, <2>2
  <1> QED
    BY <1>3, <1>4, <1>6 DEF LiveInv

LEMMA ChangeLive ==
    ASSUME LiveInv, Change
    PROVE  LiveInv' /\ Grows
  <1>1. /\ Len(commits) \in Nat
        /\ \A c \in 1 .. Len(commits) : commits[c].version \in Version
        /\ \A b \in Branch : refs[b] \in 0 .. Len(commits)
        /\ refs \in [Branch -> 0 .. Len(commits)] /\ commits \in Seq(H!Commit)
        /\ rows \in Seq(H!Row) /\ rows # <<>>
    BY LiveTypes DEF LiveInv, H!HistoryTypeOK
  <1>2. CASE \E b \in Branch, v \in Version : H!Record(b, v)
    <2>1. PICK b \in Branch, v \in Version : H!Record(b, v)
      BY <1>2
    <2> DEFINE x == [version |-> v, parent |-> refs[b], parent2 |-> 0]
    <2>2. refs[b] \in Nat /\ refs[b] <= Len(commits)
      BY <1>1
    <2>3. x \in H!Commit /\ x.parent <= Len(commits) /\ x.parent2 <= Len(commits)
      BY <1>1, <2>2 DEF H!Commit
    <2>4. commits' = Append(commits, x) /\ H!PointTo(b, Len(commits) + 1)
      BY <2>1 DEF H!Record
    <2> HIDE DEF x
    <2> QED
      BY <2>3, <2>4, AppendLive
  <1>3. CASE \E b \in Branch, c \in 1 .. Len(commits) : H!MergeIn(b, c)
    <2>1. PICK b \in Branch, c \in 1 .. Len(commits) : H!MergeIn(b, c)
      BY <1>3
    <2> DEFINE x == [version |-> commits[c].version, parent |-> refs[b], parent2 |-> c]
    <2>2. refs[b] \in Nat /\ refs[b] <= Len(commits) /\ commits[c].version \in Version
          /\ c \in Nat /\ c <= Len(commits)
      BY <1>1
    <2>3. x \in H!Commit /\ x.parent <= Len(commits) /\ x.parent2 <= Len(commits)
      BY <1>1, <2>2 DEF H!Commit
    <2>4. commits' = Append(commits, x) /\ H!PointTo(b, Len(commits) + 1)
      BY <2>1 DEF H!MergeIn
    <2> HIDE DEF x
    <2> QED
      BY <2>3, <2>4, AppendLive
  <1>4. CASE \E b \in Branch, c \in 1 .. Len(commits) : H!PointAt(b, c)
    <2>1. PICK b \in Branch, c \in 1 .. Len(commits) : H!PointAt(b, c)
      BY <1>4
    <2>2. commits' = commits /\ H!PointTo(b, c)
      BY <2>1 DEF H!PointAt
    <2>3. Grows
      BY <1>1, <2>2 DEF Grows
    <2>4. commits' \in Seq(H!Commit) /\ c \in 1 .. Len(commits')
      BY <1>1, <2>2
    <2>5. H!HistoryTypeOK' /\ (~Bare' => Has(1 .. Len(commits), Live.prompts)')
      BY <2>2, <2>3, <2>4, PointToLive
    <2> QED
      BY <2>2, <2>3, <2>5 DEF LiveInv
  <1>5. CASE \E b, f \in Branch : H!Fork(b, f)
    <2>1. PICK b \in Branch, f \in Branch : H!Fork(b, f)
      BY <1>5
    <2>2. commits' = commits /\ rows' = rows /\ refs' = [refs EXCEPT ![b] = refs[f]]
      BY <2>1 DEF H!Fork
    <2>3. refs' \in [Branch -> 0 .. Len(commits')]
      BY <1>1, <2>2
    <2>4. H!HistoryTypeOK'
      BY <1>1, <2>2, <2>3 DEF H!HistoryTypeOK
    <2>5. Grows
      BY <1>1, <2>2 DEF Grows
    <2> QED
      BY <2>2, <2>4, <2>5 DEF LiveInv, Has, Live, Bare
  <1>6. CASE \E v \in Version : H!LoadRow(v)
    <2>1. PICK v \in Version : H!LoadRow(v)
      BY <1>6
    <2> DEFINE row == [version |-> v, commit |-> 0]
    <2>2. commits' = commits /\ refs' = refs /\ rows' = Append(rows, row)
      BY <2>1 DEF H!LoadRow
    <2>3. row \in H!Row /\ row.commit = 0
      BY DEF H!Row
    <2> HIDE DEF row
    <2>4. rows' \in Seq(H!Row) /\ rows' # <<>> /\ rows'[Len(rows')] = row
      BY <1>1, <2>2, <2>3
    <2>5. Bare' /\ H!HistoryTypeOK' /\ Grows
      BY <1>1, <2>2, <2>3, <2>4 DEF Bare, H!HistoryTypeOK, Grows
    <2> QED
      BY <2>2, <2>5 DEF LiveInv
  <1> QED
    BY <1>2, <1>3, <1>4, <1>5, <1>6 DEF Change

(* A step that leaves the live database alone.  *)
LEMMA LiveSame ==
    ASSUME LiveInv, UNCHANGED liveVars
    PROVE  LiveInv' /\ Grows
  <1>1. commits' = commits /\ refs' = refs /\ rows' = rows /\ Len(commits) \in Nat
    BY LiveTypes DEF liveVars, LiveInv
  <1> QED
    BY <1>1 DEF LiveInv, Grows, H!HistoryTypeOK, Has, Live, Bare

-----------------------------------------------------------------------------
(* What the grown history leaves true of sets of commits, files and the    *)
(* restored database.                                                      *)

LEMMA HistoryStays ==
    ASSUME Grows, NEW S \in SUBSET (1 .. Len(commits)), NEW T \in SUBSET Nat, S \subseteq T,
           NEW c, HasHistory(c, S)
    PROVE  HasHistory(c, T)'
  <1>1. PICK A \in SUBSET S :
            /\ c \in A
            /\ \A d \in A : {commits[d].parent, commits[d].parent2} \subseteq A \cup {0}
    BY DEF HasHistory
  <1>2. A \in SUBSET T /\ \A d \in A : commits'[d] = commits[d]
    BY <1>1 DEF Grows
  <1>3. \A d \in A : {commits'[d].parent, commits'[d].parent2} \subseteq A \cup {0}
    BY <1>1, <1>2
  <1> QED
    BY <1>1, <1>2, <1>3 DEF HasHistory

LEMMA FileStays ==
    ASSUME Grows, NEW f, FileOK(f)
    PROVE  FileOK(f)'
  <1> DEFINE S == f.tables.commits
  <1>1. S \subseteq 1 .. Len(commits) /\ S \subseteq 1 .. Len(commits')
    BY DEF FileOK, Grows
  <1>2. \A d \in S : commits'[d] = commits[d]
    BY <1>1 DEF Grows
  <1>3. PointsInside(f.tables) => PointsInside(f.tables)'
    BY <1>2 DEF PointsInside, Closed
  <1>4. Has(S, f.tables.prompts) => Has(S, f.tables.prompts)'
    BY <1>2 DEF Has
  <1> QED
    BY <1>1, <1>3, <1>4 DEF FileOK

LEMMA FilesStay ==
    ASSUME Grows, FilesInv, files' = files
    PROVE  FilesInv'
  <1>1. ASSUME NEW i \in 1 .. Len(files)
        PROVE  FileOK(files[i])'
    <2>1. PICK f : f = files[i]
      OBVIOUS
    <2>2. FileOK(f)
      BY <2>1 DEF FilesInv
    <2>3. FileOK(f)'
      BY <2>2, FileStays
    <2> QED
      BY <2>1, <2>3
  <1> QED
    BY <1>1 DEF FilesInv

LEMMA FileAdded ==
    ASSUME Grows, FilesInv, NEW f \in File, FileOK(f), files' = Append(files, f)
    PROVE  /\ FilesInv'
           /\ Len(files) \in Nat /\ Len(files') = Len(files) + 1
           /\ \A i \in 1 .. Len(files) : files'[i] = files[i]
  <1>1. files \in Seq(File) /\ Len(files) \in Nat
    BY DEF FilesInv
  <1>2. /\ files' \in Seq(File) /\ Len(files') = Len(files) + 1 /\ files'[Len(files')] = f
        /\ \A i \in 1 .. Len(files) : files'[i] = files[i]
    BY <1>1
  <1>3. ASSUME NEW i \in 1 .. Len(files')
        PROVE  FileOK(files[i])'
    <2>1. PICK g : g = files'[i]
      OBVIOUS
    <2>2. FileOK(g)
      <3>1. CASE i \in 1 .. Len(files)
        BY <1>2, <2>1, <3>1 DEF FilesInv
      <3>2. CASE i = Len(files')
        BY <1>2, <2>1, <3>2
      <3> QED
        BY <1>1, <1>2, <3>1, <3>2
    <2>3. FileOK(g)'
      BY <2>2, FileStays
    <2> QED
      BY <2>1, <2>3
  <1> QED
    BY <1>1, <1>2, <1>3 DEF FilesInv

(* Files are only added.  *)
FilesGrow ==
    /\ Len(files) \in Nat /\ Len(files') \in Nat /\ Len(files) <= Len(files')
    /\ \A i \in 1 .. Len(files) : files'[i] = files[i]

(* What the live database and a backup do leaves a restore as it was.  *)
LEMMA RestoreStays ==
    ASSUME Inv, Grows, FilesGrow, LiveInv', DraftInv', FilesInv', UNCHANGED restoreVars,
           crashes' \in 0 .. MaxCrashes
    PROVE  Inv'
  <1>1. pending' = pending /\ forced' = forced /\ target' = target /\ last' = last
    BY DEF restoreVars
  <1>2. RestoreInv /\ target \in Tables /\ target.commits \subseteq 1 .. Len(commits)
        /\ PointersHaveHistory /\ RestoredHoldsBackup /\ HistoriesStayApart
    BY DEF Inv, RestoreInv
  <1>3. pending.file \in 0 .. Len(files) /\ last \in 0 .. Len(files)
    BY <1>2 DEF RestoreInv
  <1>4. /\ pending.file # 0 => files'[pending.file] = files[pending.file]
        /\ last # 0 => files'[last] = files[last]
    BY <1>3 DEF FilesGrow
  <1>5. RestoreInv'
    <2>1. pending' \in [file : 0 .. Len(files'), commits : SUBSET Nat,
                        refs : SUBSET Branch, prompts : BOOLEAN]
      BY <1>1, <1>2 DEF RestoreInv, FilesGrow
    <2>2. last' \in 0 .. Len(files')
      BY <1>1, <1>3 DEF FilesGrow
    <2>3. pending'.file # 0 => InOrPending(files[pending.file].tables)'
      BY <1>1, <1>2, <1>4 DEF RestoreInv, InOrPending
    <2> QED
      BY <1>1, <1>2, <2>1, <2>2, <2>3 DEF RestoreInv
  <1>6. target'.commits \subseteq 1 .. Len(commits')
    BY <1>1, <1>2 DEF Grows
  <1>7. RestoredHoldsBackup' /\ HistoriesStayApart'
    BY <1>1, <1>2, <1>4 DEF RestoredHoldsBackup, Holds, HistoriesStayApart
  <1>8. PointersHaveHistory'
    <2> SUFFICES ASSUME \A f \in 1 .. Len(files') : ~files'[f].torn,
                        NEW b \in Branch, target'.refs[b] # 0
                 PROVE  HasHistory(target.refs[b], target.commits)'
      BY DEF PointersHaveHistory
    <2>1. \A f \in 1 .. Len(files) : ~files[f].torn
      BY DEF FilesGrow
    <2>2. PICK c : c = target.refs[b]
      OBVIOUS
    <2>3. PICK S \in SUBSET (1 .. Len(commits)) : S = target.commits
      BY <1>2
    <2>4. HasHistory(c, S)
      BY <1>1, <1>2, <2>1, <2>2, <2>3 DEF PointersHaveHistory
    <2>5. S \in SUBSET Nat
      BY <2>3
    <2>6. HasHistory(c, S)'
      BY <2>4, <2>5, HistoryStays
    <2> QED
      BY <1>1, <2>2, <2>3, <2>6
  <1> QED
    BY <1>5, <1>6, <1>7, <1>8 DEF Inv

-----------------------------------------------------------------------------
(* Steps of the live database and of a backup.  *)

LEMMA SameFilesGrow ==
    ASSUME FilesInv, files' = files
    PROVE  FilesGrow
  BY DEF FilesInv, FilesGrow

LEMMA WriteStep ==
    ASSUME Inv, Write
    PROVE  Inv'
  <1>1. LiveInv /\ DraftInv /\ FilesInv /\ RestoreInv
    BY DEF Inv
  <1>2. LiveInv' /\ Grows
    <2>1. Change
      BY DEF Write
    <2> QED
      BY <1>1, <2>1, ChangeLive
  <1>3. /\ files' = files /\ reading' = reading /\ UNCHANGED restoreVars /\ crashes' = crashes
        /\ draft' = IF reading \in {"commits", "refs"} THEN [draft EXCEPT !.torn = TRUE]
                                                       ELSE draft
    BY DEF Write
  <1>4. FilesInv' /\ FilesGrow
    BY <1>1, <1>2, <1>3, FilesStay, SameFilesGrow
  <1>5. /\ draft' \in [tables : Tables, bare : BOOLEAN, torn : BOOLEAN] /\ draft'.tables = draft.tables
        /\ draft'.bare = draft.bare
        /\ reading \in {"commits", "refs"} => draft'.torn
        /\ reading = "write" => draft' = draft
    BY <1>1, <1>3 DEF DraftInv
  <1>6. DraftInv'
    <2>1. PICK t : t = draft.tables
      OBVIOUS
    <2>2. t.commits \subseteq 1 .. Len(commits) /\ t.commits \subseteq 1 .. Len(commits')
      BY <1>1, <1>2, <2>1 DEF DraftInv, Grows
    <2>3. \A d \in t.commits : commits'[d] = commits[d]
      BY <1>2, <2>2 DEF Grows
    <2>4. Has(t.commits, t.prompts) => Has(t.commits, t.prompts)'
      BY <2>3 DEF Has
    <2>5. Has(1 .. Len(commits), t.prompts) => Has(1 .. Len(commits), t.prompts)'
      BY <1>2 DEF Has, Grows
    <2>6. PointsInside(t) => PointsInside(t)'
      BY <2>3 DEF PointsInside, Closed
    <2> QED
      BY <1>1, <1>3, <1>5, <2>1, <2>2, <2>4, <2>5, <2>6 DEF DraftInv
  <1>7. crashes' \in 0 .. MaxCrashes
    BY <1>1, <1>3 DEF RestoreInv
  <1> QED
    BY <1>2, <1>3, <1>4, <1>6, <1>7, RestoreStays

(* A step of a backup that writes no file.  *)
LEMMA BackupStep ==
    ASSUME Inv, UNCHANGED liveVars, files' = files, DraftInv', UNCHANGED restoreVars,
           crashes' \in 0 .. MaxCrashes
    PROVE  Inv'
  <1>1. LiveInv' /\ Grows
    BY LiveSame DEF Inv
  <1>2. FilesInv' /\ FilesGrow
    BY <1>1, FilesStay, SameFilesGrow DEF Inv
  <1> QED
    BY <1>1, <1>2, RestoreStays

(* A step that adds a file.  *)
LEMMA AddStep ==
    ASSUME Inv, UNCHANGED liveVars, NEW f \in File, FileOK(f), files' = Append(files, f),
           DraftInv', UNCHANGED restoreVars, crashes' \in 0 .. MaxCrashes
    PROVE  Inv'
  <1>1. LiveInv' /\ Grows
    BY LiveSame DEF Inv
  <1>2. FilesInv' /\ FilesGrow
    BY <1>1, FileAdded DEF Inv, FilesGrow
  <1> QED
    BY <1>1, <1>2, RestoreStays

(* The same draft, over the same database, at a step it is right for.  *)
LEMMA DraftSame ==
    ASSUME DraftInv, UNCHANGED liveVars, draft' = draft, reading' \in {"idle", "prompts"}
    PROVE  DraftInv'
  BY DEF DraftInv, liveVars

(* Nothing read yet is the right draft of an idle backup.  *)
LEMMA BlankDraft ==
    ASSUME draft' = NothingRead, reading' = "idle"
    PROVE  DraftInv'
  <1>1. Blank \in Tables /\ Blank.commits = {}
    BY DEF Blank, Tables
  <1> QED
    BY <1>1 DEF DraftInv, NothingRead

LEMMA StartBackupStep ==
    ASSUME Inv, StartBackup
    PROVE  Inv'
  <1>1. DraftInv'
    BY DraftSame DEF Inv, StartBackup, TableAfter
  <1> QED
    BY <1>1, BackupStep DEF Inv, RestoreInv, StartBackup

LEMMA ReadTableStep ==
    ASSUME Inv, ReadTable
    PROVE  Inv'
  <1>1. LiveInv /\ DraftInv /\ commits' = commits
    BY DEF Inv, ReadTable, liveVars
  <1>2. /\ Live \in Tables /\ Live.commits = 1 .. Len(commits) /\ Live.refs = refs
        /\ \A b \in Branch : refs[b] \in 0 .. Len(commits)
        /\ Len(commits) \in Nat
    BY <1>1, LiveTypes DEF LiveInv, Live
  <1>3. draft \in [tables : Tables, bare : BOOLEAN, torn : BOOLEAN]
    BY <1>1 DEF DraftInv
  <1>4. Closed(1 .. Len(commits))
    <2> SUFFICES ASSUME NEW d \in 1 .. Len(commits)
                 PROVE  /\ commits[d].parent \in (1 .. Len(commits)) \cup {0}
                        /\ commits[d].parent2 \in (1 .. Len(commits)) \cup {0}
      BY DEF Closed
    <2>1. commits[d] \in H!Commit
      BY <1>1, LiveTypes DEF LiveInv
    <2>2. commits[d].parent < d /\ commits[d].parent2 < d
      BY <1>1 DEF LiveInv
    <2> QED
      BY <1>2, <2>1, <2>2 DEF H!Commit
  <1>5. ASSUME reading = "prompts" PROVE DraftInv'
    <2>1. draft' = [draft EXCEPT !.tables = [draft.tables EXCEPT !.prompts = Live.prompts],
                                 !.bare = Bare]
          /\ reading' = "commits"
      BY <1>3, <1>5 DEF ReadTable, TableAfter, Tables
    <2>2. draft' \in [tables : Tables, bare : BOOLEAN, torn : BOOLEAN]
          /\ draft'.tables.prompts = Live.prompts /\ draft'.tables.commits = draft.tables.commits
          /\ draft'.bare = Bare
      BY <1>2, <1>3, <2>1 DEF Tables, Bare
    <2>3. ~draft'.bare => Has(1 .. Len(commits), draft.tables.prompts)'
      BY <1>1, <2>2 DEF LiveInv, Has
    <2> QED
      BY <1>1, <2>1, <2>2, <2>3 DEF DraftInv
  <1>6. ASSUME reading = "commits" PROVE DraftInv'
    <2>1. draft' = [draft EXCEPT !.tables = [draft.tables EXCEPT !.commits = Live.commits]]
          /\ reading' = "refs"
      BY <1>3, <1>6 DEF ReadTable, TableAfter, Tables
    <2>2. draft' \in [tables : Tables, bare : BOOLEAN, torn : BOOLEAN]
          /\ draft'.tables.prompts = draft.tables.prompts /\ draft'.bare = draft.bare
          /\ draft'.tables.commits = 1 .. Len(commits)
      BY <1>2, <1>3, <2>1 DEF Tables
    <2>3. ~draft'.bare => Has(draft.tables.commits, draft.tables.prompts)'
      BY <1>1, <1>6, <2>2 DEF DraftInv, Has
    <2> QED
      BY <1>1, <2>1, <2>2, <2>3 DEF DraftInv
  <1>7. ASSUME reading = "refs" PROVE DraftInv'
    <2>1. draft' = [draft EXCEPT !.tables = [draft.tables EXCEPT !.refs = Live.refs]]
          /\ reading' = "write"
      BY <1>3, <1>7 DEF ReadTable, TableAfter, Tables
    <2>2. draft' \in [tables : Tables, bare : BOOLEAN, torn : BOOLEAN] /\ draft'.torn = draft.torn
          /\ draft'.tables.prompts = draft.tables.prompts /\ draft'.bare = draft.bare
          /\ draft'.tables.commits = draft.tables.commits
          /\ draft'.tables.refs = refs
      BY <1>2, <1>3, <2>1 DEF Tables
    <2>3. ~draft'.bare => Has(draft.tables.commits, draft.tables.prompts)'
      BY <1>1, <1>7, <2>2 DEF DraftInv, Has
    <2>4. ~draft'.torn => PointsInside(draft.tables)'
      BY <1>1, <1>2, <1>4, <1>7, <2>2 DEF DraftInv, PointsInside, Closed
    <2> QED
      BY <1>1, <2>1, <2>2, <2>3, <2>4 DEF DraftInv
  <1>8. DraftInv'
    <2>1. reading = "prompts" \/ reading = "commits" \/ reading = "refs"
      BY Zenon DEF ReadTable
    <2> QED
      BY <1>5, <1>6, <1>7, <2>1
  <1> QED
    BY <1>8, BackupStep DEF Inv, RestoreInv, ReadTable

LEMMA WriteFileStep ==
    ASSUME Inv, WriteFile
    PROVE  Inv'
  <1> DEFINE f == [tables |-> draft.tables, kind |-> "backup",
                   bare |-> draft.bare, torn |-> draft.torn, cut |-> FALSE]
  <1>1. DraftInv /\ reading = "write" /\ files' = Append(files, f)
    BY DEF Inv, WriteFile
  <1>2. f \in File
    BY <1>1 DEF DraftInv, File
  <1>3. FileOK(f)
    BY <1>1, <1>2 DEF DraftInv, FileOK
  <1>4. DraftInv'
    BY BlankDraft DEF WriteFile
  <1> HIDE DEF f
  <1> QED
    BY <1>1, <1>2, <1>3, <1>4, AddStep DEF Inv, RestoreInv, WriteFile

(* A file cut short has pointers only if it has all the commits.  *)
LEMMA StopBackupStep ==
    ASSUME Inv, StopBackup
    PROVE  Inv'
  <1>1. DraftInv /\ RestoreInv /\ UNCHANGED liveVars /\ UNCHANGED restoreVars
    BY DEF Inv, StopBackup
  <1>2. crashes' \in 0 .. MaxCrashes
    BY <1>1, BackupAssumption DEF StopBackup, RestoreInv
  <1>3. DraftInv'
    BY BlankDraft DEF StopBackup
  <1>4. CASE reading # "write"
    <2>1. files' = files
      BY <1>4 DEF StopBackup
    <2> QED
      BY <1>1, <1>2, <1>3, <2>1, BackupStep
  <1>5. CASE reading = "write"
    <2>1. PICK t \in Prefix(draft.tables) :
              files' = Append(files, [tables |-> t, kind |-> "backup",
                                      bare |-> TRUE, torn |-> draft.torn, cut |-> TRUE])
      BY <1>5 DEF StopBackup
    <2> DEFINE f == [tables |-> t, kind |-> "backup", bare |-> TRUE, torn |-> draft.torn,
                     cut |-> TRUE]
    <2>2. draft \in [tables : Tables, bare : BOOLEAN, torn : BOOLEAN]
          /\ draft.tables.commits \subseteq 1 .. Len(commits)
          /\ (~draft.torn => PointsInside(draft.tables))
      BY <1>1, <1>5 DEF DraftInv
    <2>3. /\ t \in Tables
          /\ t.commits \subseteq draft.tables.commits
          /\ \/ \A b \in Branch : t.refs[b] = 0
             \/ /\ t.commits = draft.tables.commits
                /\ \A b \in Branch : t.refs[b] \in {0, draft.tables.refs[b]}
      <3>1. CASE \E cs \in SUBSET draft.tables.commits : t = [Blank EXCEPT !.commits = cs]
        BY <2>2, <3>1 DEF Blank, Tables
      <3>2. CASE \E bs \in SUBSET Branch :
                    t = [Blank EXCEPT !.commits = draft.tables.commits,
                            !.refs = [b \in Branch |-> IF b \in bs THEN draft.tables.refs[b] ELSE 0]]
        <4>1. PICK bs \in SUBSET Branch :
                    t = [Blank EXCEPT !.commits = draft.tables.commits,
                            !.refs = [b \in Branch |-> IF b \in bs THEN draft.tables.refs[b] ELSE 0]]
          BY <3>2
        <4>2. draft.tables.refs \in [Branch -> Nat] /\ draft.tables.commits \in SUBSET Nat
          BY <2>2 DEF Tables
        <4>3. t = [prompts |-> NoPrompt, commits |-> draft.tables.commits,
                   refs |-> [b \in Branch |-> IF b \in bs THEN draft.tables.refs[b] ELSE 0]]
          BY <4>1 DEF Blank
        <4> QED
          BY <4>2, <4>3 DEF Tables
      <3> QED
        BY <2>1, <3>1, <3>2 DEF Prefix
    <2>4. f \in File
      BY <2>2, <2>3 DEF File
    <2>5. ~draft.torn => PointsInside(t)
      BY <2>2, <2>3 DEF PointsInside
    <2>6. FileOK(f)
      BY <2>2, <2>3, <2>4, <2>5 DEF FileOK
    <2>7. files' = Append(files, f)
      BY <2>1
    <2> HIDE DEF f
    <2> QED
      BY <1>1, <1>2, <1>3, <2>4, <2>6, <2>7, AddStep
  <1> QED
    BY <1>4, <1>5

LEMMA ExportStep ==
    ASSUME Inv, Export
    PROVE  Inv'
  <1> DEFINE f == [tables |-> [Blank EXCEPT !.prompts = Live.prompts], kind |-> "export",
                   bare |-> TRUE, torn |-> FALSE, cut |-> FALSE]
  <1>1. Live \in Tables
    BY LiveTypes DEF Inv, LiveInv
  <1>2. f.tables = [prompts |-> Live.prompts, commits |-> {}, refs |-> [b \in Branch |-> 0]]
    BY DEF Blank
  <1>3. f.tables \in Tables
    BY <1>1, <1>2 DEF Tables
  <1>4. f \in File
    BY <1>3 DEF File
  <1>5. FileOK(f)
    BY <1>2, <1>4 DEF FileOK, PointsInside
  <1>6. files' = Append(files, f) /\ UNCHANGED liveVars
    BY DEF Export
  <1>7. DraftInv'
    BY DraftSame DEF Inv, Export
  <1> HIDE DEF f
  <1> QED
    BY <1>4, <1>5, <1>6, <1>7, AddStep DEF Inv, RestoreInv, Export

-----------------------------------------------------------------------------
(* Steps of a restore.  *)

LEMMA RestoreStep ==
    ASSUME Inv, UNCHANGED liveVars, UNCHANGED backupVars, RestoreInv',
           target'.commits \subseteq 1 .. Len(commits),
           PointersHaveHistory', RestoredHoldsBackup', HistoriesStayApart'
    PROVE  Inv'
  <1>1. LiveInv' /\ Grows /\ commits' = commits
    BY LiveSame DEF Inv, liveVars
  <1>2. FilesInv'
    BY <1>1, FilesStay DEF Inv, backupVars
  <1>3. DraftInv'
    BY <1>1 DEF Inv, DraftInv, backupVars, PointsInside, Closed, Has
  <1> QED
    BY <1>1, <1>2, <1>3 DEF Inv

(* A restore leaves the pointers it does not put, and the commits.  *)
LEMMA PointersStay ==
    ASSUME Inv, UNCHANGED liveVars, UNCHANGED backupVars,
           target' \in Tables, target.commits \subseteq target'.commits,
           \A b \in Branch :
              \/ target'.refs[b] = target.refs[b]
              \/ (\A f \in 1 .. Len(files) : ~files[f].torn) =>
                    HasHistory(target'.refs[b], target'.commits)
    PROVE  PointersHaveHistory'
  <1>1. files' = files /\ commits' = commits /\ Grows
    BY LiveSame DEF backupVars, liveVars, Inv
  <1> SUFFICES ASSUME \A f \in 1 .. Len(files) : ~files[f].torn,
                      NEW b \in Branch, target'.refs[b] # 0
               PROVE  HasHistory(target'.refs[b], target'.commits)
    BY <1>1 DEF PointersHaveHistory, HasHistory
  <1>2. CASE target'.refs[b] = target.refs[b]
    <2>1. HasHistory(target.refs[b], target.commits)
      BY <1>2 DEF Inv, PointersHaveHistory
    <2>2. PICK A \in SUBSET target.commits :
              /\ target.refs[b] \in A
              /\ \A d \in A : {commits[d].parent, commits[d].parent2} \subseteq A \cup {0}
      BY <2>1 DEF HasHistory
    <2>3. A \in SUBSET target'.commits
      BY <2>2
    <2> QED
      BY <1>2, <2>2, <2>3 DEF HasHistory
  <1> QED
    BY <1>2

(* What a running restore knows of its file.  *)
LEMMA PendingFile ==
    ASSUME Inv, pending.file # 0
    PROVE  /\ pending.file \in 1 .. Len(files)
           /\ FileOK(files[pending.file])
           /\ files[pending.file].tables \in Tables
           /\ InOrPending(files[pending.file].tables)
           /\ target \in Tables
           /\ last # 0 => last = pending.file /\ Holds(files[pending.file].tables)
           /\ ~forced => target.commits \subseteq files[pending.file].tables.commits
  <1>1. pending.file \in 1 .. Len(files)
    BY DEF Inv, RestoreInv
  <1>2. FileOK(files[pending.file])
    BY <1>1 DEF Inv, FilesInv
  <1>3. files[pending.file].tables \in Tables
    BY <1>2 DEF FileOK, File
  <1> QED
    BY <1>1, <1>2, <1>3 DEF Inv, RestoreInv, RestoredHoldsBackup, HistoriesStayApart

LEMMA StartRestoreStep ==
    ASSUME Inv, StartRestore
    PROVE  Inv'
  <1>1. PICK f \in 1 .. Len(files), force \in BOOLEAN :
          /\ MayRestore(force)
          /\ pending' = [file |-> f,
                         commits |-> files[f].tables.commits,
                         refs |-> {b \in Branch : files[f].tables.refs[b] # 0},
                         prompts |-> files[f].tables.prompts # NoPrompt]
          /\ forced' = force
          /\ last' = IF f = last THEN f ELSE 0
    BY DEF StartRestore
  <1>2. /\ UNCHANGED liveVars /\ UNCHANGED backupVars /\ target' = target
        /\ files' = files /\ crashes' = crashes
    BY DEF StartRestore, backupVars
  <1>3. /\ RestoreInv /\ target \in Tables /\ target.commits \subseteq 1 .. Len(commits)
        /\ RestoredHoldsBackup /\ Len(files) \in Nat
    BY DEF Inv, RestoreInv, FilesInv
  <1>4. files[f].tables \in Tables
    BY DEF Inv, FilesInv, FileOK, File
  <1>5. files[f].tables.commits \in SUBSET Nat
    BY <1>4 DEF Tables
  <1>6. pending' \in [file : 0 .. Len(files), commits : SUBSET Nat,
                      refs : SUBSET Branch, prompts : BOOLEAN]
        /\ pending'.file = f /\ f # 0
    BY <1>1, <1>3, <1>5
  <1>7. InOrPending(files[pending.file].tables)'
    BY <1>1, <1>2 DEF InOrPending
  <1>8. RestoreInv'
    BY <1>1, <1>2, <1>3, <1>6, <1>7 DEF RestoreInv
  <1>9. PointersHaveHistory'
    BY <1>2, <1>3, PointersStay
  <1>10. RestoredHoldsBackup'
    BY <1>1, <1>2, <1>3 DEF RestoredHoldsBackup, Holds
  <1>11. HistoriesStayApart'
    BY <1>1, <1>2, <1>6 DEF HistoriesStayApart, MayRestore
  <1> QED
    BY <1>2, <1>3, <1>8, <1>9, <1>10, <1>11, RestoreStep

LEMMA PutCommitStep ==
    ASSUME Inv, PutCommit
    PROVE  Inv' /\ (last # 0 => target' = target)
  <1>1. PICK c \in pending.commits :
          /\ pending' = [pending EXCEPT !.commits = @ \ {c}]
          /\ target' = [target EXCEPT !.commits = @ \cup {c}]
    BY DEF PutCommit
  <1>2. /\ UNCHANGED liveVars /\ UNCHANGED backupVars /\ forced' = forced /\ last' = last
        /\ files' = files /\ crashes' = crashes
    BY DEF PutCommit, backupVars
  <1>3. RestoreInv /\ target.commits \subseteq 1 .. Len(commits) /\ pending.file # 0
    BY DEF Inv, RestoreInv, NothingPending
  <1> DEFINE t == files[pending.file].tables
  <1>4. /\ FileOK(files[pending.file]) /\ t \in Tables /\ InOrPending(t) /\ target \in Tables
        /\ last # 0 => last = pending.file /\ Holds(t)
        /\ ~forced => target.commits \subseteq t.commits
    BY <1>3, PendingFile
  <1>5. c \in t.commits /\ c \in 1 .. Len(commits) /\ c \in Nat
    BY <1>4 DEF InOrPending, FileOK
  <1>6. /\ target' \in Tables /\ target'.commits = target.commits \cup {c}
        /\ target'.refs = target.refs /\ target'.prompts = target.prompts
    BY <1>1, <1>4, <1>5 DEF Tables
  <1>7. /\ pending' \in [file : 0 .. Len(files), commits : SUBSET Nat,
                         refs : SUBSET Branch, prompts : BOOLEAN]
        /\ pending'.file = pending.file /\ pending'.commits = pending.commits \ {c}
        /\ pending'.refs = pending.refs /\ pending'.prompts = pending.prompts
    BY <1>1, <1>3 DEF RestoreInv
  <1>8. InOrPending(files[pending.file].tables)'
    BY <1>2, <1>4, <1>6, <1>7 DEF InOrPending
  <1>9. RestoreInv'
    BY <1>2, <1>3, <1>6, <1>7, <1>8 DEF RestoreInv
  <1>10. PointersHaveHistory'
    BY <1>2, <1>6, PointersStay
  <1>11. RestoredHoldsBackup'
    BY <1>2, <1>4, <1>6 DEF RestoredHoldsBackup, Holds
  <1>12. HistoriesStayApart'
    BY <1>2, <1>4, <1>5, <1>6, <1>7 DEF HistoriesStayApart
  <1>13. last # 0 => target' = target
    <2>1. last # 0 => c \in target.commits
      BY <1>4, <1>5 DEF Holds
    <2> QED
      BY <1>1, <1>4, <2>1 DEF Tables
  <1> QED
    BY <1>2, <1>3, <1>5, <1>6, <1>9, <1>10, <1>11, <1>12, <1>13, RestoreStep

LEMMA PutRefStep ==
    ASSUME Inv, PutRef
    PROVE  Inv' /\ (last # 0 => target' = target)
  <1> DEFINE t == files[pending.file].tables
  <1>1. PICK b \in pending.refs :
          /\ pending' = [pending EXCEPT !.refs = @ \ {b}]
          /\ target' = [target EXCEPT !.refs[b] = t.refs[b]]
    BY DEF PutRef, Repoint
  <1>2. /\ UNCHANGED liveVars /\ UNCHANGED backupVars /\ forced' = forced /\ last' = last
        /\ files' = files /\ crashes' = crashes /\ pending.commits = {}
    BY DEF PutRef, backupVars, CommitsAreIn
  <1>3. RestoreInv /\ target.commits \subseteq 1 .. Len(commits) /\ pending.file # 0
    BY DEF Inv, RestoreInv, NothingPending
  <1>4. /\ FileOK(files[pending.file]) /\ t \in Tables /\ InOrPending(t) /\ target \in Tables
        /\ pending.file \in 1 .. Len(files)
        /\ last # 0 => last = pending.file /\ Holds(t)
        /\ ~forced => target.commits \subseteq t.commits
    BY <1>3, PendingFile
  <1>5. b \in Branch /\ t.refs[b] \in Nat /\ t.refs[b] # 0
        /\ target.refs \in [Branch -> Nat] /\ t.commits \subseteq target.commits
    BY <1>2, <1>3, <1>4 DEF RestoreInv, InOrPending, Tables
  <1>6. /\ target' \in Tables /\ target'.commits = target.commits
        /\ target'.refs = [target.refs EXCEPT ![b] = t.refs[b]]
        /\ target'.prompts = target.prompts
    BY <1>1, <1>4, <1>5 DEF Tables
  <1>7. /\ pending' \in [file : 0 .. Len(files), commits : SUBSET Nat,
                         refs : SUBSET Branch, prompts : BOOLEAN]
        /\ pending'.file = pending.file /\ pending'.commits = pending.commits
        /\ pending'.refs = pending.refs \ {b} /\ pending'.prompts = pending.prompts
    BY <1>1, <1>3 DEF RestoreInv
  <1>8. InOrPending(files[pending.file].tables)'
    <2> HIDE DEF t
    <2>1. \A a \in Branch : t.refs[a] # 0 => a \in pending'.refs \/ target'.refs[a] = t.refs[a]
      BY <1>4, <1>5, <1>6, <1>7 DEF InOrPending
    <2>2. InOrPending(t)
      BY <1>4
    <2> USE DEF t
    <2> QED
      BY <1>2, <1>6, <1>7, <2>1, <2>2 DEF InOrPending
  <1>9. RestoreInv'
    BY <1>2, <1>3, <1>6, <1>7, <1>8 DEF RestoreInv
  <1>10. PointersHaveHistory'
    <2>1. ASSUME \A f \in 1 .. Len(files) : ~files[f].torn
          PROVE  HasHistory(t.refs[b], target.commits)
      <3>1. t.refs[b] \in t.commits /\ Closed(t.commits)
        BY <1>4, <1>5, <2>1 DEF FileOK, PointsInside
      <3>2. t.commits \in SUBSET target.commits
        BY <1>5
      <3> QED
        BY <3>1, <3>2 DEF HasHistory, Closed
    <2>2. \A a \in Branch : a # b => target'.refs[a] = target.refs[a]
      BY <1>5, <1>6
    <2>3. target'.refs[b] = t.refs[b]
      BY <1>5, <1>6
    <2> HIDE DEF t
    <2> QED
      BY <1>2, <1>6, <2>1, <2>2, <2>3, PointersStay
  <1>11. RestoredHoldsBackup'
    <2>1. last # 0 => /\ t.commits \subseteq target'.commits
                      /\ \A a \in Branch : t.refs[a] # 0 => target'.refs[a] = t.refs[a]
                      /\ t.prompts # NoPrompt => target'.prompts = t.prompts
      BY <1>4, <1>5, <1>6 DEF Holds
    <2> QED
      BY <1>2, <1>4, <2>1 DEF RestoredHoldsBackup, Holds
  <1>12. HistoriesStayApart'
    BY <1>2, <1>4, <1>6, <1>7 DEF HistoriesStayApart
  <1>13. last # 0 => target' = target
    <2>1. last # 0 => target.refs[b] = t.refs[b]
      BY <1>4, <1>5 DEF Holds
    <2>2. last # 0 => target'.refs = target.refs
      BY <1>5, <1>6, <2>1
    <2> QED
      BY <1>4, <1>6, <2>2 DEF Tables
  <1> QED
    BY <1>2, <1>3, <1>6, <1>9, <1>10, <1>11, <1>12, <1>13, RestoreStep

LEMMA PutPromptStep ==
    ASSUME Inv, PutPrompt
    PROVE  Inv' /\ (last # 0 => target' = target)
  <1> DEFINE t == files[pending.file].tables
  <1>1. /\ pending' = [pending EXCEPT !.prompts = FALSE]
        /\ target' = [target EXCEPT !.prompts = t.prompts]
        /\ UNCHANGED liveVars /\ UNCHANGED backupVars /\ forced' = forced /\ last' = last
        /\ files' = files /\ crashes' = crashes
    BY DEF PutPrompt, backupVars
  <1>2. RestoreInv /\ target.commits \subseteq 1 .. Len(commits) /\ pending.file # 0
    BY DEF Inv, RestoreInv, NothingPending, PutPrompt
  <1>3. /\ t \in Tables /\ InOrPending(t) /\ target \in Tables
        /\ last # 0 => last = pending.file /\ Holds(t)
        /\ ~forced => target.commits \subseteq t.commits
    BY <1>2, PendingFile
  <1>4. /\ target' \in Tables /\ target'.commits = target.commits
        /\ target'.refs = target.refs /\ target'.prompts = t.prompts
    BY <1>1, <1>3 DEF Tables
  <1>5. /\ pending' \in [file : 0 .. Len(files), commits : SUBSET Nat,
                         refs : SUBSET Branch, prompts : BOOLEAN]
        /\ pending'.file = pending.file /\ pending'.commits = pending.commits
        /\ pending'.refs = pending.refs
    BY <1>1, <1>2 DEF RestoreInv
  <1>6. InOrPending(files[pending.file].tables)'
    BY <1>1, <1>3, <1>4, <1>5 DEF InOrPending
  <1>7. RestoreInv'
    BY <1>1, <1>2, <1>4, <1>5, <1>6 DEF RestoreInv
  <1>8. PointersHaveHistory'
    BY <1>1, <1>4, PointersStay
  <1>9. RestoredHoldsBackup'
    BY <1>1, <1>3, <1>4 DEF RestoredHoldsBackup, Holds
  <1>10. HistoriesStayApart'
    BY <1>1, <1>3, <1>4, <1>5 DEF HistoriesStayApart
  <1>11. last # 0 => target' = target
    <2>1. t.prompts # NoPrompt
      BY <1>3 DEF PutPrompt, InOrPending
    <2> QED
      BY <1>1, <1>3, <2>1 DEF Holds, Tables
  <1> QED
    BY <1>1, <1>2, <1>4, <1>7, <1>8, <1>9, <1>10, <1>11, RestoreStep

LEMMA FinishRestoreStep ==
    ASSUME Inv, FinishRestore
    PROVE  Inv' /\ target' = target
  <1> DEFINE t == files[pending.file].tables
  <1>1. /\ UNCHANGED liveVars /\ UNCHANGED backupVars /\ forced' = FALSE /\ target' = target
        /\ files' = files /\ crashes' = crashes /\ last' = pending.file
        /\ pending' = NothingPending /\ pending.file # 0
    BY DEF FinishRestore, backupVars
  <1>2. /\ RestoreInv /\ target.commits \subseteq 1 .. Len(commits)
    BY DEF Inv
  <1>3. pending.file \in 1 .. Len(files) /\ InOrPending(t) /\ target \in Tables
    BY <1>1, PendingFile
  <1>4. Holds(t)
    BY <1>3 DEF FinishRestore, RefsAreIn, InOrPending, Holds
  <1>5. RestoreInv'
    <2>1. pending' \in [file : 0 .. Len(files'), commits : SUBSET Nat,
                        refs : SUBSET Branch, prompts : BOOLEAN]
          /\ pending'.file = 0
      BY <1>1, <1>3 DEF NothingPending
    <2> QED
      BY <1>1, <1>2, <1>3, <2>1 DEF RestoreInv
  <1>6. PointersHaveHistory'
    BY <1>1, <1>3, PointersStay
  <1>7. RestoredHoldsBackup'
    BY <1>1, <1>4 DEF RestoredHoldsBackup, Holds
  <1>8. HistoriesStayApart'
    BY <1>1 DEF HistoriesStayApart, NothingPending
  <1> QED
    BY <1>1, <1>2, <1>5, <1>6, <1>7, <1>8, RestoreStep

LEMMA StopRestoreStep ==
    ASSUME Inv, StopRestore
    PROVE  Inv' /\ target' = target
  <1>1. /\ UNCHANGED liveVars /\ UNCHANGED backupVars /\ forced' = FALSE /\ target' = target
        /\ files' = files /\ last' = last /\ pending' = NothingPending
        /\ crashes' = crashes + 1 /\ crashes < MaxCrashes
    BY DEF StopRestore, backupVars
  <1>2. /\ RestoreInv /\ target.commits \subseteq 1 .. Len(commits) /\ target \in Tables
        /\ RestoredHoldsBackup /\ Len(files) \in Nat
    BY DEF Inv, RestoreInv, FilesInv
  <1>3. RestoreInv'
    <2>1. crashes' \in 0 .. MaxCrashes
      BY <1>1, <1>2, BackupAssumption DEF RestoreInv
    <2>2. pending' \in [file : 0 .. Len(files'), commits : SUBSET Nat,
                        refs : SUBSET Branch, prompts : BOOLEAN]
          /\ pending'.file = 0
      BY <1>1, <1>2 DEF NothingPending
    <2> QED
      BY <1>1, <1>2, <2>1, <2>2 DEF RestoreInv
  <1>4. PointersHaveHistory'
    BY <1>1, <1>2, PointersStay
  <1>5. RestoredHoldsBackup'
    BY <1>1, <1>2 DEF RestoredHoldsBackup, Holds
  <1>6. HistoriesStayApart'
    BY <1>1 DEF HistoriesStayApart, NothingPending
  <1> QED
    BY <1>1, <1>2, <1>3, <1>4, <1>5, <1>6, RestoreStep

-----------------------------------------------------------------------------

LEMMA InitInv == Init => Inv
  <1> SUFFICES ASSUME Init PROVE Inv
    OBVIOUS
  <1>1. ASSUME \E v \in Version : H!Holding(v) PROVE LiveInv
    <2>1. PICK v \in Version : H!Holding(v)
      BY <1>1
    <2>2. /\ commits = <<[version |-> v, parent |-> 0, parent2 |-> 0]>>
          /\ rows = <<[version |-> v, commit |-> 1]>>
          /\ refs = [b \in Branch |-> IF b = "main" THEN 1 ELSE 0]
      BY <2>1 DEF H!Holding
    <2>3. /\ [version |-> v, parent |-> 0, parent2 |-> 0] \in H!Commit
          /\ [version |-> v, commit |-> 1] \in H!Row
      BY DEF H!Commit, H!Row
    <2>4. /\ commits \in Seq(H!Commit) /\ Len(commits) = 1 /\ commits[1].version = v
          /\ commits[1].parent = 0 /\ commits[1].parent2 = 0
      BY <2>2, <2>3
    <2>5. rows \in Seq(H!Row) /\ rows # <<>> /\ Len(rows) = 1 /\ rows[1].version = v
      BY <2>2, <2>3
    <2>6. H!HistoryTypeOK
      BY <2>2, <2>4, <2>5 DEF H!HistoryTypeOK
    <2> QED
      BY <2>4, <2>5, <2>6 DEF LiveInv, Has, Live, Bare
  <1>2. ASSUME H!Empty PROVE LiveInv
    <2>1. [version |-> NoPrompt, commit |-> 0] \in H!Row
      BY DEF H!Row
    <2>2. commits \in Seq(H!Commit) /\ Len(commits) = 0
      BY <1>2 DEF H!Empty
    <2>3. rows \in Seq(H!Row) /\ rows # <<>> /\ Len(rows) = 1 /\ rows[1].commit = 0
      BY <1>2, <2>1 DEF H!Empty
    <2>4. refs \in [Branch -> 0 .. Len(commits)]
      BY <1>2, <2>2 DEF H!Empty
    <2>5. H!HistoryTypeOK
      BY <2>2, <2>3, <2>4 DEF H!HistoryTypeOK
    <2>6. Bare /\ \A c \in 1 .. Len(commits) : commits[c].parent < c /\ commits[c].parent2 < c
      BY <2>2, <2>3 DEF Bare
    <2> QED
      BY <2>5, <2>6 DEF LiveInv
  <1>7. LiveInv
    <2>1. H!Init
      BY DEF Init
    <2> QED
      BY <1>1, <1>2, <2>1 DEF H!Init
  <1>8. Blank \in Tables /\ Blank.commits = {} /\ \A b \in Branch : Blank.refs[b] = 0
    BY DEF Blank, Tables
  <1>9. DraftInv
    BY <1>8 DEF Init, DraftInv, NothingRead
  <1>10. files = <<>> /\ files \in Seq(File) /\ Len(files) = 0
    BY DEF Init
  <1>11. FilesInv
    BY <1>10 DEF FilesInv
  <1>12. RestoreInv
    <2>1. NothingPending \in [file : 0 .. Len(files), commits : SUBSET Nat,
                              refs : SUBSET Branch, prompts : BOOLEAN]
          /\ NothingPending.file = 0
      BY <1>10 DEF NothingPending
    <2>2. pending = NothingPending /\ forced = FALSE /\ target = Blank /\ last = 0 /\ crashes = 0
      BY DEF Init
    <2>3. crashes \in 0 .. MaxCrashes
      <3>1. crashes = 0
        BY DEF Init
      <3> QED
        BY <3>1, BackupAssumption
    <2>4. last \in 0 .. Len(files)
      <3>1. last = 0
        BY DEF Init
      <3> QED
        BY <3>1, <1>10
    <2>5. forced \in BOOLEAN
      BY DEF Init
    <2>6. target \in Tables
      BY <2>2, <1>8
    <2>7. pending \in [file : 0 .. Len(files), commits : SUBSET Nat,
                       refs : SUBSET Branch, prompts : BOOLEAN] /\ pending.file = 0
      BY <2>1, <2>2
    <2> QED
      BY <2>2, <2>3, <2>4, <2>5, <2>6, <2>7 DEF RestoreInv
  <1>13. PointersHaveHistory /\ RestoredHoldsBackup /\ HistoriesStayApart
    BY <1>8 DEF Init, PointersHaveHistory, RestoredHoldsBackup, HistoriesStayApart,
                NothingPending
  <1> QED
    BY <1>7, <1>8, <1>9, <1>11, <1>12, <1>13 DEF Init, Inv

(* Every step keeps the invariant, and leaves a database that was restored *)
(* from a file, and still counts as such, as it is.                        *)
LEMMA StepInv ==
    ASSUME Inv, [Next]_vars
    PROVE  Inv' /\ (last # 0 /\ last' = last => target' = target)
  <1>1. CASE Write
    BY <1>1, WriteStep DEF Write, restoreVars
  <1>2. CASE StartBackup
    BY <1>2, StartBackupStep DEF StartBackup, restoreVars
  <1>3. CASE ReadTable
    BY <1>3, ReadTableStep DEF ReadTable, restoreVars
  <1>4. CASE WriteFile
    BY <1>4, WriteFileStep DEF WriteFile, restoreVars
  <1>5. CASE StopBackup
    BY <1>5, StopBackupStep DEF StopBackup, restoreVars
  <1>6. CASE Export
    BY <1>6, ExportStep DEF Export, restoreVars
  <1>7. CASE StartRestore
    BY <1>7, StartRestoreStep DEF StartRestore
  <1>8. CASE PutCommit
    BY <1>8, PutCommitStep
  <1>9. CASE PutRef
    BY <1>9, PutRefStep
  <1>10. CASE PutPrompt
    BY <1>10, PutPromptStep
  <1>11. CASE FinishRestore
    BY <1>11, FinishRestoreStep
  <1>12. CASE StopRestore
    BY <1>12, StopRestoreStep
  <1>13. CASE UNCHANGED vars
    <2>1. /\ UNCHANGED liveVars /\ files' = files /\ reading' = reading /\ draft' = draft
          /\ UNCHANGED restoreVars /\ target' = target /\ crashes' = crashes
      BY <1>13 DEF vars, backupVars, restoreVars
    <2>2. DraftInv'
      BY <2>1 DEF Inv, DraftInv, liveVars, PointsInside, Closed, Has
    <2> QED
      BY <2>1, <2>2, BackupStep DEF Inv, RestoreInv
  <1> QED
    BY <1>1, <1>2, <1>3, <1>4, <1>5, <1>6, <1>7, <1>8, <1>9, <1>10, <1>11, <1>12, <1>13 DEF Next

LEMMA Invariance == Spec => []Inv
  <1>1. Inv /\ [Next]_vars => Inv'
    BY StepInv
  <1> QED
    BY InitInv, <1>1, PTL DEF Spec

(* backup.go 100-101: no branch of the restored database ever points at a  *)
(* commit without its history, unless a backup was torn by a writer.       *)
THEOREM RestoredPointersHaveHistory == Spec => []PointersHaveHistory
  <1>1. Inv => PointersHaveHistory
    BY DEF Inv
  <1> QED
    BY Invariance, <1>1, PTL

(* README.md 747-751: a restore that ran to its end left all of its file   *)
(* in the database, whatever went before.                                  *)
THEOREM RestoreIsComplete == Spec => []RestoredHoldsBackup
  <1>1. Inv => RestoredHoldsBackup
    BY DEF Inv
  <1> QED
    BY Invariance, <1>1, PTL

(* backup.go 66-73: what a whole backup serves is in the history it holds, *)
(* unless it was put into the live database as a bare line (192-205).      *)
THEOREM BackupsKeepServed == Spec => []ServedIsInHistory
  <1>1. Inv => ServedIsInHistory
    BY DEF Inv, FilesInv, FileOK, Has, ServedIsInHistory
  <1> QED
    BY Invariance, <1>1, PTL

(* README.md 751: restoring a file again never changes the database.       *)
THEOREM RestoreAgain == Spec => RestoreIsIdempotent
  <1>1. Inv /\ [Next]_vars => [last # 0 /\ last' = last => target' = target]_vars
    BY StepInv
  <1> QED
    BY Invariance, <1>1, PTL DEF Spec, RestoreIsIdempotent

-----------------------------------------------------------------------------
(* What an untorn backup serves.  *)

(* The tables t serve the tip of their main branch.  *)
Tip(t) == t.refs["main"] # 0 /\ commits[t.refs["main"]].version = t.prompts

FilesTip ==
    \A i \in 1 .. Len(files) :
        files[i].kind = "backup" /\ ~files[i].torn /\ ~files[i].cut /\ ~files[i].bare =>
            Tip(files[i].tables)

(* The live database does but for a bare row, so a backup that nobody      *)
(* writes beside does when it has read the pointers after the prompts.     *)
LiveTip == ~Bare => Tip(Live)

TipInv ==
    /\ LiveTip
    /\ reading \in {"commits", "refs"} /\ ~draft.torn =>
          draft.tables.prompts = Live.prompts /\ (draft.bare <=> Bare)
    /\ reading = "write" /\ ~draft.torn /\ ~draft.bare => Tip(draft.tables)
    /\ FilesTip

LEMMA MainIsBranch == "main" \in Branch
  BY BackupAssumption

LEMMA TipStays ==
    ASSUME Grows, NEW t, Tip(t), t.refs["main"] \in 1 .. Len(commits)
    PROVE  Tip(t)'
  BY DEF Tip, Grows

LEMMA PointToTip ==
    ASSUME LiveInv, Grows, LiveTip, NEW b \in Branch, NEW c \in 1 .. Len(commits'),
           H!PointTo(b, c)
    PROVE  LiveTip'
  <1>1. /\ refs \in [Branch -> 0 .. Len(commits)] /\ rows \in Seq(H!Row)
        /\ refs' = [refs EXCEPT ![b] = c] /\ c # 0
    BY DEF LiveInv, H!HistoryTypeOK, H!PointTo, Grows
  <1>2. CASE b = "main"
    <2>1. rows' = Append(rows, [version |-> commits'[c].version, commit |-> c])
      BY <1>2 DEF H!PointTo
    <2>2. rows'[Len(rows')] = [version |-> commits'[c].version, commit |-> c]
      BY <1>1, <2>1
    <2>3. refs'["main"] = c
      BY <1>1, <1>2
    <2> QED
      BY <1>1, <2>2, <2>3 DEF LiveTip, Tip, Live
  <1>3. CASE b # "main"
    <2>1. rows' = rows /\ refs'["main"] = refs["main"] /\ refs["main"] \in 0 .. Len(commits)
      BY <1>1, <1>3, MainIsBranch DEF H!PointTo
    <2> QED
      BY <2>1 DEF LiveTip, Tip, Live, Bare, Grows
  <1> QED
    BY <1>2, <1>3

LEMMA ChangeTip ==
    ASSUME LiveInv, LiveTip, Change
    PROVE  LiveTip'
  <1>1. Grows /\ Len(commits) \in Nat /\ commits \in Seq(H!Commit)
        /\ refs \in [Branch -> 0 .. Len(commits)]
    BY ChangeLive, LiveTypes DEF LiveInv, H!HistoryTypeOK
  <1>2. ASSUME NEW x, commits' = Append(commits, x)
        PROVE  Len(commits) + 1 \in 1 .. Len(commits')
    <2>1. Len(commits') = Len(commits) + 1
      BY <1>1, <1>2
    <2> QED
      BY <1>1, <2>1
  <1>3. ASSUME NEW b \in Branch, NEW v \in Version, H!Record(b, v) PROVE LiveTip'
    BY <1>1, <1>2, <1>3, PointToTip DEF H!Record
  <1>4. ASSUME NEW b \in Branch, NEW c \in 1 .. Len(commits), H!MergeIn(b, c) PROVE LiveTip'
    BY <1>1, <1>2, <1>4, PointToTip DEF H!MergeIn
  <1>5. ASSUME NEW b \in Branch, NEW c \in 1 .. Len(commits), H!PointAt(b, c) PROVE LiveTip'
    BY <1>1, <1>5, PointToTip DEF H!PointAt
  <1>6. ASSUME NEW b \in Branch, NEW f \in Branch, H!Fork(b, f) PROVE LiveTip'
    <2>1. commits' = commits /\ rows' = rows /\ refs' = [refs EXCEPT ![b] = refs[f]]
          /\ refs[b] = 0
      BY <1>6 DEF H!Fork
    <2>2. refs["main"] # 0 => refs'["main"] = refs["main"]
      BY <1>1, <2>1, MainIsBranch
    <2>3. LiveTip => refs["main"] # 0 \/ Bare
      BY DEF LiveTip, Tip, Live
    <2> QED
      BY <2>1, <2>2, <2>3 DEF LiveTip, Tip, Live, Bare
  <1>7. ASSUME NEW v \in Version, H!LoadRow(v) PROVE LiveTip'
    <2>1. rows' = Append(rows, [version |-> v, commit |-> 0]) /\ rows \in Seq(H!Row)
      BY <1>7 DEF H!LoadRow, LiveInv, H!HistoryTypeOK
    <2>2. rows'[Len(rows')] = [version |-> v, commit |-> 0]
      BY <2>1
    <2> QED
      BY <2>2 DEF LiveTip, Bare
  <1> QED
    BY <1>3, <1>4, <1>5, <1>6, <1>7 DEF Change

(* Steps that leave the live database and the files alone.  *)
LEMMA IdleTip ==
    ASSUME TipInv, UNCHANGED liveVars, files' = files
    PROVE  LiveTip' /\ FilesTip' /\ Live' = Live /\ Bare' = Bare
  <1>1. commits' = commits /\ refs' = refs /\ rows' = rows
    BY DEF liveVars
  <1>2. Live' = Live /\ Bare' = Bare
    BY <1>1 DEF Live, Bare
  <1>3. ASSUME NEW i \in 1 .. Len(files), Tip(files[i].tables) PROVE Tip(files[i].tables)'
    BY <1>1, <1>3 DEF Tip
  <1> QED
    BY <1>1, <1>2, <1>3 DEF TipInv, LiveTip, FilesTip, Tip

LEMMA WriteTip ==
    ASSUME Inv, TipInv, Write
    PROVE  TipInv'
  <1>1. Grows /\ LiveTip'
    BY ChangeLive, ChangeTip DEF Inv, TipInv, Write
  <1>2. files' = files /\ reading' = reading
        /\ draft' = IF reading \in {"commits", "refs"} THEN [draft EXCEPT !.torn = TRUE]
                                                       ELSE draft
    BY DEF Write
  <1>3. reading \in {"commits", "refs"} => draft'.torn
    BY <1>2 DEF Inv, DraftInv
  <1>4. ASSUME reading = "write", ~draft.torn, ~draft.bare
        PROVE  Tip(draft.tables)'
    <2>1. PICK t : t = draft.tables
      OBVIOUS
    <2>2. Tip(t) /\ PointsInside(t) /\ t.commits \subseteq 1 .. Len(commits)
      BY <1>4, <2>1 DEF TipInv, Inv, DraftInv
    <2>3. t.refs["main"] \in 1 .. Len(commits)
      BY <2>2, MainIsBranch DEF Tip, PointsInside
    <2>4. Tip(t)'
      BY <1>1, <2>2, <2>3, TipStays
    <2> QED
      BY <1>2, <1>4, <2>1, <2>4
  <1>5. FilesTip'
    <2> SUFFICES ASSUME NEW i \in 1 .. Len(files),
                        files[i].kind = "backup", ~files[i].torn, ~files[i].cut,
                        ~files[i].bare
                 PROVE  Tip(files[i].tables)'
      BY <1>2 DEF FilesTip
    <2>1. PICK t : t = files[i].tables
      OBVIOUS
    <2>2. Tip(t) /\ PointsInside(t) /\ t.commits \subseteq 1 .. Len(commits)
      BY <2>1 DEF TipInv, FilesTip, Inv, FilesInv, FileOK
    <2>3. t.refs["main"] \in 1 .. Len(commits)
      BY <2>2, MainIsBranch DEF Tip, PointsInside
    <2>4. Tip(t)'
      BY <1>1, <2>2, <2>3, TipStays
    <2> QED
      BY <1>2, <2>1, <2>4
  <1> QED
    BY <1>1, <1>2, <1>3, <1>4, <1>5 DEF TipInv

LEMMA ReadTip ==
    ASSUME Inv, TipInv, ReadTable
    PROVE  TipInv'
  <1>1. UNCHANGED liveVars /\ files' = files
        /\ draft' = [draft EXCEPT !.tables[reading] = Live[reading],
                                 !.bare = IF reading = "prompts" THEN Bare ELSE @]
        /\ reading \in {"prompts", "commits", "refs"} /\ reading' = TableAfter(reading)
    BY DEF ReadTable
  <1>2. LiveTip' /\ FilesTip' /\ Live' = Live /\ Bare' = Bare
    BY <1>1, IdleTip
  <1>3. /\ draft \in [tables : Tables, bare : BOOLEAN, torn : BOOLEAN] /\ draft'.torn = draft.torn
        /\ draft'.tables = [draft.tables EXCEPT ![reading] = Live[reading]]
        /\ draft'.bare = IF reading = "prompts" THEN Bare ELSE draft.bare
    BY <1>1 DEF Inv, DraftInv
  <1>4. CASE reading = "prompts"
    <2>1. draft'.tables.prompts = Live.prompts /\ reading' = "commits"
      BY <1>1, <1>3, <1>4 DEF Tables, TableAfter
    <2> QED
      BY <1>2, <1>3, <1>4, <2>1 DEF TipInv
  <1>5. CASE reading = "commits"
    <2>1. draft'.tables.prompts = draft.tables.prompts /\ reading' = "refs"
      BY <1>1, <1>3, <1>5 DEF Tables, TableAfter
    <2> QED
      BY <1>2, <1>3, <1>5, <2>1 DEF TipInv
  <1>6. CASE reading = "refs"
    <2>1. draft'.tables.prompts = draft.tables.prompts /\ draft'.tables.refs = Live.refs
          /\ reading' = "write"
      BY <1>1, <1>3, <1>6 DEF Tables, TableAfter
    <2>2. ~draft.torn /\ ~draft.bare => Tip(draft.tables)'
      <3>1. ~draft.torn /\ ~draft.bare => Tip(Live) /\ draft.tables.prompts = Live.prompts
        BY <1>6 DEF TipInv, LiveTip
      <3> QED
        BY <1>1, <2>1, <3>1 DEF Tip, liveVars
    <2> QED
      BY <1>2, <1>3, <1>6, <2>1, <2>2 DEF TipInv
  <1> QED
    BY <1>1, <1>4, <1>5, <1>6

LEMMA FileTip ==
    ASSUME Inv, TipInv, UNCHANGED liveVars, reading' = "idle", NEW f, files' = Append(files, f),
           f.kind = "backup" /\ ~f.torn /\ ~f.cut /\ ~f.bare => Tip(f.tables)
    PROVE  TipInv'
  <1>1. commits' = commits /\ LiveTip'
    BY DEF liveVars, TipInv, LiveTip, Tip, Live, Bare
  <1>2. files \in Seq(File) /\ Len(files) \in Nat
    BY DEF Inv, FilesInv
  <1>3. Len(files') = Len(files) + 1 /\ files'[Len(files) + 1] = f
        /\ \A i \in 1 .. Len(files) : files'[i] = files[i]
    BY <1>2
  <1>4. FilesTip'
    <2> SUFFICES ASSUME NEW i \in 1 .. Len(files'),
                        files'[i].kind = "backup", ~files'[i].torn, ~files'[i].cut,
                        ~files'[i].bare
                 PROVE  Tip(files[i].tables)'
      BY DEF FilesTip
    <2>1. CASE i \in 1 .. Len(files)
      BY <1>1, <1>3, <2>1 DEF TipInv, FilesTip, Tip
    <2>2. CASE i = Len(files) + 1
      BY <1>1, <1>3, <2>2 DEF Tip
    <2> QED
      BY <1>2, <1>3, <2>1, <2>2
  <1> QED
    BY <1>1, <1>4 DEF TipInv

LEMMA TipStep ==
    ASSUME Inv, TipInv, [Next]_vars
    PROVE  TipInv'
  <1>1. CASE UNCHANGED liveVars /\ files' = files
             /\ ((reading' = reading /\ draft' = draft) \/ reading' \in {"idle", "prompts"})
    <2>1. LiveTip' /\ FilesTip' /\ Live' = Live /\ Bare' = Bare /\ commits' = commits
      BY <1>1, IdleTip DEF liveVars
    <2> QED
      BY <1>1, <2>1 DEF TipInv, Tip
  <1>2. CASE Write
    BY <1>2, WriteTip
  <1>3. CASE StartBackup
    BY <1>3, <1>1 DEF StartBackup, TableAfter
  <1>4. CASE ReadTable
    BY <1>4, ReadTip
  <1>5. CASE WriteFile
    <2> DEFINE f == [tables |-> draft.tables, kind |-> "backup",
                     bare |-> draft.bare, torn |-> draft.torn, cut |-> FALSE]
    <2>1. UNCHANGED liveVars /\ reading' = "idle" /\ files' = Append(files, f)
      BY <1>5 DEF WriteFile
    <2>2. f.kind = "backup" /\ ~f.torn /\ ~f.cut /\ ~f.bare => Tip(f.tables)
      BY <1>5 DEF WriteFile, TipInv
    <2> HIDE DEF f
    <2>3. PICK g : g = f
      OBVIOUS
    <2> QED
      BY <2>1, <2>2, <2>3, FileTip
  <1>6. CASE StopBackup
    <2>1. UNCHANGED liveVars /\ reading' = "idle"
      BY <1>6 DEF StopBackup
    <2>2. CASE reading = "write"
      <3>1. PICK t \in Prefix(draft.tables) :
                files' = Append(files, [tables |-> t, kind |-> "backup",
                                        bare |-> TRUE, torn |-> draft.torn, cut |-> TRUE])
        BY <1>6, <2>2 DEF StopBackup
      <3>2. PICK f : f = [tables |-> t, kind |-> "backup", bare |-> TRUE, torn |-> draft.torn,
                          cut |-> TRUE]
        OBVIOUS
      <3>3. files' = Append(files, f) /\ f.cut
        BY <3>1, <3>2
      <3> QED
        BY <2>1, <3>3, FileTip
    <2>3. CASE reading # "write"
      BY <1>6, <2>1, <2>3, <1>1 DEF StopBackup
    <2> QED
      BY <2>2, <2>3
  <1>7. CASE Export
    <2>1. PICK f : files' = Append(files, f) /\ f.kind = "export"
      BY <1>7 DEF Export
    <2>2. UNCHANGED liveVars /\ reading' = "idle"
      BY <1>7 DEF Export
    <2> QED
      BY <2>1, <2>2, FileTip
  <1>8. CASE StartRestore \/ PutCommit \/ PutRef \/ PutPrompt \/ FinishRestore \/ StopRestore
    BY <1>8, <1>1 DEF StartRestore, PutCommit, PutRef, PutPrompt, FinishRestore, StopRestore,
                      backupVars
  <1>9. CASE UNCHANGED vars
    BY <1>9, <1>1 DEF vars, backupVars
  <1> QED
    BY <1>2, <1>3, <1>4, <1>5, <1>6, <1>7, <1>8, <1>9 DEF Next

LEMMA InitTip == Init => TipInv
  <1> SUFFICES ASSUME Init PROVE TipInv
    OBVIOUS
  <1>1. ASSUME \E v \in Version : H!Holding(v) PROVE LiveTip
    <2>1. PICK v \in Version : H!Holding(v)
      BY <1>1
    <2>2. commits[1].version = v /\ rows[Len(rows)].version = v /\ refs["main"] = 1
      BY <2>1, MainIsBranch DEF H!Holding
    <2> QED
      BY <2>2 DEF LiveTip, Tip, Live
  <1>2. ASSUME H!Empty PROVE LiveTip
    <2>1. rows[Len(rows)].commit = 0
      BY <1>2 DEF H!Empty
    <2> QED
      BY <2>1 DEF LiveTip, Bare
  <1>3. reading = "idle" /\ files = <<>>
    BY DEF Init
  <1> QED
    BY <1>1, <1>2, <1>3 DEF Init, H!Init, TipInv, FilesTip

(* A file's commits are among the target's, its pointers and its prompt    *)
(* are the target's.                                                       *)
LEMMA TipRestored == Inv /\ TipInv => QuietBackupRestores
  <1> SUFFICES ASSUME Inv, TipInv, last # 0, ~files[last].torn,
                      files[last].kind = "backup", ~files[last].cut, ~files[last].bare
               PROVE  /\ target.refs["main"] # 0
                      /\ HasHistory(target.refs["main"], target.commits)
                      /\ commits[target.refs["main"]].version = target.prompts
    BY DEF QuietBackupRestores, Restored
  <1> DEFINE t == files[last].tables
  <1>1. last \in 1 .. Len(files)
    BY DEF Inv, RestoreInv, FilesInv
  <1>2. Tip(t) /\ PointsInside(t) /\ Has(t.commits, t.prompts)
        /\ t.commits \subseteq 1 .. Len(commits)
    BY <1>1 DEF TipInv, FilesTip, Inv, FilesInv, FileOK
  <1>3. Holds(t)
    BY DEF Inv, RestoredHoldsBackup
  <1>4. t.prompts # NoPrompt
    <2>1. \A c \in 1 .. Len(commits) : commits[c].version \in Version
      BY LiveTypes DEF Inv, LiveInv
    <2> QED
      BY <1>2, <2>1, BackupAssumption DEF Has
  <1>5. target.refs["main"] = t.refs["main"] /\ target.prompts = t.prompts
    BY <1>2, <1>3, <1>4, MainIsBranch DEF Holds, Tip
  <1>6. t.refs["main"] \in t.commits /\ Closed(t.commits) /\ t.commits \subseteq target.commits
    BY <1>2, <1>3, MainIsBranch DEF Tip, PointsInside, Holds
  <1>7. HasHistory(target.refs["main"], target.commits)
    BY <1>5, <1>6 DEF HasHistory, Closed
  <1> QED
    BY <1>2, <1>5, <1>7 DEF Tip

(* README.md 747-749: a database restored from a backup that nobody wrote  *)
(* beside serves the tip of its main branch and has the history behind it, *)
(* unless what was backed up came of no commit (backup.go 212-215).        *)
THEOREM QuietBackupsRestore == Spec => []QuietBackupRestores
  <1>1. Inv /\ Inv' /\ TipInv /\ [Next]_vars => TipInv'
    BY TipStep
  <1> QED
    BY Invariance, InitTip, <1>1, TipRestored, PTL DEF Spec

(* backup.go 137-140: a restore that is not forced mixes no histories.     *)
THEOREM HistoriesAreApart == Spec => []HistoriesStayApart
  <1>1. Inv => HistoriesStayApart
    BY DEF Inv
  <1> QED
    BY Invariance, <1>1, PTL

(* The databases, the files and the positions in them are well formed.     *)
THEOREM TypeCorrect == Spec => []TypeOK
  <1>1. Inv => TypeOK
    BY DEF Inv, LiveInv, DraftInv, FilesInv, RestoreInv, TypeOK
  <1> QED
    BY Invariance, <1>1, PTL
=============================================================================
