---------------------------- MODULE PromptBackup ----------------------------
(***************************************************************************)
(* The commands backup, export and restore (cmd/priompt/backup.go and      *)
(* export in main.go): a backup reads the tables of a live database in     *)
(* three calls, beside its writers, and writes a file of records; a        *)
(* restore puts the records of a file one by one into another database, on *)
(* which nothing else runs, and may stop half way and be run again.  As in *)
(* PromptServer, one prompt: the records of different prompts meet in      *)
(* nothing but the order of the file.                                      *)
(***************************************************************************)
EXTENDS Integers, Sequences

CONSTANTS
    Version, Branch, NoPrompt,  \* see PromptHistory
    MaxCommits, MaxRows,        \* bounds on the live database
    MaxFiles,                   \* bound on the files written
    MaxCrashes                  \* bound on backups and restores that stop half way

VARIABLES
    commits, refs, rows,        \* the live database, see PromptHistory
    reading,    \* the backup's next step: a table to read, "write", or "idle"
    draft,      \* the tables the backup holds in memory
    files,      \* the files written, oldest first
    pending,    \* the file being restored (0: none) and its records still to put
    forced,     \* whether that restore was given -force
    target,     \* the database restored into
    last,       \* the file the target was last restored from, whole; else 0
    crashes

H == INSTANCE PromptHistory

liveVars == <<commits, refs, rows>>
backupVars == <<reading, draft, files>>
restoreVars == <<pending, forced, target, last>>
vars == <<liveVars, backupVars, restoreVars, crashes>>

(* The three tables of a database, for one prompt: its served row, its     *)
(* commits (a commit keeps its hash, hence its index, wherever it is put)  *)
(* and its branch pointers.                                                *)
Tables == [prompts : Version \cup {NoPrompt}, commits : SUBSET Nat, refs : [Branch -> Nat]]

Blank == [prompts |-> NoPrompt, commits |-> {}, refs |-> [b \in Branch |-> 0]]

(* A file: its records, whether it was written by backup or by export, and *)
(* three facts only properties look at: whether it has no row that came of *)
(* a commit, whether somebody wrote between the backup's reads, and        *)
(* whether the backup stopped before its last record.                      *)
File == [tables : Tables, kind : {"backup", "export"},
         bare : BOOLEAN, torn : BOOLEAN, cut : BOOLEAN]

NothingRead == [tables |-> Blank, bare |-> TRUE, torn |-> FALSE]
NothingPending == [file |-> 0, commits |-> {}, refs |-> {}, prompts |-> FALSE]

ASSUME BackupAssumption ==
    /\ "main" \in Branch
    /\ NoPrompt \notin Version
    /\ MaxCommits \in Nat /\ MaxRows \in Nat /\ MaxFiles \in Nat /\ MaxCrashes \in Nat

-----------------------------------------------------------------------------

Init ==
    /\ H!Init
    /\ reading = "idle"
    /\ draft = NothingRead
    /\ files = <<>>
    /\ pending = NothingPending
    /\ forced = FALSE
    /\ target = Blank
    /\ last = 0
    /\ crashes = 0

Live == [prompts |-> rows[Len(rows)].version, commits |-> 1 .. Len(commits), refs |-> refs]

(* Nobody committed what is served: there is no prompt, or its row was put *)
(* by a restore of bare lines.                                             *)
Bare == rows[Len(rows)].commit = 0

(* What the server and the other writers do to the live database, an       *)
(* operation of the store at a time, and what a restore of bare prompt     *)
(* lines into it does (restore, 192-205).                                  *)
Change ==
    \/ \E b \in Branch, v \in Version : H!Record(b, v)
    \/ \E b \in Branch, c \in 1 .. Len(commits) : H!MergeIn(b, c) \/ H!PointAt(b, c)
    \/ \E b, f \in Branch : H!Fork(b, f)
    \/ \E v \in Version : H!LoadRow(v)

Write ==
    /\ Len(commits) < MaxCommits /\ Len(rows) < MaxRows
    /\ Change
    /\ draft' = IF reading \in {"commits", "refs"} THEN [draft EXCEPT !.torn = TRUE] ELSE draft
    /\ UNCHANGED <<reading, files, restoreVars, crashes>>

(* backup, 66-77: the tables in the order they are dumped.  The mutations  *)
(* before it, like the others of this module, are bugs the properties are  *)
(* shown to catch; no behaviour uses them.                                 *)
NoPointersAfter(t) ==       \* mutation: the pointers are not dumped
    CASE t = "idle" -> "prompts" [] t = "prompts" -> "commits" [] t = "commits" -> "write"
CommitsFirstAfter(t) ==     \* mutation: the prompts are dumped after the commits
    CASE t = "idle" -> "commits" [] t = "commits" -> "prompts"
      [] t = "prompts" -> "refs" [] t = "refs" -> "write"
UnknownAfter(t) ==          \* mutation: the last step is taken for a table
    CASE t = "idle" -> "prompts" [] t = "prompts" -> "commits"
      [] t = "commits" -> "refs" [] t = "refs" -> "header"
TableAfter(t) ==
    CASE t = "idle" -> "prompts"
      [] t = "prompts" -> "commits"
      [] t = "commits" -> "refs"
      [] t = "refs" -> "write"

StartBackup ==
    /\ reading = "idle"
    /\ Len(files) < MaxFiles
    /\ reading' = TableAfter("idle")
    /\ UNCHANGED <<liveVars, draft, files, restoreVars, crashes>>

(* Dump, DumpCommits or DumpRefs: one query, one snapshot.  *)
ReadTable ==
    /\ reading \in {"prompts", "commits", "refs"}
    /\ draft' = [draft EXCEPT !.tables[reading] = Live[reading],
                             !.bare = IF reading = "prompts" THEN Bare ELSE @]
    /\ reading' = TableAfter(reading)
    /\ UNCHANGED <<liveVars, files, restoreVars, crashes>>

WriteFile ==
    /\ reading = "write"
    /\ files' = Append(files, [tables |-> draft.tables, kind |-> "backup",
                               bare |-> draft.bare, torn |-> draft.torn, cut |-> FALSE])
    /\ reading' = "idle"
    /\ draft' = NothingRead
    /\ UNCHANGED <<liveVars, restoreVars, crashes>>

(* Records are written commits first, then pointers, then the prompt: what *)
(* a backup that stops while writing leaves ends somewhere in that order.  *)
Prefix(t) ==
    {[Blank EXCEPT !.commits = cs] : cs \in SUBSET t.commits}
    \cup {[Blank EXCEPT !.commits = t.commits,
                        !.refs = [b \in Branch |-> IF b \in bs THEN t.refs[b] ELSE 0]] :
            bs \in SUBSET Branch}

StopBackup ==
    /\ reading # "idle"
    /\ crashes < MaxCrashes
    /\ crashes' = crashes + 1
    /\ reading' = "idle"
    /\ draft' = NothingRead
    /\ IF reading = "write"
         THEN \E t \in Prefix(draft.tables) :
                 files' = Append(files, [tables |-> t, kind |-> "backup",
                                         bare |-> TRUE, torn |-> draft.torn,
                                         cut |-> TRUE])
         ELSE UNCHANGED files
    /\ UNCHANGED <<liveVars, restoreVars>>

(* export: the prompts table alone, in one call, as bare prompt lines.  *)
Export ==
    /\ reading = "idle"
    /\ Len(files) < MaxFiles
    /\ files' = Append(files, [tables |-> [Blank EXCEPT !.prompts = Live.prompts],
                               kind |-> "export", bare |-> TRUE, torn |-> FALSE,
                               cut |-> FALSE])
    /\ UNCHANGED <<liveVars, reading, draft, restoreVars, crashes>>

-----------------------------------------------------------------------------

(* restore, 141-149: refused when the database holds commits, but for -force. *)
AnyoneMayRestore(force) == TRUE     \* mutation: commits in the target are not counted
MayRestore(force) == target.commits = {} \/ force

StartClean ==       \* mutation: the target is emptied first
    /\ pending.file = 0
    /\ \E f \in 1 .. Len(files), force \in BOOLEAN :
          /\ MayRestore(force)
          /\ pending' = [file |-> f,
                         commits |-> files[f].tables.commits,
                         refs |-> {b \in Branch : files[f].tables.refs[b] # 0},
                         prompts |-> files[f].tables.prompts # NoPrompt]
          /\ forced' = force
          /\ last' = IF f = last THEN f ELSE 0
    /\ target' = Blank
    /\ UNCHANGED <<liveVars, backupVars, crashes>>
StartRestore ==
    /\ pending.file = 0
    /\ \E f \in 1 .. Len(files), force \in BOOLEAN :
          /\ MayRestore(force)
          /\ pending' = [file |-> f,
                         commits |-> files[f].tables.commits,
                         refs |-> {b \in Branch : files[f].tables.refs[b] # 0},
                         prompts |-> files[f].tables.prompts # NoPrompt]
          /\ forced' = force
          /\ last' = IF f = last THEN f ELSE 0
    /\ UNCHANGED <<liveVars, backupVars, target, crashes>>

(* The record is the next one of the file: commits come before pointers,   *)
(* pointers before the prompt (backup, 100-110).                           *)
InAnyOrder == TRUE          \* mutation: pointers are put before the commits are in
CommitsAreIn == pending.commits = {}
RefsAreIn == pending.commits = {} /\ pending.refs = {}

PutCommit ==
    /\ \E c \in pending.commits :
          /\ pending' = [pending EXCEPT !.commits = @ \ {c}]
          /\ target' = [target EXCEPT !.commits = @ \cup {c}]
    /\ UNCHANGED <<liveVars, backupVars, forced, last, crashes>>

(* The pointer of a branch the target already has is replaced.  *)
KeepPointer(old, new) == IF old # 0 THEN old ELSE new   \* mutation: it is kept
Repoint(old, new) == new

PutRef ==
    /\ CommitsAreIn
    /\ \E b \in pending.refs :
          /\ pending' = [pending EXCEPT !.refs = @ \ {b}]
          /\ target' = [target EXCEPT
                !.refs[b] = Repoint(@, files[pending.file].tables.refs[b])]
    /\ UNCHANGED <<liveVars, backupVars, forced, last, crashes>>

(* A "prompt" record, or the bare prompt line of an export.  *)
PutPrompt ==
    /\ RefsAreIn
    /\ pending.prompts
    /\ pending' = [pending EXCEPT !.prompts = FALSE]
    /\ target' = [target EXCEPT !.prompts = files[pending.file].tables.prompts]
    /\ UNCHANGED <<liveVars, backupVars, forced, last, crashes>>

FinishRestore ==
    /\ pending.file # 0
    /\ RefsAreIn /\ ~pending.prompts
    /\ last' = pending.file
    /\ pending' = NothingPending
    /\ forced' = FALSE
    /\ UNCHANGED <<liveVars, backupVars, target, crashes>>

(* The process is stopped, a Put fails, or the file ends within a record:  *)
(* what was put stays.                                                     *)
StopRestore ==
    /\ pending.file # 0
    /\ crashes < MaxCrashes
    /\ crashes' = crashes + 1
    /\ pending' = NothingPending
    /\ forced' = FALSE
    /\ UNCHANGED <<liveVars, backupVars, target, last>>

Next ==
    \/ Write
    \/ StartBackup \/ ReadTable \/ WriteFile \/ StopBackup \/ Export
    \/ StartRestore \/ PutCommit \/ PutRef \/ PutPrompt \/ FinishRestore \/ StopRestore

Spec == Init /\ [][Next]_vars

-----------------------------------------------------------------------------

(* Type invariant: the databases and the files are well formed, and a      *)
(* restore is of a file that was written.                                  *)
TypeOK ==
    /\ H!HistoryTypeOK
    /\ reading \in {"idle", "prompts", "commits", "refs", "write"}
    /\ draft \in [tables : Tables, bare : BOOLEAN, torn : BOOLEAN]
    /\ files \in Seq(File)
    /\ pending \in [file : 0 .. Len(files), commits : SUBSET Nat,
                    refs : SUBSET Branch, prompts : BOOLEAN]
    /\ forced \in BOOLEAN
    /\ target \in Tables
    /\ last \in 0 .. Len(files)
    /\ crashes \in 0 .. MaxCrashes

(* Commit c has its whole history in the set of commits S.  *)
HasHistory(c, S) ==
    \E A \in SUBSET S :
        /\ c \in A
        /\ \A d \in A : {commits[d].parent, commits[d].parent2} \subseteq A \cup {0}

(* backup.go 100-101, "commits first, then refs": unless a file is torn, a *)
(* branch of the restored database never points at a commit that is not    *)
(* there with all its ancestors, at no moment of a restore, after any      *)
(* restores that stopped half way, were run again, or were of older files. *)
PointersHaveHistory ==
    (\A f \in 1 .. Len(files) : ~files[f].torn) =>
        \A b \in Branch : target.refs[b] # 0 => HasHistory(target.refs[b], target.commits)

(* The target holds everything the tables t do.  *)
Holds(t) ==
    /\ t.commits \subseteq target.commits
    /\ \A b \in Branch : t.refs[b] # 0 => target.refs[b] = t.refs[b]
    /\ t.prompts # NoPrompt => target.prompts = t.prompts

(* README.md 747-751: after a restore that ran to its end the database     *)
(* holds everything the file does, as it is in the file, whatever restores *)
(* of this or other files went before.                                     *)
RestoredHoldsBackup == last # 0 => Holds(files[last].tables)

(* backup.go 66-73: the prompts are dumped before the commits, so what a   *)
(* whole backup serves is in the history it carries, even a torn one,      *)
(* unless it was in no commit of the live database either (18-23).         *)
ServedIsInHistory ==
    \A f \in 1 .. Len(files) :
        files[f].kind = "backup" /\ ~files[f].cut /\ ~files[f].bare =>
            \E c \in files[f].tables.commits : commits[c].version = files[f].tables.prompts

(* README.md 747-749: a database restored from a whole backup of a prompt  *)
(* that was committed serves the tip of main and has the history behind it.*)
Restored(f) ==
    files[f].kind = "backup" /\ ~files[f].cut /\ ~files[f].bare =>
        /\ target.refs["main"] # 0
        /\ HasHistory(target.refs["main"], target.commits)
        /\ commits[target.refs["main"]].version = target.prompts

(* ... when nobody wrote while the backup was being read.  *)
QuietBackupRestores == last # 0 /\ ~files[last].torn => Restored(last)

(* ... always: what README.md 747-749 says.  *)
BackupRestores == last # 0 => Restored(last)

(* backup.go 137-140: without -force a restore never mixes two histories.  *)
HistoriesStayApart ==
    pending.file # 0 /\ ~forced => target.commits \subseteq files[pending.file].tables.commits

(* README.md 751, "Restore is idempotent": restoring again the file the    *)
(* database was restored from never changes it, not even for a moment.     *)
RestoreIsIdempotent == [][last # 0 /\ last' = last => target' = target]_vars
=============================================================================
