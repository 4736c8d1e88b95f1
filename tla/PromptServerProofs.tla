------------------------- MODULE PromptServerProofs -------------------------
(***************************************************************************)
(* Theorems about PromptServer, for any number of workers, nodes, versions *)
(* and branches, any requests and any of the faults.                       *)
(***************************************************************************)
EXTENDS PromptServerProperties, TLAPS

(* What a handler has established when it is about to make a call: its     *)
(* locals point into the history, a commit it is about to make is well     *)
(* formed, a publish knows the row that carries its content, and "OK" is   *)
(* only kept for the end once the cache has been emptied after that row.   *)
HandlerOK(w) ==
    /\ asOf[w] <= Latest /\ done[w] <= Latest
    /\ tip[w] <= Len(commits) /\ source[w] <= Len(commits)
    /\ pc[w] # "idle" => req[w] \in Request /\ req[w].commit <= Len(commits)
    /\ pc[w] = "swap" => IF req[w].op = "merge" THEN tip[w] # 0 /\ source[w] # 0
                                                ELSE source[w] = 0
    /\ pc[w] = "compare" => \/ req[w].op \in {"put", "import"}
                            \/ req[w].op = "publish" /\ req[w].branch # "main"
    /\ pc[w] \in {"lookup", "load", "fill"} => req[w].op = "get"
    /\ pc[w] = "move" => req[w].op = "rollback"
    /\ pc[w] = "fork" => req[w].branch # "main"
    /\ done[w] # 0 => pc[w] \in {"clear", "notify"} /\ rows[done[w]].version \in Version
    /\ pc[w] = "notify" => done[w] # 0 /\ (reply[w] = "OK" => done[w] <= emptied)
    /\ pc[w] \in {"clear", "notify"} /\ req[w].op = "publish" =>
          LET i == IF done[w] # 0 THEN done[w] ELSE asOf[w]
          IN  i # 0 /\ rows[i].version = req[w].version

(* The inductive invariant behind type correctness and refinement.  *)
Inv ==
    /\ TypeOK
    /\ emptied <= Latest
    /\ \A w \in Worker : HandlerOK(w)

(* No operation rewrites history: commits and rows are only added.         *)
Grows ==
    /\ Latest' \in Nat /\ Latest <= Latest' /\ Len(commits') \in Nat /\ Len(commits) <= Len(commits')
    /\ \A i \in 1 .. Latest : rows'[i] = rows[i]
    /\ emptied' \in Nat /\ emptied <= emptied'

(* Worker u makes no call, or only worker w does.  *)
Stays(u) ==
    /\ pc'[u] = pc[u] /\ req'[u] = req[u] /\ reply'[u] = reply[u]
    /\ asOf'[u] = asOf[u] /\ tip'[u] = tip[u] /\ source'[u] = source[u]
    /\ against'[u] = against[u] /\ done'[u] = done[u]
OthersStay(w) == \A u \in Worker \ {w} : Stays(u)

-----------------------------------------------------------------------------

(* What a handler answers when the store fails, or refuses.  *)
Refusal == Status \ {"none", "OK"}

LEMMA Refusals ==
    ASSUME NEW w \in Worker
    PROVE  /\ AnswerFailure(w) => \E s \in Refusal : Answer(w, s)
           /\ WriteFails(w) => \E s \in Refusal : NotWritten(w, s)
           /\ StoreError.conflict \in Refusal /\ StoreError.notFound \in Refusal
           /\ StoreError.exists \in Refusal
           /\ "Refused" \in Refusal /\ "DataLoss" \in Refusal
           /\ "OK" \in Status /\ Refusal \subseteq Status
  BY DEF AnswerFailure, WriteFails, NotWritten, StoreFailures, StoreError, Refusal, Status

(* The database before any request is well formed.  *)
LEMMA InitStore ==
    ASSUME Init
    PROVE  H!HistoryTypeOK /\ Len(rows) = 1
  <1>1. CASE H!Empty
    <2>1. commits = <<>> /\ commits \in Seq(H!Commit) /\ Len(commits) = 0
      BY <1>1 DEF H!Empty
    <2>2. [version |-> NoPrompt, commit |-> 0] \in H!Row
      BY DEF H!Row
    <2>3. rows \in Seq(H!Row) /\ Len(rows) = 1 /\ rows # <<>>
      BY <1>1, <2>2 DEF H!Empty
    <2> QED
      BY <1>1, <2>1, <2>3 DEF H!Empty, H!HistoryTypeOK
  <1>2. CASE \E v \in Initial \ {NoPrompt} : H!Holding(v)
    <2>1. PICK v \in Initial \ {NoPrompt} : H!Holding(v)
      BY <1>2
    <2>2. v \in Version
      BY <2>1, ServerAssumption
    <2>3. [version |-> v, parent |-> 0, parent2 |-> 0] \in H!Commit
      BY <2>2 DEF H!Commit
    <2>4. commits \in Seq(H!Commit) /\ Len(commits) = 1
      BY <2>1, <2>3 DEF H!Holding
    <2>5. [version |-> v, commit |-> 1] \in H!Row
      BY <2>2 DEF H!Row
    <2>6. rows \in Seq(H!Row) /\ rows # <<>> /\ Len(rows) = 1
      BY <2>1, <2>5 DEF H!Holding
    <2> QED
      BY <2>1, <2>4, <2>6 DEF H!Holding, H!HistoryTypeOK
  <1> QED
    BY <1>1, <1>2 DEF Init

LEMMA InitInv == Init => Inv
  <1> SUFFICES ASSUME Init PROVE Inv
    OBVIOUS
  <1>1. H!HistoryTypeOK /\ Latest = 1
    BY InitStore DEF Latest
  <1>2. MaxWrites \in Nat /\ MaxCrashes \in Nat
    BY ServerAssumption
  <1>3. events \in Seq(Event)
    <2>1. events = <<>>
      BY DEF Init
    <2> QED
      BY <2>1
  <1>4. Len(commits) \in Nat
    BY <1>1 DEF H!HistoryTypeOK
  <1>5. LocalTypeOK
    BY DEF LocalTypeOK, Call, Status, Init
  <1>6. TypeOK
    BY <1>1, <1>2, <1>3, <1>5 DEF TypeOK, Init
  <1>7. \A w \in Worker : HandlerOK(w)
    BY <1>1, <1>4 DEF HandlerOK, Init
  <1>8. emptied <= Latest
    BY <1>1 DEF Init
  <1> QED
    BY <1>6, <1>7, <1>8 DEF Inv

(* The two ways a handler moves on: it answers, or goes to its next call.  *)
LEMMA AnswerType ==
    ASSUME LocalTypeOK, NEW w \in Worker, NEW s \in Status, Answer(w, s)
    PROVE  LocalTypeOK' /\ OthersStay(w) /\ pc'[w] = "idle" /\ asOf'[w] = 0 /\ tip'[w] = 0
           /\ source'[w] = 0 /\ done'[w] = 0 /\ against'[w] = Unclassified /\ reply'[w] = s
  BY DEF LocalTypeOK, Answer, Goto, OthersStay, Stays, Call

LEMMA GotoType ==
    ASSUME LocalTypeOK, NEW w \in Worker, NEW l \in Call, Goto(w, l)
    PROVE  /\ pc' \in [Worker -> Call] /\ pc'[w] = l
           /\ \A u \in Worker \ {w} : pc'[u] = pc[u]
  BY DEF LocalTypeOK, Goto

(* An idle handler has nothing to establish.  *)
LEMMA IdleOK ==
    ASSUME TypeOK, Grows, NEW w \in Worker, NEW s \in Status, Answer(w, s)
    PROVE  HandlerOK(w)'
  <1>1. LocalTypeOK
    BY DEF TypeOK
  <1>2. /\ pc'[w] = "idle" /\ asOf'[w] = 0 /\ tip'[w] = 0 /\ source'[w] = 0 /\ done'[w] = 0
    BY <1>1, AnswerType
  <1> QED
    BY <1>2 DEF HandlerOK, Grows

(* Growing the history does not disturb a handler that stays.  *)
LEMMA StaysOK ==
    ASSUME Inv, Grows, NEW u \in Worker, Stays(u)
    PROVE  HandlerOK(u)'
  <1>1. HandlerOK(u)
    BY DEF Inv
  <1>2. /\ asOf[u] \in Nat /\ done[u] \in Nat /\ tip[u] \in Nat /\ source[u] \in Nat
        /\ emptied \in Nat /\ Latest \in Nat /\ Len(commits) \in Nat
    BY DEF Inv, TypeOK, LocalTypeOK, H!HistoryTypeOK, Latest
  <1>3. pc[u] # "idle" => req[u].commit \in Nat
    BY <1>1 DEF HandlerOK, Request
  <1>4. /\ pc'[u] = pc[u] /\ req'[u] = req[u] /\ reply'[u] = reply[u]
        /\ asOf'[u] = asOf[u] /\ tip'[u] = tip[u] /\ source'[u] = source[u]
        /\ done'[u] = done[u]
    BY DEF Stays
  <1>5. \A i \in Nat \ {0} : i <= Latest => rows'[i] = rows[i]
    BY <1>2 DEF Grows
  <1>6. emptied' \in Nat /\ emptied <= emptied'
    BY DEF Grows
  <1> QED
    BY <1>1, <1>2, <1>3, <1>4, <1>5, <1>6 DEF HandlerOK, Grows

(* The calls that leave the store alone: the well-formed store stays so.  *)
LEMMA StoreSame ==
    ASSUME H!HistoryTypeOK, UNCHANGED storeVars
    PROVE  /\ H!HistoryTypeOK'
           /\ Latest' = Latest /\ Latest \in Nat \ {0}
           /\ Len(commits) \in Nat
  BY DEF H!HistoryTypeOK, storeVars, Latest

(* A step of one worker keeps the invariant when it keeps its own part.  *)
LEMMA WorkerStep ==
    ASSUME Inv, NEW w \in Worker, Grows, OthersStay(w), HandlerOK(w)',
           H!HistoryTypeOK', LocalTypeOK', events' \in Seq(Event),
           cached' \in Nat, owed' \in SUBSET Nat, emptied' <= Latest',
           writes' \in 0 .. MaxWrites, crashes' \in 0 .. MaxCrashes
    PROVE  Inv' /\ Grows /\ OthersStay(w)
  <1>1. TypeOK'
    BY DEF Inv, TypeOK, Grows
  <1>2. (\A u \in Worker : HandlerOK(u))'
    <2>1. \A u \in Worker \ {w} : HandlerOK(u)'
      BY StaysOK DEF OthersStay
    <2> QED
      BY <2>1
  <1> QED
    BY <1>1, <1>2 DEF Inv

(* A call that only reads touches nothing but its worker's locals.  *)
Reads == UNCHANGED <<storeVars, cacheVars, events, boundVars>>

LEMMA ReadStep ==
    ASSUME Inv, NEW w \in Worker, Reads, OthersStay(w), LocalTypeOK', HandlerOK(w)'
    PROVE  Inv' /\ Grows /\ OthersStay(w)
  <1>1. UNCHANGED storeVars /\ UNCHANGED cacheVars /\ events' = events /\ UNCHANGED boundVars
    BY DEF Reads
  <1>2. TypeOK /\ emptied <= Latest
    BY DEF Inv
  <1>3. H!HistoryTypeOK' /\ Latest' = Latest /\ Latest \in Nat /\ Len(commits) \in Nat
    BY <1>1, <1>2, StoreSame DEF TypeOK
  <1>4. Grows
    BY <1>1, <1>2, <1>3 DEF Grows, storeVars, cacheVars, TypeOK
  <1>5. /\ events' \in Seq(Event) /\ cached' \in Nat /\ owed' \in SUBSET Nat
        /\ emptied' <= Latest' /\ writes' \in 0 .. MaxWrites /\ crashes' \in 0 .. MaxCrashes
    BY <1>1, <1>2, <1>3 DEF cacheVars, boundVars, TypeOK
  <1> QED
    BY <1>1, <1>3, <1>4, <1>5, WorkerStep

LEMMA ReadAnswer ==
    ASSUME Inv, NEW w \in Worker, Reads, NEW s \in Status, Answer(w, s)
    PROVE  Inv' /\ Grows /\ OthersStay(w)
  <1>1. TypeOK /\ LocalTypeOK /\ emptied <= Latest
    BY DEF Inv, TypeOK
  <1>2. LocalTypeOK' /\ OthersStay(w)
    BY <1>1, AnswerType
  <1>3. Grows
    BY <1>1, StoreSame DEF Grows, Reads, storeVars, cacheVars, TypeOK
  <1>4. HandlerOK(w)'
    BY <1>1, <1>3, IdleOK
  <1> QED
    BY <1>2, <1>4, ReadStep

LEMMA VerdictType ==
    ASSUME NEW old \in Version \cup {NoPrompt}, NEW v \in Verdicts(old)
    PROVE  v \in Version \cup {Unclassified}
  BY DEF Verdicts

(* What the rows hold.  *)
LEMMA RowType ==
    ASSUME H!HistoryTypeOK
    PROVE  /\ \A i \in 1 .. Latest : rows[i].version \in Version \cup {NoPrompt}
           /\ Served \in Version \cup {NoPrompt}
           /\ Latest \in Nat \ {0} /\ Len(commits) \in Nat
           /\ \A c \in 1 .. Len(commits) : commits[c].version \in Version
           /\ \A b \in Branch : refs[b] \in 0 .. Len(commits)
  <1>1. rows \in Seq(H!Row) /\ rows # <<>> /\ commits \in Seq(H!Commit)
    BY DEF H!HistoryTypeOK
  <1>2. Latest \in Nat \ {0} /\ Len(commits) \in Nat
    BY <1>1 DEF Latest
  <1>3. \A i \in 1 .. Latest : rows[i] \in H!Row
    BY <1>1 DEF Latest
  <1>4. \A i \in 1 .. Latest : rows[i].version \in Version \cup {NoPrompt}
    BY <1>3 DEF H!Row
  <1>5. Served \in Version \cup {NoPrompt}
    BY <1>2, <1>4 DEF Served
  <1>6. \A c \in 1 .. Len(commits) : commits[c] \in H!Commit
    BY <1>1
  <1>7. \A c \in 1 .. Len(commits) : commits[c].version \in Version
    BY <1>6 DEF H!Commit
  <1>8. \A b \in Branch : refs[b] \in 0 .. Len(commits)
    BY DEF H!HistoryTypeOK
  <1> QED
    BY <1>2, <1>4, <1>5, <1>7, <1>8

(* What is known of one handler between two calls.  *)
LEMMA HandlerFacts ==
    ASSUME Inv, NEW w \in Worker
    PROVE  /\ LocalTypeOK /\ H!HistoryTypeOK /\ HandlerOK(w)
           /\ asOf[w] \in Nat /\ tip[w] \in Nat /\ source[w] \in Nat /\ done[w] \in Nat
           /\ pc[w] \in Call /\ reply[w] \in Status
           /\ Latest \in Nat \ {0} /\ Len(commits) \in Nat
           /\ emptied \in Nat /\ emptied <= Latest
           /\ pc[w] # "idle" => /\ req[w] \in Request
                                /\ req[w].branch \in Branch /\ req[w].from \in Branch
                                /\ req[w].version \in Version /\ req[w].commit \in Nat
           /\ pc[w] \notin {"clear", "notify"} => done[w] = 0
  <1>1. LocalTypeOK /\ H!HistoryTypeOK /\ HandlerOK(w) /\ emptied \in Nat /\ emptied <= Latest
    BY DEF Inv, TypeOK
  <1>2. /\ asOf[w] \in Nat /\ tip[w] \in Nat /\ source[w] \in Nat /\ done[w] \in Nat
        /\ pc[w] \in Call /\ reply[w] \in Status
    BY <1>1 DEF LocalTypeOK
  <1>3. Latest \in Nat \ {0} /\ Len(commits) \in Nat
    BY <1>1, RowType
  <1>4. pc[w] # "idle" => req[w] \in Request
    BY <1>1 DEF HandlerOK
  <1>5. pc[w] # "idle" => /\ req[w].branch \in Branch /\ req[w].from \in Branch
                           /\ req[w].version \in Version /\ req[w].commit \in Nat
    BY <1>4 DEF Request
  <1>6. pc[w] \notin {"clear", "notify"} => done[w] = 0
    BY <1>1 DEF HandlerOK
  <1> QED
    BY <1>1, <1>2, <1>3, <1>4, <1>5, <1>6

LEMMA PublishReadsHeadInv ==
    ASSUME Inv, NEW w \in Worker, PublishReadsHead(w)
    PROVE  Inv' /\ Grows /\ OthersStay(w)
  <1>1. Reads /\ pc[w] = "head" /\ req[w].op = "publish"
    BY DEF Reads, PublishReadsHead, HeadRead
  <1>2. LocalTypeOK /\ H!HistoryTypeOK /\ Latest \in Nat \ {0}
    BY HandlerFacts
  <1>3. Served \in Version \cup {NoPrompt}
    BY <1>2, RowType
  <1>4. /\ UNCHANGED <<req, tip, source, done, reply>>
        /\ Goto(w, "clear") \/ Goto(w, "tip")
        /\ SeesHead(w) \/ asOf' = asOf
        /\ pc'[w] = "clear" => SeesHead(w) /\ Served = req[w].version
    BY <1>2 DEF PublishReadsHead, Republish, LocalTypeOK, Goto, Call
  <1>5. against' = against
        \/ \E v \in Version \cup {NoPrompt, Unclassified} : against' = [against EXCEPT ![w] = v]
    BY <1>3, VerdictType DEF PublishReadsHead, Republish
  <1>6. pc' \in [Worker -> Call] /\ pc'[w] \in {"clear", "tip"}
        /\ \A u \in Worker \ {w} : pc'[u] = pc[u]
    BY <1>2, <1>4 DEF LocalTypeOK, Goto, Call
  <1>7. asOf' \in [Worker -> Nat] /\ \A u \in Worker \ {w} : asOf'[u] = asOf[u]
    BY <1>2, <1>4 DEF LocalTypeOK, SeesHead
  <1>8. against' \in [Worker -> Version \cup {NoPrompt, Unclassified}]
        /\ \A u \in Worker \ {w} : against'[u] = against[u]
    BY <1>2, <1>5 DEF LocalTypeOK
  <1>9. LocalTypeOK' /\ OthersStay(w)
    BY <1>2, <1>4, <1>6, <1>7, <1>8 DEF LocalTypeOK, OthersStay, Stays
  <1>10. asOf'[w] = asOf[w] \/ asOf'[w] = Latest
    BY <1>2, <1>4 DEF LocalTypeOK, SeesHead
  <1>11. pc'[w] = "clear" => asOf'[w] = Latest /\ rows[Latest].version = req[w].version
    BY <1>2, <1>4 DEF LocalTypeOK, SeesHead, Served
  <1>12. HandlerOK(w)'
    <2>1. UNCHANGED <<rows, commits, emptied, Latest>>
      BY <1>1 DEF Reads, storeVars, cacheVars, Latest
    <2> QED
      BY <1>1, <1>2, <1>4, <1>6, <1>10, <1>11, <2>1, HandlerFacts DEF HandlerOK
  <1> QED
    BY <1>1, <1>9, <1>12, ReadStep

(* A handler that goes on from a read, its locals but asOf unchanged.  *)
LEMMA ReadOn ==
    ASSUME Inv, NEW w \in Worker, Reads, UNCHANGED <<req, tip, source, against, done, reply>>,
           pc[w] \notin {"idle", "clear", "notify"},
           NEW l \in Call \ {"idle", "swap", "fork", "clear", "notify"}, Goto(w, l),
           l = "compare" => req[w].op = "put",
           l \in {"lookup", "load", "fill"} => pc[w] \in {"lookup", "load"},
           l = "move" => req[w].op = "rollback",
           SeesHead(w) \/ asOf' = asOf
    PROVE  Inv' /\ Grows /\ OthersStay(w)
  <1>1. LocalTypeOK /\ H!HistoryTypeOK /\ Latest \in Nat \ {0}
    BY HandlerFacts
  <1>2. pc' \in [Worker -> Call] /\ pc'[w] = l /\ \A u \in Worker \ {w} : pc'[u] = pc[u]
    BY <1>1, GotoType
  <1>3. asOf' \in [Worker -> Nat] /\ \A u \in Worker \ {w} : asOf'[u] = asOf[u]
    BY <1>1 DEF LocalTypeOK, SeesHead
  <1>4. LocalTypeOK' /\ OthersStay(w)
    BY <1>1, <1>2, <1>3 DEF LocalTypeOK, OthersStay, Stays
  <1>5. asOf'[w] = asOf[w] \/ asOf'[w] = Latest
    BY <1>1 DEF LocalTypeOK, SeesHead
  <1>6. HandlerOK(w)'
    <2>1. UNCHANGED <<rows, commits, emptied, Latest>>
      BY DEF Reads, storeVars, cacheVars, Latest
    <2> QED
      BY <1>1, <1>2, <1>5, <2>1, HandlerFacts DEF HandlerOK
  <1> QED
    BY <1>4, <1>6, ReadStep

LEMMA MergeReadsHeadInv ==
    ASSUME Inv, NEW w \in Worker, MergeReadsHead(w)
    PROVE  Inv' /\ Grows /\ OthersStay(w)
  BY ReadOn DEF MergeReadsHead, HeadRead, Call, Reads

LEMMA RollbackReadsHeadInv ==
    ASSUME Inv, NEW w \in Worker, RollbackReadsHead(w)
    PROVE  Inv' /\ Grows /\ OthersStay(w)
  BY ReadOn DEF RollbackReadsHead, HeadRead, Call, Reads

LEMMA PutReadsHeadInv ==
    ASSUME Inv, NEW w \in Worker, PutReadsHead(w)
    PROVE  Inv' /\ Grows /\ OthersStay(w)
  <1>1. Reads /\ pc[w] = "head" /\ req[w].op = "put"
    BY DEF Reads, PutReadsHead, HeadRead
  <1>2. CASE Goto(w, "compare") /\ UNCHANGED <<req, localVars, reply>>
    BY <1>1, <1>2, ReadOn DEF Call, localVars
  <1>3. CASE \E s \in Refusal : Answer(w, s)
    BY <1>1, <1>3, ReadAnswer, Refusals
  <1> QED
    BY <1>2, <1>3, Refusals DEF PutReadsHead

LEMMA SeedReadsHeadInv ==
    ASSUME Inv, NEW w \in Worker, SeedReadsHead(w)
    PROVE  Inv' /\ Grows /\ OthersStay(w)
  <1>1. Reads /\ pc[w] = "head"
    BY DEF Reads, SeedReadsHead, HeadRead
  <1>2. CASE Goto(w, "tip") /\ UNCHANGED <<req, localVars, reply>>
    BY <1>1, <1>2, ReadOn DEF Call, localVars
  <1>3. CASE Answer(w, "OK")
    BY <1>1, <1>3, ReadAnswer DEF Status
  <1> QED
    BY <1>2, <1>3 DEF SeedReadsHead

LEMMA CompareInv ==
    ASSUME Inv, NEW w \in Worker, Compare(w)
    PROVE  Inv' /\ Grows /\ OthersStay(w)
  <1>1. Reads /\ pc[w] = "compare"
    BY DEF Reads, Compare
  <1>2. CASE Goto(w, "tip") /\ UNCHANGED <<req, localVars, reply>>
    BY <1>1, <1>2, ReadOn DEF Call, localVars
  <1>3. CASE \E s \in Status : Answer(w, s)
    BY <1>1, <1>3, ReadAnswer
  <1> QED
    BY <1>2, <1>3, Refusals DEF Compare

(* FirstCall is where a handler's first call leaves from.  *)
LEMMA FirstCallType ==
    ASSUME NEW r \in Request, r.op \in RPCs \cup {"put", "import", "seed"}
    PROVE  /\ FirstCall(r) \in Call \ {"idle", "swap", "clear", "notify", "load", "fill"}
           /\ FirstCall(r) = "compare" => \/ r.op \in {"put", "import"}
                                          \/ r.op = "publish" /\ r.branch # "main"
           /\ FirstCall(r) = "lookup" => r.op = "get"
           /\ FirstCall(r) = "move" => r.op = "rollback"
           /\ FirstCall(r) = "fork" => r.op = "branch"
  BY DEF FirstCall, RPCs, Call

LEMMA StartInv ==
    ASSUME Inv, NEW w \in Worker, Start(w)
    PROVE  Inv' /\ Grows /\ OthersStay(w)
  <1> DEFINE refused(r) == r.op \in {"publish", "put", "import"} /\ r.version \in Malformed
             starts(r, c, q) ==
                /\ req' = [req EXCEPT ![w] = IF q THEN NoRequest ELSE [r EXCEPT !.commit = c]]
                /\ pc' = [pc EXCEPT ![w] = IF q THEN "idle" ELSE FirstCall(r)]
                /\ reply' = [reply EXCEPT ![w] = IF q THEN "InvalidArgument" ELSE "none"]
  <1>1. PICK r \in Job[w] : \E c \in 0 .. Len(commits) : starts(r, c, refused(r))
    <2>1. PICK r \in Job[w] :
            \E c \in IF r.op = "rollback" THEN 0 .. Len(commits) ELSE {0} :
                starts(r, c, refused(r))
      BY DEF Start
    <2>2. PICK c \in IF r.op = "rollback" THEN 0 .. Len(commits) ELSE {0} :
                starts(r, c, refused(r))
      BY <2>1
    <2>3. c \in 0 .. Len(commits)
      BY HandlerFacts
    <2> QED
      BY <2>2, <2>3
  <1>2. PICK c \in 0 .. Len(commits), q \in BOOLEAN :
                /\ req' = [req EXCEPT ![w] = IF q THEN NoRequest ELSE [r EXCEPT !.commit = c]]
                /\ pc' = [pc EXCEPT ![w] = IF q THEN "idle" ELSE FirstCall(r)]
                /\ reply' = [reply EXCEPT ![w] = IF q THEN "InvalidArgument" ELSE "none"]
    <2>1. refused(r) \in BOOLEAN
      OBVIOUS
    <2> QED
      BY <1>1, <2>1
  <1> HIDE DEF refused, starts
  <1>3. /\ pc[w] = "idle" /\ UNCHANGED <<storeVars, cacheVars, events, localVars, crashes>>
        /\ writes' = writes \/ (writes < MaxWrites /\ writes' = writes + 1)
    BY DEF Start
  <1>4. LocalTypeOK /\ H!HistoryTypeOK /\ Len(commits) \in Nat /\ TypeOK
        /\ emptied <= Latest /\ done[w] = 0
    BY <1>3, HandlerFacts DEF Inv
  <1>5. r \in Request /\ MaxWrites \in Nat /\ MaxCrashes \in Nat
    BY ServerAssumption
  <1>6. r.op \in RPCs \cup {"put", "import", "seed"} /\ [r EXCEPT !.commit = c] \in Request
    BY <1>4, <1>5 DEF Request
  <1>7. /\ FirstCall(r) \in Call \ {"idle", "swap", "clear", "notify", "load", "fill"}
        /\ FirstCall(r) = "compare" => \/ r.op \in {"put", "import"}
                                       \/ r.op = "publish" /\ r.branch # "main"
        /\ FirstCall(r) = "lookup" => r.op = "get"
        /\ FirstCall(r) = "move" => r.op = "rollback"
        /\ FirstCall(r) = "fork" => r.branch # "main"
    BY <1>5, <1>6, FirstCallType, ServerAssumption
  <1>8. pc' \in [Worker -> Call] /\ pc'[w] = IF q THEN "idle" ELSE FirstCall(r)
    BY <1>2, <1>4, <1>7 DEF LocalTypeOK, Call
  <1>9. req' \in [Worker -> Request \cup {NoRequest}]
        /\ req'[w] = IF q THEN NoRequest ELSE [r EXCEPT !.commit = c]
    BY <1>2, <1>4, <1>6 DEF LocalTypeOK
  <1>10. reply' \in [Worker -> Status]
    BY <1>2, <1>4 DEF LocalTypeOK, Status
  <1>11. LocalTypeOK' /\ OthersStay(w)
    BY <1>2, <1>3, <1>4, <1>8, <1>9, <1>10 DEF LocalTypeOK, OthersStay, Stays, localVars
  <1>12. H!HistoryTypeOK' /\ Latest' = Latest /\ Latest \in Nat
    BY <1>3, <1>4, StoreSame
  <1>13. Grows
    BY <1>3, <1>4, <1>12 DEF Grows, storeVars, cacheVars, TypeOK
  <1>14. HandlerOK(w)'
    <2>1. UNCHANGED <<rows, commits, emptied, Latest, asOf, tip, source, done>>
      BY <1>3, <1>12 DEF storeVars, cacheVars, localVars
    <2>2. pc'[w] # "idle" =>
             /\ req'[w] \in Request /\ req'[w].commit <= Len(commits)
             /\ req'[w].op = r.op /\ req'[w].branch = r.branch
      BY <1>4, <1>5, <1>6, <1>8, <1>9 DEF Request
    <2> QED
      BY <1>3, <1>4, <1>7, <1>8, <2>1, <2>2, HandlerFacts DEF HandlerOK
  <1>15. writes' \in 0 .. MaxWrites /\ crashes' \in 0 .. MaxCrashes
    BY <1>3, <1>4, <1>5 DEF TypeOK
  <1>16. /\ events' \in Seq(Event) /\ cached' \in Nat /\ owed' \in SUBSET Nat
         /\ emptied' <= Latest'
    BY <1>3, <1>4, <1>12 DEF TypeOK, cacheVars
  <1> QED
    BY <1>11, <1>12, <1>13, <1>14, <1>15, <1>16, WorkerStep

LEMMA ReadTipInv ==
    ASSUME Inv, NEW w \in Worker, ReadTip(w)
    PROVE  Inv' /\ Grows /\ OthersStay(w)
  <1>1. Reads /\ pc[w] = "tip"
    BY DEF Reads, ReadTip
  <1>2. CASE \E s \in Refusal : Answer(w, s)
    BY <1>1, <1>2, ReadAnswer, Refusals
  <1>3. CASE /\ ~(req[w].op = "merge" /\ (refs[req[w].branch] = 0 \/ refs[req[w].from] = 0))
             /\ tip' = [tip EXCEPT ![w] = refs[req[w].branch]]
             /\ source' = [source EXCEPT ![w] = IF req[w].op = "merge"
                                                  THEN refs[req[w].from] ELSE 0]
             /\ Goto(w, "swap")
             /\ UNCHANGED <<req, asOf, against, done, reply>>
    <2>1. LocalTypeOK /\ H!HistoryTypeOK /\ Len(commits) \in Nat
          /\ req[w].branch \in Branch /\ req[w].from \in Branch
      BY <1>1, HandlerFacts
    <2>2. refs[req[w].branch] \in 0 .. Len(commits) /\ refs[req[w].from] \in 0 .. Len(commits)
      BY <2>1, RowType
    <2>3. pc' \in [Worker -> Call] /\ pc'[w] = "swap" /\ \A u \in Worker \ {w} : pc'[u] = pc[u]
      BY <1>3, <2>1, GotoType DEF Call
    <2>4. LocalTypeOK' /\ OthersStay(w)
      BY <1>3, <2>1, <2>2, <2>3 DEF LocalTypeOK, OthersStay, Stays
    <2>5. /\ tip'[w] = refs[req[w].branch]
          /\ source'[w] = IF req[w].op = "merge" THEN refs[req[w].from] ELSE 0
      BY <1>3, <2>1 DEF LocalTypeOK
    <2>6. HandlerOK(w)'
      <3>1. UNCHANGED <<rows, commits, emptied, Latest>>
        BY <1>1 DEF Reads, storeVars, cacheVars, Latest
      <3> QED
        BY <1>1, <1>3, <2>1, <2>2, <2>3, <2>5, <3>1, HandlerFacts DEF HandlerOK
    <2> QED
      BY <1>1, <2>4, <2>6, ReadStep
  <1> QED
    BY <1>2, <1>3, Refusals DEF ReadTip

-----------------------------------------------------------------------------

(* A branch moves to one of the commits: the store stays well formed, and  *)
(* a row is added when the branch is main.                                 *)
LEMMA PointToStore ==
    ASSUME H!HistoryTypeOK, NEW b \in Branch, commits' \in Seq(H!Commit),
           Len(commits) <= Len(commits'), NEW c \in 1 .. Len(commits'), H!PointTo(b, c)
    PROVE  /\ H!HistoryTypeOK'
           /\ Latest' = IF b = "main" THEN Latest + 1 ELSE Latest
           /\ Latest \in Nat \ {0} /\ Latest' \in Nat \ {0}
           /\ \A i \in 1 .. Latest : rows'[i] = rows[i]
           /\ b = "main" => rows'[Latest'] = [version |-> commits'[c].version, commit |-> c]
           /\ commits'[c].version \in Version
  <1>1. /\ rows \in Seq(H!Row) /\ rows # <<>> /\ commits \in Seq(H!Commit)
        /\ refs \in [Branch -> 0 .. Len(commits)] /\ Len(commits) \in Nat
        /\ Len(commits') \in Nat
    BY DEF H!HistoryTypeOK
  <1>2. commits'[c] \in H!Commit
    OBVIOUS
  <1>3. commits'[c].version \in Version
    BY <1>2 DEF H!Commit
  <1> DEFINE row == [version |-> commits'[c].version, commit |-> c]
  <1>4. row \in H!Row
    BY <1>1, <1>3 DEF H!Row
  <1>5. rows' = IF b = "main" THEN Append(rows, row) ELSE rows
    BY DEF H!PointTo
  <1> HIDE DEF row
  <1>6. /\ rows' \in Seq(H!Row) /\ rows' # <<>>
        /\ Latest' = IF b = "main" THEN Latest + 1 ELSE Latest
        /\ Latest \in Nat \ {0} /\ Latest' \in Nat \ {0}
        /\ \A i \in 1 .. Latest : rows'[i] = rows[i]
        /\ b = "main" => rows'[Latest'] = row
    <2>1. Latest = Len(rows) /\ Latest' = Len(rows') /\ Latest \in Nat \ {0}
      BY <1>1 DEF Latest
    <2>2. CASE b = "main"
      <3>1. rows' = Append(rows, row)
        BY <1>5, <2>2
      <3>2. rows' \in Seq(H!Row) /\ Len(rows') = Len(rows) + 1
        BY <1>1, <1>4, <3>1
      <3>3. rows'[Len(rows) + 1] = row /\ \A i \in 1 .. Len(rows) : rows'[i] = rows[i]
        BY <1>1, <1>4, <3>1
      <3> QED
        BY <2>1, <2>2, <3>2, <3>3
    <2>3. CASE b # "main"
      BY <1>1, <1>5, <2>1, <2>3
    <2> QED
      BY <2>2, <2>3
  <1>7. refs' \in [Branch -> 0 .. Len(commits')]
    BY <1>1 DEF H!PointTo
  <1> QED
    BY <1>3, <1>6, <1>7 DEF H!HistoryTypeOK, row

(* A handler whose write has just landed.  *)
LEMMA LandedInv ==
    ASSUME Inv, NEW w \in Worker, pc[w] \in {"swap", "move", "fork"}, Landed(w), Grows,
           UNCHANGED <<cached, emptied, events, boundVars>>, H!HistoryTypeOK',
           req[w].branch = "main" =>
               /\ Latest' # 0 /\ rows'[Latest'].version \in Version
               /\ req[w].op = "publish" => rows'[Latest'].version = req[w].version
    PROVE  Inv' /\ Grows /\ OthersStay(w)
  <1>1. /\ LocalTypeOK /\ TypeOK /\ emptied <= Latest /\ done[w] = 0
        /\ MaxWrites \in Nat /\ MaxCrashes \in Nat
    BY HandlerFacts, ServerAssumption DEF Inv
  <1>2. Latest' \in Nat /\ Latest \in Nat /\ Latest <= Latest' /\ emptied' = emptied
    BY HandlerFacts DEF Grows
  <1>3. owed' = owed \/ owed' = owed \cup {Latest'}
    BY DEF Landed
  <1>4. /\ events' \in Seq(Event) /\ cached' \in Nat /\ owed' \in SUBSET Nat
        /\ emptied' <= Latest' /\ writes' \in 0 .. MaxWrites /\ crashes' \in 0 .. MaxCrashes
    BY <1>1, <1>2, <1>3 DEF TypeOK, boundVars
  <1>5. CASE \E s \in Status : Answer(w, s)
    <2>1. LocalTypeOK' /\ OthersStay(w)
      BY <1>1, <1>5, AnswerType
    <2>2. HandlerOK(w)'
      BY <1>1, <1>5, IdleOK
    <2> QED
      BY <1>4, <2>1, <2>2, WorkerStep
  <1>6. CASE /\ req[w].branch = "main" /\ req[w].op \in RPCs
             /\ done' = [done EXCEPT ![w] = Latest']
             /\ Goto(w, "clear")
             /\ UNCHANGED <<req, asOf, tip, source, against, reply, owed>>
    <2>1. pc' \in [Worker -> Call] /\ pc'[w] = "clear" /\ \A u \in Worker \ {w} : pc'[u] = pc[u]
      BY <1>1, <1>6, GotoType DEF Call
    <2>2. done' \in [Worker -> Nat] /\ done'[w] = Latest'
          /\ \A u \in Worker \ {w} : done'[u] = done[u]
      BY <1>1, <1>2, <1>6 DEF LocalTypeOK
    <2>3. LocalTypeOK' /\ OthersStay(w)
      BY <1>1, <1>6, <2>1, <2>2 DEF LocalTypeOK, OthersStay, Stays
    <2>4. HandlerOK(w)'
      <3>1. /\ asOf'[w] = asOf[w] /\ tip'[w] = tip[w] /\ source'[w] = source[w]
            /\ req'[w] = req[w] /\ reply'[w] = reply[w]
        BY <1>6
      <3>2. /\ asOf'[w] <= Latest' /\ tip'[w] <= Len(commits') /\ source'[w] <= Len(commits')
            /\ req'[w] \in Request /\ req'[w].commit <= Len(commits')
        BY <1>2, <3>1, HandlerFacts DEF HandlerOK, Grows
      <3> QED
        BY <1>2, <1>6, <2>1, <2>2, <3>1, <3>2 DEF HandlerOK
    <2> QED
      BY <1>4, <2>3, <2>4, WorkerStep
  <1> QED
    BY <1>5, <1>6, Refusals DEF Landed

LEMMA NotWrittenInv ==
    ASSUME Inv, NEW w \in Worker, NEW s \in Status, NotWritten(w, s),
           UNCHANGED <<cached, emptied, events, boundVars>>
    PROVE  Inv' /\ Grows /\ OthersStay(w)
  BY ReadAnswer DEF NotWritten, Reads, cacheVars

LEMMA SwapInv ==
    ASSUME Inv, NEW w \in Worker, Swap(w)
    PROVE  Inv' /\ Grows /\ OthersStay(w)
  <1>1. pc[w] = "swap" /\ UNCHANGED <<cached, emptied, events, boundVars>>
    BY DEF Swap
  <1>2. CASE \E s \in Refusal : NotWritten(w, s)
    BY <1>1, <1>2, NotWrittenInv, Refusals
  <1> DEFINE v == IF source[w] # 0 THEN commits[source[w]].version ELSE req[w].version
             c == [version |-> v, parent |-> tip[w], parent2 |-> source[w]]
  <1>3. CASE /\ commits' = Append(commits, c)
             /\ H!PointTo(req[w].branch, Len(commits) + 1)
             /\ Landed(w)
    <2>1. /\ H!HistoryTypeOK /\ req[w].branch \in Branch /\ req[w].version \in Version
          /\ tip[w] \in Nat /\ source[w] \in 0 .. Len(commits) /\ Len(commits) \in Nat
          /\ req[w].op = "publish" => source[w] = 0
      BY <1>1, HandlerFacts DEF HandlerOK
    <2>2. v \in Version /\ (req[w].op = "publish" => v = req[w].version)
      BY <2>1, RowType
    <2>3. c \in H!Commit /\ c.version = v
      BY <2>1, <2>2 DEF H!Commit
    <2> HIDE DEF c, v
    <2>4. /\ commits' \in Seq(H!Commit) /\ Len(commits') = Len(commits) + 1
          /\ commits'[Len(commits) + 1] = c
      BY <1>3, <2>1, <2>3 DEF H!HistoryTypeOK
    <2>5. /\ H!HistoryTypeOK'
          /\ Latest' = IF req[w].branch = "main" THEN Latest + 1 ELSE Latest
          /\ Latest \in Nat \ {0} /\ Latest' \in Nat \ {0}
          /\ \A i \in 1 .. Latest : rows'[i] = rows[i]
          /\ req[w].branch = "main" =>
                rows'[Latest'] = [version |-> commits'[Len(commits) + 1].version,
                                  commit |-> Len(commits) + 1]
      BY <1>3, <2>1, <2>4, PointToStore
    <2>6. Grows
      BY <1>1, <2>1, <2>4, <2>5, HandlerFacts DEF Grows
    <2>7. req[w].branch = "main" =>
               /\ Latest' # 0 /\ rows'[Latest'].version \in Version
               /\ req[w].op = "publish" => rows'[Latest'].version = req[w].version
      BY <2>2, <2>3, <2>4, <2>5
    <2> QED
      BY <1>1, <1>3, <2>5, <2>6, <2>7, LandedInv
  <1> QED
    BY <1>2, <1>3, Refusals DEF Swap

LEMMA MoveInv ==
    ASSUME Inv, NEW w \in Worker, Move(w)
    PROVE  Inv' /\ Grows /\ OthersStay(w)
  <1>1. pc[w] = "move" /\ UNCHANGED <<cached, emptied, events, boundVars>>
    BY DEF Move
  <1>2. CASE \E s \in Refusal : NotWritten(w, s)
    BY <1>1, <1>2, NotWrittenInv, Refusals
  <1>3. CASE H!PointAt(req[w].branch, req[w].commit) /\ Landed(w)
    <2> DEFINE c == req[w].commit
    <2>1. /\ H!HistoryTypeOK /\ req[w].branch \in Branch /\ Len(commits) \in Nat
          /\ commits \in Seq(H!Commit)
      BY <1>1, HandlerFacts DEF H!HistoryTypeOK
    <2>2. commits' = commits /\ c \in 1 .. Len(commits) /\ H!PointTo(req[w].branch, c)
      BY <1>3 DEF H!PointAt
    <2>3. /\ H!HistoryTypeOK'
          /\ Latest' = IF req[w].branch = "main" THEN Latest + 1 ELSE Latest
          /\ Latest \in Nat \ {0} /\ Latest' \in Nat \ {0}
          /\ \A i \in 1 .. Latest : rows'[i] = rows[i]
          /\ req[w].branch = "main" =>
                rows'[Latest'] = [version |-> commits'[c].version, commit |-> c]
          /\ commits'[c].version \in Version
      BY <2>1, <2>2, PointToStore
    <2>4. Grows
      BY <1>1, <2>1, <2>2, <2>3, HandlerFacts DEF Grows
    <2>5. req[w].branch = "main" => rows'[Latest'].version \in Version
      BY <2>3
    <2>6. req[w].op # "publish"
      BY <1>1, HandlerFacts DEF HandlerOK
    <2> QED
      BY <1>1, <1>3, <2>3, <2>4, <2>5, <2>6, LandedInv
  <1> QED
    BY <1>2, <1>3, Refusals DEF Move

LEMMA CreateBranchInv ==
    ASSUME Inv, NEW w \in Worker, CreateBranch(w)
    PROVE  Inv' /\ Grows /\ OthersStay(w)
  <1>1. pc[w] = "fork" /\ UNCHANGED <<cached, emptied, events, boundVars>>
    BY DEF CreateBranch
  <1>2. CASE \E s \in Refusal : NotWritten(w, s)
    BY <1>1, <1>2, NotWrittenInv, Refusals
  <1>3. CASE H!Fork(req[w].branch, req[w].from) /\ Landed(w)
    <2>1. /\ H!HistoryTypeOK /\ req[w].branch \in Branch /\ req[w].from \in Branch
          /\ Len(commits) \in Nat
      BY <1>1, HandlerFacts
    <2>2. refs' = [refs EXCEPT ![req[w].branch] = refs[req[w].from]] /\ UNCHANGED <<commits, rows>>
      BY <1>3 DEF H!Fork
    <2>3. H!HistoryTypeOK' /\ Latest' = Latest
      BY <2>1, <2>2 DEF H!HistoryTypeOK, Latest
    <2>4. Grows
      BY <1>1, <2>1, <2>2, <2>3, HandlerFacts DEF Grows
    <2>5. req[w].branch # "main"
      BY <1>1, HandlerFacts DEF HandlerOK
    <2> QED
      BY <1>1, <1>3, <2>3, <2>4, <2>5, LandedInv
  <1> QED
    BY <1>2, <1>3, Refusals DEF CreateBranch

-----------------------------------------------------------------------------

(* The calls to the cache and the notifier leave the store alone.  *)
LEMMA CacheCall ==
    ASSUME Inv, UNCHANGED <<storeVars, boundVars>>, emptied' \in {emptied, Latest}
    PROVE  /\ Grows /\ H!HistoryTypeOK' /\ emptied' <= Latest' /\ Latest' = Latest
           /\ UNCHANGED <<rows, commits>>
           /\ writes' \in 0 .. MaxWrites /\ crashes' \in 0 .. MaxCrashes
  <1>1. /\ TypeOK /\ H!HistoryTypeOK /\ emptied <= Latest /\ emptied \in Nat
    BY DEF Inv, TypeOK
  <1>2. H!HistoryTypeOK' /\ Latest' = Latest /\ Latest \in Nat \ {0} /\ Len(commits) \in Nat
    BY <1>1, StoreSame
  <1>3. UNCHANGED <<rows, commits>>
    BY DEF storeVars
  <1> QED
    BY <1>1, <1>2, <1>3 DEF Grows, TypeOK, boundVars

LEMMA ClearInv ==
    ASSUME Inv, NEW w \in Worker, Clear(w)
    PROVE  Inv' /\ Grows /\ OthersStay(w)
  <1>1. /\ pc[w] = "clear" /\ UNCHANGED <<storeVars, boundVars>> /\ events' = events
        /\ EmptyCache \/ ClearFails(w)
    BY DEF Clear
  <1>2. LocalTypeOK /\ TypeOK /\ done[w] \in Nat /\ Latest \in Nat /\ emptied \in Nat
        /\ HandlerOK(w)
    BY HandlerFacts DEF Inv
  <1>3. /\ cached' \in Nat /\ owed' \in SUBSET Nat /\ events' \in Seq(Event)
        /\ emptied' \in {emptied, Latest}
    <2>1. cached' \in {0, cached} /\ emptied' \in {emptied, Latest}
      BY <1>1 DEF EmptyCache, ClearFails
    <2>2. owed' = {} \/ owed' = owed \cup ({done[w]} \ {0})
      BY <1>1 DEF EmptyCache, ClearFails
    <2>3. cached \in Nat /\ owed \in SUBSET Nat /\ events \in Seq(Event)
      BY <1>2 DEF TypeOK
    <2>4. owed' \in SUBSET Nat
      BY <1>2, <2>2, <2>3
    <2> QED
      BY <1>1, <2>1, <2>3, <2>4
  <1>4. /\ Grows /\ H!HistoryTypeOK' /\ emptied' <= Latest' /\ Latest' = Latest
        /\ UNCHANGED <<rows, commits>>
        /\ writes' \in 0 .. MaxWrites /\ crashes' \in 0 .. MaxCrashes
    BY <1>1, <1>3, CacheCall
  <1>5. CASE Answer(w, "OK") \/ Answer(w, "Unavailable")
    <2>1. LocalTypeOK' /\ OthersStay(w)
      BY <1>2, <1>5, AnswerType DEF Status
    <2>2. HandlerOK(w)'
      BY <1>2, <1>4, <1>5, IdleOK DEF Status
    <2> QED
      BY <1>3, <1>4, <2>1, <2>2, WorkerStep
  <1>6. CASE \E status \in {"OK", "Unavailable"} :
                /\ Goto(w, "notify")
                /\ reply' = [reply EXCEPT ![w] = status]
                /\ UNCHANGED <<req, localVars>>
                /\ done[w] # 0 /\ (status = "OK" => emptied' = Latest)
    <2>1. PICK status \in {"OK", "Unavailable"} :
                /\ Goto(w, "notify")
                /\ reply' = [reply EXCEPT ![w] = status]
                /\ UNCHANGED <<req, localVars>>
                /\ done[w] # 0 /\ (status = "OK" => emptied' = Latest)
      BY <1>6
    <2>2. pc' \in [Worker -> Call] /\ pc'[w] = "notify" /\ \A u \in Worker \ {w} : pc'[u] = pc[u]
      BY <1>2, <2>1, GotoType DEF Call
    <2>3. reply' \in [Worker -> Status] /\ reply'[w] = status
          /\ \A u \in Worker \ {w} : reply'[u] = reply[u]
      BY <1>2, <2>1 DEF LocalTypeOK, Status
    <2>4. /\ asOf' = asOf /\ tip' = tip /\ source' = source /\ against' = against
          /\ done' = done /\ req' = req
      BY <2>1 DEF localVars
    <2>5. LocalTypeOK' /\ OthersStay(w)
      BY <1>2, <2>2, <2>3, <2>4 DEF LocalTypeOK, OthersStay, Stays
    <2>6. HandlerOK(w)'
      BY <1>1, <1>2, <1>4, <2>1, <2>2, <2>3, <2>4 DEF HandlerOK
    <2> QED
      BY <1>3, <1>4, <2>5, <2>6, WorkerStep
  <1>7. done[w] # 0 \/ FailsAtOnce(w)
    BY DEF FailsAtOnce
  <1> QED
    BY <1>5, <1>6, <1>7 DEF Clear, EmptyCache

(* The event a handler sends is one of its own row.  *)
LEMMA NotifyEvents ==
    ASSUME Inv, NEW w \in Worker, Notify(w)
    PROVE  events' \in Seq(Event)
  <1>1. /\ pc[w] = "notify" /\ done[w] \in Nat \ {0} /\ done[w] <= Latest
        /\ rows[done[w]].version \in Version
        /\ asOf[w] \in Nat /\ asOf[w] <= Latest /\ Latest \in Nat
        /\ against[w] \in Version \cup {NoPrompt, Unclassified}
        /\ H!HistoryTypeOK /\ events \in Seq(Event)
    BY HandlerFacts DEF Notify, HandlerOK, LocalTypeOK, Inv, TypeOK
  <1>2. Read(w) \in Version \cup {NoPrompt}
    BY <1>1, RowType DEF Read
  <1>3. \A old \in Verdicts(Read(w)) : old \in Version \cup {NoPrompt, Unclassified}
    BY <1>2, VerdictType
  <1>4. \A old \in Version \cup {NoPrompt, Unclassified} :
            [version |-> rows[done[w]].version, against |-> old, change |-> done[w]] \in Event
    BY <1>1 DEF Event
  <1>5. \/ events' = events
        \/ \E old \in Version \cup {NoPrompt, Unclassified} :
               events' = Append(events, [version |-> rows[done[w]].version,
                                         against |-> old, change |-> done[w]])
    <2>1. events' = events \/ \E old \in {against[w]} \cup Verdicts(Read(w)) :
                                  Publish(rows[done[w]].version, old, w)
      BY DEF Notify
    <2> QED
      BY <1>1, <1>3, <2>1 DEF Publish
  <1>6. CASE events' = events
    BY <1>1, <1>6
  <1>7. CASE \E old \in Version \cup {NoPrompt, Unclassified} :
               events' = Append(events, [version |-> rows[done[w]].version,
                                         against |-> old, change |-> done[w]])
    <2>1. PICK e \in Event : events' = Append(events, e)
      BY <1>4, <1>7
    <2> QED
      BY <1>1, <2>1
  <1> QED
    BY <1>5, <1>6, <1>7

LEMMA NotifyInv ==
    ASSUME Inv, NEW w \in Worker, Notify(w)
    PROVE  Inv' /\ Grows /\ OthersStay(w)
  <1>1. UNCHANGED <<storeVars, cacheVars, boundVars>> /\ Answer(w, reply[w])
    BY DEF Notify
  <1>2. LocalTypeOK /\ TypeOK /\ reply[w] \in Status /\ emptied' = emptied
    BY <1>1, HandlerFacts DEF Inv, cacheVars
  <1>3. /\ Grows /\ H!HistoryTypeOK' /\ emptied' <= Latest'
        /\ writes' \in 0 .. MaxWrites /\ crashes' \in 0 .. MaxCrashes
    BY <1>1, <1>2, CacheCall
  <1>4. cached' \in Nat /\ owed' \in SUBSET Nat
    BY <1>1, <1>2 DEF TypeOK, cacheVars
  <1>5. LocalTypeOK' /\ OthersStay(w)
    BY <1>1, <1>2, AnswerType
  <1>6. HandlerOK(w)'
    BY <1>1, <1>2, <1>3, IdleOK
  <1> QED
    BY <1>3, <1>4, <1>5, <1>6, NotifyEvents, WorkerStep

LEMMA LookupInv ==
    ASSUME Inv, NEW w \in Worker, Lookup(w)
    PROVE  Inv' /\ Grows /\ OthersStay(w)
  <1>1. Reads /\ pc[w] = "lookup"
    BY DEF Reads, Lookup
  <1>2. CASE Goto(w, "load") /\ UNCHANGED <<req, localVars, reply>>
    BY <1>1, <1>2, ReadOn DEF Call, localVars
  <1>3. CASE Answer(w, "OK")
    BY <1>1, <1>3, ReadAnswer DEF Status
  <1> QED
    BY <1>2, <1>3 DEF Lookup

LEMMA LoadInv ==
    ASSUME Inv, NEW w \in Worker, Load(w)
    PROVE  Inv' /\ Grows /\ OthersStay(w)
  <1>1. Reads /\ pc[w] = "load"
    BY DEF Reads, Load
  <1>2. CASE SeesHead(w) /\ Goto(w, "fill")
             /\ UNCHANGED <<req, tip, source, against, done, reply>>
    BY <1>1, <1>2, ReadOn DEF Call
  <1>3. CASE \E s \in Refusal : Answer(w, s)
    BY <1>1, <1>3, ReadAnswer, Refusals
  <1> QED
    BY <1>2, <1>3, Refusals DEF Load

LEMMA FillInv ==
    ASSUME Inv, NEW w \in Worker, Fill(w)
    PROVE  Inv' /\ Grows /\ OthersStay(w)
  <1>1. /\ UNCHANGED <<storeVars, emptied, owed, events, boundVars>> /\ Answer(w, "OK")
        /\ cached' \in {cached, asOf[w]}
    BY DEF Fill
  <1>2. LocalTypeOK /\ TypeOK /\ asOf[w] \in Nat
    BY HandlerFacts DEF Inv
  <1>3. /\ Grows /\ H!HistoryTypeOK' /\ emptied' <= Latest'
        /\ writes' \in 0 .. MaxWrites /\ crashes' \in 0 .. MaxCrashes
    BY <1>1, <1>2, CacheCall
  <1>4. cached' \in Nat /\ owed' \in SUBSET Nat /\ events' \in Seq(Event)
    BY <1>1, <1>2 DEF TypeOK
  <1>5. LocalTypeOK' /\ OthersStay(w)
    BY <1>1, <1>2, AnswerType DEF Status
  <1>6. HandlerOK(w)'
    BY <1>1, <1>2, <1>3, IdleOK DEF Status
  <1> QED
    BY <1>3, <1>4, <1>5, <1>6, WorkerStep

-----------------------------------------------------------------------------

LEMMA ExpireInv ==
    ASSUME Inv, Expire
    PROVE  Inv' /\ Grows
  <1>1. /\ UNCHANGED <<storeVars, events, pc, req, localVars, reply, boundVars>>
        /\ cached' = 0 /\ emptied' = Latest /\ owed' = {}
    BY DEF Expire, EmptyCache
  <1>2. TypeOK
    BY DEF Inv
  <1>3. /\ Grows /\ H!HistoryTypeOK' /\ emptied' <= Latest'
        /\ writes' \in 0 .. MaxWrites /\ crashes' \in 0 .. MaxCrashes
    BY <1>1, CacheCall
  <1>4. LocalTypeOK' /\ \A u \in Worker : Stays(u)
    BY <1>1, <1>2 DEF TypeOK, LocalTypeOK, Stays, localVars
  <1>5. \A u \in Worker : HandlerOK(u)'
    BY <1>3, <1>4, StaysOK
  <1>6. TypeOK'
    BY <1>1, <1>2, <1>3, <1>4 DEF TypeOK, Grows
  <1> QED
    BY <1>3, <1>5, <1>6 DEF Inv

LEMMA RestoreRowInv ==
    ASSUME Inv, RestoreRow
    PROVE  Inv' /\ Grows
  <1>1. PICK v \in Version : H!LoadRow(v)
    BY ServerAssumption DEF RestoreRow
  <1>2. /\ UNCHANGED <<cached, emptied, events, pc, req, localVars, reply, crashes>>
        /\ owed' = owed \cup {Latest'}
        /\ writes < MaxWrites /\ writes' = writes + 1
    BY DEF RestoreRow
  <1>3. TypeOK /\ H!HistoryTypeOK /\ emptied <= Latest /\ emptied \in Nat /\ LocalTypeOK
    BY DEF Inv, TypeOK
  <1>4. /\ rows \in Seq(H!Row) /\ rows # <<>> /\ Latest \in Nat /\ Latest = Len(rows)
        /\ Len(commits) \in Nat
    BY <1>3, RowType DEF H!HistoryTypeOK, Latest
  <1> DEFINE row == [version |-> v, commit |-> 0]
  <1>5. row \in H!Row /\ rows' = Append(rows, row) /\ UNCHANGED <<commits, refs>>
    BY <1>1 DEF H!Row, H!LoadRow
  <1> HIDE DEF row
  <1>6. /\ rows' \in Seq(H!Row) /\ rows' # <<>> /\ Len(rows') = Len(rows) + 1
        /\ \A i \in 1 .. Len(rows) : rows'[i] = rows[i]
    BY <1>4, <1>5
  <1>7. Latest' = Latest + 1
    BY <1>4, <1>6 DEF Latest
  <1>8. H!HistoryTypeOK'
    BY <1>3, <1>5, <1>6 DEF H!HistoryTypeOK
  <1>9. Grows
    BY <1>2, <1>3, <1>4, <1>5, <1>6, <1>7 DEF Grows
  <1>10. LocalTypeOK' /\ \A u \in Worker : Stays(u)
    BY <1>2, <1>3 DEF LocalTypeOK, Stays, localVars
  <1>11. \A u \in Worker : HandlerOK(u)'
    BY <1>9, <1>10, StaysOK
  <1>12. owed' \in SUBSET Nat /\ emptied' <= Latest'
    <2>1. owed \subseteq Nat /\ Latest' \in Nat
      BY <1>3, <1>4, <1>7 DEF TypeOK
    <2>2. owed' \subseteq Nat
      BY <1>2, <2>1
    <2>3. emptied' <= Latest'
      BY <1>2, <1>3, <1>4, <1>7
    <2> QED
      BY <2>2, <2>3
  <1>13. MaxWrites \in Nat
    BY ServerAssumption
  <1>14. TypeOK'
    BY <1>2, <1>3, <1>8, <1>10, <1>12, <1>13 DEF TypeOK
  <1> QED
    BY <1>9, <1>11, <1>12, <1>14 DEF Inv

LEMMA CrashInv ==
    ASSUME Inv, NEW n \in Node, Crash(n)
    PROVE  Inv' /\ Grows
  <1> DEFINE lost == {w \in Worker : NodeOf[w] = n /\ pc[w] # "idle"}
             left == {done[w] : w \in {u \in lost : pc[u] = "clear" /\ done[u] # 0}}
  <1>1. /\ crashes < MaxCrashes /\ crashes' = crashes + 1
        /\ UNCHANGED <<storeVars, events, writes>>
        /\ \/ cached' = 0 /\ emptied' = Latest /\ owed' = {}
           \/ UNCHANGED <<cached, emptied>> /\ owed' = owed \cup left
    BY DEF Crash, EmptyCache
  <1>2. \A w \in Worker :
            /\ w \in lost =>
                  /\ pc'[w] = "idle" /\ req'[w] = NoRequest /\ reply'[w] = "none"
                  /\ asOf'[w] = 0 /\ tip'[w] = 0 /\ source'[w] = 0
                  /\ against'[w] = Unclassified /\ done'[w] = 0
            /\ w \notin lost => Stays(w)
    BY DEF Crash, Stays
  <1>3. TypeOK /\ H!HistoryTypeOK /\ LocalTypeOK /\ emptied <= Latest /\ emptied \in Nat
    BY DEF Inv, TypeOK
  <1>4. H!HistoryTypeOK' /\ Latest' = Latest /\ Latest \in Nat \ {0} /\ Len(commits) \in Nat
    BY <1>1, <1>3, StoreSame
  <1>5. emptied' <= Latest' /\ Grows
    BY <1>1, <1>3, <1>4 DEF Grows, storeVars
  <1>6. LocalTypeOK'
    BY <1>3 DEF Crash, LocalTypeOK, Call, Status
  <1> HIDE DEF lost
  <1>7. \A u \in Worker : HandlerOK(u)'
    <2> SUFFICES ASSUME NEW u \in Worker PROVE HandlerOK(u)'
      OBVIOUS
    <2>1. CASE u \in lost
      BY <1>2, <1>4, <1>5, <2>1 DEF HandlerOK, Grows
    <2>2. CASE u \notin lost
      BY <1>2, <1>5, <2>2, StaysOK
    <2> QED
      BY <2>1, <2>2
  <1>8. owed' \in SUBSET Nat /\ cached' \in Nat
    <2>1. owed \subseteq Nat /\ cached \in Nat
      BY <1>3 DEF TypeOK
    <2>2. left \subseteq Nat
      BY <1>3 DEF LocalTypeOK, lost
    <2>3. cached' \in {cached, 0} /\ (owed' = {} \/ owed' = owed \cup left)
      BY <1>1
    <2> HIDE DEF left
    <2>4. cached' \in Nat
      BY <2>1, <2>3
    <2>5. owed \cup left \subseteq Nat
      BY <2>1, <2>2
    <2>6. owed' \subseteq Nat
      BY <2>3, <2>5
    <2> QED
      BY <2>4, <2>6
  <1>9. MaxCrashes \in Nat
    BY ServerAssumption
  <1>10. TypeOK'
    BY <1>1, <1>3, <1>4, <1>5, <1>6, <1>8, <1>9 DEF TypeOK, Grows
  <1> QED
    BY <1>5, <1>7, <1>10 DEF Inv

LEMMA StutterInv ==
    ASSUME Inv, UNCHANGED vars
    PROVE  Inv' /\ Grows
  BY DEF vars, storeVars, cacheVars, localVars, boundVars, Inv, TypeOK, H!HistoryTypeOK,
         LocalTypeOK, HandlerOK, Latest, Grows

LEMMA StepInv ==
    ASSUME Inv, NEW w \in Worker, Step(w)
    PROVE  Inv' /\ Grows /\ OthersStay(w)
  BY PublishReadsHeadInv, MergeReadsHeadInv, RollbackReadsHeadInv, PutReadsHeadInv,
       SeedReadsHeadInv, CompareInv, ReadTipInv, SwapInv, MoveInv, CreateBranchInv, ClearInv,
       NotifyInv, LookupInv, LoadInv, FillInv DEF Step

LEMMA NextInv == Inv /\ [Next]_vars => Inv' /\ Grows
  <1> SUFFICES ASSUME Inv, [Next]_vars PROVE Inv' /\ Grows
    OBVIOUS
  <1>1. ASSUME NEW w \in Worker, Start(w) PROVE Inv' /\ Grows
    BY <1>1, StartInv
  <1>2. ASSUME NEW w \in Worker, Step(w) PROVE Inv' /\ Grows
    BY <1>2, StepInv
  <1>3. ASSUME NEW n \in Node, Crash(n) PROVE Inv' /\ Grows
    BY <1>3, CrashInv
  <1> QED
    BY <1>1, <1>2, <1>3, ExpireInv, RestoreRowInv, StutterInv DEF Next

(* What every theorem below starts from.  *)
THEOREM Invariance == Spec => []Inv
  <1> QED
    BY InitInv, NextInv, PTL DEF Spec

(* server.go, cache.go, errors.go 27-51: whatever the interleaving, the    *)
(* faults and the crashes, the store is well formed, every handler is at   *)
(* one of its calls, and its caller is answered with a status the handler  *)
(* chose, UNAVAILABLE or INTERNAL when the store failed for some reason.   *)
THEOREM TypeCorrect == Spec => []TypeOK
  <1>1. Inv => TypeOK
    BY DEF Inv
  <1> QED
    BY <1>1, Invariance, PTL

-----------------------------------------------------------------------------
(* One caller at a time, each of whom may retry what failed: no two        *)
(* requests overlap, and no restore runs beside them.                      *)

Overlaps == \E u, w \in Worker : u # w /\ pc[u] # "idle" /\ pc[w] # "idle"
OneByOne == []~Overlaps /\ [][~RestoreRow]_vars

(* Then what a handler has read stays the served row until it writes, and  *)
(* its own row follows at once.                                            *)
ReadsLatest(w) ==
    asOf[w] # 0 => pc[w] # "idle" /\ asOf[w] = IF done[w] = 0 THEN Latest ELSE done[w] - 1
ReadsInv == \A w \in Worker : ReadsLatest(w)

(* How a handler ends a call: it answers, goes on having written nothing,  *)
(* or has made a row of main.                                              *)
Ending(w) == pc'[w] = "idle" /\ asOf'[w] = 0
GoingOn(w) ==
    /\ pc'[w] \notin {"idle", "head"} /\ done'[w] = done[w] /\ Latest' = Latest
    /\ asOf'[w] = asOf[w] \/ (done[w] = 0 /\ asOf'[w] = Latest)
Writing(w) ==
    /\ pc'[w] \notin {"idle", "head"} /\ done[w] = 0 /\ done'[w] = Latest' /\ Latest' = Latest + 1
    /\ asOf'[w] = asOf[w]

LEMMA AnswerEnds ==
    ASSUME Inv, NEW w \in Worker, NEW s \in Status, Answer(w, s)
    PROVE  Ending(w)
  BY HandlerFacts, AnswerType DEF Ending

LEMMA GotoGoesOn ==
    ASSUME Inv, NEW w \in Worker, NEW l \in Call \ {"idle", "head"}, Goto(w, l),
           UNCHANGED <<rows, done>>,
           asOf' = asOf \/ (SeesHead(w) /\ pc[w] \notin {"clear", "notify"})
    PROVE  GoingOn(w)
  <1>1. pc'[w] = l
    BY HandlerFacts, GotoType
  <1>2. asOf'[w] = asOf[w] \/ (done[w] = 0 /\ asOf'[w] = Latest)
    BY HandlerFacts DEF SeesHead, LocalTypeOK
  <1> QED
    BY <1>1, <1>2 DEF GoingOn, Latest

LEMMA CallsEndOrGoOn ==
    ASSUME Inv, NEW w \in Worker,
           \/ PublishReadsHead(w) \/ MergeReadsHead(w) \/ RollbackReadsHead(w)
           \/ PutReadsHead(w) \/ SeedReadsHead(w) \/ Compare(w) \/ ReadTip(w)
           \/ Clear(w) \/ Notify(w) \/ Lookup(w) \/ Load(w) \/ Fill(w)
    PROVE  Ending(w) \/ GoingOn(w)
  <1>1. reply[w] \in Status
    BY HandlerFacts
  <1>2. rows' = rows
    BY DEF PublishReadsHead, MergeReadsHead, RollbackReadsHead, PutReadsHead, SeedReadsHead,
           Compare, ReadTip, Clear, Notify, Lookup, Load, Fill, storeVars
  <1>3. \/ \E s \in Status : Answer(w, s)
        \/ \E l \in Call \ {"idle", "head"} :
              /\ Goto(w, l) /\ done' = done
              /\ asOf' = asOf \/ (SeesHead(w) /\ pc[w] \notin {"clear", "notify"})
    <2>1. CASE PublishReadsHead(w)
      BY <2>1 DEF PublishReadsHead, Republish, HeadRead, Call
    <2>2. CASE MergeReadsHead(w) \/ RollbackReadsHead(w) \/ PutReadsHead(w) \/ SeedReadsHead(w)
      BY <2>2, Refusals DEF MergeReadsHead, RollbackReadsHead, PutReadsHead, SeedReadsHead,
                            HeadRead, Call, localVars
    <2>3. CASE Compare(w) \/ ReadTip(w)
      BY <2>3, Refusals DEF Compare, ReadTip, Call, localVars
    <2>4. CASE Clear(w) \/ Notify(w)
      BY <1>1, <2>4 DEF Clear, Notify, Status, Call, localVars
    <2>5. CASE Lookup(w) \/ Load(w) \/ Fill(w)
      BY <2>5, Refusals DEF Lookup, Load, Fill, Call, localVars
    <2> QED
      BY <2>1, <2>2, <2>3, <2>4, <2>5
  <1> QED
    BY <1>2, <1>3, AnswerEnds, GotoGoesOn

LEMMA WritesEndOrGoOn ==
    ASSUME Inv, NEW w \in Worker, Swap(w) \/ Move(w) \/ CreateBranch(w)
    PROVE  Ending(w) \/ Writing(w)
  <1>1. \/ \E s \in Status : Answer(w, s)
        \/ /\ Landed(w)
           /\ pc[w] = "fork" \/ \E c : H!PointTo(req[w].branch, c)
    BY Refusals DEF Swap, Move, CreateBranch, NotWritten, H!PointAt
  <1>2. ASSUME NEW c, req[w].branch = "main", H!PointTo(req[w].branch, c),
               done' = [done EXCEPT ![w] = Latest'], Goto(w, "clear"), asOf' = asOf
        PROVE  Writing(w)
    <2>1. PICK row : rows' = Append(rows, row)
      BY <1>2 DEF H!PointTo
    <2>2. rows \in Seq(H!Row) /\ LocalTypeOK
      BY HandlerFacts DEF H!HistoryTypeOK
    <2>3. Latest' = Latest + 1
      BY <2>1, <2>2 DEF Latest
    <2>4. pc'[w] = "clear" /\ done'[w] = Latest'
      BY <1>2, <2>2, GotoType DEF Call, LocalTypeOK
    <2>5. done[w] = 0
      BY HandlerFacts DEF Swap, Move, CreateBranch
    <2> QED
      BY <1>2, <2>3, <2>4, <2>5 DEF Writing
  <1>3. pc[w] = "fork" => req[w].branch # "main"
    BY HandlerFacts DEF HandlerOK
  <1>4. Landed(w) => \/ \E s \in Status : Answer(w, s)
                     \/ /\ req[w].branch = "main" /\ done' = [done EXCEPT ![w] = Latest']
                        /\ Goto(w, "clear") /\ asOf' = asOf
    BY Refusals DEF Landed
  <1> QED
    BY <1>1, <1>2, <1>3, <1>4, AnswerEnds

(* A row of main is added by the step of a writer, or by a restore.  *)
LEMMA RowsStay ==
    ASSUME Inv, [Next]_vars, ~RestoreRow, Latest' # Latest
    PROVE  \E w \in Worker : pc[w] # "idle" /\ OthersStay(w) /\ Step(w)
  <1>1. \A w \in Worker : Start(w) => Latest' = Latest
    BY DEF Start, storeVars, Latest
  <1>2. Expire \/ (\E n \in Node : Crash(n)) \/ UNCHANGED vars => Latest' = Latest
    BY DEF Expire, Crash, vars, storeVars, Latest
  <1>3. PICK w \in Worker : Step(w)
    BY <1>1, <1>2 DEF Next
  <1>4. Swap(w) \/ Move(w) \/ CreateBranch(w)
    BY <1>3 DEF Step, PublishReadsHead, MergeReadsHead, RollbackReadsHead, PutReadsHead,
       SeedReadsHead, Compare, ReadTip, Clear, Notify, Lookup, Load, Fill, storeVars, Latest
  <1>5. pc[w] # "idle"
    BY <1>4 DEF Swap, Move, CreateBranch
  <1> QED
    BY <1>3, <1>5, StepInv

LEMMA StepsAreOfTheBusy ==
    ASSUME NEW w \in Worker, Step(w)
    PROVE  pc[w] # "idle"
  BY DEF Step, PublishReadsHead, MergeReadsHead, RollbackReadsHead, PutReadsHead,
     SeedReadsHead, HeadRead, Compare, ReadTip, Swap, Move, CreateBranch, Clear, Notify,
     Lookup, Load, Fill

LEMMA ReadsStep ==
    ASSUME Inv, ReadsInv, ~Overlaps, [Next]_vars, ~RestoreRow
    PROVE  ReadsInv'
  <1>1. ASSUME NEW w \in Worker, Start(w) PROVE ReadsInv'
    <2>1. pc[w] = "idle" /\ UNCHANGED <<asOf, done, Latest>> /\ OthersStay(w)
      BY <1>1, StartInv DEF Start, localVars, storeVars, Latest
    <2>2. asOf'[w] = 0
      BY <2>1 DEF ReadsInv, ReadsLatest
    <2> QED
      BY <2>1, <2>2 DEF ReadsInv, ReadsLatest, OthersStay, Stays
  <1>2. ASSUME NEW w \in Worker, Step(w) PROVE ReadsInv'
    <2>1. pc[w] # "idle" /\ OthersStay(w)
      BY <1>2, StepsAreOfTheBusy, StepInv
    <2>2. ASSUME NEW u \in Worker \ {w} PROVE ReadsLatest(u)'
      <3>1. pc[u] = "idle" /\ asOf'[u] = asOf[u]
        BY <2>1 DEF Overlaps, OthersStay, Stays
      <3> QED
        BY <3>1 DEF ReadsInv, ReadsLatest
    <2>3. ReadsLatest(w)'
      <3>1. Ending(w) \/ GoingOn(w) \/ Writing(w)
        BY <1>2, CallsEndOrGoOn, WritesEndOrGoOn DEF Step
      <3>2. ReadsLatest(w) /\ Latest \in Nat \ {0}
        BY HandlerFacts DEF ReadsInv
      <3> QED
        BY <3>1, <3>2 DEF Ending, GoingOn, Writing, ReadsLatest
    <2> QED
      BY <2>2, <2>3 DEF ReadsInv
  <1>3. ASSUME NEW n \in Node, Crash(n) PROVE ReadsInv'
    <2>1. Latest' = Latest
      BY <1>3 DEF Crash, storeVars, Latest
    <2>2. \A u \in Worker : \/ asOf'[u] = 0
                            \/ pc'[u] = pc[u] /\ asOf'[u] = asOf[u] /\ done'[u] = done[u]
      BY <1>3 DEF Crash
    <2> QED
      BY <2>1, <2>2 DEF ReadsInv, ReadsLatest
  <1>4. CASE Expire \/ UNCHANGED vars
    <2>1. UNCHANGED <<asOf, done, pc, Latest>>
      BY <1>4 DEF Expire, vars, localVars, storeVars, Latest
    <2> QED
      BY <2>1 DEF ReadsInv, ReadsLatest
  <1> QED
    BY <1>1, <1>2, <1>3, <1>4 DEF Next

LEMMA ReadsInvariance == Spec /\ OneByOne => [](Inv /\ ReadsInv)
  <1>1. Init => ReadsInv
    BY DEF Init, ReadsInv, ReadsLatest
  <1>2. Inv /\ ReadsInv /\ ~Overlaps /\ [Next]_vars /\ [~RestoreRow]_vars => ReadsInv'
    <2>1. Inv /\ UNCHANGED vars => ~RestoreRow
      BY DEF RestoreRow, vars, boundVars, Inv, TypeOK
    <2> QED
      BY <2>1, ReadsStep
  <1> QED
    BY <1>1, <1>2, Invariance, PTL DEF Spec, OneByOne

(* A single caller never overlaps with itself.  *)
LEMMA OneCaller ==
    ASSUME \A u, w \in Worker : u = w, Loadable = {}
    PROVE  Spec => OneByOne
  <1>1. ~Overlaps
    BY DEF Overlaps
  <1>2. ~RestoreRow
    BY DEF RestoreRow
  <1> QED
    BY <1>1, <1>2, PTL DEF OneByOne
=============================================================================
