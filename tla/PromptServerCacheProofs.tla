---------------------- MODULE PromptServerCacheProofs ----------------------
(***************************************************************************)
(* Theorems about the cache entry of PromptServer, for any number of       *)
(* workers, nodes, versions and branches, any requests and any faults.     *)
(***************************************************************************)
EXTENDS PromptServerProofs

(* Why a row that is, or is about to be, in the cache may be behind the    *)
(* served one: the cache was emptied since, or somebody has, or had, it    *)
(* still to empty for a newer row.                                         *)
Behind == Clearing \cup owed
Explained(a) == a = Latest \/ a < emptied \/ \E k \in Behind : a < k

Cacheable(a) ==
    /\ a \in 1 .. Latest
    /\ rows[a].version \notin Malformed \cup {NoPrompt}
    /\ Explained(a)

(* The inductive invariant: it covers the reader that has read the store   *)
(* and not yet filled the cache.                                           *)
CacheInv ==
    /\ cached # 0 => Cacheable(cached)
    /\ \A w \in Worker : pc[w] = "fill" => Cacheable(asOf[w])

(* No step forgets a row the cache is to be cleared for without clearing   *)
(* it, nor adds one without leaving a cause behind.                        *)
Carries ==
    /\ Latest' = Latest \/ Latest' \in Behind'
    /\ \/ \A k \in Behind : k \in Behind'
       \/ cached' = 0 /\ emptied' = Latest'

(* The entry stays, goes, or is filled by a reader with what it has read.  *)
Refills ==
    \/ cached' \in {cached, 0}
    \/ \E w \in Worker : pc[w] = "fill" /\ cached' = asOf[w]

LEMMA StaysCacheable ==
    ASSUME Inv, Inv', Grows, Carries, NEW a \in Nat, Cacheable(a)
    PROVE  Cacheable(a)'
  <1>1. /\ Latest \in Nat /\ Latest' \in Nat /\ Latest <= Latest' /\ emptied \in Nat
        /\ emptied' \in Nat /\ emptied <= emptied' /\ emptied' <= Latest'
    BY RowType DEF Inv, TypeOK, Grows
  <1>2. a \in 1 .. Latest' /\ rows'[a] = rows[a]
    BY <1>1 DEF Grows, Cacheable
  <1>3. Behind \subseteq Nat
    BY DEF Behind, Clearing, Inv, TypeOK, LocalTypeOK
  <1>4. Explained(a)'
    <2>1. CASE a = Latest
      BY <1>1, <2>1 DEF Carries, Explained
    <2>2. CASE a < emptied
      BY <1>1, <2>2 DEF Explained
    <2>3. CASE \E k \in Behind : a < k
      <3>1. CASE \A k \in Behind : k \in Behind'
        BY <2>3, <3>1 DEF Explained
      <3>2. CASE emptied' = Latest'
        BY <1>2, <3>2, <1>1 DEF Explained
      <3> QED
        BY <3>1, <3>2 DEF Carries
    <2> QED
      BY <2>1, <2>2, <2>3 DEF Cacheable, Explained
  <1> QED
    BY <1>2, <1>4 DEF Cacheable

(* The step of one worker, by what it does to the cache.  *)
LEMMA CacheStep ==
    ASSUME Inv, CacheInv, Inv', Grows, Carries, NEW w \in Worker, OthersStay(w),
           \/ cached' \in {cached, 0}
           \/ pc[w] = "fill" /\ cached' = asOf[w],
           pc'[w] = "fill" => Cacheable(asOf[w])'
    PROVE  CacheInv' /\ Carries /\ Refills
  <1>1. cached \in Nat /\ \A u \in Worker : asOf[u] \in Nat
    BY DEF Inv, TypeOK, LocalTypeOK
  <1>2. ASSUME cached' # 0 PROVE Cacheable(cached)'
    <2>1. PICK a \in Nat : a = cached' /\ Cacheable(a)
      BY <1>1, <1>2 DEF CacheInv
    <2>2. Cacheable(a)'
      BY <2>1, StaysCacheable
    <2> QED
      BY <2>1, <2>2 DEF Cacheable, Explained
  <1>3. ASSUME NEW u \in Worker \ {w}, pc'[u] = "fill" PROVE Cacheable(asOf[u])'
    <2>1. pc[u] = "fill" /\ asOf'[u] = asOf[u]
      BY <1>3 DEF OthersStay, Stays
    <2>2. PICK a \in Nat : a = asOf[u] /\ Cacheable(a)
      BY <1>1, <2>1 DEF CacheInv
    <2>3. Cacheable(a)'
      BY <2>2, StaysCacheable
    <2> QED
      BY <2>1, <2>2, <2>3 DEF Cacheable, Explained
  <1> QED
    BY <1>2, <1>3 DEF CacheInv, Refills

(* The calls of a handler on its way that neither write nor touch the      *)
(* cache, and no reader's.                                                 *)
LEMMA PlainStep ==
    ASSUME Inv, CacheInv, Inv', Grows, NEW w \in Worker, OthersStay(w),
           UNCHANGED <<rows, cached, owed>>, pc[w] # "clear", pc'[w] # "fill"
    PROVE  CacheInv' /\ Carries /\ Refills
  <1>1. \A u \in Worker : pc[u] = "clear" => pc'[u] = "clear" /\ done'[u] = done[u]
    BY DEF OthersStay, Stays
  <1>2. \A k \in Behind : k \in Behind'
    BY <1>1 DEF Behind, Clearing
  <1>3. Carries
    BY <1>2 DEF Carries, Latest
  <1> QED
    BY <1>3, CacheStep

(* Answering leaves no reader about to fill the cache.  *)
LEMMA AnswerIdles ==
    ASSUME Inv, NEW w \in Worker, NEW s \in Status, Answer(w, s)
    PROVE  pc'[w] = "idle"
  BY HandlerFacts, AnswerType

LEMMA GotoGoes ==
    ASSUME Inv, NEW w \in Worker, NEW l \in Call, Goto(w, l)
    PROVE  pc'[w] = l
  BY HandlerFacts, GotoType

(* A write: main's new row is to be cleared by its writer, or by nobody.  *)
LEMMA WriteStep ==
    ASSUME Inv, CacheInv, Inv', Grows, NEW w \in Worker, OthersStay(w),
           pc[w] \in {"swap", "move", "fork"}, cached' = cached,
           \/ Landed(w) /\ (req[w].branch # "main" => Latest' = Latest)
           \/ \E s \in Status : NotWritten(w, s)
    PROVE  CacheInv' /\ Carries /\ Refills
  <1>1. \A u \in Worker \ {w} : pc[u] = "clear" => pc'[u] = "clear" /\ done'[u] = done[u]
    BY DEF OthersStay, Stays
  <1>2. CASE \E s \in Status : NotWritten(w, s)
    <2>1. pc'[w] = "idle" /\ UNCHANGED <<rows, owed>>
      BY <1>2, AnswerIdles DEF NotWritten, storeVars
    <2> QED
      BY <2>1, PlainStep
  <1>3. CASE Landed(w) /\ (req[w].branch # "main" => Latest' = Latest)
    <2>1. CASE \E s \in Status : Answer(w, s)
      <3>1. pc'[w] = "idle"
        BY <2>1, AnswerIdles
      <3>2. owed \subseteq owed' /\ (req[w].branch = "main" => Latest' \in owed')
        <4>1. pc'[w] # "clear"
          BY <3>1
        <4> QED
          BY <1>3, <4>1, GotoGoes DEF Landed, Call
      <3>3. Carries
        BY <1>1, <1>3, <3>2 DEF Carries, Behind, Clearing
      <3> QED
        BY <3>1, <3>3, CacheStep
    <2>2. CASE /\ req[w].branch = "main"
               /\ done' = [done EXCEPT ![w] = Latest']
               /\ Goto(w, "clear")
               /\ owed' = owed
      <3>1. pc'[w] = "clear" /\ done'[w] = Latest'
        BY <2>2, GotoGoes, HandlerFacts DEF Call, LocalTypeOK
      <3>2. Latest' \in Nat \ {0}
        BY RowType, HandlerFacts DEF Grows
      <3>3. Carries
        BY <1>1, <2>2, <3>1, <3>2 DEF Carries, Behind, Clearing
      <3> QED
        BY <3>1, <3>3, CacheStep
    <2> QED
      BY <1>3, <2>1, <2>2, Refusals DEF Landed
  <1> QED
    BY <1>2, <1>3

LEMMA ClearStep ==
    ASSUME Inv, CacheInv, Inv', Grows, NEW w \in Worker, OthersStay(w), Clear(w)
    PROVE  CacheInv' /\ Carries /\ Refills
  <1>1. /\ pc[w] = "clear" /\ UNCHANGED storeVars
        /\ EmptyCache \/ ClearFails(w)
        /\ \/ Answer(w, "OK") \/ Answer(w, "Unavailable") \/ Goto(w, "notify")
    BY DEF Clear
  <1>2. pc'[w] # "fill" /\ Latest' = Latest
    BY <1>1, AnswerIdles, GotoGoes DEF Status, Call, storeVars, Latest
  <1>3. CASE EmptyCache
    <2>1. cached' = 0 /\ emptied' = Latest
      BY <1>3 DEF EmptyCache
    <2> QED
      BY <1>2, <2>1, CacheStep DEF Carries
  <1>4. CASE ClearFails(w)
    <2>1. cached' \in {cached, 0} /\ owed' = owed \cup ({done[w]} \ {0})
      BY <1>4 DEF ClearFails
    <2>2. \A u \in Worker \ {w} : pc[u] = "clear" => pc'[u] = "clear" /\ done'[u] = done[u]
      BY DEF OthersStay, Stays
    <2>3. \A k \in Behind : k \in Behind'
      BY <2>1, <2>2 DEF Behind, Clearing
    <2> QED
      BY <1>2, <2>1, <2>3, CacheStep DEF Carries
  <1> QED
    BY <1>1, <1>3, <1>4

LEMMA LoadStep ==
    ASSUME Inv, CacheInv, Inv', Grows, NEW w \in Worker, OthersStay(w), Load(w)
    PROVE  CacheInv' /\ Carries /\ Refills
  <1>1. /\ pc[w] = "load" /\ UNCHANGED <<storeVars, cacheVars>>
        /\ \/ \E s \in Refusal : Answer(w, s)
           \/ Servable /\ SeesHead(w) /\ Goto(w, "fill")
    BY Refusals DEF Load
  <1>2. UNCHANGED <<rows, cached, owed, Latest>>
    BY <1>1 DEF storeVars, cacheVars, Latest
  <1>3. CASE \E s \in Refusal : Answer(w, s)
    <2>1. pc'[w] = "idle"
      BY <1>3, AnswerIdles, Refusals
    <2> QED
      BY <1>1, <1>2, <2>1, PlainStep
  <1>4. CASE Servable /\ SeesHead(w) /\ Goto(w, "fill")
    <2>1. asOf'[w] = Latest /\ Latest \in Nat \ {0}
      BY <1>4, HandlerFacts DEF SeesHead, LocalTypeOK
    <2>2. rows[Latest].version \notin Malformed \cup {NoPrompt}
      BY <1>4 DEF Servable, Served
    <2>3. Cacheable(asOf[w])'
      BY <1>2, <2>1, <2>2 DEF Cacheable, Explained
    <2>4. \A u \in Worker \ {w} : pc[u] = "clear" => pc'[u] = "clear" /\ done'[u] = done[u]
      BY DEF OthersStay, Stays
    <2>5. \A k \in Behind : k \in Behind'
      BY <1>1, <1>2, <2>4 DEF Behind, Clearing
    <2> QED
      BY <1>2, <2>3, <2>5, CacheStep DEF Carries
  <1> QED
    BY <1>1, <1>3, <1>4

LEMMA FillStep ==
    ASSUME Inv, CacheInv, Inv', Grows, NEW w \in Worker, OthersStay(w), Fill(w)
    PROVE  CacheInv' /\ Carries /\ Refills
  <1>1. /\ pc[w] = "fill"
        /\ cached' \in {asOf[w], cached}
        /\ UNCHANGED <<storeVars, owed>> /\ Answer(w, "OK")
    BY DEF Fill
  <1>2. pc'[w] = "idle" /\ Latest' = Latest
    BY <1>1, AnswerIdles DEF Status, storeVars, Latest
  <1>3. \A u \in Worker \ {w} : pc[u] = "clear" => pc'[u] = "clear" /\ done'[u] = done[u]
    BY DEF OthersStay, Stays
  <1>4. \A k \in Behind : k \in Behind'
    BY <1>1, <1>3 DEF Behind, Clearing
  <1> QED
    BY <1>1, <1>2, <1>4, CacheStep DEF Carries

LEMMA StartStep ==
    ASSUME Inv, CacheInv, Inv', Grows, NEW w \in Worker, OthersStay(w), Start(w)
    PROVE  CacheInv' /\ Carries /\ Refills
  <1>1. /\ pc[w] = "idle" /\ UNCHANGED <<rows, cached, owed>>
        /\ \E r \in Job[w] : pc' = [pc EXCEPT ![w] = "idle"] \/ pc' = [pc EXCEPT ![w] = FirstCall(r)]
    BY DEF Start, storeVars, cacheVars
  <1>2. PICK r \in Job[w] : pc' = [pc EXCEPT ![w] = "idle"] \/ pc' = [pc EXCEPT ![w] = FirstCall(r)]
    BY <1>1
  <1>3. r \in Request /\ r.op \in RPCs \cup {"put", "import", "seed"}
    BY ServerAssumption DEF Request
  <1>4. FirstCall(r) # "fill"
    BY <1>3, FirstCallType
  <1>5. pc'[w] # "fill"
    BY <1>2, <1>4, HandlerFacts DEF LocalTypeOK
  <1> QED
    BY <1>1, <1>5, PlainStep

(* The remaining calls read the store for a writer, or notify.  *)
LEMMA OtherStep ==
    ASSUME Inv, CacheInv, Inv', Grows, NEW w \in Worker, OthersStay(w),
           \/ PublishReadsHead(w) \/ MergeReadsHead(w) \/ RollbackReadsHead(w)
           \/ PutReadsHead(w) \/ SeedReadsHead(w) \/ Compare(w) \/ ReadTip(w)
           \/ Notify(w) \/ Lookup(w)
    PROVE  CacheInv' /\ Carries /\ Refills
  <1>1. UNCHANGED <<rows, cached, owed>> /\ pc[w] # "clear"
    BY DEF PublishReadsHead, MergeReadsHead, RollbackReadsHead, PutReadsHead, SeedReadsHead,
           HeadRead, Compare, ReadTip, Notify, Lookup, storeVars, cacheVars
  <1>2. reply[w] \in Status
    BY HandlerFacts
  <1>3. \/ \E s \in Status : Answer(w, s)
        \/ \E l \in Call \ {"fill"} : Goto(w, l)
    BY <1>2, Refusals
       DEF PublishReadsHead, Republish, MergeReadsHead, RollbackReadsHead, PutReadsHead,
           SeedReadsHead, Compare, ReadTip, Notify, Lookup, Call
  <1>4. pc'[w] # "fill"
    BY <1>3, AnswerIdles, GotoGoes
  <1> QED
    BY <1>1, <1>4, PlainStep

-----------------------------------------------------------------------------

LEMMA ExpireStep ==
    ASSUME Inv, CacheInv, Inv', Grows, Expire
    PROVE  CacheInv' /\ Carries /\ Refills
  <1>1. /\ UNCHANGED <<rows, pc, asOf>> /\ cached' = 0 /\ emptied' = Latest
    BY DEF Expire, EmptyCache, storeVars, localVars
  <1>2. Carries
    BY <1>1 DEF Carries, Latest
  <1>3. ASSUME NEW w \in Worker, pc'[w] = "fill" PROVE Cacheable(asOf[w])'
    <2>1. PICK a \in Nat : a = asOf[w] /\ Cacheable(a)
      BY <1>1, <1>3, HandlerFacts DEF CacheInv
    <2>2. Cacheable(a)'
      BY <1>2, <2>1, StaysCacheable
    <2> QED
      BY <1>1, <2>1, <2>2 DEF Cacheable, Explained
  <1> QED
    BY <1>1, <1>2, <1>3 DEF CacheInv, Refills

LEMMA RestoreStep ==
    ASSUME Inv, CacheInv, Inv', Grows, RestoreRow
    PROVE  CacheInv' /\ Carries /\ Refills
  <1>1. UNCHANGED <<cached, pc, asOf, done>> /\ owed' = owed \cup {Latest'}
    BY DEF RestoreRow, localVars
  <1>2. Carries
    BY <1>1 DEF Carries, Behind, Clearing
  <1>3. ASSUME NEW w \in Worker, pc'[w] = "fill" PROVE Cacheable(asOf[w])'
    <2>1. PICK a \in Nat : a = asOf[w] /\ Cacheable(a)
      BY <1>1, <1>3, HandlerFacts DEF CacheInv
    <2>2. Cacheable(a)'
      BY <1>2, <2>1, StaysCacheable
    <2> QED
      BY <1>1, <2>1, <2>2 DEF Cacheable, Explained
  <1>4. ASSUME cached' # 0 PROVE Cacheable(cached)'
    <2>1. PICK a \in Nat : a = cached /\ Cacheable(a)
      BY <1>1, <1>4 DEF CacheInv, Inv, TypeOK
    <2>2. Cacheable(a)'
      BY <1>2, <2>1, StaysCacheable
    <2> QED
      BY <1>1, <2>1, <2>2 DEF Cacheable, Explained
  <1> QED
    BY <1>1, <1>2, <1>3, <1>4 DEF CacheInv, Refills

LEMMA CrashStep ==
    ASSUME Inv, CacheInv, Inv', Grows, NEW n \in Node, Crash(n)
    PROVE  CacheInv' /\ Carries /\ Refills
  <1> DEFINE lost == {w \in Worker : NodeOf[w] = n /\ pc[w] # "idle"}
  <1>1. /\ UNCHANGED rows /\ Latest' = Latest
        /\ \/ cached' = 0 /\ emptied' = Latest
           \/ /\ cached' = cached
              /\ owed' = owed \cup {done[w] : w \in {u \in lost : pc[u] = "clear" /\ done[u] # 0}}
    BY DEF Crash, EmptyCache, storeVars, Latest
  <1>2. \A u \in Worker :
            /\ u \in lost => pc'[u] = "idle"
            /\ u \notin lost => pc'[u] = pc[u] /\ asOf'[u] = asOf[u] /\ done'[u] = done[u]
    BY DEF Crash
  <1> HIDE DEF lost
  <1>3. Carries
    <2>1. CASE cached' = 0 /\ emptied' = Latest
      BY <1>1, <2>1 DEF Carries
    <2>2. CASE owed' = owed \cup {done[w] : w \in {u \in lost : pc[u] = "clear" /\ done[u] # 0}}
      <3>1. \A k \in Behind : k \in Behind'
        BY <1>2, <2>2 DEF Behind, Clearing
      <3> QED
        BY <1>1, <3>1 DEF Carries
    <2> QED
      BY <1>1, <2>1, <2>2
  <1>4. ASSUME NEW w \in Worker, pc'[w] = "fill" PROVE Cacheable(asOf[w])'
    <2>1. pc[w] = "fill" /\ asOf'[w] = asOf[w]
      BY <1>2, <1>4
    <2>2. PICK a \in Nat : a = asOf[w] /\ Cacheable(a)
      BY <2>1, HandlerFacts DEF CacheInv
    <2>3. Cacheable(a)'
      BY <1>3, <2>2, StaysCacheable
    <2> QED
      BY <2>1, <2>2, <2>3 DEF Cacheable, Explained
  <1>5. ASSUME cached' # 0 PROVE Cacheable(cached)'
    <2>1. PICK a \in Nat : a = cached /\ cached' = cached /\ Cacheable(a)
      BY <1>1, <1>5 DEF CacheInv, Inv, TypeOK
    <2>2. Cacheable(a)'
      BY <1>3, <2>1, StaysCacheable
    <2> QED
      BY <2>1, <2>2 DEF Cacheable, Explained
  <1> QED
    BY <1>1, <1>3, <1>4, <1>5 DEF CacheInv, Refills

LEMMA InitCacheInv == Init => CacheInv
  BY DEF Init, CacheInv

LEMMA NextCacheInv == Inv /\ CacheInv /\ [Next]_vars => CacheInv' /\ Carries /\ Refills
  <1> SUFFICES ASSUME Inv, CacheInv, [Next]_vars PROVE CacheInv' /\ Carries /\ Refills
    OBVIOUS
  <1>1. Inv' /\ Grows
    BY NextInv
  <1>2. ASSUME NEW w \in Worker, Start(w) PROVE CacheInv' /\ Carries /\ Refills
    BY <1>1, <1>2, StartInv, StartStep
  <1>3. ASSUME NEW w \in Worker, Step(w) PROVE CacheInv' /\ Carries /\ Refills
    <2>1. OthersStay(w)
      BY <1>3, StepInv
    <2>2. CASE Swap(w) \/ Move(w) \/ CreateBranch(w)
      <3>1. pc[w] \in {"swap", "move", "fork"} /\ cached' = cached
        BY <2>2 DEF Swap, Move, CreateBranch
      <3>2. \/ Landed(w) /\ (req[w].branch # "main" => rows' = rows)
            \/ \E s \in Status : NotWritten(w, s)
        BY <2>2, Refusals DEF Swap, Move, CreateBranch, H!PointAt, H!PointTo, H!Fork
      <3>3. \/ Landed(w) /\ (req[w].branch # "main" => Latest' = Latest)
            \/ \E s \in Status : NotWritten(w, s)
        BY <3>2 DEF Latest
      <3> QED
        BY <1>1, <2>1, <3>1, <3>3, WriteStep
    <2> QED
      BY <1>1, <1>3, <2>1, <2>2, ClearStep, LoadStep, FillStep, OtherStep DEF Step
  <1>4. ASSUME NEW n \in Node, Crash(n) PROVE CacheInv' /\ Carries /\ Refills
    BY <1>1, <1>4, CrashStep
  <1>5. CASE UNCHANGED vars
    <2>1. UNCHANGED <<rows, cached, emptied, owed, pc, asOf, done>>
      BY <1>5 DEF vars, storeVars, cacheVars, localVars
    <2> QED
      BY <2>1
      DEF CacheInv, Carries, Refills, Cacheable, Explained, Behind, Clearing, Latest
  <1> QED
    BY <1>1, <1>2, <1>3, <1>4, <1>5, ExpireStep, RestoreStep DEF Next

LEMMA CacheInvariance == Spec => [](Inv /\ CacheInv)
  <1> QED
    BY InitInv, NextInv, InitCacheInv, NextCacheInv, PTL DEF Spec

-----------------------------------------------------------------------------

(* A reader fills the cache with the row that was the latest when it read. *)
LEMMA FillsWhatItRead ==
    ASSUME Inv, [Next]_vars, NEW u \in Worker, pc'[u] = "fill"
    PROVE  \/ pc[u] = "fill" /\ asOf'[u] = asOf[u]
           \/ asOf'[u] = Latest /\ Latest' = Latest
  <1>1. LocalTypeOK
    BY HandlerFacts
  <1>2. ASSUME NEW w \in Worker, OthersStay(w), u # w
        PROVE  pc[u] = "fill" /\ asOf'[u] = asOf[u]
    BY <1>2 DEF OthersStay, Stays
  <1>3. ASSUME Start(u) PROVE FALSE
    <2>1. PICK r \in Job[u] : pc'[u] = "idle" \/ pc'[u] = FirstCall(r)
      BY <1>1, <1>3 DEF Start, LocalTypeOK
    <2>2. r \in Request /\ r.op \in RPCs \cup {"put", "import", "seed"}
      BY ServerAssumption DEF Request
    <2> QED
      BY <2>1, <2>2, FirstCallType
  <1>4. ASSUME Step(u) PROVE asOf'[u] = Latest /\ Latest' = Latest
    <2>1. CASE Load(u)
      <3>1. Servable /\ SeesHead(u) /\ UNCHANGED storeVars
        BY <2>1, AnswerIdles, Refusals DEF Load
      <3> QED
        BY <1>1, <3>1 DEF SeesHead, LocalTypeOK, storeVars, Latest
    <2>2. CASE ~Load(u)
      <3>1. reply[u] \in Status
        BY HandlerFacts
      <3>2. \/ \E s \in Status : Answer(u, s)
            \/ \E l \in Call \ {"fill"} : Goto(u, l)
        BY <1>4, <2>2, <3>1, Refusals
           DEF Step, PublishReadsHead, Republish, MergeReadsHead, RollbackReadsHead, PutReadsHead,
               SeedReadsHead, Compare, ReadTip, Swap, Move, CreateBranch, Landed, NotWritten,
               Clear, Notify, Lookup, Fill, Call, Status
      <3> QED
        BY <3>2, AnswerIdles, GotoGoes
    <2> QED
      BY <2>1, <2>2
  <1>5. ASSUME NEW n \in Node, Crash(n) PROVE pc[u] = "fill" /\ asOf'[u] = asOf[u]
    BY <1>5 DEF Crash
  <1>6. CASE Expire \/ RestoreRow \/ UNCHANGED vars
    BY <1>6 DEF Expire, RestoreRow, vars, localVars
  <1>7. ASSUME NEW w \in Worker, Start(w) \/ Step(w)
        PROVE  \/ pc[u] = "fill" /\ asOf'[u] = asOf[u]
               \/ asOf'[u] = Latest /\ Latest' = Latest
    <2>1. OthersStay(w)
      BY <1>7, StartInv, StepInv
    <2> QED
      BY <1>2, <1>3, <1>4, <1>7, <2>1
  <1> QED
    BY <1>5, <1>6, <1>7 DEF Next

(* server.go 208-220 and cache.go 17-20: no interleaving of readers,       *)
(* writers, failures and crashes leaves a stale cache entry without one of *)
(* the causes the design accepts.                                          *)
THEOREM StaleOnlyWithCause == Spec => []StaleHasCause
  <1>1. Inv /\ CacheInv => StaleHasCause
    BY DEF CacheInv, Cacheable, Explained, Behind, StaleHasCause, Stale, Served
  <1> QED
    BY <1>1, CacheInvariance, PTL

(* server.go 138-139: a row that fails serve-time validation never gets    *)
(* into the cache.                                                         *)
THEOREM OnlyValidCached == Spec => []CacheIsValid
  <1>1. Inv /\ CacheInv => CacheIsValid
    BY DEF CacheInv, Cacheable, CacheIsValid
  <1> QED
    BY <1>1, CacheInvariance, PTL

-----------------------------------------------------------------------------
(* One caller at a time: while a handler is between its clear and its      *)
(* answer, nobody fills the cache it has emptied.                          *)
Emptied(w) == pc[w] = "notify" /\ reply[w] = "OK" => cached = 0
EmptiedInv == \A w \in Worker : Emptied(w)

(* Which steps bring a handler to its notifier, and which fill the cache.  *)
LEMMA ComesToNotify ==
    ASSUME Inv, NEW w \in Worker, Step(w), pc'[w] = "notify", reply'[w] = "OK"
    PROVE  cached' = 0
  <1>1. LocalTypeOK /\ reply[w] \in Status
    BY HandlerFacts
  <1>2. CASE Clear(w)
    <2>1. \/ cached' = 0
          \/ \E s \in Status : Answer(w, s)
          \/ reply' = [reply EXCEPT ![w] = "Unavailable"]
      BY <1>2, Refusals DEF Clear, EmptyCache, Status
    <2>2. reply' = [reply EXCEPT ![w] = "Unavailable"] => reply'[w] = "Unavailable"
      BY <1>1 DEF LocalTypeOK
    <2> QED
      BY <2>1, <2>2, AnswerIdles
  <1>3. CASE ~Clear(w)
    <2>1. \/ \E s \in Status : Answer(w, s)
          \/ \E l \in Call \ {"notify"} : Goto(w, l)
      BY <1>1, <1>3, Refusals
         DEF Step, PublishReadsHead, Republish, MergeReadsHead, RollbackReadsHead, PutReadsHead,
             SeedReadsHead, Compare, ReadTip, Swap, Move, CreateBranch, Landed, NotWritten,
             Notify, Lookup, Load, Fill, Call
    <2> QED
      BY <2>1, AnswerIdles, GotoGoes
  <1> QED
    BY <1>2, <1>3

LEMMA EmptiedStep ==
    ASSUME Inv, EmptiedInv, ~Overlaps, [Next]_vars
    PROVE  EmptiedInv'
  <1> SUFFICES ASSUME NEW u \in Worker, pc'[u] = "notify", reply'[u] = "OK" PROVE cached' = 0
    BY DEF EmptiedInv, Emptied
  <1>1. ASSUME pc[u] = "notify", reply[u] = "OK", UNCHANGED cached PROVE cached' = 0
    BY <1>1 DEF EmptiedInv, Emptied
  <1>2. ASSUME NEW w \in Worker, Start(w) PROVE cached' = 0
    <2>1. OthersStay(w) /\ LocalTypeOK /\ cached' = cached
      BY <1>2, StartInv, HandlerFacts DEF Start, cacheVars
    <2>2. CASE u = w
      <3>1. PICK r \in Job[u] : pc'[u] = "idle" \/ pc'[u] = FirstCall(r)
        BY <1>2, <2>1, <2>2 DEF Start, LocalTypeOK
      <3>2. r \in Request /\ r.op \in RPCs \cup {"put", "import", "seed"}
        BY ServerAssumption DEF Request
      <3> QED
        BY <3>1, <3>2, FirstCallType DEF FirstCall, RPCs
    <2> QED
      BY <1>1, <2>1, <2>2 DEF OthersStay, Stays
  <1>3. ASSUME NEW w \in Worker, Step(w) PROVE cached' = 0
    <2>1. OthersStay(w) /\ pc[w] # "idle"
      BY <1>3, StepInv, StepsAreOfTheBusy
    <2> QED
      BY <1>3, <2>1, ComesToNotify DEF OthersStay, Stays, Overlaps
  <1>4. ASSUME NEW n \in Node, Crash(n) PROVE cached' = 0
    <2>1. pc'[u] = pc[u] /\ reply'[u] = reply[u]
      BY <1>4 DEF Crash
    <2>2. cached' = 0 \/ cached' = cached
      BY <1>4 DEF Crash, EmptyCache
    <2> QED
      BY <1>1, <2>1, <2>2
  <1>5. CASE Expire
    BY <1>5 DEF Expire, EmptyCache
  <1>6. CASE RestoreRow \/ UNCHANGED vars
    BY <1>1, <1>6 DEF RestoreRow, vars, cacheVars
  <1> QED
    BY <1>2, <1>3, <1>4, <1>5, <1>6 DEF Next

(* A change of main is confirmed by the clear of a publish that wrote      *)
(* nothing, or after the event.                                            *)
LEMMA ConfirmedEmpty ==
    ASSUME Inv, EmptiedInv, [Next]_vars, NEW w \in Worker, ConfirmsChange(w)
    PROVE  cached' = 0
  <1>1. /\ pc[w] # "idle" /\ pc'[w] = "idle" /\ reply'[w] = "OK"
        /\ req[w].op \in {"publish", "merge", "rollback"} /\ req[w].branch = "main"
    BY DEF ConfirmsChange, Confirms, Answers
  <1>2. LocalTypeOK /\ HandlerOK(w)
    BY HandlerFacts
  <1>3. Step(w)
    <2>1. \A u \in Worker : Start(u) => ~(pc[w] # "idle" /\ pc'[w] = "idle")
      <3>1. ASSUME NEW u \in Worker, Start(u) PROVE pc[u] = "idle" /\ OthersStay(u)
        BY <3>1, StartInv DEF Start
      <3> QED
        BY <3>1 DEF OthersStay, Stays
    <2>2. \A u \in Worker \ {w} : ~Step(u)
      BY <1>1, StepInv DEF OthersStay, Stays
    <2>3. ~(Expire \/ RestoreRow \/ UNCHANGED vars)
      BY <1>1 DEF Expire, RestoreRow, vars
    <2>4. ASSUME NEW n \in Node, Crash(n) PROVE FALSE
      <3>1. reply'[w] = "none"
        BY <1>1, <2>4 DEF Crash
      <3> QED
        BY <1>1, <3>1
    <2> QED
      BY <1>1, <2>1, <2>2, <2>3, <2>4 DEF Next
  <1>4. CASE Clear(w)
    <2>1. \/ cached' = 0
          \/ Answer(w, "Unavailable")
          \/ Goto(w, "notify")
      BY <1>4 DEF Clear, EmptyCache
    <2>2. Answer(w, "Unavailable") => reply'[w] = "Unavailable"
      BY <1>2 DEF Answer, LocalTypeOK
    <2>3. Goto(w, "notify") => pc'[w] = "notify"
      BY <1>2, GotoGoes, HandlerFacts DEF Call
    <2> QED
      BY <1>1, <2>1, <2>2, <2>3
  <1>5. CASE Notify(w)
    <2>1. pc[w] = "notify" /\ Answer(w, reply[w]) /\ cached' = cached
      BY <1>5 DEF Notify, cacheVars
    <2>2. reply'[w] = reply[w]
      BY <1>2, <2>1 DEF Answer, LocalTypeOK
    <2> QED
      BY <1>1, <2>1, <2>2 DEF EmptiedInv, Emptied
  <1>6. CASE ~Clear(w) /\ ~Notify(w)
    <2>1. \A s \in Refusal : Answer(w, s) => reply'[w] # "OK"
      BY <1>2 DEF Answer, LocalTypeOK, Refusal
    <2>2. \A l \in Call \ {"idle"} : Goto(w, l) => pc'[w] # "idle"
      BY GotoGoes
    <2>3. \/ \E s \in Refusal : Answer(w, s)
          \/ \E l \in Call \ {"idle"} : Goto(w, l)
      <3>1. CASE PublishReadsHead(w) \/ MergeReadsHead(w) \/ RollbackReadsHead(w)
        BY <3>1 DEF PublishReadsHead, Republish, MergeReadsHead, RollbackReadsHead, Call
      <3>2. ~(PutReadsHead(w) \/ SeedReadsHead(w) \/ Lookup(w) \/ Load(w) \/ Fill(w)
                 \/ CreateBranch(w))
        BY <1>1, <1>2
           DEF PutReadsHead, SeedReadsHead, HeadRead, Lookup, Load, Fill, CreateBranch, HandlerOK
      <3>4. CASE Compare(w)
        BY <1>1, <1>2, <3>4, Refusals DEF Compare, HandlerOK, Call
      <3>3. CASE ReadTip(w) \/ Swap(w) \/ Move(w)
        BY <1>1, <3>3, Refusals DEF ReadTip, Swap, Move, Landed, NotWritten, Call, RPCs
      <3> QED
        BY <1>3, <1>6, <3>1, <3>2, <3>3, <3>4 DEF Step
    <2> QED
      BY <1>1, <2>1, <2>2, <2>3
  <1> QED
    BY <1>3, <1>4, <1>5, <1>6

(* What the cache holds was served when it was filled; an entry that is    *)
(* not stale is replaced by the row a reader has just read, or not at all. *)
LEMMA StaysFresh ==
    ASSUME Inv, CacheInv, ReadsInv, [Next]_vars, ~Stale, Latest' = Latest
    PROVE  ~Stale'
  <1>1. Grows /\ Refills
    BY NextInv, NextCacheInv
  <1>2. \A w \in Worker : pc[w] = "fill" /\ asOf[w] # 0 => asOf[w] = Latest
    BY HandlerFacts DEF ReadsInv, ReadsLatest
  <1>3. cached \in Nat /\ (cached # 0 => cached \in 1 .. Latest)
    BY DEF CacheInv, Cacheable, Inv, TypeOK
  <1>4. Latest \in 1 .. Latest /\ \A i \in 1 .. Latest : rows'[i] = rows[i]
    BY <1>1, RowType DEF Grows, Inv, TypeOK
  <1>5. cached' # 0 => rows'[cached'].version = Served
    BY <1>1, <1>2, <1>3, <1>4 DEF Refills, Stale, Served
  <1> QED
    BY <1>4, <1>5 DEF Stale, Served

(* server.go 71-81, 98-101 and 407-412: as long as requests do not overlap *)
(* and nothing is restored beside them, a publish, merge or rollback of    *)
(* main that is answered OK, a retry too, leaves no reader on an older     *)
(* version, whatever failed or crashed before, until main changes again.   *)
THEOREM ConfirmedWhileAlone == Spec /\ OneByOne => FreshOnceConfirmed
  <1>1. Init => EmptiedInv
    BY DEF Init, EmptiedInv, Emptied
  <1>2. Inv /\ EmptiedInv /\ ~Overlaps /\ [Next]_vars => EmptiedInv'
    BY EmptiedStep
  <1>3. Inv /\ CacheInv /\ ReadsInv /\ EmptiedInv /\ [Next]_vars =>
          [/\ \A w \in Worker : ConfirmsChange(w) => ~Stale'
           /\ ~Stale /\ Latest' = Latest => ~Stale']_vars
    <2>1. cached' = 0 => ~Stale'
      BY DEF Stale
    <2> QED
      BY <2>1, ConfirmedEmpty, StaysFresh
  <1> QED
    BY <1>1, <1>2, <1>3, CacheInvariance, ReadsInvariance, PTL
       DEF Spec, OneByOne, FreshOnceConfirmed

(* The case of a single caller, when nothing is restored.  *)
THEOREM ConfirmedForOneCaller ==
    ASSUME \A u, w \in Worker : u = w, Loadable = {}
    PROVE  Spec => FreshOnceConfirmed
  BY OneCaller, ConfirmedWhileAlone, PTL

-----------------------------------------------------------------------------
(* The safety half of CacheConverges: neither the entry nor a reader that  *)
(* is about to fill it is behind.                                          *)
Settled == ~Stale /\ \A w \in Worker : pc[w] = "fill" => rows[asOf[w]].version = Served

LEMMA SettledStep ==
    ASSUME Inv, CacheInv, [Next]_vars, Settled, Served' = Served
    PROVE  Settled'
  <1>1. Grows /\ Refills
    BY NextInv, NextCacheInv
  <1>2. cached \in Nat /\ (cached # 0 => cached \in 1 .. Latest)
    BY DEF CacheInv, Cacheable, Inv, TypeOK
  <1>3. ASSUME NEW w \in Worker, pc[w] = "fill"
        PROVE  asOf[w] \in 1 .. Latest /\ rows'[asOf[w]] = rows[asOf[w]]
    BY <1>1, <1>3 DEF CacheInv, Cacheable, Grows
  <1>4. cached # 0 => rows'[cached] = rows[cached]
    BY <1>1, <1>2 DEF Grows
  <1>5. cached' # 0 => rows'[cached'].version = Served
    BY <1>1, <1>3, <1>4 DEF Refills, Settled, Stale
  <1>6. ASSUME NEW u \in Worker, pc'[u] = "fill" PROVE rows'[asOf'[u]].version = Served
    <2>1. CASE pc[u] = "fill" /\ asOf'[u] = asOf[u]
      BY <1>3, <2>1 DEF Settled
    <2>2. CASE asOf'[u] = Latest /\ Latest' = Latest
      BY <2>2 DEF Served
    <2> QED
      BY <1>6, <2>1, <2>2, FillsWhatItRead
  <1> QED
    BY <1>5, <1>6 DEF Settled, Stale

(* cache.go 12-13, pubsub.go 5: once the cache has caught up with the      *)
(* served version, no reader, failed clear, expiry or crash makes it stale *)
(* again before the next write.                                            *)
THEOREM SettledForGood == Spec => [][Settled /\ Served' = Served => Settled']_vars
  <1>1. Inv /\ CacheInv /\ [Next]_vars => [Settled /\ Served' = Served => Settled']_vars
    BY SettledStep
  <1> QED
    BY <1>1, CacheInvariance, PTL DEF Spec
=============================================================================
