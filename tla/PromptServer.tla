---------------------------- MODULE PromptServer ----------------------------
(***************************************************************************)
(* The life of one prompt in a priompt deployment: the gRPC handlers of    *)
(* internal/server/server.go, the command-line writers of cmd/priompt that *)
(* open the same database, the L2 cache (cache.go, redis_cache.go) and the *)
(* change events handed to the notifier.  A prompt shares no state with    *)
(* any other prompt.  Each action is ONE call a handler makes to the store,*)
(* the cache or the notifier, with what the handler does up to its next    *)
(* call; the calls of different callers interleave freely.                 *)
(*                                                                         *)
(* Callers are authorised and may write (internal/auth is not modelled     *)
(* here), the cache and the notifier are configured.                       *)
(***************************************************************************)
EXTENDS Integers, Sequences

CONSTANTS
    Version, Branch, NoPrompt,      \* see PromptHistory
    Malformed,      \* the versions validate.Prompt refuses
    Unclassified,   \* the empty verdict of an event
    NoRequest,      \* what an idle worker serves
    Worker,         \* handler goroutines and command-line processes
    Node,           \* the machines they run on
    NodeOf,         \* the node of each worker
    CacheHost,      \* the node whose memory holds the cache, or "redis"
    Job,            \* the requests each worker may be given
    Fault,          \* what may fail: "store", "lostreply", "redis", "embedder"
    Initial,        \* what the database may hold at first
    Loadable,       \* the versions restore may write into the prompts table
    MaxWrites,      \* bound on the writing requests of a behaviour
    MaxCrashes      \* bound on the crashes of a behaviour

VARIABLES
    commits, refs, rows,            \* the store, see PromptHistory
    cached,     \* the row (index in rows) the cache entry was read from; 0: no entry
    events,     \* the change events handed to the notifier, oldest first
    pc,         \* the next call of each worker's handler
    req,        \* the request it serves
    asOf,       \* the row (index in rows) its Store.Get returned; 0: none
    tip,        \* the commit its write was based on
    source,     \* the commit it merges
    against,    \* the version its event's verdict compares with
    done,       \* the row its write produced; 0: none
    reply,      \* the status it answers, "none" while it runs
    emptied,    \* how many rows there were when the cache was last emptied
    owed,       \* the rows written since for which nobody is left to clear the cache
    writes, crashes

H == INSTANCE PromptHistory

storeVars == <<commits, refs, rows>>
localVars == <<asOf, tip, source, against, done>>
cacheVars == <<cached, emptied, owed>>
boundVars == <<writes, crashes>>
vars == <<storeVars, cacheVars, events, pc, req, localVars, reply, boundVars>>

RPCs == {"get", "publish", "merge", "rollback", "branch"}
Writers == {"publish", "merge", "rollback", "put", "import", "seed"}

(* One request: version is the published content, commit the one a        *)
(* rollback names (0: a hash that is no commit of this prompt).           *)
Request == [op : RPCs \cup {"put", "import", "seed"}, branch : Branch, from : Branch,
            version : Version, commit : Nat]

(* A change event, and the row (index in rows) whose change it announces.  *)
Event == [version : Version, against : Version \cup {NoPrompt, Unclassified}, change : Nat]

(* Clearing an in-process cache clears nothing on another node, so several *)
(* serving nodes need Redis (README.md 791-795).  No request creates main: *)
(* what Store.Branch does to the served row is not to be seen in src.      *)
ASSUME ServerAssumption ==
    /\ "main" \in Branch
    /\ NoPrompt \notin Version /\ Unclassified \notin Version \cup {NoPrompt}
    /\ Malformed \subseteq Version
    /\ Loadable \subseteq Version
    /\ Initial \subseteq (Version \ Malformed) \cup {NoPrompt}
    /\ NodeOf \in [Worker -> Node]
    /\ "redis" \notin Node
    /\ CacheHost \in Node \cup {"redis"}
    /\ Job \in [Worker -> SUBSET Request]
    /\ \A w \in Worker : \A r \in Job[w] :
          /\ r.op \in RPCs /\ CacheHost # "redis" => NodeOf[w] = CacheHost
          /\ r.op = "branch" => r.branch # "main"
          /\ r.op \in {"put", "import", "seed"} => r.branch = "main"
    /\ MaxWrites \in Nat /\ MaxCrashes \in Nat

-----------------------------------------------------------------------------

Init ==
    /\ \/ NoPrompt \in Initial /\ H!Empty
       \/ \E v \in Initial \ {NoPrompt} : H!Holding(v)
    /\ cached = 0
    /\ events = <<>>
    /\ pc = [w \in Worker |-> "idle"]
    /\ req = [w \in Worker |-> NoRequest]
    /\ asOf = [w \in Worker |-> 0]
    /\ tip = [w \in Worker |-> 0]
    /\ source = [w \in Worker |-> 0]
    /\ against = [w \in Worker |-> Unclassified]
    /\ done = [w \in Worker |-> 0]
    /\ reply = [w \in Worker |-> "none"]
    /\ emptied = 0
    /\ owed = {}
    /\ writes = 0
    /\ crashes = 0

Latest == Len(rows)
Served == rows[Latest].version

(* What w's handler read as the served version: a zero Prompt, hence       *)
(* NoPrompt, when the read failed.                                         *)
ReadLater(w) == Served          \* mutation: read after the write
Read(w) == IF asOf[w] = 0 THEN NoPrompt ELSE rows[asOf[w]].version

(* server.classify: no verdict without a prior version or when the         *)
(* embedder fails.  A verdict is a function of the two versions, so it is  *)
(* told apart by the one it compares the event's version with.             *)
Verdicts(old) ==
    {Unclassified : x \in Fault \cap {"embedder"}}
        \cup {IF old = NoPrompt THEN Unclassified ELSE old}

(* errors.go: the status a caller gets for what the store reports.  The    *)
(* mutation below, like the others of this module, is a bug the properties *)
(* are shown to catch; no behaviour uses it.                               *)
RawStoreError ==    \* mutation: an error returned as it is, which gRPC makes UNKNOWN
    [conflict |-> "Unknown", notFound |-> "NotFound", exists |-> "AlreadyExists",
     canceled |-> "Canceled", deadline |-> "DeadlineExceeded",
     unavailable |-> "Unavailable", other |-> "Internal"]
StoreError ==
    [conflict |-> "Aborted", notFound |-> "NotFound", exists |-> "AlreadyExists",
     canceled |-> "Canceled", deadline |-> "DeadlineExceeded",
     unavailable |-> "Unavailable", other |-> "Internal"]

(* What a store that fails may report: isUnavailable goes by the driver's  *)
(* text, so the same failure may be UNAVAILABLE or INTERNAL.               *)
StoreFailures == {"canceled", "deadline", "unavailable", "other"}

Goto(w, l) == pc' = [pc EXCEPT ![w] = l]

(* The handler returns: its locals are gone, the status stays.  *)
Answer(w, status) ==
    /\ Goto(w, "idle")
    /\ reply' = [reply EXCEPT ![w] = status]
    /\ asOf' = [asOf EXCEPT ![w] = 0]
    /\ tip' = [tip EXCEPT ![w] = 0]
    /\ source' = [source EXCEPT ![w] = 0]
    /\ against' = [against EXCEPT ![w] = Unclassified]
    /\ done' = [done EXCEPT ![w] = 0]
    /\ req' = [req EXCEPT ![w] = NoRequest]

(* The store failed, and the handler has nothing better than to say so.    *)
AnswerFailure(w) == \E e \in StoreFailures : Answer(w, StoreError[e])

-----------------------------------------------------------------------------
(* Starting a request.  A malformed version is refused before any call is  *)
(* made.  A rollback may name any commit, one of another prompt (0) too.   *)

FirstCall(r) ==
    CASE r.op = "get" -> "lookup"
      [] r.op \in {"put", "seed"} -> "head"
      [] r.op = "import" -> "compare"
      [] r.op = "branch" -> "fork"
      [] r.op = "publish" -> IF r.branch = "main" THEN "head" ELSE "compare"
      [] r.op = "merge" -> IF r.branch = "main" THEN "head" ELSE "tip"
      [] r.op = "rollback" -> IF r.branch = "main" THEN "head" ELSE "move"

Start(w) ==
    /\ pc[w] = "idle"
    /\ \E r \in Job[w] :
        \E c \in IF r.op = "rollback" THEN 0 .. Len(commits) ELSE {0} :
            LET malformed == r.op \in {"publish", "put", "import"} /\ r.version \in Malformed
            IN  /\ req' = [req EXCEPT ![w] = IF malformed THEN NoRequest
                                             ELSE [r EXCEPT !.commit = c]]
                /\ pc' = [pc EXCEPT ![w] = IF malformed THEN "idle" ELSE FirstCall(r)]
                /\ reply' = [reply EXCEPT ![w] = IF malformed THEN "InvalidArgument" ELSE "none"]
                /\ IF r.op = "get" THEN writes' = writes
                   ELSE writes < MaxWrites /\ writes' = writes + 1
    /\ UNCHANGED <<storeVars, cacheVars, events, localVars, crashes>>

-----------------------------------------------------------------------------
(* Store.Get before a write to main: the prior version, for the no-op      *)
(* check and for the verdict of the event.  Each handler treats a failed   *)
(* read its own way.                                                       *)

HeadRead(w, op) == pc[w] = "head" /\ req[w].op = op

(* The row is there: remember it and go on.  *)
SeesHead(w) == asOf' = [asOf EXCEPT ![w] = Latest]

(* The store already holds this content: the cache is cleared all the same,*)
(* so that the retry of a publish whose clear failed makes it visible.     *)
RepublishAnswersAtOnce(w) == Answer(w, "OK")      \* mutation: no clear on a no-op
Republish(w) ==
    /\ SeesHead(w)
    /\ Goto(w, "clear")
    /\ UNCHANGED <<req, tip, source, against, done, reply>>

PublishReadsHead(w) ==
    LET goOn(old) ==
            /\ against' = [against EXCEPT ![w] = old]
            /\ Goto(w, "tip")
            /\ UNCHANGED <<req, tip, source, done, reply>>
    IN  /\ HeadRead(w, "publish")
        /\ \/ Served = req[w].version /\ Republish(w)
           \/ /\ Served \notin {NoPrompt, req[w].version}
              /\ SeesHead(w) /\ \E v \in Verdicts(Served) : goOn(v)
           \/ Served = NoPrompt /\ SeesHead(w) /\ goOn(NoPrompt)
           \/ "store" \in Fault /\ goOn(Unclassified) /\ UNCHANGED asOf
        /\ UNCHANGED <<storeVars, cacheVars, events, boundVars>>

MergeReadsHead(w) ==
    /\ HeadRead(w, "merge")
    /\ SeesHead(w) \/ ("store" \in Fault /\ asOf' = asOf)
    /\ Goto(w, "tip")
    /\ UNCHANGED <<storeVars, cacheVars, events, req, tip, source, against, done, reply, boundVars>>

RollbackReadsHead(w) ==
    /\ HeadRead(w, "rollback")
    /\ SeesHead(w) \/ ("store" \in Fault /\ asOf' = asOf)
    /\ Goto(w, "move")
    /\ UNCHANGED <<storeVars, cacheVars, events, req, tip, source, against, done, reply, boundVars>>

(* put refuses a structural change, unless forced; which changes are is up *)
(* to the semantic diff.                                                   *)
PutReadsHead(w) ==
    /\ HeadRead(w, "put")
    /\ \/ Goto(w, "compare") /\ UNCHANGED <<req, localVars, reply>>
       \/ Served \notin {NoPrompt, req[w].version} /\ Answer(w, "Refused")
       \/ "store" \in Fault /\ AnswerFailure(w)
    /\ UNCHANGED <<storeVars, cacheVars, events, boundVars>>

(* seedDemo goes on only when the demo prompt is not there.  *)
SeedReadsHead(w) ==
    /\ HeadRead(w, "seed")
    /\ \/ Served = NoPrompt /\ Goto(w, "tip") /\ UNCHANGED <<req, localVars, reply>>
       \/ (Served # NoPrompt \/ "store" \in Fault) /\ Answer(w, "OK")
    /\ UNCHANGED <<storeVars, cacheVars, events, boundVars>>

(* Store.Resolve of the branch: content its tip already has is not         *)
(* committed again.  A failed Resolve stops commitMain, not PublishPrompt. *)
Compare(w) ==
    LET twin == refs[req[w].branch] # 0
                /\ commits[refs[req[w].branch]].version = req[w].version
        proceed == Goto(w, "tip") /\ UNCHANGED <<req, localVars, reply>>
    IN  /\ pc[w] = "compare"
        /\ \/ twin /\ Answer(w, "OK")
           \/ ~twin /\ proceed
           \/ "store" \in Fault /\ req[w].op = "publish" /\ proceed
           \/ "store" \in Fault /\ req[w].op # "publish" /\ AnswerFailure(w)
        /\ UNCHANGED <<storeVars, cacheVars, events, boundVars>>

-----------------------------------------------------------------------------
(* The writes.  Store.Commit and Store.Merge read the tip they build on    *)
(* themselves and move the branch by compare-and-swap, in one transaction  *)
(* with the new commit and, on main, the served row.                       *)

ReadTip(w) ==
    LET merging == req[w].op = "merge"
        base == refs[req[w].branch]
        from == refs[req[w].from]
        missing == merging /\ (base = 0 \/ from = 0)
    IN  /\ pc[w] = "tip"
        /\ \/ /\ ~missing
              /\ tip' = [tip EXCEPT ![w] = base]
              /\ source' = [source EXCEPT ![w] = IF merging THEN from ELSE 0]
              /\ Goto(w, "swap")
              /\ UNCHANGED <<req, asOf, against, done, reply>>
           \/ missing /\ Answer(w, StoreError.notFound)
           \/ "store" \in Fault /\ AnswerFailure(w)
        /\ UNCHANGED <<storeVars, cacheVars, events, boundVars>>

(* What follows a write that landed: an RPC on main still has the cache to *)
(* clear; a write to another branch is complete; a command-line writer has *)
(* no cache to clear; and the database may fail to report the commit.      *)
Landed(w) ==
    LET onMain == req[w].branch = "main"
    IN  \/ /\ onMain /\ req[w].op \in RPCs
           /\ done' = [done EXCEPT ![w] = Latest']
           /\ Goto(w, "clear")
           /\ UNCHANGED <<req, asOf, tip, source, against, reply, owed>>
        \/ /\ ~(onMain /\ req[w].op \in RPCs)
           /\ Answer(w, "OK")
           /\ owed' = IF onMain THEN owed \cup {Latest'} ELSE owed
        \/ /\ "lostreply" \in Fault
           /\ AnswerFailure(w)
           /\ owed' = IF onMain THEN owed \cup {Latest'} ELSE owed

NotWritten(w, status) == Answer(w, status) /\ UNCHANGED <<storeVars, owed>>
WriteFails(w) == AnswerFailure(w) /\ UNCHANGED <<storeVars, owed>>

(* The branch still points at the commit the write is based on.  *)
AlwaysUnmoved(w) == TRUE     \* mutation: no compare before the swap
Unmoved(w) == refs[req[w].branch] = tip[w]

Swap(w) ==
    LET b == req[w].branch
        v == IF source[w] # 0 THEN commits[source[w]].version ELSE req[w].version
    IN  /\ pc[w] = "swap"
        /\ \/ /\ Unmoved(w)
              /\ commits' = Append(commits, [version |-> v, parent |-> tip[w],
                                             parent2 |-> source[w]])
              /\ H!PointTo(b, Len(commits) + 1)
              /\ Landed(w)
           \/ ~Unmoved(w) /\ NotWritten(w, StoreError.conflict)
           \/ "store" \in Fault /\ WriteFails(w)
        /\ UNCHANGED <<cached, emptied, events, boundVars>>

Move(w) ==
    LET c == req[w].commit
    IN  /\ pc[w] = "move"
        /\ \/ c # 0 /\ H!PointAt(req[w].branch, c) /\ Landed(w)
           \/ c = 0 /\ NotWritten(w, StoreError.notFound)
           \/ "store" \in Fault /\ WriteFails(w)
        /\ UNCHANGED <<cached, emptied, events, boundVars>>

CreateBranch(w) ==
    LET b == req[w].branch
        f == req[w].from
    IN  /\ pc[w] = "fork"
        /\ \/ H!Fork(b, f) /\ Landed(w)
           \/ refs[f] = 0 /\ NotWritten(w, StoreError.notFound)
           \/ refs[f] # 0 /\ refs[b] # 0 /\ NotWritten(w, StoreError.exists)
           \/ "store" \in Fault /\ WriteFails(w)
        /\ UNCHANGED <<cached, emptied, events, boundVars>>

-----------------------------------------------------------------------------
(* After a write to main, and on a publish that found nothing to write.    *)

KeepEntry ==                \* mutation: clears nothing and reports success
    UNCHANGED <<cached, emptied>> /\ owed' = {}
EmptyCache == cached' = 0 /\ emptied' = Latest /\ owed' = {}

(* server.invalidate, when Redis fails; it may have dropped the entry all  *)
(* the same.                                                               *)
ClearFails(w) ==
    /\ CacheHost = "redis" /\ "redis" \in Fault
    /\ cached' \in {cached, 0}
    /\ owed' = owed \cup ({done[w]} \ {0})
    /\ emptied' = emptied

(* When the clear failed, a publish that wrote and a merge notify before   *)
(* they answer; a rollback and a publish that wrote nothing answer at once.*)
AlwaysFailsAtOnce(w) == TRUE   \* mutation: no event when the clear failed
FailsAtOnce(w) == done[w] = 0 \/ req[w].op = "rollback"

Clear(w) ==
    LET thenNotify(status) ==
            /\ Goto(w, "notify")
            /\ reply' = [reply EXCEPT ![w] = status]
            /\ UNCHANGED <<req, localVars>>
    IN  /\ pc[w] = "clear"
        /\ \/ EmptyCache /\ done[w] = 0 /\ Answer(w, "OK")
           \/ EmptyCache /\ done[w] # 0 /\ thenNotify("OK")
           \/ ClearFails(w) /\ FailsAtOnce(w) /\ Answer(w, "Unavailable")
           \/ ClearFails(w) /\ ~FailsAtOnce(w) /\ thenNotify("Unavailable")
        /\ UNCHANGED <<storeVars, events, boundVars>>

PublishServed(v, old, w) ==  \* mutation: the version is re-read, not the handler's
    events' = Append(events, [version |-> Served, against |-> old, change |-> done[w]])
Publish(v, old, w) ==
    events' = Append(events, [version |-> v, against |-> old, change |-> done[w]])

(* The notifier is told, and the handler answers what the clear left.  A   *)
(* merge reads its commit back and keeps silent when the content is the    *)
(* one it read before merging.                                             *)
Notify(w) ==
    LET v == rows[done[w]].version
    IN  /\ pc[w] = "notify"
        /\ \/ req[w].op = "publish" /\ Publish(v, against[w], w)
           \/ /\ req[w].op = "rollback" \/ (req[w].op = "merge" /\ v # Read(w))
              /\ \E old \in Verdicts(Read(w)) : Publish(v, old, w)
           \/ /\ req[w].op = "merge" /\ (v = Read(w) \/ "store" \in Fault)
              /\ UNCHANGED events
        /\ Answer(w, reply[w])
        /\ UNCHANGED <<storeVars, cacheVars, boundVars>>

-----------------------------------------------------------------------------
(* GetPrompt of the served HEAD: cache, store, cache.                      *)

(* Serve-time validation.  *)
ServableIfFound == Served # NoPrompt     \* mutation: no validation
Servable == Served \notin Malformed \cup {NoPrompt}

Lookup(w) ==
    /\ pc[w] = "lookup"
    /\ \/ cached # 0 /\ Answer(w, "OK")
       \/ /\ cached = 0 \/ (CacheHost = "redis" /\ "redis" \in Fault)
          /\ Goto(w, "load")
          /\ UNCHANGED <<req, localVars, reply>>
    /\ UNCHANGED <<storeVars, cacheVars, events, boundVars>>

Load(w) ==
    /\ pc[w] = "load"
    /\ \/ /\ Servable
          /\ SeesHead(w)
          /\ Goto(w, "fill")
          /\ UNCHANGED <<req, tip, source, against, done, reply>>
       \/ Served \in Malformed /\ Answer(w, "DataLoss")
       \/ Served = NoPrompt /\ Answer(w, StoreError.notFound)
       \/ "store" \in Fault /\ AnswerFailure(w)
    /\ UNCHANGED <<storeVars, cacheVars, events, boundVars>>

Fill(w) ==
    /\ pc[w] = "fill"
    /\ \/ cached' = asOf[w]
       \/ CacheHost = "redis" /\ "redis" \in Fault /\ cached' = cached
    /\ Answer(w, "OK")
    /\ UNCHANGED <<storeVars, emptied, owed, events, boundVars>>

-----------------------------------------------------------------------------
(* What happens to the deployment.                                         *)

(* The entry's time to live is over.  *)
NeverExpire == cached # cached /\ UNCHANGED vars    \* mutation: an entry without a TTL
Expire ==
    /\ cached # 0
    /\ EmptyCache
    /\ UNCHANGED <<storeVars, events, pc, req, localVars, reply, boundVars>>

(* restore of a bare prompt line writes the row, unvalidated, and neither  *)
(* clears the cache nor notifies.                                          *)
RestoreRow ==
    /\ writes < MaxWrites
    /\ writes' = writes + 1
    /\ \E v \in Loadable : H!LoadRow(v)
    /\ owed' = owed \cup {Latest'}
    /\ UNCHANGED <<cached, emptied, events, pc, req, localVars, reply, crashes>>

(* A node stops and restarts: its handlers are gone with whatever they had *)
(* still to do, and so is a cache in its memory.                           *)
Crash(n) ==
    LET lost == {w \in Worker : NodeOf[w] = n /\ pc[w] # "idle"}
        clear(f, x) == [w \in Worker |-> IF w \in lost THEN x ELSE f[w]]
    IN  /\ crashes < MaxCrashes
        /\ crashes' = crashes + 1
        /\ pc' = clear(pc, "idle")
        /\ req' = clear(req, NoRequest)
        /\ asOf' = clear(asOf, 0)
        /\ tip' = clear(tip, 0)
        /\ source' = clear(source, 0)
        /\ against' = clear(against, Unclassified)
        /\ done' = clear(done, 0)
        /\ reply' = clear(reply, "none")
        /\ IF CacheHost = n THEN EmptyCache
           ELSE /\ owed' = owed \cup {done[w] : w \in {u \in lost : pc[u] = "clear" /\ done[u] # 0}}
                /\ UNCHANGED <<cached, emptied>>
        /\ UNCHANGED <<storeVars, events, writes>>

-----------------------------------------------------------------------------

(* A step of w's handler, once started.  *)
Step(w) ==
    \/ PublishReadsHead(w) \/ MergeReadsHead(w) \/ RollbackReadsHead(w)
    \/ PutReadsHead(w) \/ SeedReadsHead(w) \/ Compare(w)
    \/ ReadTip(w) \/ Swap(w) \/ Move(w) \/ CreateBranch(w)
    \/ Clear(w) \/ Notify(w)
    \/ Lookup(w) \/ Load(w) \/ Fill(w)

Next ==
    \/ \E w \in Worker : Start(w) \/ Step(w)
    \/ Expire
    \/ RestoreRow
    \/ \E n \in Node : Crash(n)

Spec == Init /\ [][Next]_vars

(* Go runs every goroutine that can run and every entry's TTL passes; that *)
(* a request is made, a restore run or a node crashes is promised by       *)
(* nothing.                                                                *)
Fairness == WF_vars(Expire) /\ \A w \in Worker : WF_vars(Step(w))

FairSpec == Spec /\ Fairness
=============================================================================
