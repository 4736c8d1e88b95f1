----------------------- MODULE PromptServerProperties -----------------------
(***************************************************************************)
(* What the handlers, the cache and the events of one prompt are to        *)
(* guarantee, whatever their interleaving.                                 *)
(***************************************************************************)
EXTENDS PromptServer

Call == {"idle", "head", "compare", "tip", "swap", "move", "fork",
         "clear", "notify", "lookup", "load", "fill"}
Status == {"none", "OK", "InvalidArgument", "NotFound", "AlreadyExists", "Aborted",
           "Canceled", "DeadlineExceeded", "Unavailable", "Internal", "DataLoss", "Refused"}

LocalTypeOK ==
    /\ pc \in [Worker -> Call]
    /\ req \in [Worker -> Request \cup {NoRequest}]
    /\ asOf \in [Worker -> Nat]
    /\ tip \in [Worker -> Nat]
    /\ source \in [Worker -> Nat]
    /\ against \in [Worker -> Version \cup {NoPrompt, Unclassified}]
    /\ done \in [Worker -> Nat]
    /\ reply \in [Worker -> Status]

(* Type invariant: the store is well formed, and every caller is answered  *)
(* with a status the handlers choose, INTERNAL among them (errors.go       *)
(* 27-51), never with a Go error that gRPC would make UNKNOWN.             *)
TypeOK ==
    /\ H!HistoryTypeOK
    /\ LocalTypeOK
    /\ events \in Seq(Event)
    /\ cached \in Nat /\ emptied \in Nat /\ owed \in SUBSET Nat
    /\ writes \in 0 .. MaxWrites /\ crashes \in 0 .. MaxCrashes

(* A reader that hits the cache would not get the served version.  *)
Stale == cached # 0 /\ rows[cached].version # Served

(* The rows of main for which a worker has yet to clear the cache.  *)
Clearing == {done[w] : w \in {u \in Worker : pc[u] = "clear" /\ done[u] # 0}}

(* server.go 208-220 and cache.go 17-20, "a dropped invalidation is a      *)
(* correctness bug": a stale entry is there only because its reader read   *)
(* the store before the cache was last emptied and filled it after, or for *)
(* a newer row whose writer is about to clear it, or is gone without       *)
(* clearing it (a command-line write, a crash, a lost reply, or a failed   *)
(* clear that its author was told of).                                     *)
StaleHasCause == Stale => cached < emptied \/ \E k \in Clearing \cup owed : k > cached

(* server.go 138-139: a malformed row, such as restore may leave, is never *)
(* in the cache, whatever was served when the reader read.                 *)
CacheIsValid == cached # 0 => rows[cached].version \notin Malformed \cup {NoPrompt}

(* pubsub.go 260-261, server.go 379-381: an event announces one change of  *)
(* the served row, once, with its version, and its verdict compares with   *)
(* something that had been served before the change.                       *)
EventsAreOfTheHistory ==
    /\ \A i \in 1 .. Len(events) :
          LET e == events[i]
          IN  /\ e.change \in 2 .. Latest
              /\ e.version = rows[e.change].version
              /\ \/ e.against = Unclassified
                 \/ \E k \in 1 .. e.change - 1 : rows[k].version = e.against
    /\ \A i, j \in 1 .. Len(events) : events[i].change = events[j].change => i = j

(* w's handler returns a status now (a crash returns none).  *)
Answers(w) == pc[w] # "idle" /\ pc'[w] = "idle" /\ reply'[w] # "none"
Confirms(w) == Answers(w) /\ reply'[w] = "OK"

(* server.go 72-77 and 98-100: a publish to main answers OK only when its  *)
(* content has been served, by its own write or by one it found there, and *)
(* the cache has been emptied since: a retry after UNAVAILABLE heals.      *)
ConfirmedPublishTookEffect ==
    [][\A w \in Worker :
          Confirms(w) /\ req[w].op = "publish" /\ req[w].branch = "main" =>
              LET i == IF done[w] # 0 THEN done[w] ELSE asOf[w]
              IN  i # 0 /\ rows[i].version = req[w].version /\ i <= emptied']_vars

(* server.go 103-108, 313-314, 379-381: once its write is known to have    *)
(* landed a publish answers nothing before its event is out, not even an   *)
(* error, and a rollback does not answer OK before.                        *)
ChangesAreAnnounced ==
    [][\A w \in Worker :
          /\ done[w] # 0
          /\ \/ req[w].op = "publish" /\ Answers(w)
             \/ req[w].op = "rollback" /\ Confirms(w)
          => \E i \in 1 .. Len(events') : events'[i].change = done[w]]_vars

(* Every step is an atomic operation of the store's history, or leaves it  *)
(* as it is: a commit's parent is the tip it replaced, so nothing reported *)
(* as published is silently dropped (README.md 264-269).                   *)
History == H!Spec

(* cache.go 12-13, pubsub.go 5: after the last write the cache ends up     *)
(* with the served version for good, however it got there.                 *)
CacheConverges == <>[]~Stale

(* No handler runs but readers, and no write was left uncleared.  *)
Quiet ==
    /\ \A w \in Worker : pc[w] \in {"idle", "lookup", "load", "fill"}
    /\ owed = {}

(* w, an RPC that changes main, is answered OK.  *)
ConfirmsChange(w) ==
    /\ Confirms(w)
    /\ req[w].op \in {"publish", "merge", "rollback"} /\ req[w].branch = "main"

(* server.go 71-81, 98-101 and 407-412: with one caller at a time, who may *)
(* crash and retries what failed, a change of main that is answered OK     *)
(* leaves readers the served version, and so it stays until main changes   *)
(* again.  The retry of a publish whose clear failed writes nothing, and   *)
(* yet may not answer before it has cleared.                               *)
FreshOnceConfirmed ==
    [][/\ \A w \in Worker : ConfirmsChange(w) => ~Stale'
       /\ ~Stale /\ Latest' = Latest => ~Stale']_vars

(* README.md 257-258, "Every HEAD reader gets the old version immediately",*)
(* and server.go 407-409: once main has been moved back to an older commit *)
(* and the move is answered, no reader gets the withdrawn version.         *)
RollbackIsServed ==
    Quiet /\ rows[Latest].commit < Len(commits) => ~Stale

(* pubsub.go 260-261, server.go 61: the verdict of an event is that of the *)
(* change it announces, from the version served just before.               *)
VerdictIsOfTheChange ==
    \A i \in 1 .. Len(events) :
        events[i].against \in {Unclassified, rows[events[i].change - 1].version}

(* server.go 379-381: when a rollback has answered OK, subscribers have    *)
(* been told of the change of content away from the version that was       *)
(* served before it.                                                       *)
SubscribersToldTheChange ==
    [][\A w \in Worker :
          Confirms(w) /\ req[w].op = "rollback" /\ done[w] # 0 =>
              \A k \in 1 .. done[w] - 1 :
                  /\ rows[k].version # rows[done[w]].version
                  /\ \A j \in k + 1 .. done[w] : rows[j].version = rows[done[w]].version
                  => \E i \in 1 .. Len(events') :
                        /\ events'[i].change > k
                        /\ events'[i].against \in {Unclassified, rows[k].version}]_vars

(* server.go 311-312: a merge into main that changed the served content    *)
(* and answers OK has notified subscribers.                                *)
MergeAnnounces ==
    [][\A w \in Worker :
          /\ Confirms(w) /\ req[w].op = "merge" /\ done[w] # 0
          /\ rows[done[w]].version # rows[done[w] - 1].version
          => \E i \in 1 .. Len(events') : events'[i].change = done[w]]_vars
=============================================================================
