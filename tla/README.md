# priompt in TLA+

A specification of the priompt server (`internal/server`, `internal/pubsub`,
`cmd/priompt`): what its handlers, caches, command-line tools and change events
do when they run at the same time and when parts of them fail. The modules are
model-checked with TLC on small instances; the safety properties that matter
most are proved with TLAPS for every instance. `PROJECT.json` lists the runs,
the source lines every definition stands for, the mutations each property is
known to catch, the disagreements found between code and documentation, and the
hazards the properties are aimed at.

## The system

| component | state it keeps | operations | what makes it correct |
|---|---|---|---|
| prompt store (`github.com/priompt/db-adapters`, outside this repository) | commits, branch pointers (`refs`), served rows (`prompts`) | Commit, Merge, SetBranch, Branch, Get, Resolve, GetCommit, Put, PutCommit, PutRef, Dump* | a commit's parent is the tip it replaced; the served row follows main |
| RPC handlers (`internal/server/server.go`) | locals of one request | PublishPrompt, MergeBranch, SetBranch, CreateBranch, GetPrompt, and read-only RPCs | a write that is confirmed is served; every failure has a status; every change is announced |
| L2 cache (`cache.go`, `redis_cache.go`) | one entry per URI with a TTL, in process or in Redis | Get, Put, Invalidate, expiry | never a malformed prompt; a stale entry is temporary and has a known cause |
| change events and broker (`internal/pubsub`) | NATS subjects, subscriptions, permissions | Publish, Subscribe, client authentication | one event per change, with its version and verdict; an organisation sees its own subjects |
| command-line writers (`cmd/priompt`) | none of their own: they open the database | put, import, seed, restore | same validation and commit as a publish |
| command-line readers | none | export, backup, watch, publish and its report | a backup restores; the report is true |
| access control (`internal/auth`) | none | Authorize, AuthorizePrefix, InScope, RequireWrite | organisations are separate |
| interceptors (`observability.go`) | a token bucket | rate limiting, recovery, logging | burst and rate are bounded |

How they interact: a handler makes a sequence of calls — store, cache, notifier —
holding no lock across them. Handlers of one process, of other nodes on the same
database and Redis, and command-line tools interleave at those calls. Store
calls are transactions. Nothing but the store survives a restart of a node.

What is hard here: values read by one call and used after another (the prior
version behind a verdict, the row a reader is about to cache), a call that fails
after another took effect (commit, then clear, then notify), retries of what was
half done, a crash in between, writers that bypass the cache.

## Modules

* **`PromptHistory`** — what the store promises about one prompt, each operation
  atomic: `commits`, `refs`, and `rows`, the sequence of values the served row has
  had. The store's code is outside the repository; the operations are taken from
  how `internal/server` and `cmd/priompt` call them and from the README's
  behaviour notes.
* **`PromptServer`** — the handlers and writers, one action per call a handler
  makes together with what it does up to its next call. `pc[w]` is the next call
  of worker `w` (a goroutine or a command-line process), `req[w]` its request,
  `asOf`, `tip`, `source`, `against`, `done` its local variables: the row it read,
  the commit and merge source its write is based on, the version its verdict
  compares with, the row its write produced. `cached` is the cache entry as the
  row it was read from, `events` what the notifier was handed. `emptied` and
  `owed` are history variables that only properties read: when the cache was last
  emptied, and the rows nobody is left to clear it for.
  A prompt shares no state with another prompt, so the module describes one.
* **`PromptServerProperties`** — type invariant and properties.
* **`MCPromptServer`** and the `.cfg` files — instances for TLC.
* **`PromptServerProofs`, `PromptServerCacheProofs`, `PromptServerRefinement`** —
  theorems.
* **`PromptTimedServer`** — the same server with the cache's clock. `PromptServer`
  lets an entry vanish whenever it likes; here `entry` is the row and the ticks it
  has left, set when it is put and looked at when it is got, and `Tick` makes it
  older. `waited` is how long each reader has held its row, `since` how long ago
  each row was replaced. It is `PromptServer` under the mapping `cached <- Cached`
  (what a `Get` would find); an entry that runs out is an `Expire`.
  `MCPromptTimedServer` instantiates it, `PromptTimedServerProofs` has its theorems.
* **`PromptPublishCommand`** — the `publish` command as a client of `PromptServer`,
  which it extends: `stage`, `before` (what its GetPrompt showed it) and `said` (the report it printed); `steady` is a history variable, whether the version
  it compares with still was the served one when its publish read it. The worker
  `Server` handles its requests, and anybody's in between.
  `MCPromptPublishCommand` is its instance.
* **`PromptRateLimit`** — the interceptor of `observability.go`: a table of token
  buckets by key, the lookup of a limiter and its use as two steps, time in between.
  `PromptRateLimitProofs` has its theorems.
* **`PromptCatalog`** — several prompts in one table of commits: what the read RPCs
  answer from it (operators over a part of the table), and the import of a whole
  file, validated, resolved and committed line by line, stopped anywhere and
  repeated. What other writers do is one store operation at a time, which
  `ImplementsHistory` justifies, and a restore puts bare lines (`RestoreLine`). Each
  prompt of it is a `PromptHistory`, under a mapping that numbers its own commits
  (`H(u)`). `Bare(u)`: what is served of `u` came in as a bare line and is in no commit.
* **`PromptAPI`** — composes the two: a call finds its limiter, is let in or
  refused, is authorised and handled, and its commits name whoever `Signature` says:
  the subject of a JWT, else the org, else `anonymous`. `MCPromptAPI` is its instance,
  `PromptCatalogProofs` has the theorems about both. `OnlyOf(o)` are the names that
  stand for the org `o` alone: identity providers may give callers of two orgs one
  subject, or the name of an org.
* **`PromptBackup`** — backup, export and restore. The live database is an
  instance of `PromptHistory`, any it allows: empty at first or not, written to by
  commits, merges, rollbacks and branches at any time, and by restores of bare lines
  (`Change`); `reading` and `draft` are the backup's position and what it has read, `files`
  the files written, `target` the database restored into, `pending` the records
  the running restore has still to put. A file remembers three facts
  that only properties read: `bare`, what it serves came of no commit, `torn`, somebody
  wrote between the backup's reads, and `cut`, the backup stopped before its last
  record.
* **`MCPromptBackup`**, **`PromptBackupProofs`** — its instance and its theorems.
* **`PromptEvents`** — who hears of a change and who may list or publish. Agents
  run `priompt watch` (`watched`, `conn`, `inbox`, and `hook`, what the hook was
  last ran for); `config` is how the server was started, `who` the agents'
  credentials, `stored` the prompts there are, `now` a clock for expiries. URIs
  are sequences of characters, since subjects are made from them character by
  character and prefixes are compared that way; an escape is one symbol. The
  broker's rules (subjects, permissions) and the API's (orgs of URIs, prefixes)
  stand side by side, each as the code has it, and the properties relate them. What an
  event's body says is `PromptServer`'s matter and is left out here.
* **`MCPromptEvents`**, **`PromptEventsProofs`** — its instance and its theorems.

Correspondence of actions and code:

| action | code |
|---|---|
| `Start` | validation and choice of branch at the head of each handler |
| `PublishReadsHead`, `MergeReadsHead`, `RollbackReadsHead`, `PutReadsHead`, `SeedReadsHead` | `Store.Get` before a write to main, and the decision each handler takes on it (a failed read is ignored by publish, merge and rollback, fatal in put, success in seed) |
| `Compare` | `Store.Resolve` of the branch: nothing to commit when the tip has the content |
| `ReadTip`, `Swap` | `Store.Commit` / `Store.Merge`: read the tip, compare-and-swap it, with the served row in the same transaction; the answer may be lost |
| `Move`, `CreateBranch` | `Store.SetBranch`, `Store.Branch` |
| `Clear` | `invalidate`, which Redis may fail, with or without having dropped the entry |
| `Notify` | `Notifier.Publish` with the verdict of `classify`, and the handler's answer |
| `Lookup`, `Load`, `Fill` | the three calls of `GetPrompt` of the served HEAD |
| `Expire` | the TTL of the entry |
| `RestoreRow` | `restore` of a bare prompt line into a live database |
| `Crash` | a node stops: its handlers and a cache in its memory are gone |
| `StartBackup`, `ReadTable`, `WriteFile`, `StopBackup` | `backup`: three queries, then the records of the file, commits, pointers, prompts; stopped anywhere |
| `Export` | `export`: the served rows alone |
| `StartRestore` | `restore` up to the first record: refused when the target holds commits, but for `-force` |
| `PutCommit`, `PutRef`, `PutPrompt`, `FinishRestore`, `StopRestore` | one record of the file each, its end, or a failure in between, after which what was put stays |
| `Watch`, `Reconnect`, `Disconnect`, `Stop` | `watch`: connect with a credential (`natsAuth`, `clientAuth.Check`, `Config.options`), subscribe; the client library's reconnect; a broken connection or the broker's deadline; Ctrl-C |
| `PublishPrompt`, `AgentPublishes` | the RPC's authorisation and `Bus.Publish`; a client that publishes itself, where its permissions let it |
| `Receive` | `watch`'s callback and `runHook` |
| `Tick` | time, on which the broker closes connections at their deadline |
| `Fill`, `Clear`, `Elsewhere`, `Tick` of `PromptTimedServer` | `memCache.Put` and `redisCache.Put` with the expiry, `Invalidate`, every call that leaves the cache alone, the clock |
| `GetStarts`, `GetEnds`, `PublishStarts`, `PublishEnds` | `publish`: GetPrompt, PublishPrompt, and what it prints about notifications from the two |
| `FindLimiter`, `Admit`, `Refuse` | `rateLimit`: the limiter of the caller's org from the table, `Allow`, and its refusal |
| `Arrives`, `Enters`, `Rejected`, `Handles` | the interceptor chain and the handler behind it, with `auth.Authorize` and `auth.RequireWrite` |
| `ImportStarts`, `ImportResolves`, `ImportCommits`, `ImportStops`, `ImportEnds` | `import`: decode and validate everything, then per line `Resolve` and `Commit` |
| `RestoreLine` | `restore` of a bare prompt line, any prompt's |
| `DiffCommits`, `DiffPrompt`, `GetByRef`, `History`, `ListCommits`, `ListBranches` (operators) | the answers of the read RPCs |
| `ListPrompts` (an operator: it changes no state) | the RPC of that name, with `AuthorizePrefix` and `InScope` |

Contents are told apart by their hash, so a version is a model value; verdicts
are a function of two versions, so a verdict is the version it compares with.
`StoreError` is `storeError` of `errors.go`, status by status. What the store reports
when it fails is one of `StoreFailures`: the request was cancelled or timed out, or
something went wrong that `isUnavailable`, which goes by the driver's text, takes for
an outage or does not, and then the caller gets INTERNAL.

## Runs

The `backup_` runs use `MCPromptBackup`, `broker_core` uses `MCPromptEvents`,
`server_alone` `MCPromptPublishCommand`, `server_live` and `redis_ttl_zero`
`MCPromptTimedServer`, `api_core` `MCPromptAPI`, the others `MCPromptServer`.

| run | question |
|---|---|
| `server_core` | two nodes, one of which may crash, one Redis that may fail: on one node everything that changes the prompt, on the other a reader, a second publisher and an operator who rolls back |
| `server_faults` | one node with its cache in memory, command-line writers, restore, a malformed version, store failures, lost commit replies, embedder failures, a crash |
| `server_alone` | one caller at a time, the publish command among them, failures and a crash: the strong properties that concurrency breaks, and the truth of the command's report |
| `server_live` | with a clock: how long a replaced version is served, that the cache converges, and that the untimed server was a fair abstraction |
| `backup_core` | two files (backup or export, whole, torn or cut) of a database that is being written to and may be loaded from bare lines, restored in any order, forced or not, over each other and over halves of each other |
| `broker_core` | two agents with any of four credentials, three prompts of orgs named alike, four ways to start the broker |
| `api_core` | two calls of one org and an administrator's behind the limiter, two prompts of two orgs, imports of three files, repeated and stopped, a bare line restored beside them |
| `rollback_stale`, `merge_unannounced`, `rollback_verdict`, `backup_torn`, `redis_ttl_zero` | a sentence of the documentation that the code does not keep, each with a short counterexample |

Bounds: two versions (three where a verdict has to skip one), two branches, two
workers, `MaxWrites` writing requests (2 or 3) and `MaxCrashes` crashes (0 or 1) in
a behaviour; reads are unbounded. Each hazard needs at most one writer between
two steps of another, or one reader across one writer, so two workers and three
writes reach all of them; the theorems remove the bounds. Each
run takes a minute or two with two TLC workers. `CHECK_DEADLOCK FALSE`
is set in the runs without readers or crashes, where the bound on writes lets
the system stop.

Fairness (`server_live` only): every handler that has been started takes its next
step (Go runs every goroutine that can run, and every call returns or times out)
and time passes (`WF_vars(Tick)`). Nothing is assumed about requests, restores and
crashes.

For the clock: a TTL of two ticks and readers that take up to one tick to put what
they read, so that an entry can be put late, read again while it lives and run out
while a write is half done. `MaxDelay` bounds what the code does not: the bound on
staleness is in terms of each reader's own delay, and holds whatever it is.

For the API: two calls of one org, of which one may write and signs with a subject,
and one of an administrator that may not, one token of burst, one tick: enough for a
budget to be used up, refilled and contended for, for two calls of one org to look for
their limiter before there is any, and for a call of another key to come between a
lookup and its use.
Three commits, two moves of each prompt and two imports let an import be raced,
stopped half way and repeated, a pointer move back, and a branch fork and merge.
Files have two lines: two prompts, one prompt twice, or a malformed version last.
The writers of the store take no notice of the clock, so imports are explored in the
first tick alone (`CONSTRAINT ImportsInTheFirstTick`), beside every other writer; the
budgets of the second tick are explored without an import.

For backups: two commits and three rows of the live database, which begins empty or
not and may be loaded from bare lines, give each file a different history, two files
give a restore an older and a newer one to follow,
and one crash stops a backup or a restore. The two versions are
symmetric.

For events: three changes, so that one may be handled while others are under way
or lost; a clock of 0 to 2 around the one expiry, 1; the URIs `a/b/x`, `a.b/x` and
`ab/x`, whose subjects or prefixes meet when dots or ends of orgs are mistreated.
Agents are symmetric. A connection past its deadline is closed before the clock
moves on: the precision of the broker's timer is one tick.

## What is proved

For the server, the assumptions are `ServerAssumption` alone: there is a branch `main`, the
special values are no versions, the initial row is valid, and several serving
nodes share a Redis (README 791-795). Workers, nodes, versions, branches, jobs,
faults and bounds are arbitrary.

* `TypeCorrect`, from the inductive invariant `Inv`: types (of the answers too: a status
  the handlers choose, INTERNAL among them), `emptied <= Latest`, and
  `HandlerOK(w)` — what each handler has established when it is about to make a
  call. Each action has a lemma; a step also only extends history (`Grows`) and
  moves one worker (`OthersStay`), which later proofs reuse. Types alone are not
  inductive: a commit is well formed only because a merge knows both its parents,
  and `StaleHasCause` and the publish theorem need the rows locals point at.
* `StaleOnlyWithCause` and `OnlyValidCached`, from `CacheInv`: not only the cached
  row but also the row every reader *is about to* cache is valid, and is the
  latest, or older than the last clear, or older than a row somebody has, or had,
  still to clear the cache for. Every step keeps that alternative (`Carries`).
* `ImplementsHistory`: `PromptServer` implements `PromptHistory` under the identity
  mapping of the store's variables. A successful compare-and-swap is a whole
  `Record` or `MergeIn` because the tip it compares with is the one the commit
  names as parent.
* `PublishesAreConfirmed` and `ChangesAnnounced`: action properties of the calls a
  handler answers from.
* `SettledForGood`: once neither the entry nor a row a reader is about to put is
  behind the served version, no reader, failed clear, expiry or crash makes it stale
  again before the next write. It is the safety half of `CacheConverges`.
* `EventsTellTheHistory`, from `EventInv`: no two handlers hold the same row as their
  own, nobody has told of it yet, and the verdict a publish already carries is of a
  row older than the one it wrote. Without these an event could repeat, or compare
  with a later version, and no event sent so far would show it.
* `ConfirmedWhileAlone` (`FreshOnceConfirmed`), `VerdictsOfTheChange` and `MergesAreAnnounced`:
  what holds as long as requests do not overlap and nothing is restored beside them
  (`OneByOne`: any number of workers, of which at most one is busy). Cache failures,
  lost replies and crashes are still there; `MergesAreAnnounced` alone excludes
  failures of the store, because a merge that cannot read its commit back keeps silent.
  They rest on `ReadsInv`: what a handler has read stays the served row until it
  writes, and its own row follows that one at once. `FreshOnceConfirmed` asks of every
  OK on its own that it leaves readers the served version, so a retry that finds its
  content stored and answers without clearing would break it, and then that only a new
  change of main makes the entry stale again. `MergeAnnounces` and
  `RollbackIsServed` are violated by two runs: it takes two callers that overlap.
  `ConfirmedForOneCaller` and `VerdictsForOneCaller` are the case `server_alone` checks, a
  single worker, for which `OneByOne` is a fact and not a hypothesis.
* `ReportsAreTrue` (`ReportIsTrue`), for any number of other callers and any faults: from
  `ReportInv`, which follows the command from its GetPrompt to the last call of its
  publish and knows at each whether an event is going to be sent, and from `UnreadInv`,
  that a handler remembers a row only once it has read one. `ReportIsTrue` leaves out
  the publish whose own read of the served version failed (`asOf[Server] = 0`): it
  writes that version again and announces it, while the command says that nothing was
  sent.

* `RestoredPointersHaveHistory`, `RestoreIsComplete`, `BackupsKeepServed` and
  `RestoreAgain`, from `BackupAssumption` (there is a branch `main`, `NoPrompt` is
  no version, the bounds are numbers) and one inductive invariant. The properties
  are about the target or the files alone and follow from what is behind them:
  what the draft of a running backup already has, given the next table it reads
  (`DraftInv`: a served row comes with its commit, pointers read without a write
  in between stay inside the commits read); that an untorn file is closed under
  parents (`FilesInv`); and that every record of the file being restored is in the
  target or still pending (`RestoreInv`), commits before pointers. Commits of the
  live database are never rewritten (`Grows`), so a history once closed stays so.
  `HistoriesAreApart` and `TypeCorrect` come from the same invariant.
* `QuietBackupsRestore`, from `TipInv` besides: a served row of the live database that
  came of a commit is the tip of its main branch (one that was restored as a bare line
  is not, and `BackupsKeepServed` and this theorem leave it out: `bare`), a backup that
  nobody wrote beside has read the prompts and the pointers of one state, so what it
  serves is the tip it points at; that what is restored is what the file says is
  `RestoreIsComplete`.

* `SubjectInjective` and `OrgSubjectExact`, about the texts themselves, then from them
  and one inductive invariant `OwnOrgOnly`, `OwnPromptOnly`, `FromPublishersOnly`,
  `ReadersWatch`, `NoneOutlivesToken`, `ExactListings`. `EventsAssumption` says what
  validation lets through: a URI has an org and something in it and no percent
  sign, an org no slash. What an agent has heard is right because of how its
  connection was made, so the invariant keeps, for every open connection, what it
  took from the credential (`ConnOK`), and for everything under way or handled that
  it is of the one prompt the agent watches (`MailOK`, `HookOK`); an agent that
  starts to watch has nothing left from before, which follows from the same.
  `TypeCorrect` (of `PromptEvents`) needs only the clock and the counters besides, and
  that an agent that watches nothing has no connection.

* `ImplementsUntimed`, from `TimedAssumption`: `PromptTimedServer` implements
  `PromptServer`, so everything proved above holds with a clock too. `StaleWithinTTL`
  follows by an invariant over it: the row in the entry was the latest when its
  reader read it, so it was replaced at most (the reader's delay) + (the ticks the
  entry has used) ago. The same must be known of every row a reader is about to put.

* `BudgetKept` and `NoneRefusedForOthers`, from `LimiterAssumption`. A bucket's
  contents alone do not bound what was let through, since refills are capped at the
  burst; the invariant is that since *some* tick the tokens used are exactly the
  burst, plus what was refilled since, minus what is left, and that every call that
  found a limiter found its own org's.

* `RefusedFilesLeaveNothing`, `ImportedIsServed` and `ImportIsRepeatable`, from the
  assumptions of `PromptAPI`, of which `CatalogAssumption` matters. The invariant is
  about the line the import is at: all lines behind it are served, superseded by a
  later line, or moved by others (`TakenInv`); what it saw last on main is not what it
  is about to commit (`SeenInv`); nothing begins before the file was accepted
  (`AcceptedInv`). It needs that the served row is the tip of main unless it is bare
  (`StoreInv`), since the import looks at the one and readers get the other: a restore
  of a bare line is the one writer that parts them, and an import that finds main
  unchanged then leaves readers on what was restored. `ImportTookEffect` says so.
* `AnswersKeptApart` and `ReadsAgreeAlways`, from `OwnInv`: branches, rows and commits of
  a prompt refer to commits of that prompt, and a parent is older than its commit, and
  what the store's `Resolve` finds is the prompt's own. HEAD is what main resolves to
  unless it is bare (`StoreInv`). The
  log a read answers with is a recursive function over the commits, so there is one
  only because parents are older (`ChainDefined`), and what it returns is proved by
  induction on the commit it starts from: the induction principle is itself a lemma
  here (`Induct`), about sets of numbers, from the library's `NatLessThanWellFounded`.
* `EveryCommitIsAccountedFor`, from `AccountInv`: a commit names the command line or a
  credential that may write its prompt (`AuthorInv`), and for each org the commits that
  bear a name of that org alone *and the calls let through that may yet sign with one*
  are together no more than the calls let through (`LedgerInv`). Counting commits alone
  is not inductive: a handler that runs has been counted and has signed nothing yet. A
  name that two orgs share accounts for neither, which is why only `OnlyOf(o)` is counted.
* `PromptsKeptApart` and `EveryPromptIsAHistory`: the one store of many prompts
  implements `PromptHistory` once for each prompt. The mapping numbers a prompt's
  commits among its own (`Rank`), and the proof is that this numbering is a bijection
  onto `1 .. n` which a new commit of anybody only extends, so that a step of the store
  is a step of one prompt's history and a stutter of all others (`StepApart`).

Only model-checked: `CacheConverges`, a liveness property under fairness, which is out
of the prover's reach; and the counterexamples below. Every invariant and action
property the passing runs check is a theorem.

## Disagreements with the documentation

Five, each with a run; `PROJECT.json` quotes the lines. Two concern the emergency
lever: a rollback that answered OK can be undone for readers by a slow reader's
cache fill (until the TTL), and a rollback retried after a failed clear announces
a change from the old version to itself. A merge beside a publish may change what is
served and tell nobody. The three tables of a backup are read in three queries, so a
backup taken beside a publish may restore to a database whose main branch has no
commit, or is not what it serves. And `-cache-ttl 0`, which is said to disable the
cache, makes Redis keep entries for good.

Met while modelling, and without a run of their own: the verdict of a publish that
races with another may compare with a version that was never its neighbour; the demo
seed may overwrite a prompt created between its two calls; the report of `publish`
goes by a cached read and may be wrong when another writer comes between it and the
publish (which `steady` in `ReportIsTrue` excludes), or when the publish could not read
the served version; a file with a URI twice commits both lines again each
time it is imported; commits name a JWT's subject without its issuer or org, so callers
of two orgs may sign alike; and after a restore of bare lines over a database with
history (`-force`) the served row and main differ, so that an import of what main holds
reports "unchanged" while readers stay on what was restored, and a backup has a served
version that no commit in it holds.

## Not modelled, and the plan

Next: the hypothesis of `MergesAreAnnounced` as narrow as the code allows (only the
read-back of the merge's own commit must not fail), and for backups that a restore of
what `export` wrote adds no history.

The body of an event on its way, and how a subscriber reads it: what matters of it is
its version and verdict, which `PromptServer` hands to the notifier.

Agents that cache and poll are in the client libraries, which are not in this
repository; so are the routes between brokers of several nodes (nats-server).

Left out for good: decoding of files, text output, flags, TLS set-up and the checks of the server's
start, the embedder and the semantic diff (a library; its verdict is an
uninterpreted function here), sealing of Redis values (a value that does not open is
a miss), and the interceptors that count and log, which change nothing a handler
sees.
