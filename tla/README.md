# AskRepo in TLA+

AskRepo indexes Git repositories and answers questions about them. This directory holds TLA+
models of the parts of it that are hard to get right by testing: jobs that are leased, lost,
redelivered and taken over; rows that several processes write; streams that end half way. TLC
checks the models on small instances, and TLAPS proves their safety properties for every
instance, all but what a search's results are merged into.

`PROJECT.json` lists the components, the runs, the source lines behind every definition, the
mutants that show each property can fail, the hazards the properties are aimed at, and the
places where a document and the code disagree.

## 1. The system

| Part | State it keeps | Operations | Talks to |
|---|---|---|---|
| API (FastAPI) | none of its own; one Postgres transaction per request | create, reindex, delete, generate, apply, sign in, ask, ... | Postgres, Kafka, Qdrant, Redis |
| Worker process | the job in flight, its heartbeat | consume ingestion, checklist, mock-data and eval jobs; retry consumers; a 60-second sweep; the mail loop | Postgres, Kafka, Qdrant, the chat model, SMTP |
| Postgres | every row; job rows carry `lease_owner`, `lease_expires_at`, `last_job_id` | guarded UPDATEs | all |
| Kafka | a topic per job kind, a retry topic per rung, a dead-letter topic, a live-event topic | at-least-once delivery, per-key order | API, workers |
| Qdrant | points tagged with project and generation | upsert, scroll, delete | workers, API |
| Redis | cached project grants, rate-limit counters, cached paths | get, set, invalidate | API |
| Web client (Next.js) | session cookies, the query cache, one event stream | refresh, reconnect | API |

How they interact:

* An **API request commits a row and then publishes a message**. Either half can be lost, so a
  row can be waiting for a message nobody sent. The sweep closes that gap.
* A **worker claims the row** named by a message: one guarded UPDATE that is refused while a
  live lease exists or when the job id is the last one seen. The claim, not the Kafka offset, is
  the deduplication boundary.
* A **run renews its lease** from a task of its own and ends with one guarded UPDATE that also
  publishes its outcome. A run that lost its lease is refused there.
* A **failed run** goes up a retry ladder of delay topics, then to a dead-letter topic.
* **Readers** (answers, generations, eval runs) read the project's `active_generation` once and
  use it for minutes, while a reindex may swap it.

What is hard here: two actors on one row across an `await`; a lease that expires under a live
run; a message that is lost, doubled or overtaken; a process that dies between two transactions;
a deletion that races all of it.

### Components and what makes each correct

| Component | Correct when |
|---|---|
| Ingestion pipeline, project row, consumer, retry ladder, sweep | one live run per project; the served generation is complete, of the commit it names, and only moves forward; a deleted project stays deleted; every requested run ends |
| Checklist and mock-data generation | one run per row; a worker that lost its lease leaves no proposal; the sweep neither loses nor multiplies work |
| Change sets and items | one decision per proposal; a proposal never writes what a tester observed; a module's status agrees with what is pending |
| Eval sets and runs | a run's summary is what its results say; a resumed run mixes neither builds nor generations; a translation keeps its source |
| Sessions, password reset | a session that ended stays ended, unless a refresh under way issues a token after; a lost or repeated refresh signs nobody out; a reset link is spent once; the login budget holds |
| Membership and access | a revoked grant is not honoured beyond the cache's lifetime; a project keeps an owner |
| Notifications and mail | mail is sent once unless in doubt; recorded outcomes are true and final; every pending mail settles |
| Live events | only committed changes are announced; nothing is silently missed; a revoked or signed-out caller hears nothing past the re-check |
| Conversations and answering | a turn is stored exactly once, however its stream ends; evidence, citations and warning belong together; permits are returned |

## 2. Modules

| Module | Models | Kind |
|---|---|---|
| `LeasedWork` | what a lease on a job row promises, with nothing of the queue behind it | abstract specification |
| `Ingestion` | project row and lease, ingest topic and ladder, workers, sweep, deletion, vector store | state machine, implements `LeasedWork` |
| `Checklist` | one checklist module: row and lease, generation jobs, retry ladder and sweep, chat proposals, review decisions, items and results, deletion | state machine, implements `LeasedWork` |
| `MockData` | one mock dataset: row and lease, generation, chat turns, decisions, records | state machine, implements `LeasedWork` |
| `Eval` | eval sets, translations and runs of one project, their jobs | state machine, implements `LeasedWork` row by row |
| `Sessions` | accounts, refresh tokens, reset links, the login budget | state machine |
| `Access` | memberships, roles, and the grant cache in front of them | state machine |
| `Outbox` | notification fan-out, the bell, mail drains, the prune | state machine |
| `LiveEvents` | staged events, the hub, the `/events` streams and their re-check | state machine |
| `Answering` | turns of a conversation: request, permit, answer graph, stream, stored message, votes | state machine, uses `Retrieval` |
| `Retrieval` | `CodeRetriever`'s merge and budget | pure operators |
| `IngestionProofs`, `ChecklistProofs`, `MockDataProofs`, `EvalProofs` | theorems about the leased jobs, with the refinement of `LeasedWork` by each | proofs |
| `SessionsProofs`, `AccessProofs` | theorems about accounts and grants | proofs |
| `NotificationProofs` | theorems about `Outbox` and `LiveEvents` | proofs |
| `AnsweringProofs` | theorems about `Answering` | proofs |
| `Accounts` | the accounts and the NULL that `Outbox` and `LiveEvents` share | constants |
| `MC...` | values of the constants and symmetry for TLC | models |

### `LeasedWork`

Four kinds of job row carry `lease_owner`, `lease_expires_at` and `last_job_id`, and all of them
go through `repositories/lease.py`. `LeasedWork` says what its callers rely on: the row is taken
only when no lease on it is live and it is not deleted; its tenure ends in one write that may
record one result and that only the worker the row names can make; a worker that was overtaken
leaves no trace. Heartbeats may fail and leases lapse at any time. The mapping takes the owner
and the liveness of the lease from the row, and as the number of results the served generation
(`Ingestion`), the change sets that came from a generation (`Checklist`, `MockData`), or the
completed work of a set or run (`Eval`). `LeaseHonoured` states the refinement in each.

### `Ingestion`

State and code:

| Variable | Code |
|---|---|
| `row` | the `projects` row: status, `deleted_at`, `reindex_in_progress` (`flag`), lease, `last_job_id`, `active_generation` (`gen`), `embedding_collection` (`collection`), last indexed commit |
| `points` | the project's Qdrant points, one per (generation, chunk slot), with the commit they were cut from; point ids are derived from exactly that pair, so an upsert overwrites. `late` is the model's own mark: the writer had lost the row |
| `run[w]` | worker `w` between taking a record and committing its offset: the stage of `IngestionPipeline.run` or of `_route_failure`, what it read, whether its heartbeat task is alive, whether the partition is still its own |
| `log`, `position`, `holder` | the partition: uncommitted records, how many the current group member has fetched, who it is |
| `retry` | records waiting on the delay rungs |
| `outbox` | publishes a transaction has decided on and that have not happened yet |
| `del` | the DELETE request between its awaits, and whether it ever reached the vector store |
| `evalRun` | a reader that holds one generation for long |

Each action is one transaction or one call that others can overtake. `Claim`, `Load`,
`CloneDone`, `Flush`, `ReleaseReady`, `DropSuperseded` and `Discard` are the run;
`FailTerminal`, `FailRetryable` and `FailUnexpected` its three `except` arms; `RouteRetry`,
`ProduceRetry` and `RouteDead` the failure routing; `CommitOffset`, `Absorb` and `ClaimRaises`
the poll loop around them. `Crash`, `Rebalance`, `HeartbeatFails`, `LeaseOutrun`, `PublishLost`,
`RetryDoubled` and `RetryLost` are what the environment does to them.

Abstractions: time is not a number (a lease is live until a step lets it expire, and every age
the sweep asks for may have passed); a commit is a name and a file is a set of chunk slots; one
project is modelled, because messages are keyed by project and nothing a run writes is shared
between projects. A live lease is assumed to outlast the moment between a claim and the first
renewal.

### `Checklist`

| Variable | Code |
|---|---|
| `row` | the `checklist_modules` row: status, `deleted_at`, lease, `last_job_id`, and whether `updated_at` is older than the sweep's cutoff (`aged`) |
| `sets` | the module's `checklist_change_sets` rows, by id: status, `deleted_at`, origin, operations |
| `items` | its `checklist_items` rows: live or not, who wrote the wording (a person, or a change set), the recorded result |
| `req[u]` | one user's request in flight: a generation request, a decision that has read its change set, an apply (before and after it loaded the items), a discard; with the module status and the items it loaded |
| `turns` | chat turns being streamed; nothing of a turn is in the database but the question until it ends |
| `run[w]` | a worker between claiming a record and committing its offset: `handle_checklist_message` around `ChecklistGenerator.run` |
| `topic`, `retry`, `outbox` | records on the topic, records on the delay rungs, messages a committed transaction owes |

`RequestRead` and `RequestCommit` are the two halves of `request_generation`; `RequirePending`,
`RequireModule`, `LoadItems` and `ApplyCommit` the statements of `apply` that others can overtake; `FinaliseTurn` is the shielded end of a chat
turn. `Propose` and `Finish` end a run, because the heartbeat stops between the model's answer
and the release. A failure is one of four kinds, the fourth (`aborted`) being one that leaves the
session's transaction unusable: `_fail` does not roll back first, so nothing can be recorded in it.

Two details of the ORM matter and are kept. A request writes only the columns it changed, so an
apply never writes a result. And a column set to the value it was loaded with is not written, so
`_settle_module` leaves alone a status that changed under it (`SettledRow` takes what was seen).

Abstractions: the topic is a set (order and offsets are `Ingestion`'s subject); a retry may be
re-produced before or after the lease held for it runs out, because the two are timed by
different hosts; a worker that has just stopped its heartbeat to record the outcome still holds
a lease for most of its length (`Holding`), unless the run allows it to be outrun; the project
behind the module stays indexed; an item edit is one step.

### `MockData`

The protocol of `Checklist` with three differences that the model keeps: the row is made by the
first request or chat turn that needs it (and two of them race for the unique key); a chat turn
checks the dataset before it streams and writes when the stream ends; an update writes a record's
whole `fields` column, merged onto the fields that were loaded. `row`, `sets`, `records`, `req`,
`turns`, `run`, `topic`, `retry`, `outbox` mean what they mean in `Checklist`. A field's value is
the change set that wrote it, so that a lost update shows.

### `Eval`

`sets`, `pairs`, `runs`, `results` are the four tables, by id and position; `project` is what eval
jobs read of the project row; `asked` the `create_set` requests past their unlocked checks;
`job[w]` a worker in a generation or a run, with the batch it has not committed. Requests that
take row locks are one step. `StampRun` writes the build and generation a run is scored under,
`HoldForCommit` and `Saved` are a batch. `Starts` lists the starting points of the behaviours,
each with its own budget, so that one run covers sets from nothing and runs of a ready set.

### `Sessions`

`users`, `tokens`, `links` are tables; `lock` is the row lock that only the reset link takes;
`fails` the Redis counter of an address; `cookie` a browser's jar, which several tabs share and
which a lost response leaves behind; `req[r]` a request between its read and its commit, bcrypt
being in between. Time is counted in ticks, because the grace window of a rotation, the life of a
link and the window of the budget are compared.

### `Access`

`members` and `roles` are the tables with soft deletion; `cache[u]` is the Redis entry under the
current epoch's key. A request goes through `load`, `write` (the SET of what it loaded), `ready`,
`commit`, `evict` or `bump`; every Redis command may fail and a process may die in between. Two
marks that are no data of the program's say when an entry was overtaken (`late`) and when a check
was (`crossed`), so that the properties can say exactly which staleness the code accepts.

### `Outbox`

`rows[<<event, user>>]` is a delivery with its mail state, attempts and lease; `drain[d]` a pass
of `mail_loop` with the rows it claimed and the outcome it is about to mark; `raising` the
caller's transaction around a fan-out. Sending is outside any transaction and the relay's answer
may be lost; `accepted` and `doubt` record what the program cannot know.

### `LiveEvents`

`staged` is the session's list, `fate` what became of each event's transaction, `sends` the send
tasks, `wire` what the hub has yet to read (a set: the topic has partitions and no key), `streams`
the generators with their bounded queues, and `access`, `since` what a re-check would find and for
how long. `owed` marks what a client has not been told of since it last refetched.

### `Answering` and `Retrieval`

`turn[t]` is one question: where its stream is (`Streams`), where its graph is (`Nodes`), the
generation it was pinned to, its spans, verdict, citations and history, and the events on `wire`
between producer and consumer. A history is the set of the positions of the messages it replays:
the table keeps them in order. `semaphore` is the process's permits and their queue; `messages` the
table in commit order. The classifier, the grader and the model answer whatever they like; a
token is only counted. `Disconnect`, `Drop`, `RetrieveRaises`, `WriteFails` and `ProcessKilled`
are the ways a turn is cut off. `Retrieval` computes what `CodeRetriever` makes of a search. A
file's characters are numbered positions, some of which end a line; a chunk is a stretch of them
that may begin and end inside a line, as `LanguageAwareChunker` cuts by characters; its line range
is counted from the breaks, `_join` drops whole lines, and the budget counts characters, a cut
span carrying `TRUNCATION_MARKER` on top. `SoundAnswer` says from the chunks' positions alone what
each span must show: each character of its run once, in order and on its line, except where a line
is dropped that a chunk of the run ended inside (section 5), and behind a cut.

## 3. Runs

| Run | Shows |
|---|---|
| `ingestion_healthy` | heartbeats keep up, any one fault: every busy project has a lease, states are well typed, and under fairness every requested run ends |
| `ingestion_lost_lease` | heartbeats may die or come too late, two faults: every slot served still holds its commit's chunk or one a stale worker wrote over it, and the row implements `LeasedWork` (the pointer moves by one, by the worker the row names) |
| `checklist_review` | two reviewers, chat, a generation and testers on one module: `review` always has something to review, model wording arrives only by a decision, no decision changes a result |
| `checklist_settles` | two workers, heartbeats may die, two faults: under fairness a module shown as generating stops being so, and the row implements `LeasedWork` |
| `mockdata` | the dataset row implements `LeasedWork`; `review` has a proposal; a chat turn never hides a running generation from the sweep; an uncrossed decision changes what it names |
| `eval` | a translation keeps its source, pairs come with the `ready` that counts them, a finished run adds up and has one provenance, every row implements `LeasedWork` |
| `sessions` | ended sessions stay ended unless a refresh was under way, rotation signs nobody out, a link is spent once, the login budget is overrun only by attempts already past the check |
| `access` | cached grants agree with PostgreSQL up to the two stated causes and converge; current checks keep every project owned and no membership on a deleted role |
| `mail_outbox` | what a row says of its mail is what the relay saw; outcomes are final; pending mail settles |
| `live_events` | only committed changes are announced, none is silently missed, every one is heard in the end, and nothing is forwarded past the re-check's windows |
| `answering` | one outcome per turn and its permit returned, the stream's contract, evidence, citations and warning together, history, notes, sound retrieval, and every turn ends |
| `turn_outcome_lost` | violated: "record the outcome exactly once" (`services/conversation.py:335`) |

`turn_outcome_lost` ends in a violation on purpose. When the retrieve node raises (the embedder or
the vector store is down), `stream_turn` awaits an event that is an exception, and `_finalise`
awaits it again and lets it through before the row is written: the question stays without any
reply. `OutcomeRecordedOnce`, the part of `EveryTurnSettles` about outcomes, says what does hold;
`answering` checks it.

### Bounds and why they are enough

Two workers are enough for every pair of runs to interleave, and a third would only be a second
copy of one of them. In `ingestion_lost_lease` two commits with different sets of chunk slots let
a retry meet a moved branch, and two slots let a run be half way. `MaxAttempts` 3 with two rungs
exercises both rungs and the dead letter. `MaxFaults` bounds how many things go wrong in one
behaviour: two in the safety runs (a dead heartbeat and a crash, a lost publish and a failed run,
...) and in `checklist_settles`, one in the other runs that check liveness, whose graphs grow
fastest. `MaxQueue` bounds records that
wait, `MaxRequests` requests, `MaxEvals` eval runs. `MaxGen` never binds in `ingestion_healthy`.
Interchangeable ids are symmetric in the runs without liveness only; `Checklist` takes the next
job and change-set id from its pool instead of any, which loses no behaviour.

`Checklist`: two reviewers and two change sets give every pair of decisions, including two on one
change set; one item is enough for an edit, a removal and a result to meet, since operations on
different items do not interact. Ids of change sets and items are used once, so their number
bounds how many are ever made. The review run has no faults and the job run no chat: the theorems
below cover both together. `MockData` has chat, review, jobs and one fault at once.

`Eval`: three pairs in batches of two make a full batch and a rest; two workers of different
builds make a resumption that must be refused. `Sessions`: two requests in flight, four begun;
three tokens are a login and two rotations; a limit of one failed login is the boundary; the grace
window is shorter than a tick, so a later repeat is outside it. `Access`: one
administrator, one member, one project, the two system roles that matter and one custom role,
three requests of which two overlap, one Redis failure or kill. `Outbox`: one recipient of one
event, two drains, two attempts, two faults, two changes of mind. `LiveEvents`: one stream with a
queue of one, so that the second event overflows it; a reuse window of two ticks and a heartbeat
of three, so that neither divides the other. `Answering`: two turns for one permit, two searches
at most, one token, a window of one message, two generations, one fault and two actions of
others; seven chunks of two files: with a shared line, a line split between two chunks, an empty
line, a gap, a chunk inside another and one that starts on the line where the chunk around it ends;
and every search answer of up to four of them with scores below, at and above the floor, against a
budget of eleven characters, which some joined runs meet exactly and some exceed.

### Fairness

`FairSpec` assumes weak fairness of what the processes do on their own: a worker goes on with
its handler and polls again, a decided publish happens, the sweep and the clock tick, a due
retry is re-produced, a DELETE that began goes on. Requests, failures, crashes, rebalances and
lost messages are never fair. In `Checklist` a request that passed its checks goes on to its
commit; nobody has to review, chat or ask. In `Access` a request that began goes on and entries
age; in `Outbox` a drain goes on with its pass, claims again, and leases lapse; in `LiveEvents` tasks that were started run, the hub reconnects and a stream's
generator goes on, while clients, rollbacks and losses owe nothing; in `Answering` each turn's
producer and consumer go on, and the model comes to an end, as its timeout makes it. Deadlock is
checked where the environment can always act (`mail_outbox`, `live_events`) and not where an idle
system may stop.

`Settles` is checked with heartbeats that keep up: with one that dies and a second fault the code
does not keep it (Findings, the stale status).

## 4. Proofs

`IngestionProofs` proves, for any sets of workers, job ids and commits and any bounds:

| Theorem | States | Rests on |
|---|---|---|
| `TypeCorrect` | `Spec => []TypeOK` | `TypeInv`: a run past its clone knows its commit, and the fetch position lies in the partition |
| `OneRunnerSafe` | `Spec => []OneRunner` when heartbeats keep up | `Beats`: a worker renews exactly while it is in a run, and then it owns a live lease |
| `BusyIsRecoverableSafe` | `Spec => []BusyIsRecoverable` when heartbeats keep up | `Beats`, because the unguarded `set_status` is harmless only while its caller owns the lease |
| `LeaseSafe` | `Spec => Work!Spec`: indexing implements `LeasedWork`, heartbeats dying or not | `Fresh`: the owner of a run works from the served generation |
| `PointerSafe` | `Spec => PointerAdvancesByOne` | `Fresh` |
| `DeletedFinal` | `Spec => DeletedRowIsFinal` | types only: every write of an outcome is guarded on the row being live |
| `ServedSafe` | `Spec => []ServedIndexComplete`, heartbeats dying or not | `Fresh`, `DropsOld` (what a run is about to drop is older than what is served), `Written` (what the owner has flushed is in the next generation, of its commit or overwritten by a stale worker), `ServedHas` |
| `ServedExact` | `Spec => []ServedIndexExact` when heartbeats keep up: every slot of the commit served holds that commit's chunk | the same, with `Beats` and `OnTime`: whoever writes a point owns the row |

`OneRunner` alone is not inductive: nothing in it says that the second worker's claim will be
refused, which is what `Beats` adds. `ServedIndexComplete` is not inductive for a deeper reason:
a worker that lost its lease may still flush, drop and discard, so the argument is about which
generation it can reach. It writes under one past the pointer it read, it only drops a
generation that a later flip has superseded, and it discards only when the project is gone.
That generation may be the one its successor wrote, or serves already, and point ids are shared:
the slot then holds the stale worker's chunk, which is marked `late`. No owner writes there, since
an owner's generation is one past the pointer (`KeepsPoints`), so without stale workers no slot of
the served generation changes commit.
Lemmas `RunWriters`, `RowWriters` and `PointWriters` say which actions write which variable, so
that a proof about one variable looks only at those.

`ChecklistProofs` proves, for any sets of workers, users, change sets and items and any bounds:

| Theorem | States | Rests on |
|---|---|---|
| `ChecklistTypeCorrect` | `Spec => []TypeOK` | `TypeInv`: a job past its claim has an id, and a decision in flight is about a change set that exists |
| `ReviewSafe` | `Spec => []ReviewHasProposal` | `ReviewInv`: some pending proposal is *firm*, that is, everybody deciding it loaded the module as `review` |
| `ModelTextSafe` | `Spec => []ModelTextWasReviewed` | `Decides`; a proposal is stored under an id no item carries |
| `ResultsKept` | `Spec => ResultsAreTheTesters` | types only: which columns each transaction writes |
| `ProposalAtomic` | `Spec => ProposalLandsWithRelease`, heartbeats dying or not | types only: the change set and the guarded release are one transaction |
| `OneGeneratorSafe` | `Spec => []OneGenerator` when heartbeats keep up | `BeatInv`: a worker that renews owns a live lease |
| `GenerationLeaseSafe` | `Spec => Work!Spec`: generation implements `LeasedWork`, heartbeats dying or not | `TypeInv`, and `GeneratedStored`: storing a generation's proposal adds one to the generated change sets, which are finitely many (`FiniteAssumption`) |

`ReviewHasProposal` is not inductive. A decision settles the module on a status it writes only if
it differs from the one it loaded, so a reviewer who loaded `ready` could in principle take away
the last proposal and leave `review` standing. `ReviewInv` rules that out: a proposal that puts
the module in `review` is new, so nobody is deciding it yet, and whoever starts to while the
module is in `review` loads `review`, and so writes the status when committing.

`MockDataProofs`, for any sets of workers, users, change sets, records and keys and any bounds:

| Theorem | States | Rests on |
|---|---|---|
| `DatasetReviewSafe` | `Spec => []ReviewHasProposal` | `ReviewInv`: a dataset in review has a *firm* proposal, as in `Checklist`; `Decides`: a decision in flight is about a change set that exists |
| `GeneratingStands` | `Spec => GeneratingIsKept` | `TypeInv`: which row each statement leaves, and that it is guarded on the owner or on `MarkedInReview` |
| `DecisionsAreExact` | `Spec => DecisionsTouchWhatTheyName` | `ViewInv`: until another decision commits, a record an apply loaded as live still holds the fields it loaded, though it may have been deleted |
| `DatasetLeaseSafe` | `Spec => LeaseHonoured` | types, and the finiteness of the change sets that came from a generation |

The merge of an update writes a whole column, so `DecisionsTouchWhatTheyName` is false from an
arbitrary well-typed state: an apply may carry a view of fields the record never had. `ViewInv`
ties the view to the record, and needs the fact that only decisions write fields.

`EvalProofs`, for any sets of workers, builds, eval sets, runs and positions and any bounds:

| Theorem | States | Rests on |
|---|---|---|
| `EvalLeaseSafe` | `Spec => LeaseHonoured`, one refinement per row | `RowInv`: an owned row is being worked on, an id not yet used has no lease, a job in hand has a row |
| `TranslationsAreSafe` | `Spec => []TranslationHasSource` | `RowInv`, and itself: a set in use as a source is neither deleted nor worked on again |
| `SetsAreWhole` | `Spec => []SetIsWhole` | `RowInv`: only the owner of a set that is generating writes its pairs |
| `RunsAddUp` | `Spec => []RunAddsUp` | `SummaryInv` (also for deleted runs) and `DoneInv`: until its worker is overtaken, every pair of a run is still to do, waiting to be saved, or saved |
| `ResultsOfOneProvenance` | `Spec => []OneProvenance`, when no worker outstays its lease before its heartbeat starts | `ClaimInv`: a claim is kept until the work begins; `StampInv`: a worker that owns a run works under the run's stamp |

One lemma, `StepMoves`, says of every action what it may do to a row: one of eight kinds of step,
and who made it. The five theorems read it instead of the actions. `RunAddsUp` is not inductive:
`done` is written by a worker whose list of what is left is from the time it began, so that the
list has to be accounted for through crashes of others, full batches and changed exclusions
(`DoneInv`). `OneProvenance` is not, because `StampRun` writes without looking at the lease: that
nobody else has stamped the run meanwhile follows only from the claim being live throughout
(`ClaimInv`), which is where the hypothesis `~StallAtStart` enters, and the only place. With
`StallAtStart` the property is false of the code (Findings).

`SessionsProofs`, for any sets of accounts, browsers, tokens, links and requests and any limits:

| Theorem | States | Rests on |
|---|---|---|
| `SessionsTyped` | `Spec => []SessionInv` | itself: types, and that each request in flight still has the user, token or link it read; a confirm under way holds its link's row |
| `LinksSpentOnce` | `Spec => LinkSpentOnce` | `SessionInv`: the row lock of `get_usable_by_hash` keeps the link from every other request |
| `EndedSessionsStayEnded` | `Spec => EndedStaysEnded` | `SessionInv`: a refresh that may still rotate has read a token of a family that is not dead |
| `SignedOutByRevocationOnly` | `Spec => OnlyRevocationSignsOut` | `SessionInv` |
| `LoginBudgetHolds` | `Spec => []LoginBudget` | `BudgetInv`: the failures counted *and* the attempts past the check together stay below the ceiling |

`LoginBudget` bounds the counter alone and is not inductive: an attempt past the check counts
later. `BudgetInv` charges each attempt when it passes the check, so that counting it moves one
from one term of the sum to the other.

`AccessProofs`, for any sets of accounts, projects, roles, permissions and requests and any TTL:

| Theorem | States | Rests on |
|---|---|---|
| `CacheIsFresh` | `Spec => []CacheFresh` | `CacheInv`: an entry neither stored late nor owed an eviction equals what PostgreSQL grants |
| `ChecksHold` | `Spec => CurrentChecksHold` | `Current`: what a request checked still holds until another transaction commits |

For both, `RoleRows`, `MemberRows` and `FreshIds` say that the system roles stay live under their
own names, that no membership is of a role that was never made, and that two creations under way
have different ids. `CurrentChecksHold` is about a single commit, but whether it leaves a project
owned depends on a check made many steps before; `Current` carries the check to the commit.

`NotificationProofs` proves of `Outbox`, for any sets of users, events and drains and any number of
attempts and faults:

| Theorem | States | Rests on |
|---|---|---|
| `RelaySafe` | `Spec => []RecordMatchesRelay` | `RelayInv`: a row not in doubt is held by one pass at most, under a live lease and with the attempts that pass was told (`Clear`); `sent` is only said of what the relay took (`Taken`) |
| `OutcomesStand` | `Spec => OutcomeIsFinal` | `TypeInv`: a pass records the outcome of a row it holds |

`RecordMatchesRelay` says nothing of passes in flight, and a pass that no longer holds its row could
record anything. `Clear` excludes it for a row without doubt; the moment two passes hold one row, the
row is in doubt, and then only `Taken` is claimed.

and of `LiveEvents`, for any sets of streams, users and events, any queue size, window and
heartbeat:

| Theorem | States | Rests on |
|---|---|---|
| `CommittedOnly` | `Spec => []OnlyCommittedIsAnnounced` | `BusInv`: what is staged is not committed, what is on its way is |
| `NothingMissed` | `Spec => []NothingSilentlyMissed` | `Shaped`: a stream in resync has nothing in its queue but the marker, a closed one holds the close marker |
| `RecheckHolds` | `Spec => NothingPastTheRecheck` | `Timed`: what a check found is still true, or changed within the time the check is good for |

`AnsweringProofs`, for any set of turns, any number of permits, searches, tokens, generations and
faults and any history window:

| Theorem | States | Rests on |
|---|---|---|
| `TurnsSettle` | `Spec => []EveryTurnSettles` | `OutcomeInv`: a turn has one question from its commit on, and an answer exactly if its stream closed normally; `Orderly`: nobody queues for a permit twice or while holding one |
| `StreamContract` | `Spec => []StreamKeepsItsContract` | `AtNode` |
| `EvidenceSafe` | `Spec => []EvidenceBelongsTogether` | `AtNode`, `Judged`, `Listed` |
| `HistorySafe` | `Spec => []HistoryIsThePast` | `OutcomeInv`: what precedes a question never changes once it is asked, because the table only grows and the turn asks once |
| `NotesSafe` | `Spec => []NotesGoWithTheTurn` | itself, and types |

All five read one inductive invariant, `Inv`, which TLC has checked on every state of the
`answering` instance as well. Its core is `AtNode`, which says of an open turn what its record
is at each node of the answer graph. Nothing of `StreamKeepsItsContract` is inductive: it counts what the
consumer has read, and says nothing of the events on their way. `Said` does: before the terminator
the stream is one citation list and then tokens, either all unread or with the list and the first
`parts` tokens read, so that tokens read and tokens on the wire add up to tokens produced.
`Closing` takes over when the terminator is sent. `Listed` carries the citations of the first
search to the end of a turn that searches again, and `Judged` ties the verdict to the spans that a
later search replaces: `RouteAfterRetrieval` grades those too, whatever the budget. The permits
need `Orderly`, since a cancelled turn leaves the middle of the queue (`Without`), and the permit
it frees goes to the head of what is left. A step of the graph or of the consumer
changes the record of its turn alone, so each has a lemma that this turn `Advances`, and
`AdvancesInv` says once what that means for the other turns, the messages and the permits.

The refinement theorems (`LeaseSafe`, `GenerationLeaseSafe`, `DatasetLeaseSafe`, `EvalLeaseSafe`)
show that each action that writes a row is a `Take`, `Renew`, `Record`, `Lapse`, `Die` or `Delete`
of `LeasedWork`, or changes nothing the mapping reads; the first two also that the initial state
is `LeasedWork`'s. For indexing the step that needs an invariant is the flip: `release_lease`
writes one past the generation the run read, and only `Fresh` says that this is one past the
generation served.

The constants are assumed to be what their comments say: SQL NULL, modelled by `None`, is no value
of the data it is compared with (`NullAssumption`, `NoneAssumption`, and a conjunct of the
assumptions of `Outbox` and `LiveEvents`), the live-event markers are no events, and sets that are
counted are finite (change sets, positions, and the requests in flight, accounts and projects).
`Answering` assumes of `Retrieval` only that a search brings back some number of spans
(`SpansAssumption`): that the largest such number exists is what a fold over the hits computes.
Its bounds are numbers, of tokens and generations at least one (`BoundsAssumption`), because a
refusal is a token and the first index a generation. TLC evaluates every assumption in the runs.

Only model-checked: liveness (`Settles`, `GenerationSettles`, `CacheConverges`, `EveryoneHears`,
`PendingSettles`, `EveryTurnEnds`), which needs fairness and `ENABLED`; and `RetrievalIsSound`, which
is about folds over a search's hits and would be proved by induction over them. The violation is
shown by TLC on an instance.

## 5. Findings

Places where the code and what a comment, a docstring or `docs/` says of it part. The first is a
run; the others are behaviours of the models, reachable there, that no run is kept for.

*Answering.* `turn_outcome_lost`, above; `_finalise_checklist_turn` and
`_finalise_mock_data_turn` await the pending event in the same way. After a re-retrieval the
citations stored are the first search's, while the answer was written from the last one's
(`rag/graph/nodes.py`, `build_retrieve`, says "The stored message uses the final spans"); hence
the `attempts = 1` in `CitationsAreTheSpans`. Of two overlapping turns `recent[:-1]` drops the
other's newest message, or keeps its own question. A warning "is recorded on the message"
(`rag/grounding.py:5`), which has no column for it. `_join` drops "the lines they already share"
(`rag/retriever.py:68`), but the splitter counts characters (`ingestion/chunker.py:87`): where a
chunk ends inside a line, the next one's copy of that line is dropped whole, and the rest of the
line is shown nowhere (`LostAtSeam`). A cut span is longer than `max_chars` by the marker, which
`tests/test_retriever.py:117` allows.

*Indexing.* A worker whose lease passed to another goes on flushing under the generation number that
the other derived too, so it writes its own commit's chunks over those the other is already serving,
until its release is refused (`ingestion/vector_store.py:62`: "writing a new generation cannot
clobber the one still answering queries"; `ingestion/pipeline.py:287`). The project then names one
commit and answers from two; `ServedIndexComplete` has its exception for these slots. A retry that
clones a newer commit with fewer chunks leaves the failed attempt's points in the slots it does not
fill, and they are served (`ingestion/pipeline.py:210`: "they are overwritten rather than
duplicated"). `abandon` lowers `reindex_in_progress` while the retry is still coming, so an eval run
starts and the retry swaps the generation under it (`repositories/project.py:241`, against
`docs/PRD.md:626`). `set_status` is guarded on the primary key alone, so a worker that lost its
lease writes `indexing` over `ready`, which no branch of `find_stranded` matches: the project looks
busy for ever (`repositories/project.py:162`). A reindex that fails terminally moves a served
project to `failed`, which no reader accepts, although `docs/architecture.md` says it keeps
answering. The sweep publishes a fresh job id on every tick it finds a project stranded: a duplicate
is a whole run. A first index running when its project is deleted, and then failing retryably,
leaves its points.

*Checklists and mock data.* Two chat turns in a row store two pending change sets
(`services/checklist_module.py:403`, against `docs/PRD.md:875` "At most one `pending` change set
per module"). Of two decisions that read `pending`, the second overwrites the first
(`services/checklist_change_set.py:365`, against `docs/PRD.md:789`). With `KAFKA_MAX_ATTEMPTS=1`
an unclassified failure is deferred although no rung is left. A decision taken on a mock dataset
while it is generating takes `generating` away; of two overlapping decisions on a record the later
one's merge undoes the earlier one's keys; a swept generation runs with the default count.

*Eval.* A worker stalled past its lease before its heartbeat starts overwrites the stamp of the
worker that took over (`eval/runner.py:142`); `StallAtStart = TRUE` violates `OneProvenance`. A
batch committed between two statements of a project's deletion stays live under a deleted run
(`services/project.py:419`); nothing reads it.

*Accounts and access.* Two administrators who demote each other at once leave none
(`services/user.py:85`), two owners who remove each other leave a project without one, and a role
deleted while it is being granted leaves a membership that gives nothing: these guards read
without a lock, hence `CommitsOnFreshChecks`. A SET that lands after the eviction of what it read
keeps a revoked grant until the entry expires (`core/grant_cache.py:67`). Two reset requests at
once leave two usable links.

*Mail and live events.* A relay answer that times out is retried, so a mail may arrive twice, or be
recorded as `failed` although it arrived. An event about a project gained within the reuse window
is dropped silently; an event lost on its way to the broker is noticed only by polling.

## 6. Plan

Done: the twelve runs above, the refinement of `LeasedWork` by four modules, and the proof of every
safety property the runs check but `RetrievalIsSound`. Left, in order:

1. `Checklist`: item edits split at their read (a result equal to the one loaded is not written).
2. The poll loop with several partitions: pause, rebalance, stop, offsets of a rung.

## 7. Not modelled

Exports, prompts, mail wording and the path tree (formatting of data); the audit trail
(append-only, not read by what is modelled); observability (write-only); schema validation,
listings, paging and wiring; where text is cut, how it is embedded, judged and scored (data; a
piece that `LanguageAwareChunker` does not find again in the source, `ingestion/chunker.py:105`,
has no place there); and the web client's rendering.
