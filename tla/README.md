# Verification of newsbot

TLA+ modules for newsbot, a Python service that collects posts of news
channels, asks a person about each candidate in Telegram, has a language model
write the copy, asks again, and appends the approved copy to a Google sheet.
Every process is short-lived: timers start them, they share one SQLite
database, and they may be killed anywhere.  What can go wrong is therefore in
the order of their transactions and of the requests they leave on the network,
and that is what the modules are about.

| file | contents |
| --- | --- |
| `AppendOnce` | what every one-shot delivery promises, without processes |
| `SheetHandoff` | Sheets handoff authority, its commands, the sheet |
| `SheetHandoffProofs` | TLAPS: its safety; that it implements `AppendOnce` |
| `TelegramOutbox` | Telegram notification outbox and the tick that drives it |
| `TelegramOutboxProofs` | TLAPS: its safety; that it implements `AppendOnce` |
| `V2Delivery` | V2 workflow from a candidate to its row in the sheet |
| `V2DeliveryProofs` | TLAPS: its safety; that it implements `AppendOnce` |
| `V2Intake`, `V2IntakeProofs` | V2 collection: pages of new messages, the scan for edits; TLAPS |
| `V2Enrichment`, `V2EnrichmentProofs` | V2 due-work queue, convergence of stories, compaction; TLAPS |
| `V2Migration`, `V2MigrationProofs` | baseline migration, held backlog and its release; TLAPS |
| `CandidateApproval`, `CandidateApprovalProofs` | V1 digests, decisions, drafts and handoffs; TLAPS |
| `GenerationJobs` | V1 generation queue, provider pause, operators |
| `ChannelCollection` | V1 collection: interval, overlap, cursor |
| `FirstWorkflowProofs` | TLAPS: safety of `GenerationJobs` and `ChannelCollection` |
| `MC*`, `*.cfg` | small instances for TLC |
| `PROJECT.json` | components, runs, mutants, the source lines of each definition, findings, hazards, theorems |

Paths below are relative to `src/newsbot/` unless they begin with `docs/`,
`deploy/` or `tests/`.

## 1. Inventory

Two generations of the program live in one package.  The systemd units of
`deploy/systemd/` run the V2 commands; the V1 commands they once ran
(`telegram tick`, `sheets deliver`) are kept as the optional compatibility layer
that `docs/requirements.md` describes.

| component | state it keeps | operations | what makes it correct |
| --- | --- | --- | --- |
| Sheets handoff authority (`handoffs.py`, migrations 003, 004) | `sheet_handoffs`, `sheet_bootstraps`, `sheet_remote_operations`, fenced leases and events | enqueue, acquire, record preflight, mark possibly sent, settle, probe, release, recover, retry blocked | a row is appended once; log and sheet agree; only the holder of the current fence writes |
| Google Sheets adapter (`sheets/`) | none; the document | prepare (read and validate), dispatch once, read back, probe | an answer is only trusted when it proves an outcome |
| Sheets commands (`cli.py`) | a flock, process memory | bootstrap, deliver, reconcile, retry-blocked | each calls the authority in the order it relies on |
| Telegram automation authority (`automation.py`, migrations 006, 007) | outbox, chunks, attempts, two stream leases, callback links, cursor | enqueue, claim, prepare, mark, settle, recover, resolve | nobody gets a message twice, in pieces or out of order |
| Telegram tick and Bot API adapter (`cli.py`, `approval/telegram.py`) | a flock, process memory | seal the noon window, poll, handle clicks, dispatch one chunk | one decision for each subject, by somebody who saw the whole message |
| Candidate approval (`candidates.py`, `approval/`) | candidates, digests, tokens, decisions | create digest, apply decision, defer, resume, revoke | a decision binds to the version that was shown |
| V2 delivery workflow (`v2_workflow.py`, `v2_live.py`, `v2_cli.py`, `v2_codex.py`) | candidates, drafts, stories, claims, remote effects, callbacks, Codex requests | notify, settle click, generate, deliver, review, hold, release | two approvals, one generation and one row for each candidate |
| V2 collection and enrichment (`v2_workflow.py`, `v2_cli.py`) | pages, gaps, message revisions, enrichment attempts, stories | record page, record revision, claim, dispatch, settle, finalise, converge, compact | no revision lost or applied backwards; one claim for each story |
| Pipeline and generation jobs (`pipeline.py`, `ai/`) | `generation_jobs`, provider pause, drafts | select, run exactly, settle failure, regenerate | no launch after one of unknown outcome; the pause holds for all |
| Collection (`storage.py`, `collectors/`) | cursor, frontier, observations, source versions | collect, reconcile, persist | the frontier never passes what is not persisted |
| Storage and migrations | schema | migrate; in V2, decide what a baseline may still send | the transactions all others rely on; no story goes out twice because a database was migrated |
| Manual local workflow (`manual.py`, `manual_storage.py`, `exports.py`) | receipts, exports | import, select, review, materialise | an export matches its receipt |
| Ranking, policy, deduplication, article fetching | none | pure functions, HTTP | outside the scope of the models |
| Configuration, secrets, observability | none | parsing, redaction, read-only reports | outside the scope of the models |
| Deployment (`deploy/`) | releases, containment receipts | build, attest, switch | outside the scope of the models |

**Interaction.**  Components call one another inside one process and share
the database across processes.  Collection creates candidates and changes the
story or version under a candidate that is already on its way.  The tick carries
both directions of the conversation with the person, and its clicks start
generation and delivery.  An approved draft becomes a handoff (V1) or a
`sheets_delivery` effect (V2), and a sender takes it to the sheet.

**Hard behaviours.**
- A request leaves and its process dies: the request may still be applied,
  minutes later, while the next process decides what to do.
- A lease lapses while its holder is alive and goes on.
- One reader of a row decides on it after another process has changed it; V2
  senders have no lock at all.
- A transaction fails and leaves the half before it behind (an attempt without
  its settlement, a lease nobody released).
- Answers that prove nothing: timeouts, malformed answers, read-backs of a
  template that somebody edited.
- Collection, operators and clicks come at any moment.
- A page and the frontier that counts it are two transactions (V1), or the
  channel changes while it is being read (V2).
- A provider or a website is asked outside any transaction, while the row that
  asked is edited, superseded, leased to another or paused.
- Retention erases rows while the queue that may need them goes on.

The hazards of `PROJECT.json` list each of these at its line, with the
property that would notice, or with the configuration that shows it happen.

## 2. Plan

Order of importance: effects outside the database cannot be taken back, so
they come first.

1. Done: `SheetHandoff` with `AppendOnce`, proved, and its refinement, proved.
2. Done: `TelegramOutbox`, proved, and its refinement of `AppendOnce`, proved.
3. Done: `V2Delivery`, proved, and its refinement of `AppendOnce`, proved;
   progress checked.
4. Done: `V2Intake`, proved; `V2Enrichment` with convergence and compaction,
   proved; `V2Migration`, proved.
5. Done: `CandidateApproval`, proved.
6. Done: `GenerationJobs` and `ChannelCollection`, proved; progress checked.
7. Left: `V2Enrichment` and `V2Delivery` composed through the story's state,
   which each abstracts of the other; cutover and activation proposals of the
   Telegram authority; the manual workflow.

None of the modules uses a RECURSIVE operator, so that each can be proved
about.

## 3. The modules

### AppendOnce

Items (handoffs, chunks, drafts) are requested of a remote service.
`Request` is allowed only while no request of the item is undecided and none has
landed; `Deliver` only when one landed; `Block` parks an item and `Reopen` frees
it when nothing can land any more.  It has no processes, leases or database.

### SheetHandoff

One process holds the `sheets` flock (`Mutator`: `sheets bootstrap` and `sheets
deliver`); `sheets reconcile` processes (`Reconcilers`) take no lock and compete
with it and with each other.

| variables | code |
| --- | --- |
| `status`, `due`, `code` | `sheet_handoffs`, `sheet_bootstraps`: status, `retry_at` passed, `safe_error_code`; "working" is delivering or configuring, "delivered" is delivered or ready |
| `subject`, `state`, `certainty`, `dispatched` | `sheet_remote_operations` |
| `fence`, `lease`, `preflight`, `probe` | `last_fence_version` and the lease and events of the current fence |
| `pc`, `held`, `token`, `seen` | local variables of the process between two calls |
| `wire` | the mutation request of each operation on the network |
| `rows`, `drifted`, `tampered` | the document: mutations applied, template edited by a person, marker edited by a person |

Each service call is one `BEGIN IMMEDIATE` transaction and one action
(`Acquire`, `RecordPreflight`, `MarkPossiblySent`, `SettleRefusal`,
`AcquireProbe`, `RecordProbe`, `Settle`, `Release`, `Recover`, `RetryBlocked`,
`Enqueue`).  Reading the document (`Prepare`, `ReadProbe`, `ReadBack`), sending
(`Send`) and hearing the answer (`HearAnswer`) are actions of their own.  The
world may apply or refuse a request (`Land`, `Refuse`) at any time after it left,
edit the template or a marker, let a lease lapse, or kill a process.

### TelegramOutbox

One tick runs at a time, under the `telegram` flock: seal the noon window,
poll and handle clicks, then send at most one chunk of the oldest unfinished
notification.

| variables | code |
| --- | --- |
| `outbox`, `noon`, `chunks`, `subject` | the notification's row and chunk rows, and what it is about: "drifted" when it can no longer be composed as persisted, "gone" when it was decided or superseded |
| `attempt`, `of`, `part`, `bound` | `telegram_chunk_attempts`; `bound` says owner and fence are those of the lease's row |
| `token` | the buttons linked to the attempt |
| `dispatch`, `poll` | the two rows of `automation_stream_leases`: none, active, lapsed |
| `pc`, `cur`, `try`, `fetched` | the tick's memory |
| `wire` | the request of each attempt |
| `updates`, `offset`, `decided` | clicks, the cursor, decisions recorded |

Fences are abstracted to `bound`, since the only comparison made is with the
lease's own row.  The buttons of a message are settled together and are one
token.  Clicks on dead buttons, and the refresh of a message's buttons, change
nothing the properties see.  A transaction that fails where its guard is false in
the code (`TransactionFails`) ends the tick through `ReleaseFailed`.

### V2Delivery

Nothing but SQLite transactions separates the processes.  The tick and the
Codex worker are each started by one timer and are single; a draft may be sent
by the sheets service and by a person's `v2-deliver-google-sheets` at the same
time.

| variables | code |
| --- | --- |
| `cand`, `draft`, `born` | `v2_candidates.state`, `v2_drafts.state`, order of creation |
| `story`, `storyDone` | the binding's `held`, the story's `quarantined_at` and `delivered_at` |
| `reviewed` | `v2_manual_reviews` |
| `note`, `button` | per gate: the notification's effect, the callback |
| `effect` | the `sheets_delivery` effect: status, phase of its claim, attempts, whether a failure was proven to precede dispatch, lapsed lease |
| `request`, `attempts` | `v2_codex_requests`, `v2_codex_attempts` |
| `tick`, `worker`, `sender` | positions and memory of the processes |
| `chat`, `presses`, `offset` | messages delivered, clicks, cursor |
| `ran`, `sent`, `inflight`, `rows` | launches, requests, undecided requests, rows |

The claim of a sender is the JSON detail it wrote, which is unique by the
attempt's number and phase; `Owns` is the compare-and-set on it.  The claim's own
`delivered_at` is written in the same transaction as the candidate's last state
and needs no variable.  Two error classes that the code handles but nothing in
the tree raises (a proven network failure of the provider or the sheet before
dispatch) are kept, because the retry they allow is where a duplicate would come
from.  `Converge` is what the arrival of an item does to stories that exist: a
set of them, perhaps with a claimed story from outside, is quarantined, or marked
delivered on evidence.  Exact metadata before the first dispatch needs a row
that only a request can produce and is reachable only after one.

### V2Intake

One run of `newsbot-collect` reads one channel: a page of new messages above the
frontier, recorded with its gaps in one transaction, then a page of the
newest-to-oldest scan for edits, which rests on a durable cursor between runs.
The channel posts, edits and deletes while the run reads, and the run may be
killed between any two steps (`Leave`).

| variables | code |
| --- | --- |
| `clock`, `posted`, `published`, `edited`, `deleted` | the Telegram channel |
| `head`, `gaps` | `v2_revision_heads.ordered_at`; the ids `v2_channel_gaps` spans |
| `highWater`, `watermark`, `before`, `started`, `scanMax` | `v2_channel_cursors` |
| `run` | the run's memory: the page it read, the bound of the scan, the cursor to come |
| `quiet`, `bound`, `swept` | history: the last edit made while no scan ran, the lower bound of a first page, when the last completed scan had started |

A revision is its `ordered_at`; that a stale or repeated one does not replace the
head is `Record`.  Two edits of one message fall in different seconds.

### V2Enrichment

Workers drain the due-work queue: claim an attempt with a 30 second lease, mark
it dispatched, fetch, read the lease once more, and settle in one transaction
which also converges the story.  Leases lapse while their workers go on; the
lease and the head are read before the transaction begins (`CheckLease`), and
`Finalize` acts on what was read.

| variables | code |
| --- | --- |
| `head` | `v2_revision_heads`, as a generation |
| `attempt` | `v2_enrichment_attempts`: "leased", "flown" (dispatched), "retry", "released" and "interrupted" (retryable), "done" (with a snapshot) |
| `disposition` | `v2_observation_dispositions` |
| `candidate` | `v2_candidates` with binding and claim; "unsafe" has an effect under way or a review |
| `story`, `keyStory` | `v2_stories`, `v2_story_keys` |
| `worker` | a worker's memory |
| `old`, `erased`, `compacted` | revisions past their retention; tombstones; candidates whose bytes are digests |
| `fetched` | history: fetches of a revision |

What a fetch finds and what the policy makes of it are the members of
`Judgements`; `Deliver` is V2Delivery seen from here.  `Compact` selects by the
three queries of the code, asserts before and after, and is undone when its
count is wrong.

### V2Migration

One transaction takes a baseline database to stories, claims and holds: from
what its rows prove about the sheet (`DeliveredTruth`, `UnclearTruth`,
`EffectTruth`) it chooses at most one winner of each url, settles the rows of the
losers, and is rolled back when the invariants it asserts do not hold
(`Refuse`).  After it a person releases part of the held backlog, new posts
arrive and match stories, and candidates go on to their effects (`Notify`,
`Approve`, `Write`, `Confirm`, `Deliver`), which are V2Delivery in five steps.
`fact` is all rows of a candidate that evidence is read from; `Baseline` is what
the baseline program can have left.

### CandidateApproval

| variables | code |
| --- | --- |
| `status`, `digest`, `selection` | `candidates`, `digests` by the candidates of their key, `selections` |
| `newer` | candidates whose post's latest version is not the one they are bound to |
| `job`, `draft` | `generation_jobs` of a candidate in order, their `generations` |
| `buttons` | live `callback_tokens` of messages that were sent |
| `notifier`, `collected`, `worker` | what the notifier, a collection run and the generation workers have read and not yet written |
| `handoff` | history: the draft an approval handed over |

A collection run records what it saw (`PersistSources`) and compares it with
the candidates in a second transaction (`Invalidate`), or dies between.  A worker
writes its draft outside any transaction and commits if it still holds the
job.

### GenerationJobs

`SelectJob` binds the first admissible job, `LeaseJob` selects again and opens an
attempt, the provider runs, and the attempt is settled by class of failure:
`FailByJob` (a retry or, at its limit, a hold), `FailByProvider` (the whole
provider is paused, the job blocked by that pause's version), or `FailUnsettled`
(the settlement loses a race and is rolled back).  Operators pause, resume, hold
and release.  Lease tokens are known by the attempt they opened; a supersession
is CandidateApproval seen from here.

| variables | code |
| --- | --- |
| `status`, `retry`, `attempt`, `bound`, `drafts` | `generation_jobs`, its `retry_at`, `generation_provider_attempts`, bindings, `generations` |
| `tracked`, `failures`, `held`, `blocked` | `generation_job_retry_state` |
| `control` | `generation_provider_controls` |
| `worker` | a worker's memory |
| `freed` | history: jobs released while the provider was paused |

### ChannelCollection

A run opens a fixed interval above the cursor or resumes the open one, reads
one page, persists it, advances the frontier in a second transaction, then reads
the overlap below the cursor in pages up to a cap, and moves the cursor when the
last one was read.  `Stop` kills a run anywhere; `Reconcile` is the operator's
deep look.  `interval` and `cursor` are the tables `collection_intervals` and
`collection_cursors`, `recorded` the latest version persisted of a message,
`ranked` what the last ranking saw, `run` the run's memory.

## 4. Runs

| run | instance | shows |
| --- | --- | --- |
| `handoff_safety` | one handoff, bootstrap, 3 operations, mutator and a reconciler, 2 fences | delivered means in the sheet; what was given up cannot land; whoever writes to an operation holds its current fence; `SheetHandoff` implements `AppendOnce`, so that a row is appended once |
| `handoff_liveness` | one handoff, two operations, fair | a handoff claimed by a process that died does not stay claimed |
| `outbox_safety` | one notification of up to 2 chunks, 5 attempts, 2 clicks, 3 faults | a chunk follows its predecessor; what is sent is whole; decided once; `TelegramOutbox` implements `AppendOnce`, so that nothing is sent twice |
| `outbox_queue` | two notifications of one chunk, 3 attempts, one fault, fair | the younger is not begun before the older is finished; a request of unknown effect is settled or handed to the operator; the queue drains, unless the subject of a notification at its head moved on |
| `v2_delivery` | one candidate, two senders, 2 clicks, one fault, fair | one launch, whole delivery, no lost click, only convergence keeps a confirmed receipt from being finished, review is final; `V2Delivery` implements `AppendOnce`; a candidate is delivered or reviewed, unless its story leaves or a stuck receipt (below) is in front; the cursor passes every click |
| `v2_intake` | 3 messages, 4 seconds, one edited, one deleted, pages of 1 or 2 | the frontier passes no message that can still be read; a completed scan has read every edit that preceded it |
| `v2_enrichment` | 2 posts, 2 revisions, 2 keys, 2 workers, one fault, fair | one candidate for each story; two fetches of a revision; fixed evidence; compaction spares what is needed; the queue is drained |
| `candidate_approval` | 2 candidates, 2 workers, 2 jobs each, 2 edits, 2 faults | the handed off draft stays current; one open job while one is due; the review of a chosen candidate stays open |
| `generation_jobs` | 2 jobs, 2 workers, hold limits 2 and 3, 3 faults, 2 interventions, fair | every launch has an attempt and one end; a blocked job can be released; only a release during a pause strands a job; jobs settle |
| `collection` | 3 messages, one change, 2 faults, pages of one, overlap of 2, one overlap page a run, fair | nothing below the frontier is unread; the overlap rereads edits; every post is ranked, unless the newest message of a silent channel was deleted |
| `v2_migration` | every baseline of 3 candidates with 2 keys, 2 later posts | refusals have one reason; the backlog is held; no effect begins for a candidate whose url has evidence elsewhere |
| `finding_v2_bootstrap` | one candidate, one sender, one fault | a sender selects a receipt it cannot settle (below) |

The exceptions in the properties are behaviours of the code, not conveniences.
A notification whose subject moved on raises in `Compose` on every tick and
stays at the head of the queue (`automation.py` claims the oldest); `QueueDrains`
says exactly that this is the only way to stop it.  The second exception of
`EveryCandidateEnds` is the finding below.  A job that an operator releases while
the provider is paused keeps `retry_at` NULL and is never due again
(`OnlyReleaseStrands` says that nothing else does this).  A channel whose newest
message is below the cursor is refused until something is posted (`Refused` in
`EveryPostIsRanked`).  A scan covers the edits that precede it, not those made
while it runs (`quiet` in `SweepSeesQuietEdits`).

**Finding.**  `finding_v2_bootstrap` is a run that TLC must refute:
`v2_workflow.py:1523` promises work that can settle; a crash between claiming and
settling a bootstrap failure leaves a receipt that cannot be parsed, is selected
first and fails the service each time.

**Configurations to run by hand.**  These are not among the runs: the first two
because `v2_delivery` and the theorems of `V2DeliveryProofs` cover their
properties, the others because each shows a behaviour whose sentence in the
documentation leaves room for argument.  TLC refutes each of the latter.
- `v2_safety.cfg`: all of V2Delivery's safety with three faults.
  `v2_queue.cfg`: two candidates, service only, fair; one candidate's end does
  not depend on the other's.
- `finding_not_applied.cfg`: `docs/requirements.md:24` lets only a trusted
  refusal settle an operation as not applied; `handoffs.py:751` also does so for
  the schema conflict of a bootstrap, whose request may still land.
- `finding_applied.cfg`: `docs/adr/0002-google-sheets-workplace-delivery.md:10`
  takes only exact metadata as evidence of application; `handoffs.py:750` also
  takes a conflict, which is what a drifted template looks like.
- `finding_v2_converged.cfg`: a test's name promises that a confirmed receipt
  finishes after a restart; convergence in between marks the story delivered,
  after which the delivery markers can never be written.  `OnlyConvergenceStrands`
  says that nothing else does this.
- `finding_v2_unclear.cfg`: `docs/operations.md:50` sends every unclear effect to
  review; a tick that reviews one entity polls with the others unreviewed, and a
  click approves them.
- `finding_v2_edit_lost.cfg`: `docs/operations.md:74` promotes the watermark only
  after the whole scan; an edit made during the scan on a page already read, before
  one on a page still to read, lies below it.
- `finding_v2_post_lost.cfg`: `docs/operations.md:52` sends every untyped failure
  to review; a revision whose two attempts lapsed has no disposition and no
  place in the queue.
- `finding_stuck_candidate.cfg`: an edit supersedes the digest a candidate shares
  with others; what is left of it is offered again under the key of an older
  digest, whose buttons do nothing.  `ChosenCanBeReviewed` says that this happens
  before the choice only: a candidate that was chosen is never closed so.
- `finding_collection_refused.cfg`: `docs/requirements.md:9` lets collection
  continue from its frontier; it does not while the newest message is a deleted
  one.

**Bounds, and why they are enough.**
- `SheetHandoff`: three operations are a first one, a retry and the bootstrap.
  Fences only compare for equality with the current one; 2 fences let a probe
  take over from the mutator.  The database admits one unfinished operation
  at a time, whatever it is for; more handoffs, more probes and longer takeovers are left to the theorems.
- `TelegramOutbox`: `Attempts` must exceed what faults can use up
  (N * MaxChunks + MaxFaults), so that the model never stops for want of an id;
  every cfg satisfies this and deadlock is checked.  Two chunks are the smallest
  case with an order; two notifications the smallest queue.  `MaxFaults` bounds
  crashes, early lapses, failed transactions, refusals that make a worker start
  again, failed polls and give-ups.
- `V2Delivery`: a delivery needs two clicks, one for each gate; a third could
  only repeat.  One fault crashes one process at any step (three, by
  hand, two senders and the tick or the worker).  `MaxFaults` bounds crashes, failed polls and
  holds; lapses, refusals, convergence, unclear answers and expiry are not bounded.
- `V2Intake`: three messages make a page, the message that bounds it and one
  that is posted meanwhile; pages of one and two are full and not full.  The
  clock has room for a post, an edit, a scan that rests and one that completes;
  a day of two seconds lets messages grow older than it.
- `V2Enrichment`: two workers are a lease's holder and the one that takes over;
  two posts with two keys have common, different and overlapping keys; two
  revisions of a post are a superseded one and its head; one fault outlasts a
  lease (`finding_v2_post_lost.cfg` has two).
- `V2Migration`: of three candidates two share a url and one does not, or all
  do: a winner, a loser and a bystander.  Two later posts match one story, two,
  or none.  Nothing else is bounded.
- `CandidateApproval`: two candidates share a digest or have one each; two jobs
  are a draft and its regeneration; two edits are one before and one after it.
- `GenerationJobs`: two workers on two jobs race for the pause; three faults
  reach the larger hold limit; two interventions are a pause and a hold.
- `ChannelCollection`: pages of one and one overlap page a run use every cap;
  an overlap of two of three messages needs two runs.
- The theorems fix no bound: they hold for any number of handoffs, operations,
  processes, fences, chunks, attempts, clicks, messages, revisions, candidates and
  faults.

**Deadlock** is not checked (`CHECK_DEADLOCK FALSE`) where the environment is
bounded and everything may come to rest: a channel with its last message read, a
queue that is drained, a migrated database with nothing released.

**Symmetry** is used in `handoff_safety`, where the ids of operations are
compared by identity alone, and in `v2_migration`, where candidates, posts and
keys are; neither checks progress.  The ids of attempts, notifications and
messages are ordered by the code and are not symmetric.

**Fairness.**  A timer starts a process again and again and a
started process runs to its end: weak fairness of `MutatorStep`, `TickStep`,
`WorkerStep`, `ServiceStart` and `SenderRuns`.  Recovery is the first thing a
later process does (`Recover`).  Time passes: weak fairness of lapsing
leases and of expiring buttons.  `deploy/systemd/` has `OnUnitInactiveSec` timers
for the V2 tick, service and worker with `TimeoutStartSec` to end a process that
hangs; for the V1 commands `docs/requirements.md:7` describes the same pairs of
service and timer, and the progress of V1 assumes a deployment that has them.
In `V2Enrichment` a worker goes on (`WorkerStep`) and leases lapse (`Expire`); in
`GenerationJobs` workers go on (`Step`: a provider's run is bounded by its
supervisor), leases lapse and retries come due, and an operator resumes a paused
provider in the end (`Resume`), which nothing but a person can; in
`ChannelCollection` the timer starts a run whenever none is active and a run goes
on (`Work`).
Crashes never end fairly and are bounded by `MaxFaults` (`MaxStops` in
`ChannelCollection`; in `SheetHandoff` they need no bound).  Nobody else owes anything: people, other acts of operators, Telegram, the
sheet and collection may stay silent for ever.

## 5. Proofs

All theorems hold for every value of the constants that satisfies the ASSUMEs
of the modules: names are distinct and bounds are natural numbers
(`NamesDistinct`, `MaxFenceIsNat`); sizes are positive and attempts are numbers
other than "no attempt" (`SizesArePositive`, `BoundsAreNat`, `AttemptsAreIds`);
the baseline's candidates are finitely many (`LegacyIsFinite`); the other
modules name theirs likewise.

**`SheetHandoffProofs`** proves `DeliveredIsInSheet`, `NotAppliedIsFinal`,
`AtMostOneRow`, `SubjectTracksOperation`, `DispatchNeedsReadySheet`, `NeverResend`
and `FencedWrites`.  None of them is inductive: that no second row
is written rests on why the preflight of an older operation may still be
trusted, which is about processes, leases and requests at once.  The inductive
invariant has one part for each of these relations:

- `ProcessesHoldOps`: a process that is not idle holds an operation, under a
  fence that is not newer than the operation's.
- `Position`: at each place of a process, what the operation it holds looks like
  if the process still owns it, and what it has read from the document.
- `StatusAndRequest`: each state of an operation fixes its certainty, marker and
  the possible states of its request.
- `OpenOperation`: one operation is unfinished, and the subjects' status
  follows it.
- `LiveRequests`: a request that may land belongs to an operation that is open
  or can no longer lead to another one.
- `RowsFromRequests`: rows come from applied requests and nothing else.
- `ExactIsProof`: an exact reading that is recorded means the row is there.
- `ReadySheet`: a handoff's request implies an installed and ready sheet.

Each action's step is proved part by part, with a step for each part it
can disturb; shared facts are lemmas.

Its theorem `Refinement` is `Spec => Abstract!Spec`.  Each action maps to
one of `AppendOnce` or to a stutter: `Send` to `Request`, `Land` and `Refuse` to
themselves, `Settle` to `Deliver` or `Block`, `RetryBlocked` to `Reopen`.  That
`Send` finds no undecided request and no row, and that `Deliver` finds a row, is
what the inductive invariant is needed for.

**`TelegramOutboxProofs`** proves the invariants of `TelegramOutbox`, `OldestFirst`
and `DecidedOnce` among them.  The invariant is `TypeOK /\ Data /\ PreparedPlace /\ Position`.
`Data` speaks of the tables alone (order of attempts, evidence behind each state,
chunk rows, one live attempt for each chunk, stages of the outbox, whole
notifications, tokens, dead buttons, oldest first, clicks, decisions);
`PreparedPlace` says which prepared attempts a tick may leave behind and that the
lease's row still names them; `Position` says what the tick knows at each place,
even when its lease lapsed under it.

Its `Refinement` has the chunks as items.  `Send` maps to `Request`, `Deliver` (at
Telegram) to `Land`, `Refuse` to itself, `SettleAccepted` to `Deliver`, and
`SettleAmbiguous` and `RecoverPossiblySent` to `Block`.  That at most one
attempt of a chunk is live is why a request finds none undecided and none landed;
that an attempt without a marker has sent nothing is why preparing and
abandoning one cannot be seen (`PrepareUnseen`, `AbandonUnseen`).

**`V2DeliveryProofs`** proves the safety invariants of `V2Delivery` and
`ReviewIsFinal`.
Its base is types, the batch a tick has polled, `CodexInv` (the
provider ran only for a request whose launch was recorded) and `SheetInv`: what each phase of the claim on
a receipt says about requests and rows, and that of all senders at most one is
committed to a dispatch (`OneDispatches`), although no lock keeps them apart.
Each step moves the tables in one of a few ways (`Move`, `EffectMove`, `Moves`),
and `DeliveryInv`, `ClickInv` and `ApprovalInv` follow from these moves rather than
from the actions.  `HeldInv` (a held story has no draft yet) is what
`OnlyConvergenceStrands` needs: a hold can come between a candidate and its draft,
never between a confirmed receipt and its delivery.

Its `Refinement` has the drafts as items.  `SenderDispatch` maps to `Request`,
the sheet's decision to `Land` or `Refuse`, `SenderConfirm` to `Deliver`,
`SenderUnclear` and `SenderExpire` to `Block`; what merely moves a claim is a stutter
(`WriteRefines`).  The step that carries it is `DispatchRefines`: a sender that
reaches its dispatch holds the only claim in that phase, and so nothing was sent
before.

**`V2IntakeProofs`** proves `FrontierIsAccounted`, `NothingIsSkipped` and
`SweepSeesQuietEdits`.  The page in memory is whole (`PageIsWhole`: it left out
nothing between frontier and bound), the watermark is behind every edit that
counts (`WatermarkIsBehind`), and a message whose quiet edit is unread will be
reached by the scan or the page in memory (`ScanReaches`, `PageReaches`).
Least and greatest elements of finite sets of ids, and counting the messages on
one side of another, are lemmas.

**`V2EnrichmentProofs`** proves the four safety properties of `v2_enrichment`.
`KeysOwned` (a candidate's keys lead to its own story) gives
`OneCandidatePerStory`; `Counted` (each fetch used up an attempt) bounds the
fetches.  `RetentionSparesWork` needs two parts that hold of a post with a
revision past its retention: `StaleWork`, that a worker on it neither fetches nor
binds and is alone with its attempt's number, and `Gone`, that what was erased is
settled, superseded or bound.

**`V2MigrationProofs`** proves the three properties of `v2_migration`.  That no
effect begins beside another one's evidence rests on stories owning their keys
(`StoryOwnsKeys`, `OneKey`), one claim for each story (`OneClaim`), evidence lying
with claimed or quarantined candidates (`EvidenceIsClaimed`), and the backlog
being held until it was released (`HeldUntilReleased`).

**`CandidateApprovalProofs`** proves the three safety properties of
`candidate_approval` and `DigestChoosesOnce`.
The invariant is types and, for each candidate, `OneJob` (the open job is there
just when the status waits for it), `OneDraft` (one is current, and none while a
new one is due) and `HandoffStands`; a worker that outlived its lease commits only
to a job it still holds, which is open, and so cannot disturb either.
`ChosenCanBeReviewed` has an invariant of its own, `ReviewInv`: a review's message
asks about the digest its candidate was chosen from.  An approval ends a digest, and
since a digest chooses once (`DigestChoosesOnce`), it ends nobody else's.

**`FirstWorkflowProofs`** proves the safety of `GenerationJobs` and
`ChannelCollection`.

- `QueueInv` joins the three properties of `generation_jobs` with `WorkersHoldJobs`
  and `LeasedIsClear` (a leased job waits for nothing).  They hold one another up:
  that a released or resumed job is due again needs its block to be that
  of the pause, and that one attempt is open needs each takeover to close the
  attempt before it (`NewAttempt`, `LastAttempt`).
- `CollectionInv` joins `NothingIsSkipped` with `MessagesGrow` and
  `FrontiersAreOrdered`, which relate channel, cursor and interval, and
  `PagesCover`: the page in memory holds all there is between the frontier and
  its last row, also while messages are posted, edited and deleted under it.
  `OverlapIsSeen` is `OverlapSeesEdits` as it grows, page by page, until the cursor
  moves.

Some invariants are theorems only, and no run repeats them: the type
invariants, `DigestChoosesOnce`, `ReceiptMeansRow`, `OneRequestPerDraft`,
`TwoApprovals`, `StatesAgree`,
`FrontierIsAccounted`, and of the first modules `AtMostOneRow`,
`SubjectTracksOperation`, `DispatchNeedsReadySheet`, `NeverResend`, `EachChunkOnce`,
`RetryIsSafe`, `PreparedIsOwned`, `DeadButtons` and `DecisionSawWholeMessage`.

Model-checked only: the progress properties (`StrandedWorkIsFreed`,
`UnknownIsSettled`, `QueueDrains`, `EveryCandidateEnds`, `EveryClickPasses`,
`EnrichmentEnds`, `JobsSettle`, `EveryPostIsRanked`), since liveness under fairness
is outside the prover's reach.  Every invariant, action property and
refinement that a passing run checks is a theorem.

## 6. What is not modelled

- The outcomes `local_corrupt` and `operator_unresolved` of `finish()`, which
  no command asks for, and a second target binding.
- Cell layout, validation rules, message formatting and splitting, HTTP,
  credentials: data the properties do not tell apart.
- Of the Telegram authority: cutover proposals, release activation, audience
  bindings and the items collected for the noon window.
- Of V2: the contents of articles and judgements (every outcome is possible
  instead), several channels in one run, the migrations of schemas 3 to 6 beyond
  the hold, the assertion on two known candidates of one database, the digest of
  the release manifest, and what compaction does to the details of confirmed
  effects.  `Converge` of `V2Delivery` is what collection does to a story on its
  way to the sheet, and `Deliver` of `V2Enrichment` the reverse.
- Of V1: the buttons defer, resume and page, which no message shows; the expiry of
  tokens; prompts, output schemas and copy validation; retries inside one request
  of a collector; media and links.
- The manual workflow: one person and one process, its sequence of files.
- Two ticks or two Codex workers at once: the first is excluded by the flock
  (V1) and by the unit being the only poller (V2), the second by the attested
  unit that admits one.
- Pure functions, the migration runner, configuration, observability,
  deployment: no order of events is at stake in them.
