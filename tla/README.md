# A verification of woland-guard in TLA+

woland-guard collects security events on servers (the *agent*), stores them and
detects incidents (the *control plane*), lets operators work on the incidents in a
dashboard and a Telegram bot, and sends notifications. This directory holds TLA+
models of the parts where the order of steps matters, the TLC configurations that
check them on small instances, and proofs for every value of the constants.

Paths below are relative to `apps/agent/src/woland_guard_agent` (AG),
`apps/control-plane/src/woland_guard_control_plane` (CP) and `scripts/demo_e2e` (E2E). `PROJECT.json` maps every
definition to the lines it models.

## 1. The system

| Component | State | Operations | Talks to |
|---|---|---|---|
| Log sources (AG/sources) | the position of the reader; the committed position is in the spool | backlog, follow | collectors |
| Collectors, spool, delivery (AG/service, spool, delivery, transport) | SQLite: events, cursors, diagnostics; size of the next batch | collect, record gap, send, acknowledge, split, set aside, defer; operator's retry and delete | ingestion API (HTTP, at least once) |
| Ingestion (CP/api/routes/events, event_repository) | PostgreSQL `events`, unique by server and event id | store a batch and detect, in one transaction | detection |
| Detection (CP/application/detection) | `incidents`, `incident_events`; advisory lock per rule and bucket | evaluate a window, open or extend an incident | outbox, workflow |
| Workflow and comments (CP/application/incident_workflow, incident_comments) | version, status and history of an incident; idempotency records | transition, comment | dashboard, bot |
| Outbox (CP/application/outbox, outbox_worker) | `outbox_messages`: status, attempts, lease, token | enqueue, claim, deliver, complete, recover, requeue | Telegram adapter |
| Destinations (CP/application/notification_destinations) | enabled, minimum severity | enable, disable, set | claims read them |
| Telegram bot (CP/telegram_bot) | the offset; one pending prompt per account; batch in memory | poll, handle, confirm | workflow, block plans |
| Block plans (CP/application/ip_blocks) | plans and allowlist | propose, approve, reject, expire; add and revoke | bot, command line |
| Keys and sessions (CP/application/web_sessions, operators, operator_authentication) | keys: expiry, revocation; sessions: key, last seen, idle and absolute end, revocation | login, page with touch, change, logout; issue, rotate, revoke | dashboard, command line |
| Limiters (CP/application/rate_limit, login_rate_limit) | windows of request times, a bounded table of subjects; in memory, under one lock | consume | agents' requests, bot, login |
| Paged lists (CP/application/*_queries, pagination, dashboard_pagination) | none; a cursor in the reader's URL, bound to filter, sort and size | first page, next page | rows that others change |
| Demo catalog and client (CP/demo) | 13 rules, 52 scenarios; retries of the current batch | build a manifest, send it | ingestion |
| Demo driver (E2E) | phases of the gate; Docker resources and files; the recovery ledger on disk; one child process with its pipe threads | verify, tear down, recover, run a command | everything above, Docker |
| Reports; web forms; Telegram links; token file; provisioning | | | not modelled, see section 7 |

What is hard: several workers, request threads, collectors and an operator touch
the same rows; every process may stop between two transactions; HTTP answers and
Telegram batches are repeated; leases, prompts and plans expire; files are rotated
under their reader; queues have limits; lists change while they are paged; a demo run may be
killed with half of its containers recorded. `PROJECT.json` lists the hazards at their
lines with the properties that would catch them.

What makes each part correct:

- agent: what was read is stored or visibly set aside, whatever stops in between;
- tailer: every line once, or an announced gap (it keeps this only for a writer that opens
  its log again in time, see section 4);
- file integrity: every change of a watched file reported, and nothing else;
- detection: no threshold crossing is missed by two concurrent batches, one active
  incident per bucket, nothing is added to a closed one, a sequence is found whenever
  it happened, and the linked events show why the incident exists;
- workflow: one effect per idempotency key, a history without gaps;
- outbox: delivered means accepted, attempts are bounded, every row is settled;
- bot: no update lost, none applied twice, a cancelled prompt closes nothing;
- block plans: a second operator decides, under the allowlist of that moment;
- sessions: none outlives its key, an active one is not shortened, and no change is
  made under one that was ended;
- limiters: no window admits more than its limit, nobody is refused without cause;
- lists: no row twice, none left out that was there from the first page to the last;
- demo gate: it ends well only if every scenario had exactly its effect; afterwards
  nothing of the run is left and nothing else was deleted.

## 2. Modules

| Module | Models | Checked by | Proved in |
|---|---|---|---|
| `NotificationLifecycle` | what the outbox promises | as the abstract level of `Outbox` | |
| `Outbox` | outbox table, worker processes, recovery, requeue, destinations | `progress` | `OutboxProofs` |
| `OutboxTimely` | the outbox with workers that keep the validated timings | | `OutboxProofs` |
| `AgentPipeline` | collectors, spool, delivery, the server's answers | `system`, `delivery` | `AgentPipelineProofs` |
| `FollowedFile` | the file tailer and the log under it | `sources`, `file_truncated`, `file_late` | `SourcesProofs` |
| `FileIntegrity` | the file integrity source, event ids made from its baseline | `sources`, `integrity_recurring` | `SourcesProofs` |
| `AtomicIncidents` | what ingestion and the workflow promise | as the abstract level of `Incidents` | |
| `Incidents` | ingestion transactions with detection, workflow, comments | `requests`, `progress` | `IncidentsProofs` |
| `DetectionRules` | the five kinds of condition, evaluated on stored events | `system` | `ControlPlaneProofs` |
| `DemoCatalog` | the shipped rules and the 52 scenarios derived from them | `delivery` | `ControlPlaneProofs` |
| `DemoPipeline` | the automated gate over that catalog | `delivery`, `demo_gate` | `ControlPlaneProofs` |
| `DemoTeardown` | resources and artifacts of a demo run, its ledger, the recovery | `restarts` | `DemoTeardownProofs` |
| `CommandRunner` | one command of the demo driver | `requests`, `command_tree` | `RequestsProofs` |
| `IpBlockPlans` | operations on block plans and the allowlist | `restarts`, through `TelegramBot` | `TelegramBotProofs` |
| `TelegramBot` | the inbound bot over incidents and `IpBlockPlans` | `restarts`, `telegram_replayed` | `TelegramBotProofs` |
| `KeysetPages` | the nine paged lists while their rows change | `requests` | `RequestsProofs` |
| `LoginLimits` | the login limiter and the keyed limiter | `requests` | `RequestsProofs` |
| `WebSessions` | operator keys, browser sessions, their locks and clocks | `system` | `ControlPlaneProofs` |

`MC*` modules give TLC its sets. Six of them (`MCProgress`, `MCDelivery`,
`MCRequests`, `MCSources`, `MCRestarts`, `MCSystem`) put parts that share no state side by
side in one run: the variable `part`, chosen once, names the part that moves, and the
others stay where they began. No interleaving is lost by it, because there is nothing
the parts could do to each other, and none is gained. Names that would clash carry
their module (`FollowedNext`, `IntegrityNext`, `BotNext`, `IncidentsNext`, `AgentNext`).

Definitions marked "Fault" are plausible mistakes in the definition that follows them;
each property is shown to fail when one replaces its definition, so that it says
something about the code.

### Outbox

One action is one committed transaction or one call to the provider. `row` is
`outbox_messages` with times kept as the time left, since the code only compares
them with the clock. `Claim` is the whole claim transaction, including the two ways
a row fails inside it (destination disabled, payload or configuration unusable).
`Deliver` leaves open whether the provider accepted a message whose answer was lost.
`Complete` is acknowledge, reschedule or fail, fenced by the token. `Crash` covers
every way a worker stops. Simplifications: a claim may take any due row (SKIP LOCKED
makes the order a matter of timing); tokens are numbered per row where the code draws
UUIDs; error codes are grouped; there is one clock; a retry delay is any number up to
`MaxDelay`; an enabled destination has a configuration, as its CHECK constraint says.

`NotificationLifecycle` is the promise: a notification is announced, attempted within
the quota authorised so far, closed by delivery or failure, and reopened only by an
operator. `ImplementsLifecycle` maps the rows to it.

### AgentPipeline

An event is a pair of source and line number; its id is a function of the cursor in
the code. `row` is the spool, `cursor` the committed position, `base` where the
reading last started. Each collector is a small machine: open the backlog, drain,
open again, follow; `SourceCursorUnavailableError` leads to the gap record and then,
in a transaction of its own, to the cleared cursor. The control plane answers with
success, a transient failure (before or after storing), 413 or 422; `Split` halves
the next batch, `SetAside` quarantines a batch of one. The operator may retry and
delete rows at any time, also those of the batch in flight. Simplifications: rows
keep the set of rows present at their insertion instead of a rowid; attempts and
exact delays are omitted; lines that vanish before the source was ever read are not
the agent's.

### FollowedFile

`path` names an inode or nothing, `content` is what was written to each inode,
`reader` is the open descriptor with the phase of the generator. Offsets count lines,
because only complete lines are yielded, and a line is there from the moment its newline is
written: a line begun in a file and finished late is a late line.

The log has one writer, a daemon with a descriptor of its own. `Write` appends to the inode
that descriptor has open, whatever the path names; `Reopen` gives it the path's file, any time
after `Create`, as logrotate's signal does. So lines go to a renamed file before the new one
exists, while the reader drains it, and after the reader has left it. The last ones are lost:
the code drains the old file once, closes it and opens the path without a cursor. `late`
records exactly these lines, by what is true when they are written (`Left`): the reader is in
another file and will not look into this one again, or it will start without a cursor in this
file and so without the gap that a cursor there would cause. A line that is already in the
renamed file when the reader leaves it is never `late`.

`abrupt` records a truncation, or a rotation that overtook the reader; then the code cannot
know what it missed. A new file never gets the inode that the writer, the reader or the
cursor refers to (`Held`); the first two keep theirs in use, the third is an assumption
(a hazard in `PROJECT.json`). Several writers with descriptors of their own, as nginx has
workers, would interleave old and new files further and are not modelled; each of them loses
late lines in the same way.

### FileIntegrity

`cursor` is the baseline, a function on some of the configured paths: the code
serialises it into the spool cursor. A scan reads every path, then compares path by
path; the record of a change carries the baseline *as far as it has been compared*,
so that a spool that fills up in the middle loses nothing. An event id **is** the
baseline in that record (`uuid5` of the cursor), which is why `spool` and `stored`
are sets of baselines. Paths may be listed in any order. In `follow` the generator
keeps the baseline in a variable; a record that is not persisted ends the generator,
so the variable always equals the committed cursor, where each scan starts here.

### Incidents

Three groups of actors: ingestion transactions (`Send`, one `Detect` per event and
bucket, `Link`, `Commit`, with the advisory lock of each bucket held until the end),
operator calls (idempotency lock, row lock, checks, effect, stored answer), and
PostgreSQL, which breaks deadlocks. READ COMMITTED is kept: a query sees what is
committed when it runs. Simplifications: one rule, a threshold over a sliding window
(a single-event rule is threshold 1); the incident number reserved in `Link` stands
for a UUID; the wait on the unique key of an event is part of `Send`; batches of one
agent key are serial, because the `last_used_at` update locks the key; audit and
notification rows belong to the creating transaction; reasons are left out.

`AtomicIncidents` is the promise, without transactions and locks: batches are taken in one
after another, each evaluated in one step on everything known by then; what it finds in a
bucket extends the active incident or opens one; a change or a comment is one step that
uses up its key. `ImplementsAtomicIncidents` maps the tables to it: a commit is the step
that takes a batch in, although its events were evaluated one by one, on what was
committed at each of those moments.

### DetectionRules and DemoCatalog

`DetectionRules` is the evaluation itself: `Threshold`, `Distinct`, `SequenceOf`,
`FirstSeen` and the single event are functions of a rule, a trigger and the history
that `LoadHistory` returns; `RunDetection` applies all rules to the new events of a
batch and `Persisted` adds the links. `SequenceOf` is the code's greedy search from the
last step to the first, `Taken` (a recursive function on the steps) what it holds at each
step; its reference is `Occurs`, which asks only whether the window can be cut into
periods. The instance stores the events of a small history one by one
in every order of arrival. `DemoCatalog` holds one entry for each file in
`detection-rules/` and the specs of `demo/scenarios.py` (positive, negative, below and
at the boundary), with values as far as rules tell them apart. Simplifications: one
server; a payload is a function on field names; cooldown, titles and severities are
left out.

### DemoPipeline

The phases of `run_automated_verification` with every comparison the gate makes, over
a database of events, incidents with links, outbox rows, what the browser wrote and
open sessions. `GateSend` stores one manifest; `GateRetry` is a lost answer or a 5xx,
after which nobody knows whether the batch was stored; `GateRefused` ends the run.
A snapshot is the record of all counts. `GateRules` is the number of rules that
`verify_exact_rules` demands: 8 in the source, with which the gate always fails
(section 4). The passing run (`delivery`) sets it to the 13 that are shipped, so that everything
behind that check can be examined at all; nothing else differs.

### DemoTeardown

A program is a function from labels to instructions: what to do, on what, where to go
on and where to go on an exception. `Automated`, `Human`, `CleanInstall` and `Recovery`
are the four programs with their handlers. The ledger is written to memory first and to
disk by one atomic replacement, which may fail; `compose up` is a request to a daemon
that creates resources one by one, also after its client died; clean-up discovers by
label, compares with the record, deletes, records. A process may be killed anywhere.
`Foreign` is a resource that somebody gave the same project label. `lapse` is history: an
effect was cut off from its record by a kill, by a `compose up` that died with the daemon
still at work, or by an exception before an artifact was added (`CutOff`). The last case of
`CutOff` is a weakness of the code that needs three failures: the record of the restore
project fails, the poll after it fails, and its clean-up fails before it has recorded what
it found. `restore_and_verify` turns that into the run's primary error (E2E/backup_restore.py:219),
not into a failed cleanup, so the ledger is finished and the restore project stays behind.
Simplifications:
resources of a compose file are a handful of names; the contents of files and the
permission checks on the ledger are left out.

### CommandRunner

The started process, a descendant, the drain and stdin threads, and the supervisor with
its deadline, output limit and shutdown request. `Cases` fixes what the environment is
like: Windows job or POSIX process group, which processes ignore SIGTERM, whether the
leader survives SIGKILL within the grace time, whether the descendant holds the pipes.
stdout and stderr are drained alike and are one stream, counted in chunks.

### KeysetPages

One reader follows the cursors of one of nine lists. `List` describes how its rows come
and change: times drawn before the commit (`late`), under a lock (`serial`), numbers,
names, and the active version of a rule, which is exchanged. A page is one statement
with `LIMIT size + 1`, described by what it may return (`Fetched`: rows in order, every
listed row that is left out behind them and only when the limit is reached); a cursor is refused with another filter, sort or size as far as
it is bound to them. The reader changes the query at any time. `PagesExact` demands what
ADR-0008 promises and no more: a `late` row committed behind the cursor may be missed,
and a rule may be listed again, as another row, after its active version changed.

### LoginLimits

Threads read the clock, then wait up to `MaxLag` ticks for the lock. Windows are
sequences of the times in the order of admission, so a late reader's older time may
stand behind a newer one; `Expire` removes from the front only, as the code does. The
promise is therefore a limit for every stretch of the window's length *less the longest
wait*, and a refusal is justified over the window *plus* it. Times are integers; of the
keyed limiter one key is modelled, since keys do not influence each other.

### IpBlockPlans and TelegramBot

`IpBlockPlans` has the operations of `ip_blocks.py` as actions over `plans` and
`allowlist`; `TelegramBot` decides when they run. `Fetch` takes a batch from
Telegram, if the answer is `Readable`: the client gives up an answer of more than
`TELEGRAM_RESPONSE_LIMIT_BYTES` (64 KiB, here more than `MaxLong` long messages in a batch),
and one update outside the bounds of `updates.py` spoils the whole answer. `FetchFails` is
such an answer, or a request that fails for once (counted in `failures`); the offset has not
moved, and after a pause `TryAgain` makes the same request. `Handle` is one update through
the router with its own transaction, `Confirm` records the offset, `Interrupt` is any stop or
failure before that. Updates of one run come from a small menu. The rate limiter may drop any update, also one that was
handled before and comes again; a command dropped in any of its handlings counts as dropped
in `CancelledStaysOpen`, which therefore says nothing about it. The dashboard
moves incidents and the command line edits the allowlist in between. Simplifications:
buttons are applicable to version 1 only, as ADR 0014 has it; an account is its
operator; a transition is one step (its locks are in `Incidents`); approval is two
steps, because it reads the allowlist after it locked the plan. There is one poller,
since Telegram answers a second `getUpdates` with 409.

### WebSessions

`key` and `session` are the tables, `process` is where each request and command is.
The code reads the clock before it opens the transaction that waits for locks, so a
process keeps its `at`, which may be long past when the lock comes. Locks are not
variables: a process in `insert`, `revoking` or `rotating` holds its key, one in
`changing` its session and the operator's row. `OpenPage` reads the clock and the
session in one step, since nothing is waited for in between; the touch is a step of
its own, because its `UPDATE` may wait and is then evaluated on the row as it has
become. `served` is a history variable. A revocation that the CHECK constraint
`revocation_not_before_creation` refuses is rolled back as a whole: it read the clock
before a login that it then waited for. Simplifications: operators have one role and
stay active (no code changes either); unknown credentials, the limiter, tokens and
CSRF are left out; what is written under `changing` is in `Incidents`; issuing a key
is one step, rotation waits for all its locks at once. The use of keys by the HTTP
API reads the key without a lock and is not a session. The second transaction of a
request sees the row as its lock found it: `expire_on_commit` is off, but nothing
refers to the objects of the first one, so the identity map has dropped them.

## 3. Runs

| Run | Instance | Shows |
|---|---|---|
| `progress` | 2 workers, 1 row, 2 severities, a granted extra attempt; beside it 2 batches with opposite lock orders and 2 calls | one owner, leases respected, the life cycle implemented; every queued row is settled if one worker stays up; deadlocks end and both batches are stored |
| `delivery` | 1 source, an ignored and a poison line before a healthy one, batches of 2 against a limit of 1; the shipped catalog with 2 faults | no silent gap; only the guilty are set aside; the healthy are stored; the catalog's effects exact, a verified run has verified |
| `requests` | 3 batches, 5 events, 2 buckets, 3 calls on 2 keys; 9 lists of up to 3 rows, pages of 1 and 2; 2 threads over 4 ticks on limits of 1 and 2; a command with 2 chunks against a limit of 1 | incidents as if everything happened one by one, no missed crossing, one active incident, answered once, history chain; pages exact; limits hold; what a command's outcome means |
| `sources` | 3 inodes with lines up to 3, a writer that keeps its descriptor; 2 files with 2 edits each, spool of 1, changing configuration | every line once or announced, late lines excepted; no false alarm, no change absorbed, the baseline converges |
| `restarts` | 3 menus, one of them with updates that cannot be read, batches of 2, one failure, two changes from outside; 4 resources, 1 restored, 1 foreign, 5 artifacts, 2 faults | no update lost or applied twice, cancelled prompts, plans, the offset catches up or stands before an answer that cannot be read; no orphans, only recorded resources deleted, recovery succeeds |
| `system` | 2 requests, 1 command, 2 keys of one operator, 1 session, 2 ticks; 5 rules on 9 events; 2 sources of the agent (a healthy and a poison line, an oversized line), capacity 1 | sessions end with their key, active ones stay, changes under live sessions; sequences found, evidence sufficient; nothing read is lost, spool bounded |
| `file_truncated` | 3 inodes, truncation | **violation**, see section 4 |
| `file_late` | the same, a line written behind the drain | **violation**, see section 4 |
| `integrity_recurring` | 1 file, 3 edits | **violation**, see section 4 |
| `telegram_replayed` | a text before the button | **violation**, see section 4 |
| `demo_gate` | the shipped catalog, 8 rules demanded, no fault | **violation**, see section 4 |
| `command_tree` | one command in all cases | **violation**, see section 4 |

Why the bounds are enough for what the properties say. Two workers and one row make
every race on a row, because rows do not influence each other and a race has one
owner and one stale worker (`OneOwner` is proved for any number); attempts give a
first claim, a recovery and a requeue. Lines of three kinds from two sources with a spool
of one make every combination of pause, gap, refusal and crash; the fourth kind, a line that
is no event, is in `delivery`, where three lines of one source put a lost one between two
that are read. Three lines over three inodes put one line before, one
during and one behind a rotation, or behind two rotations. Of two long messages in a batch
of two, one fits into an answer and both do not. Two buckets make the
smallest deadlock. A file needs two edits to be seen twice and three to recur. Two
requests and a command meet on one session or its key in every order, with clocks
that differ by more than the touch interval and up to the idle time. Three rows with
equal and different times make a tie on both sides of a page boundary. Two threads are
enough to serve times out of order on a limit of two, and two subjects to fill a table
of one. The small history holds equal times, a repeated step, an event without the
counted field and two triggers. Two faults let a clean-up fail and its recovery die.

Every module with a proof has a type invariant, which is proved (section 6) and left out of
the cfgs in favour of properties that say more. The same holds for the inductive
invariants: each was checked by TLC on the run's instance, that of `DemoTeardown` with
three faults, before it was proved.

Deadlock is checked in `progress`, `requests`, `sources` and `system`; there the
parts that come to an end by themselves may stutter, so that only the others can be
stuck. It is not checked in `delivery`, `restarts` and the violations, whose finite
scripts end.

## 4. Findings

1. **Truncation while following** (`file_truncated`). `follow` looks only at device
   and inode, so after copytruncate it stays behind the end of the file. ADR 0019 says
   reading resumes at 0. Only a reopened file does.
2. **Late lines are lost without a gap** (`file_late`). After a rotation the old file is
   drained once and closed. A daemon writes to it until it opens its log again, which
   logrotate asks for after it has created the new file; what it writes behind the drain, or
   finishes of a line that was incomplete then, is never read, and no gap is recorded, because
   the new path is opened without the old cursor. ADR 0019 says that the rest of the old file
   is already read at that moment, and that the one irrecoverable case leaves a `journal_gap`.
   In the run one line is read, the file renamed and created, the reader goes over, and the
   next line goes to the old file. `NoSilentLoss` and `EveryLineRead` except `late` lines and
   nothing else, so they say that this is the only silent loss besides `abrupt`.
3. **A repeated change has a used id** (`integrity_recurring`). The file integrity
   cursor is a state, not a position. When a combination of states comes back (a line
   is added, removed and added again), the event id is that of the first time; the
   spool or the control plane drops it as a duplicate and the cursor moves on. ADR 0022
   names a change undone *within one interval* as the only one that goes unseen.
4. **Repeated text meets a later prompt** (`telegram_replayed`). When a batch is
   handled again, a text sent before the button is taken for the reason the button
   asked for, and the incident is closed with it.
5. **The gate cannot pass** (`demo_gate`). `verify_exact_rules` demands that the shipped
   rules are exactly eight *and* that their keys are the thirteen of
   `EXPECTED_RULE_KEYS`. Whatever the stand is like, the gate ends there.
6. **A descendant survives** (`command_tree`). On POSIX the process group gets SIGKILL
   only if its leader outlived SIGTERM, and descendants are looked for only on Windows.
   A descendant that ignores SIGTERM outlives a command that timed out, although the
   test calls the tree terminated before control returns.

## 5. Fairness

- `Outbox`: time passes, and each worker that runs goes on (its provider call has a
  timeout); the service manager restarts stopped ones. `EventuallySettled` assumes one
  worker stays up.
- `AgentPipeline`: service start, delivery loop, each collector and due times are
  weakly fair. A definite answer is strongly fair: the network does not lose every
  answer. `EventuallySettled` is conditional on `<>[][Undisturbed]_agentVars`.
- `FollowedFile`: the reader's steps are weakly fair; opening, noticing a lost cursor
  and reading a line strongly, because stops may interrupt them any number of times. The
  writer is not fair: it may never open its log again.
- `FileIntegrity`: the scan goes on and delivery goes on; `Converges` assumes that
  restarts end.
- `Incidents`: an agent sends a batch again until it is stored, a transaction goes on,
  a deadlock is broken (`deadlock_timeout`) and a request runs to its end: weak
  fairness. Strong fairness only for `Detect`, which takes a bucket's lock: PostgreSQL
  grants it in the order of its queue, so a waiter is not overtaken for ever although
  the lock is taken in between. Rollbacks by a failing database are bounded.
- `TelegramBot`: the poll loop fetches, handles and confirms, and asks again after a pause.
  Interruptions and failures of a request that could succeed are bounded by `MaxFailures`.
  An answer that cannot be read is not bounded: the code repeats the request with the same
  offset and limit, gets the same answer and handles nothing more, whoever writes to it.
  `CatchesUp` says that the offset catches up *or stands before such an answer*, and so that
  nothing else holds the bot. In reality the updates expire at Telegram after 24 hours
  (ADR 0013) and the bot goes on without them; neither is modelled.
- `DemoTeardown`: a running process goes on, Docker creates what it was asked for, and
  the recovery command is run again as long as a ledger is left, as its message tells
  the user. `RecoverySucceeds` is conditional: from some time on what exists must be
  attributable to the ledger (`Attributable`).
- `MCDemoGate`: the gate goes on.

The side-by-side modules repeat the fairness of a part for the time in which it moves.

## 6. What is proved

`OutboxProofs`, for all sets of incidents, destinations and workers and all limits:
`OutboxInvariant` and from it types, constraints (`StateShape`), `OneOwner`,
`AttemptsCountClaims`, honest delivery, `DeliveredIsFinal`, `LeaseRespected`, and that
`Outbox` implements `NotificationLifecycle`. `OneOwner` is not inductive: a stale
worker could share a row's token. The invariant adds that tokens in workers are
distinct per row and at most the number of claims, and that a processing row carries
the number of its last claim; so a new claim's token is new to everybody. The proof
splits it row by row (`RowSound`) and worker by worker (`WorkerSound`): each row
operator keeps `RowSound`, and each step lemma only says which rows a step replaces.

The same module proves of `OutboxTimely`: with `adapter_timeout_seconds < lease_seconds` and
no worker suspended between claim and completion, a worker owns its row whenever it sends
and completes. The invariant adds that a claim under way has at least one tick of lease
left; a tick in time finds two.

`AgentPipelineProofs`, for all finite sets of events and sources: `AgentInvariant` and
from it types, `NothingLost`, `NoSilentGap`, `SpoolBounded`, `OnlyGuiltySetAside`. The
invariant adds that an answer "success" means the batch is stored and an answer 4xx
that it deserved it (`AnswerHonest`), which must survive the operator's commands on
rows in flight, and that the cursor is cleared only after the gap is on record.

`ControlPlaneProofs` on `WebSessions`, for any keys, operators, sessions, requests and commands and any
lifetimes with `TouchTicks <= IdleTicks <= AbsoluteTicks`: `SessionsInvariant` and from
it types and all three properties of the sessions. They are not inductive: a login between its
check and its insertion could miss a revocation. The invariant says what each process
knows at its step (`ProcessSound`: a key holder's key is live and ends after the time
it read, a session holder's session is not revoked), that locks exclude each other
(`Exclusive`), and that a live session belongs to a live key and ends no later
(`SessionSound`). Most steps move one process (`ProcessStep`); `EndOfKey` shows that
revocation and rotation disturb nobody, because nobody else holds the key and nobody
holds its sessions.

The same module on `DetectionRules`, for any rules the schema accepts and any finite set of
events with ids of their own:

- `SearchMissesNothing` (`SequenceComplete`). `SearchSound`: what the search chose for a step
  lies before everything it chose for the next, so the latest event of each choice ends a
  period. `SearchComplete`: whatever periods a sequence lies in, the search of every step
  ends after the period of the step before, because of n or more matching events after a
  time the n latest are also after it (`LatestAbove`) and are n (`LatestSize`, by giving each
  event its rank). That `Taken` obeys its recursion for any number of steps is proved by a
  shortest search that does not (`TakenSteps`), since the induction theorems cannot be used.
- `IncidentsKeepTheirReason` (`EvidenceSuffices`), from `RulesInvariant`: links point to
  stored events (`LinksAreStored`). An incident without new evidence keeps its old reason,
  since the new event's id is new; with new evidence, the rule finds the same again in any
  part of the history that holds what it found (`EvidenceAgain`). The trigger of a distinct
  count may lack the counted field, and then is no evidence: the latest event that is
  takes its place, in the same incident only if the rule tells incidents apart by fields
  it groups by. `CountsPerIncident` says so and is a hypothesis of this theorem. The schema
  does not ask for it (CP/application/detection/rules.py:170); the one shipped rule of this
  kind (`ssh_password_spray_by_ip`) and the rules of the run satisfy it. Without it the
  property is false: with `group_by: [ip]` and `correlation_fields: [host]`, a third event
  of another host without the counted field opens an incident for its host that links
  only the first host's events.

The same module on `DemoPipeline`, for any number of faults, attempts and demanded rules and
the shipped catalog: `GatePhases` and from it `VerifiedMeansExact` (`VerifiedExact`). The gate
compares counts, so what it has shown rests on what each phase leaves behind
(`GateInvariant`): before a manifest is sent all those before it are stored, though a retry
cannot know it, and once all are stored a replay changes no row (`CommitBatch`); every
incident has a row, and a row is delivered only by the one request of its first attempt
(`OutboxSound`); from the dump to its restoration the database stands still, because nothing
serves. That the catalog's events are finitely many, which the counts need, follows from its
thirteen rules one by one (`CatalogFinite`).

`CatalogIsExact` (`CatalogExact`) says of the same module that the shipped rules make of the
52 shipped scenarios exactly the promised incidents, whatever is lost and sent again. The
events are not enumerated. Five arguments make the proof:

- each scenario alone in the database does what its case says (`EveryScenario`): a lemma per
  rule computes the builder's events and what *each* of the thirteen rules that reads their
  type makes of them (`Triggers`), so no bruteforce is also a spray and no spike also a burst
  of failed requests; the cases on the bound of a window or of a count meet it exactly;
- all events of a scenario lie within thirty days and a second of its anchor, the anchors are
  31 days apart, and later scenarios lie *earlier* (`Timely`, `Apart`): what was sent before
  is after every event of the batch, and a rule looks back only (`Isolated`);
- the two matching cases of a rule differ in a field its incidents are told apart by, and so
  do those of different rules in the rule (`BucketsDiffer`): no incident collects two;
- hence a batch sent for the first time adds its events and its incident (`CommitFirst`), and
  one sent again nothing (`CommitAgain`);
- the invariant (`CatalogInvariant`) is that the database is that of the first k scenarios,
  with k equal to the cursor, or one more while an answer is lost.

`IncidentsProofs`, for any buckets, finite set of events, batches, callers and requests, any
threshold and window: `IncidentsInvariantHolds` and from it types, `HistoryChain`,
`CrossingSeen`, `OneActiveIncident`, `AnsweredOnce` and `ClosedIsFinal` (nothing is added to
a closed incident), and that `Incidents` implements `AtomicIncidents`. What the locks
protect has to be said between two statements: a transaction that has evaluated a bucket
holds its lock, so an incident it writes is new or the bucket's only active one
(`WriteSound`), a crossing it evaluated is linked or about to be (`CrossingLinked`), and
two transactions have no bucket, event or incident in common (`TransactionsApart`); a call
that waits behind the row lock knows the row as it is (`CallSound`). Only `Commit` and
`Transition` write incidents; all other steps move one transaction or one call. For the
refinement a second invariant (`EvidenceStaysExact`) says that what a transaction has found
in a bucket is what its events would find on all that is stored *now*: the windows of an
evaluated event lie in a bucket it has locked, so no commit of another transaction reaches
them. A commit is then one evaluation of the whole batch (`CommitImplements`).

`TelegramBotProofs`, for any incidents, addresses, operators and menus, any batch size:
`BotInvariantHolds` and from it types, `NoUpdateLost`, `ChangesOnce`, `CancelledStaysOpen`,
`ApprovedBySecond` and `AllowlistWins`. A prompt may be created again by a repeated button,
so the invariant ties every prompt to a button pressed and not taken back *before the
update that comes next* (`PromptSound`); what makes one change per update is that every
change's key is recorded, and that an incident changes twice at most. Requests that fail or
bring an unreadable answer are steps of that specification and move nothing but the poller.

`SourcesProofs`, for any inodes and number of lines: `FollowedInvariantHolds`, and from it
`NoReplay` (nothing behind the cursor's or the reader's position has been yielded, and a
file the path has come to name is unread, `ReaderSound`) and `NoSilentLoss` (every line
written is yielded, announced, `late` or still ahead, unless `abrupt`, `LossSound`). The
writer may append to any file it still has open, so the invariant says that a file it has yet
to open is empty and that the file it has open holds the latest lines (`LinesSound`). For any finite
set of paths, states and capacity: `IntegrityInvariantHolds`, and from it `NoFalseAlarm`
(each state a path was seen in leaves room for the edits that lead to the present one,
`AlarmSound`) and `NoChangeSwallowed` (what a scan is about to commit is what it saw, or the
old state of a path not reached yet, `ScanSound`).

`RequestsProofs`: of one command with any output limit, `CommandInvariantHolds` and from it
`CommandOutcome` (the stream has ended only when everything is drained and nobody can print
any more). Of the limiters with any limits, windows, threads, subjects and waits,
`LimitsInvariantHolds` and from it `LimitsHold`. A window holds exactly the last admitted
requests, and the ones before them are out of it (`Follows`); since times are not sorted,
expiry from the front stops at the first time still inside, which is the least counterexample
that the proof takes from well-foundedness. Of the paged lists with any ids, rows and page
sizes, `PagesInvariantHolds` and from it `PagesExact`. The invariant says why no change
between two pages loses a row: one that must be shown was shown, by its subject, or comes
after the cursor (`NothingPassed`), and the cursor is the last row shown (`AtCursor`). A new
version of a rule has another id at the same name, so it may fall before the cursor, but
only at the cursor's own name, which was shown; a list read towards the end it grows at
holds a row with the cursor's key, so every new row comes after it (`PageTaken` is the one
fact about a page that the steps use).

`DemoTeardownProofs`, for any resources and any number of faults: types,
`DeletesOnlyRecorded` (from the time a clean-up has written the ledger, the process's copy
is the file, `CopyIsFile`) and `NoOrphans`. The programs are used through what stands at a
label (`Site`) and where it goes on (`Flow`), which is checked label by label once. The
invariant behind `NoOrphans` says for every moment by what the process at work accounts for
what exists: artifacts are in its copy or pending (`FilesSound`), a resource of the restore
project is in its copy except between that project's compose up and clean-up
(`RestoreRecorded`), Docker has work only while it is awaited (`DaemonAwaited`), and whoever
reaches the end of the ledger has gone through clean-ups that did not fail (`RunStopped`,
`ParentStopped`, `RecoveryStopped`). It is not inductive without `CheckoutKept`: the parent's
checkout must be in the child's copy, or the child could finish the parent's ledger. Working
it out corrected the model twice: `lapse` lacked the failed clean-up of the restore project
(section 2), and a recovery started after a kill did not begin its clean-up at the start.
The run has two faults because of its time; the case needs three, and the theorem holds for
any number.

Assumptions are the named `ASSUME`s on the constants, as weak as the settings'
validation allows; TLC evaluates them in every run. `DemoTeardownAssumption` also keeps the
names of resources apart from the names of the stages of a clean-up, which share a variable.

Only proved: `StateShape` and `AttemptsCountClaims`, which restate the table's
constraints and the attempts for `Outbox`, `ClosedIsFinal`, which follows from the atomic
incidents that the run checks, the type invariants and the inductive ones.

Only model-checked, and why:

- all liveness (`EventuallySettled`, `EventuallyStored`, `EveryLineRead`, `Converges`,
  `CatchesUp`, `RecoverySucceeds`): fairness is out of the prover's reach.

## 7. Not modelled, and why

Templates, wording, translation, parsing of log lines and settings: no state. The
token file, `journalctl`, HTTP and TLS material: I/O. The weekly report and the overview:
read only. Audit rows: written in the transaction they describe (their list is in
`KeysetPages`). Agent keys and provisioning: single inserts. Migrations: their constraints are part of
the models of the tables. `PROJECT.json` gives the reason per component.

Known hazards that no property covers, beside those `PROJECT.json` notes:

- `read_state` opens a file and falls back to `stat` (AG/sources/file_integrity.py:159);
  a file replaced between the two is recorded by its metadata. One observation here.
- Revocation reads the clock before it waits for the key's lock
  (CP/application/operators.py:160); a login with a later clock makes the CHECK
  constraint refuse it. `WebSessions` rolls back; the command fails visibly and is
  repeated, and nothing promises that it succeeds at first.
- Synchronisation never deactivates a rule whose file is gone
  (CP/application/detection/sync.py:68-78).
- A search of 100 four-byte characters makes a cursor longer than the 1024 characters
  its decoder accepts (CP/application/dashboard_pagination.py:17).
- The keyed limiter never forgets a key (CP/application/rate_limit.py:23), and the bot's
  keys are account ids (CP/telegram_bot/router.py:154).
- The demo client ends when the stand's clock differs by 300 s; one clock here.
- Clean-up of an automated run refuses when a resource appeared beside the recorded ones
  (E2E/ownership.py:479-480), while ADR-0012:95 says that the automated mode always
  removes its data. `DeletesOnlyRecorded` and `RecoverySucceeds` side with the code.

## 8. Plan

Done: the modules of section 2 and the proofs of section 6.

Next, in this order:

1. `TelegramLinks`: linking and revoking accounts against a bot update that has
   resolved its operator already.
2. Rule synchronisation beside ingestion, and the rows of a sequence that commit while
   the event that completes it is evaluated.
