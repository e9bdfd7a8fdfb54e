# A TLA+ development of JevGuard

JevGuard is a SIEM for one Linux host.  This directory holds TLA+ modules that
model its core, the TLC configurations that check them on small instances, and
theorems about them that TLAPS proves for every value of the constants.  The
source is `src/jevguard/`; line numbers below and in `PROJECT.json` refer to it.

## 1. The system

| Part | State | Operations | Hard behaviour |
|---|---|---|---|
| Collectors (`collectors/*.py`) | none of their own; cursors, offsets and snapshots are rows of `collector_state` | `collect_auth`, `collect_kernel`, `collect_audit`, `*_snapshot`, `*_change_events`, `collect_network` | a journal that cannot be read, bootstrapping without a cursor, log rotation |
| `MonitoringService` (`service.py`) | `last_auth_check`, `errors`, `running` | `collect_once`, `ingest`, `_decide`, `_correlate*`, `_reserve_ai_call`, `run` | several threads and processes run it over one database; an exception drops what is in memory |
| Providers (`decision.py`) | none | `decide` of the local rules and three remote adapters, `apply_policy` | a remote answer may be anything |
| `EventStore` (`db.py`) | tables `events`, `decisions`, `collector_state` | `add_event`, `add_decision`, `update_status`, `get_state`, `set_state`, queries, `initialize` | one transaction per call, nothing held across calls; every start runs the `UPDATE`s of `initialize` on live rows |
| API, command line, dashboard (`api.py`, `cli.py`, `static/app.js`) | the page's `state` | `POST /api/collect`, `PATCH .../status`, `GET` of health, summary, events; polling every ten seconds | overlapping loads; request threads share the service object with the loop |

How they interact.  The service loop, `POST /api/collect` (same process, same
service object, another thread) and `jevguard collect-once` (another process)
each run `collect_once`: fetch, store the cursor, then for each event
`add_event` (ignored if its fingerprint is known), `_decide` (perhaps through a
reservation in the `ai_budget` row and a call to the provider), `add_decision`,
`_correlate`, which may ingest an incident.  Only the database orders them, call
by call.  `EventStore._lock` is held within one store call of one process.

What makes the parts correct:

- *Triage*: a high or critical event is never lowered, always waits for a
  person, and stays in the queue until a person closes it; the stored review
  flag means what the policy says; no answer of a provider ends triage.
- *Budget*: the hourly, daily and cooldown limits hold of the calls really made,
  through failures and upgrades; no call is refused that the limits allow.
- *Journal*: what a cursor has passed is in the table, under way, or dropped by
  a fault; what follows it is judged in the end; a record is judged once.
- *Correlation*: every brute force, scan and break-in has its alarm, an alarm
  is raised once, and says what happened.
- *Snapshots*: what the stored snapshot says was reported or was found without a
  baseline; there is one baseline; rows tell of the host in its order; a change
  that lasts is reported in the end; `sudo` before a change of persistence raises
  its alarm.
- *Audit tail*: the offset is never ahead of what was read; no line makes two
  events; what is appended is read in the end.
- *Dashboard*: an alert is announced, and once; the panel settles on the present
  state.

The hazards in `PROJECT.json` list where each of these can go wrong.

## 2. Modules

| Module | Contents |
|---|---|
| `Decisions` | constant-level triage: the catalogue of events, local rules, adapters, policy, risk floor, migration |
| `DecisionRecord` | the state machine of one row, from collection to review |
| `DecisionRecordProofs` | invariant and theorems of `DecisionRecord` |
| `CallLimits`, `CallLimiter` | parameters of the AI budget; its abstract specification |
| `CallLimiterProofs` | the limiter keeps its limits |
| `AiBudget` | `_reserve_ai_call` over the stored ledger, store call by store call |
| `AiBudgetProofs` | invariant, refinement of `CallLimiter`, the limits |
| `Correlation` | constant-level rules of `_correlate` and the fingerprint |
| `Ingest` | the journal half of `collect_once`, any number of workers |
| `IngestProofs` | invariants and theorems of `Ingest`, for any number of workers |
| `IngestOrderProofs` | what its alarms mean where passes do not overlap |
| `Passes` | what every collector shares: workers, the service loop among them, and which collector a behaviour is about |
| `Snapshots` | files, accounts, processes and listeners: snapshot, baseline, comparison, storage, ingestion, persistence rule |
| `SnapshotsProofs` | invariants and theorems of `Snapshots` |
| `AuditTail` | inode and offset of the audit log under appends, rotation and truncation |
| `AuditTailProofs` | invariants and theorems of `AuditTail` |
| `Dashboard` | `app.js` with the endpoints it polls: overlapping loads, filter, alerts, connection notice |
| `DashboardProofs` | invariants and theorems of `Dashboard` |
| `MCHost` | `Snapshots` and `AuditTail` side by side, as `collect_once` runs them |
| `MC*` | values TLC needs for the constants |

A definition whose comment starts with `Mutant:` is a faulty variant of the
definition after it; no specification uses it.  It shows that a property can
fail, and how.

### Correspondence with the code

*`Decisions`, `DecisionRecord`.*  An event is its source, type and severity, for
these decide triage; a confidence is a whole percentage; a provider is a name
and, in a decision, local or external.  A reply says whether the transport
failed with an exception the adapter catches, broke off with another one, or
gave an answer, and of what shape.  `stage` follows `ingest` between its
statements; `verdict` is the local variable `decision`.  `Initialize` is
`EventStore.initialize`, which any process may run at any moment, and rows an
earlier version wrote are initial states.  `DecideLocally` is enabled for every
stored event, because a refused reservation, `prefer_ai=False` and a low severity
all lead there.  `Crash` leaves the row without a decision.  Rows do not interact
in these operations, so one row stands for the table.

*`CallLimiter`, `AiBudget`.*  `calls` is every call granted and every external
decision an earlier version left; `ledger` is the row `ai_budget`.  An attempt is
kept as the call it stands for, where the code keeps its time.  A worker's steps
are the store calls: `Load` (`get_state`, and the query of old decisions if there
is no ledger), `SavePruned` (first `set_state`), `Refuse`, `Reserve` (second
`set_state`).  `Fail` is an exception or the end of the process in between.  A
subject without entry reads as 0, as `subjects.get(subject, 0)` does, hence the
assumption that the epoch is longer ago than any window.

*`Correlation`, `Ingest`.*  An observed record carries its journal position as
evidence (the code: the journal cursor), an incident the positions of its related
rows (the code: their ids, of which scans keep the last 50 and persistence the
last 10; the instances stay below).  `subject` is the pair of actor and address,
or the address of a packet.  `Begin`, `NextStream`, `Fetch`, `Checkpoint`,
`add_event`, `add_decision`, `Correlate` and `Finish` are the store calls and
the subprocess calls of `collect_once`, in its order; an incident is put at the
head of `todo`, because `_correlate` ingests it before the rest of the batch.
`Abort` is an exception that leaves `collect_once`, `Restart` a new process;
either drops `todo`.  `lost` is a history variable: the events dropped that way
and the records `--since` passed over while no cursor was stored.  Observation
times do not decrease: a wall clock set back is not modelled.

*`Snapshots`.*  The four snapshot collectors have one shape and differ in what a
key and a value are, in what is told of a difference, and in one order: sockets
are looked at before the stored snapshot is read, everything else after it.
`kind` selects one of them; a `process` or a `listener` whose value changes keeps
its key.  `moments` is every state the host was in; `Look` takes the present one,
or a part of it, because what cannot be read is left out without an error.
Of sockets those of the looking process are left out on purpose (`Own`), so the
service and a `collect-once` see different hosts; a pid has one process at a time
(`OnePerPid`).  `Look`, `Read`, `Save`, `Add` and `CorrelatePersistence` are the reads
of the host and the store calls in their order.  Before files are compared a pass
goes through the journal, step by step as in `Ingest`: `ReadCursor`, `FetchJournal` or
`JournalFails`, `StoreCursor`, `IngestRecord` for each `sudo`, `EndJournal`; what the
journal holds concerns files only, so other kinds skip it.  `NoBaseline` is the
code's `not previous`, which holds of an empty snapshot and of none.  A row is a
change; its fingerprint is all of it, except that a process's has the pid and what
runs and not when it was started (`fingerprint`), so a recycled pid that runs the
same has no row of its own.  `Fail` is an exception, which leaves the collector or
`collect_once`, or the end of the process; it drops `todo` and the records fetched.
The ten minutes of the persistence rule are longer than a behaviour.  History: a
fault's changes stay in `lost`, `sudo` records no pass will find in `gone`, what a
pass without a baseline stored in `silent`, what a snapshot left out although it was
there in `hidden`, and what a pass could have found of `sudo` in `known`.

What `PersistenceAlarmed` promises follows from that.  The alarm rests on every
`sudo` that was in the table, or could be fetched, when the pass read its cursor.  It
promises nothing of a record that the failing `journalctl` of this pass did not give
it, that a fault after the store of the cursor dropped or `--since` passed over, and
that another worker, its cursor stored, has not yet ingested: in all of these the
code reports the change and raises no alarm.

*`AuditTail`.*  A line is its position among all lines ever written; the present
file holds those after `start`.  Offsets count lines where the code counts bytes:
auditd writes whole lines.  `Stat` is `os.stat` with the branch for no stored
state, `Open` is `open`, `seek`, `readlines` and `tell` on whatever file has the
name by then, `SaveState` the `set_state` before the first event, `IngestGroup`
one audit id.  The fingerprint of such an event covers the lines in it, so a
record cut in two by a poll makes two events of different lines.  `Rotate` may
give the new file an inode used before.

*`Dashboard`.*  A load asks for health, summary and events at once; the two
answers that matter here come in any order, that of the events read in one
transaction (`AnswerEvents`), that of health in two steps, because `errors` is
iterated while other threads change it (`HealthBegins`, then `HealthAnswers` or
`HealthRaises`).  `Promise.all` fails when one fails (`LoadFails`).  `CompleteLoad`
is the rest of `load`, with `announce`, which no other JavaScript interrupts.
`told` counts the toasts of each row.

The mapping of `AiBudget` onto `CallLimiter` is the substitution of the instance
`L`: `calls` and `clock` for their namesakes, and `ImplementsLimiter` is `L!Spec`.

## 3. Runs

Numbers are distinct states.

| Run | Shows | States |
|---|---|---|
| `decision_record` | risk floor, review flag, review queue, finality, on the whole catalogue of events | 289 thousand |
| `advice_leaves_queue` | finding: a restart takes advised rows out of the queue | |
| `low_confidence` | finding: a decision with low confidence needs no review | |
| `fail_closed` | finding: an uncaught exception leaves a row undecided | |
| `ai_budget` | limits, remembering, no unjust refusal, refinement; one worker | 28 thousand |
| `ai_budget_race` | finding: two workers exceed the hourly limit | |
| `ingest` | accounting of records, alarms for every attack, irrelevance of polling; one worker | 3.5 million |
| `ingest_workers` | accounting, one judge per record, one alarm per set of rows, and every record behind the cursor judged in the end; two workers, one fault | 283 thousand |
| `burst_missed` | finding: a brute force without alarm, two workers | |
| `host` | snapshots and audit tail, two workers, failing reads and polls, faults, rotation; every property of the two modules, liveness included | 209 thousand |
| `dashboard` | each alert announced, and once; the panel settles | 457 thousand |
| `failures_after_success` | finding: an alarm on failures that came later, two workers | |

Bounds, and why they are enough.

- `decision_record`: every event the collectors emit, all 80 well-formed answers
  with a confidence in range and one out of range, one answer of each malformed
  kind, every legacy row up to its confidence, restarts without bound.  One of
  the two Jev adapters and one of the two names of the chat adapter suffice: the
  others have the same outcomes.
- `ai_budget`: windows of 2 and 4 ticks, limits 2 and 3, a cooldown of 5 (longer
  than the day, so that pruning matters), 6 ticks of time, so that windows slide
  past calls; 4 interchangeable incidents; at most 9 calls, more than the limits
  admit in that time; four legacy histories with calls inside, outside and at the
  edge of the windows.
- `low_confidence`: the bounds of `decision_record`; low is less than 50 of 100.
- `ingest`: a threshold of 2 instead of 3 failures and 2 instead of 10 ports, a
  window of 1 tick in 3, so that a window can be filled, slide, and be left; 3
  records over both journals in any order and at any time, among them ones that
  yield no event, packets without port and without source; 1 fault.  With 2 ports
  and 3 records no step overshoots the threshold of a scan; the theorem is for any.
- `ingest_workers`: 2 failures, which fill the threshold, 2 ticks, 1 fault of either
  worker or of their process; the loop and a request thread of one process, which
  share `last_auth_check`.
- `host`: two items and two values, so that items of one snapshot differ in their
  fate, one of them quiet, both persistent, one value suspicious; two workers.
  `MaxEvents` bounds changes, `sudo` records, failed reads and faults together: 3,
  enough for a change, its repetition and something in between.  One collector at a
  time moves (`kind`): they share no state but the table, where their fingerprints
  differ by type.  `Cut` names what is thinned out to keep liveness checkable: the
  second worker starts only next to the first, which loses nothing as a lone
  worker is like another; with both at work one event happens (`MaxOver`), or a `sudo`
  and a change of one file (`SudoAndChange`), and at the audit log fewer lines than
  three and three events (`MaxCrowd`), a fault counting twice; all three events
  together only as changes of one file, where the fingerprint matters, or as one such
  change with `sudo` records and a fault; a truncated log, of which nothing is
  promised, is followed for two events.  The theorems on these modules have none of
  these bounds.  The audit log has lines of one id, an
  event-making one and another, so that a record may be cut; two inodes, so that
  they are used again.
- `dashboard`: two loads at a time, two severities, an answer of two rows and a
  table of three, so that the table outgrows the answer; two observation times for
  a row from a backlog; one entry of `errors`; one trouble (a change of `errors` or
  of the filter, a failed fetch) per behaviour, and none once the table has
  outgrown the answer.  The safety theorems have none of these bounds.
- In all of them `MaxCalls`, `MaxRecords`, `Horizon` and `MaxFaults` stop the
  environment, never a worker in mid-operation.

Fairness.  `ingest_workers`, `host` and `dashboard` need some.  `run()` calls
`collect_once` again and again, and a store call or a subprocess with a timeout returns, so a worker's
steps are weakly fair.  `journalctl` may fail any number of times, but not for
ever: its success is strongly fair for each journal.  Nothing makes a batch
survive a fault, so what a fault dropped is excepted.  In `host` the loop begins
passes, and a pass that has begun goes on, by weak fairness; nothing makes the
second worker begin one.  The loop's `Stat` and `Open` of the audit log are
strongly fair: the log may be unreadable any number of times, but not for ever.  In
`dashboard` the timer asks, answers come and a completed load is shown (weak
fairness of each, for a load in either slot); a fetch need not succeed, but
troubles are bounded; `PanelSettles` speaks of a table, an `errors` dict and a
filter that have come to rest.

## 4. Theorems

Of `DecisionRecord`, for every set of events, answers and legacy rows that the
assumptions admit (`DecisionRecordProofs`): type correctness, `RiskFloorHeld`,
`ReviewFlagExact`, `GraveStaysQueued`, `DecisionFinal`, and idempotence of the migration.  The
invariants are not inductive alone: the floor of a row that is stored depends on
that of the verdict in memory, and both have to survive `Migrate`, which lowers
advice.  `RowInv` therefore says of the verdict what it says of the row, that the
provider is called only for events severe enough, and that a demoted type is
medium and has nothing left to demote when decided locally.

Of `CallLimiter` (`CallLimiterProofs`): the three limits, for every window, limit,
cooldown and history, by an invariant that orders calls by number and time.

Of `AiBudget` (`AiBudgetProofs`), for any workers: type correctness, and where
reservations do not overlap (`[]OneAtATime`) `LedgerRemembers`, refinement of
`CallLimiter`, hence the three limits, and `RefusedJustly`.  The inductive invariant speaks of `Reach(w)`, the time the stored row must be good
for: that of the reservation under way, or of the next one.  It says that the
attempts kept are calls and contain all that a window ending there can hold, that
subjects remember every call still cooling down, and that the attempts a worker
has read are exactly the calls of its last day.  What a worker stores is right for
all others, for they look later than it did (`OthersLater`).  `ai_budget_race` shows
that the hypothesis is needed; a host with the service loop alone meets it
(`LoopIsAlone`).

Of `Ingest`, for any finite number of workers, services, records and faults
(`IngestProofs`): type correctness, `OneJudge`, `UndecidedInFlight`,
`AlarmsDistinct` and `CursorAccounted`.  All rest on `ShapeInv`: types, positions
that lie in the journal, an empty batch before a fetch, and that the event a worker
judges is stored already, which with the unique fingerprint makes it the only
judge.  `AlarmsDistinct` needs to know where events come from (`Sourced`): equal
evidence means the same journal record, or two incidents with the same
fingerprint.  `CursorAccounted` alone is not inductive, because a worker stores a
position it computed long ago; `CursorsAccounted` says the same of every `after`
and `found`.  That an accounted record stays so (`StaysAccounted`) has one case
for every way a batch shrinks.  `EventsOf` is `SelectSeq` written without
recursion, which the prover cannot unfold; `EventsOfAssumption` of `MCIngest` has
TLC compare the two on all batches of up to three records.

Of `Ingest` where passes do not overlap (`IngestOrderProofs`), for any workers,
records, thresholds and windows: `FailuresComeFirst`, `PollingIrrelevant`,
`BreakInsReported`, `BurstsReported` and `ScansReported`.  They have the form
`Spec /\ []OneAtATime => []P`, through faults and restarts: the loop,
`POST /api/collect` and `collect-once` may take turns, in any number of processes, and
a host with the loop alone is a case of it (`LoopIsAlone`).  With overlapping passes
`failures_after_success` and `burst_missed` refute two of them, so the hypothesis is
needed.  It gives every step a worker whose step it is (`SomeTurn`), next to whom the
others are idle and hold nothing (`Others`).  The rules query the whole table with a
lower bound in time and none above, and compare a count for equality; that this is
right has five reasons, which make up `OrderInv`:

- `Clocked`: a journal is in the order of its times.
- `InOrder`: no row lies beyond the stored cursor, and a batch holds its records in
  order, beyond the cursor it was fetched from and behind every row.  So the rows a
  rule sees are those up to its event; this gives `FailuresComeFirst`.  `ImpliedKept`
  is the consequence the others rest on: what the rules imply of a row next to the
  rows up to it (`Implied`) never changes again, for a later row lies behind it.
- `Founded`: every incident, stored or on its way, is implied by a row.
- `Drawn`: as long as nothing was dropped, what a correlated row implies is stored
  or on its way.  With `Founded` this is `PollingIrrelevant`, and for a login it is
  `BreakInsReported`.
- For `BurstsReported` and `ScansReported` a window that is full has to have been
  exactly full.  `WindowSlides`: from one row of a subject to the next a window gains
  one row, so its failures, or its ports, grow by one at most.  `Stretch` finds the
  first row of the stretch whose windows are full, by the least number of a set; the
  window before it was not full, or there was none, so its own is exactly full and
  the rule fired.

The parts of `OrderInv` were checked with TLC on the bounds of run `ingest` with
one worker, and with two that take turns, before they were proved.

Of `Snapshots`, for any items, states and finite or infinite set of workers
(`SnapshotsProofs`): type correctness and five invariants.

- `StoredExplained`.  The stored snapshot alone explains nothing of what a worker
  is about to store.  `Warranted` says the same of every `current`, and of every
  `previous` that a comparison will start from; a `Read` copies the explanation,
  `Save` turns a difference into a member of `todo` and a silent item into an
  explanation by its old value.  `Correlated` (what is being correlated has its
  row) is needed when a fault drops it.
- `RowsInOrder`.  An item that was left out counts as shown absent.  `Chronicled` ties `previous` and `current` to moments of the
  host in their order, through `todo` to `rows`.  For listeners, looked at first,
  this rests on `OneAtATime`.
- `PersistenceAlarmed`.  What the stored cursor has passed is in the table, will be
  found by no one, or is held by a worker that has stored its cursor (`Recorded`), and
  stays so under every step (`RecordedKept`).  `Collecting` says of a worker at each
  step of the journal where the records are that its pass is to know of: behind its
  mark or in the table before the fetch, fetched or in the table after it, and in the
  table once it compares.  So what a row is to know of is in the table when it is
  correlated (`Forewarned`), whatever other workers do.
- `BaselineOnce`.  `Founded`, while one worker works (`OneAtATime`): the stored snapshot
  is what a moment of the host may have shown, no earlier than any baseline and no
  later than what the worker has looked at since (`Anchored`), so a second baseline,
  which finds it empty, has a moment behind it at which nothing could be shown.
- `NewestRowCurrent`.  `Continued`, while one worker works, nothing fails and there
  was one baseline (`Calm`): nothing was left out of a snapshot, a worker compares with what is stored, a batch holds one
  change of an item, which ends in the stored state, and the rows lead from the
  newest row about an item to the stored state, or to the one before it while a
  change of the item waits (`Traced`).  A new row starts the path anew; a change that
  has a row already leads it on (`LeadsOn`), which is all that the missing row costs.
  The property bounds the path by `MaxEvents`, so `Traced` counts: a path to moment
  `m` has fewer than `m` states, as every comparison that found a change saw a later
  moment.  A second blind `Save` under the one baseline stores the same moment again,
  by `Anchored`.  TLC checked `Continued` on the bounds of run `host` first.

Of `AuditTail`, for any lines, inodes and workers (`AuditTailProofs`): type
correctness, `OffsetAccounted` and `ReportedOnce`.  `Sound` says of every position a worker
has read or is about to store what `OffsetAccounted` says of the stored one, the
latter counting the worker's own batch; that a rotation cannot make another file's
position look like one of the present file is `LogKept`, from the history `reset`.
`Orderly` is for one worker without a torn poll: the worker goes by the stored
position (`Steady`), what is in rows or about to be lies before it (`Reached`), and
so no line is in two rows or in a row and a batch (`Apart`).

Of `Dashboard`, for any loads, severities, limits and number of rows
(`DashboardProofs`): type correctness, `AnnouncedOnce` (a row that was announced is
not beyond `newestId`, which never decreases) and `NoAlertPassedOver` (an answer
to a load without filter contains, while the table fits, every row up to its
newest).

Assumptions: `SnapshotsAssumption`, `AuditTailAssumption`, `DashboardAssumption`,
`EventsAssumption`, `ConfigAssumption`, `RepliesAssumption`,
`LegacyAssumption`, `LimitsAssumption`, `RulesAssumption`, `IngestAssumption` and, of
`AiBudget` and of `Ingest`, `WorkersAssumption` (somebody collects); TLC
evaluates them in the runs above.

Only model-checked: `Collected`, `ChangesReported`, `LinesRead` and `PanelSettles`,
since liveness under fairness is beyond the prover.  Every invariant and every
action property of the passing runs is a theorem, those that need one worker at a time
under that hypothesis, not under that of a single worker.

## 5. Not modelled

- Of the service loop, `stop()` and the texts in `errors`; that `errors` is iterated
  while it changes is part of `Dashboard`.
- Of the dashboard, the summary counters, `setStatus` (a load after
  `update_status`, which `DecisionRecord` has), the explanation panel and rendering.
- Routing, static files and argument parsing: wrappers whose calls are workers and
  actions of the models.
- Configuration, read once from the environment; its bounds are assumptions.
- Regular expressions, hex decoding and procfs text: the models start from the
  parsed record.  `_event_for_ai` and prompts: pure rewriting of nested text, with no
  state to relate it to.  Usage metering.
- Of `_collect_audit`, the early return that leaves an old error standing: nothing in
  the repository says what `errors` should hold then.
- Clocks set back, and journals rotated under a cursor.

## 6. Plan

Every component with state of its own has its module; the parts above hold little
that a model checker reaches.  Every safety property is proved.  What is left: to
state `PollingIrrelevant` as the refinement of a sequential detector that takes the
journals record by record.
