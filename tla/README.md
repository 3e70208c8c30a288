# Verification of blackboardx

This directory holds TLA+ models of the blackboard library under `src/src/blackboard`,
TLC configurations that check them on small instances, and TLAPS proofs of the safety properties
of the store, of the stores over Postgres and MongoDB, of the processes over a store, the lanes,
the batch windows and the client. The models are
written from the code; the documentation is used only for what the code is meant to promise.

## The system

A *board* is one shared record: regions of two kinds, *levels* (lists of contributions) and
*premises* (one versioned value each), written by agents and numbered by one counter. A *run*
over a board has an idle limit and a wall-clock limit and closes once, as settled, expired or
aborted. Several processes may serve one board; what they share is the store.

| Part | State it keeps | Operations | Interacts with |
| --- | --- | --- | --- |
| Store (`_board.py`; over a database `_sqlite.py`, `_postgres.py`, `_mongodb.py`) | counter, changes, levels, premises, keys; the run row; one progress row an agent; the outbox | declare, append, set, delete; open, touch, close the run; declare_agent, mark_notified, acknowledge; unsent, mark_sent | called by every process; in memory each call is atomic, over a database it is several statements |
| Batch windows (`_control.py`) | a pending set, an armed window and its generation an agent; the clock's timers | arm, re-arm, cancel, close of a window | every step of `Control` that evaluates an agent; the clock |
| `Control` (`_control.py`) | its last sequence number, the agents it holds with cached cursors, its outcome, two timers, a delivery queue | write, set_premise, register_agent, ack, notify_due, relay, abort, timers | the store under its lock; callbacks and the transport without it |
| Creation (`_model.py`) | none | create_model, attach_model | builds a `Control`, opens premises, registers the roster |
| Sweep (`_control.py`) | none | close_expired, relay_unsent, on a thread or a schedule | the store; `Control.relay` |
| `HttpNotifier` (`delivery.py`) | a queue, a thread and a stopped flag a lane | to, a call of a lane, close of a lane or of the notifier | called by `Control._deliver`; the transport; `mark_sent` |
| Service and client (`server.py`, `wire.py`, `agent.py`) | none but a retry count | the eight operations over HTTP | `Control`, the reader |
| Clock, schema stamp, tools, conformance | timers; a version row; none; none | | |

What is hard here is not any single call but their order: a process may stop between any two
calls of the store; a write may land between another process's read and its decision; a timer
may fire after it was cancelled; a send may reach an agent and be reported failed; two threads
may close one thing. `PROJECT.json` lists these hazards with their lines and the property that
would catch each.

What makes each part correct:

- store: the counter numbers the writes without a gap and the two indices agree with it; a
  premise is replaced only by a write that names its version; a key writes once; the outbox holds
  exactly what is owed; cursors only rise; a closed run stays as it closed;
- control: no notification of an open run is lost; every notification that is out can be
  answered; caches are behind the store, never ahead; one outcome; a run that was opened closes;
- lanes: a notification is sent or reported, once, and marked only if it was sent; what a close
  leaves unanswered is what a call of the transport still keeps;
- the databases' stores: what the store promises, whatever statements of two processes interleave,
  roll back, are run again or are cut off;
- batch windows: what waits to be told has a timer that is not later than it is due, and a timer
  call that was overtaken does nothing;
- service and client: a call writes once, its answer is true of the record, pages fit together.

## The modules

| Module | Models | Checked by |
| --- | --- | --- |
| `BoardRecord` | what a store promises of the record: an append-only log with compare-and-set and idempotency keys | refined by `BoardStore` |
| `BoardStore` | `InMemoryStore`, one action an operation | `MCBoardStore` |
| `BoardStoreProofs` | theorems of `BoardStore` | TLAPS |
| `Control` | several processes over one `BoardStore` (`INSTANCE`) | `MCControl` |
| `ControlProofs` | theorems of `Control` | TLAPS |
| `BatchWindow` | what one process holds back from one agent, and the timers it armed | `MCBatchWindow` |
| `BatchWindowProofs` | theorems of `BatchWindow` | TLAPS |
| `Lane` | `HttpNotifier` and its lanes | `MCLane` |
| `LaneProofs` | theorems of `Lane` | TLAPS |
| `SharedTables` | the tables of one board, calls in progress, and what every store owes its callers | extended by the three engines; implements `BoardRecord` |
| `PostgresStore`, `MongoStore`, `SqliteStore` | each store's calls as the statements or documents its database orders | `MCStores` |
| `SharedTablesProofs` | lemmas about the tables that hold in whichever engine: what a write, a declaration, a deletion and an answer make of them | TLAPS, cited by the next two |
| `PostgresStoreProofs`, `MongoStoreProofs` | theorems of two of the engines | TLAPS |
| `BoardService` | what a request over HTTP is answered with | extended by `BoardClient`; over `BoardRecord` |
| `BoardClient` | `BoardClient`, `AsyncBoardClient` and the network | `MCBoardClient` |
| `BoardClientProofs` | theorems of `BoardClient` | TLAPS |

### BoardStore

A variable for each field of `_BoardState`, `_RunState` and `_AgentProgress`. The lock makes
every operation one step. An operation that raises or answers that it did nothing has no step:
its condition is a guard. `answers`, `sent`, `cleared` and the fields `expected` and `hearers` of a
change are history variables. `hearers` is the `notify` argument of the write. Contents and
instants are left out, and so is the page a read answers with.

### Control

`Controls` is the set of processes. `pc[c]` says what a process holds its lock for between two
calls to the store; a process with `pc[c] = Waiting` does not hold it.

| Code | Actions |
| --- | --- |
| `Control.__init__`, `create_model` | `Create`, `ReadStanding`, `OpenPremise`, `Created`, `CreationFails` |
| `write`, `set_premise` | `BeginWrite` (gate, `_who_hears`), `SequenceWrite` (the store's transaction), `NoteWrite` (`_note_region_change`, `_reach_the_rest`), `RefuseWrite` (conflict or admission), `CheckCompletion` |
| `register_agent` | `Register` |
| `notify_due`, `relay`, `_relay_by_address` | `NotifyDue`, `AdoptClosure`, `RelayRoster`, `RelayByAddress` |
| `_deliver` | `Deliver`, `DeliveryFails`, `MarkDelivered` |
| `ack` | `Ack` (the store, without the lock), `NoteAnswer` (the cache, under it) |
| `_idle_passed`, `_wall_clock_expired`, `abort`, `_close_locked` | `IdleSettles`, `AskPredicate`, `PredicateComplete`, `PredicateContinues`, `WallClockExpires`, `Abort`, then `Close` |
| `close_expired` | `SweepReads`, `SweepCloses` |

`flight` holds deliveries between the dispatch and the mark. A lane that marks its own sends is the
same delivery with a longer stay in `queued`. `served[c]` is history: when a call of the process
last ended with its push of the idle deadline (`CheckCompletion`), which is what its silence is
measured from.

### Lane

`handing` holds notifications taken under the lane's lock and not yet queued, which the code does
after releasing it. `closer` follows each call of a close: the stop of each lane (flag, then
`_STOP`), the first join, the event, the second join. `Outlasts` says whether a call of the
transport may last longer than `_REPORTING_GRACE`, which the default timeout of `HttpxTransport` allows.

### BatchWindow

One agent with an address or callback this process can use, which writes to no region. `agent` is
its `_AgentState` without the pending set; `life` counts its registrations here. `timers` are calls
the clock holds; a call that has begun moves to `calls`, where cancelling it no longer helps: it
waits for the lock, as a `threading.Timer` that has fired does.

| Code | Actions |
| --- | --- |
| `write`, `set_premise`, `_note_region_change` | `Write` |
| `_evaluate_dispatch_locked`, `_dispatch` | `Evaluate`, `Dispatch`, in every action that calls them |
| `register_agent` | `Register` |
| `notify_due`, `relay`, `_take_tail_locked` | `NotifyDue`, `Relay` |
| `ack` | `Answer` (the store), `NoteAnswer` (the cache) |
| the clock, `_close_window` | `Begin`, `CloseWindow` |
| `_close_locked` | `Close` |
| other processes over the store | `WriteElsewhere`, `NotifyElsewhere` |

### The stores over a database

`SharedTables` has the rows of one board, the calls in progress (`call`, `at`, `seen`) and the
answer a step gives (`told`). The engines differ in what a step is:

- `PostgresStore`: a statement of a transaction under read committed. It waits for rows another
  transaction has locked or inserted (`Wants`, `held`); what a transaction writes shows at its
  commit; a cycle of waits ends one of them.
- `MongoStore`: a transaction decides on a snapshot and commits, unless a document it changes was
  changed since (`stale`): then its work is run again. `close_run` is three updates of their own.
- `SqliteStore`: the lock makes the threads of a process take turns. Between processes each `SELECT`
  before the first writing statement is a step, and the rest of the call is one.

| Code | Postgres | Mongo | SQLite |
| --- | --- | --- | --- |
| `append`, `set` | `Require`, `AlreadyWritten`, `TakeSequence`, `UpdatePremise`, `InsertContribution`, `CommitWrite` | `Snapshot`, `RunAgain`, `CommitWrite` | `Require`, `AlreadyWritten`, `CompareVersion`, `NextNumber`, `Write` |
| `declare` | `OpenBoard`, `KindOf`, `InsertRegion`, `CommitDeclare` | `Snapshot`, `RunAgain`, `CommitDeclare` | `KindOf`, `InsertRegion` |
| `delete` | `EmptyTable`, `CommitDelete` | `Snapshot`, `RunAgain`, `CommitDelete` | `Delete` |
| `close_run` | `CloseRun`, `EmptyTable`, `CommitClose` | `CloseRun`, `ClearProgress`, `ClearOutbox` | `CloseRun` |
| `acknowledge` | `ReadProgress`, `CommitAck` | `Acknowledge` | `ReadProgress`, `RaiseProgress` |
| `open_run`, `declare_agent`, `mark_notified`, `mark_sent` | one step each, named alike in all three | | |

A call may be cut off at any of its steps (`ConnectionLost`, `Stops`). `overlapped` remembers that
calls have overlapped in a way their engine does not order: in Postgres a deletion beside any call,
in Mongo a deletion beside a declaration, in SQLite calls of two processes. No new call begins from
there. `RecordWhole`, `RetryIsRecognised`, `AckedWithinNotified` and `KeepsTheRecord` are silent
once it is set; `KeysAgree`, `OneCloses`, `ConflictIsFinal` and `OneFirstAnswer` are not. The last
two do not hold of every engine: each run names the engines it asks them of
(`ConflictIsFinalInOneSnapshot`, `OneFirstAnswerOfServers`), and what the others do is under
"Differences", as is what two SQLite processes do to one premise (`sqlite_versions`).

### BoardService and BoardClient

The record is the log `BoardRecord` promises. `Answers` is what a request may be answered with,
`Handle` what it does. A call of the client is a request, its attempts and, for a read without a
limit, its pages. `net` holds requests that have not arrived: one that timed out stays in it and
may arrive beside a later attempt (`Answered`), be carried out and answered in vain (`Unheard`), be
turned away on the way (`TurnedAway`), or never arrive. `SendAgain`, `GiveUp`, `ReadPage` and
`ReadAnswer` are what `_send` and the methods around it do with what comes back. A timeout is the
step that takes `NoReply` for an answer; the backoff is any delay.

## The runs

Runs that pass:

| Run | Question | Bounds | States |
| --- | --- | --- | --- |
| `store` | do the store's promises hold after any sequence of calls? | one region of either kind, one agent, one key, two declarations, two writes, one tick | 351,432 |
| `delivery` | is a notification lost, or told ahead of the store? | two processes (one with the transport), one agent, two writes, one crash, two deliveries under way | 940,577 |
| `closing` | does the run close once, for one reason, always, and as settled only after a silence? | two processes (one with a predicate), one premise, two writes, two ticks, one crash | 797,127 |
| `relay` | does every outbox row leave? | as `delivery`, one delivery under way | 251,564 |
| `engines` | does each database's store keep the store's promises between two processes? | each engine by itself, a level, a premise, an agent, a key, two callers, numbers up to 2, two openings of the run | 888,092 |
| `client` | does a call write once, and is its answer true? | one caller with two calls of two attempts, pages of one, two writes on the board, one key | 867,781 |
| `windows` | is what waits to be told told by its own window's end? | windows of 0, 1 and 2, one agent registered twice, two writes, four ticks | 394,769 |
| `lanes` | is every queued notification accounted for, once? | one lane closed by itself and by its notifier, three notifications, two attempts, calls of the transport that may outlast the grace | 102,157 |

`engines` explores each engine completely in two parts (`Topics`): about the record, with the run
and the agents as they are, and about the run and its agents, with plain writes to the level. No
statement of one part reads a row the other part's calls change, but for deletion, which is in both.
In `client` the second caller is the network: late requests of a call race its own later attempts,
and other writers write between its pages.

Why the bounds are enough for what they show. Two writes are the least that can be reordered,
covered by one notification, or numbered with a gap, and two processes the least that can disagree;
one crash separates any two steps. A third process or write adds repetitions of the same races.
Every property has a mutant of the modelled code that the same run rejects.

In `delivery` and `relay` no clock ticks and the run stays open, since a closed run owes nothing:
the steps of closing are covered by `closing`, where no agent is held because the unfinished set
does not decide who closes.

`Control` lets one call a process be between its last step under the lock and its push of the idle
deadline (`touching`): `BeginWrite` and `NoteAnswer` wait for it, which the code does not. It bounds
the calls under way; what a second one would add is a later push of the same deadline.

Deadlock is checked for the store. The processes and the lanes may stop for good (all crashed,
all closed), so their configurations say `CHECK_DEADLOCK FALSE`.

Runs that show a disagreement between the code and what it says of itself:

| Run | Shows |
| --- | --- |
| `creation` | two processes that create one board at once: one fails an assertion and aborts the run |
| `late_write` | a process that has not learnt that another closed the run lets a write through its gate (`GateRefusesClosed`) |
| `sqlite_versions` | two processes on one SQLite file name one version of a premise, and both are told that they wrote it |
| `long_board` | on a board longer than a page, a relay by address marks sent a row whose agent was never told: it looked on the first page only |

`PROJECT.json` quotes the statement each of them contradicts.

## Differences

Other places where the code does not do what it or its documentation says. Each was found with a
property of the modules; where a configuration is named, `tlc -config <it> <module>` shows it. These
configurations (`MCLaneLate`, `MCLaneGrace`, `MCControlRegions`, `MCControlSilence`,
`MCControlOwnCall`, `MCControlLandsLate`, `MCControlDeadline`, `MCStoresAnswers`,
`MCStoresConflict`, `MCBoardClientRefused`, `MCBatchWindowReturn`) belong to no run of
`PROJECT.json`; TLC finds each of them violated.

| What | Stated by |
| --- | --- |
| `_Lane.enqueue` checks `_stopped` under the lock and queues after it: a notification queued behind `_STOP` is neither sent nor reported (`delivery.py:471` against `:246-247`) | `NothingLeftQueued`, `MCLaneLate.cfg` of `MCLane` |
| `close` of a notifier returns while a lane is inside its transport with its queue unreported, when the call outlasts the grace (`delivery.py:406` against `:283-284`) | `NothingUnreported`, `MCLaneGrace.cfg` of `MCLane`; `CloseAccounts`, which holds, says that nothing else is left |
| a notification's range covers another process's write whose region it does not name (`_control.py:1660` against `docs/concepts/control.md:64`) | `NoRegionLost`, `MCControlRegions.cfg` of `MCControl` |
| a process settles on its own silence while another's write has pushed the store's deadline out (`_control.py:1784` against `docs/concepts/service.md:42`) | `SettlesOnSilence`, `MCControlSilence.cfg` of `MCControl` |
| a write that is sequenced and noted moves the idle timer only in `_check_completion`, after it has delivered and under a second hold of the lock; a timer that fires in between settles the run right after the write (`_control.py:1085-1088`, `:1806-1816` against `docs/guides/ending-a-run.md:22`, "A run ends on silence when nothing has happened for the idle limit"). The same holds of an acknowledgment | `NoCallSettledAway`, `MCControlOwnCall.cfg` of `MCControl`; `SettlesAfterCalls`, which holds, is about calls that have ended |
| a write whose gate was passed while the run was open is appended after another process has closed it: the gate and the append are under this process's lock, which the other does not take (`_control.py:1823` against `:1819-1822`, "This re-check under the lock is what makes the refusals race-free") | `NoWriteAfterClose`, `MCControlLandsLate.cfg` of `MCControl` |
| a replacement that calls `create_model` moves the deadline of the run it joins (`_control.py:885` against `docs/concepts/service.md:54`) | `DeadlineStands`, `MCControlDeadline.cfg` of `MCControl` |
| a keyed write that landed and whose answer was lost is sent again after the run closed, and refused: the gate comes before the key (`_control.py:1823`, `:1907` against `docs/guides/writing-an-agent.md:360-363`) | `RejectedIsNotWritten`, `MCBoardClientRefused.cfg` of `MCBoardClient` |
| two attempts of one keyed premise write at the same time: in Postgres the key is looked up before the counter's row is locked, so the second is told that it lost to the first (`_postgres.py:306` against `docs/concepts/storage.md:217`, "Two processes writing under one key are therefore safe") | `ConflictIsFinal`, `MCStoresConflict.cfg` of `MCStores` with `Engines = {"postgres"}` |
| the same between two processes on one SQLite file: both `SELECT`s come before the transaction that writes, so the key can be looked up before the other's write and the version compared after it (`_sqlite.py:353` against `docs/concepts/storage.md:217`) | `ConflictIsFinal`, `MCStoresConflict.cfg` of `MCStores` |
| two processes on one SQLite file that acknowledge one number are both told that they were the first: the `SELECT` runs before the `UPDATE` opens the transaction (`_sqlite.py:636-647` against its comment at `:633-634`, "The read and the write are one transaction, so the entry returned is the one this call raised and not one a concurrent caller left", and `docs/concepts/storage.md:265`) | `OneFirstAnswer`, `MCStoresAnswers.cfg` of `MCStores` |
| a close that Mongo carries out as three updates wipes the rows of a run opened between them (`_mongodb.py:515-537` against `docs/migrating.md:140-142`) | `ClearsOnlyItsOwn` of `SharedTables` |
| a declaration beside a deletion leaves a region without the board's counter, so no write can use it (`_postgres.py:739-741`, "declaring one opens the board") | `DeclaredMeansOpen` of `SharedTables` |
| `register_agent` starts `window_generation` again from zero, so a cancelled timer call that had begun meets the window of the agent's next registration under its own generation and sends that batch early (`_control.py:997` against `:1703-1705` and `docs/adr/0003-delivery-and-stale-timers.md:15`) | `StaleCallChangesNothing`, `MCBatchWindowReturn.cfg` of `MCBatchWindow` |
| a pending set that became moot is cleared and its window stays armed, so the next change is told at that window's instant, before its own is over (`_control.py:1568-1577`); and `_close_window` dispatches without asking whether the agent has answered everything, as `:1571` does, so a range may end before it starts | met while modelling `Evaluate` and `CloseWindow` |
| a keyed premise write that names a version the premise has yet to reach is told `conflict`, and a late attempt of the same call writes once others have raised the premise to it (`agent.py` sends the version it is given; against `docs/guides/writing-an-agent.md:308`, which answers a conflict by reading and deciding again). An agent that names a version it has read cannot meet it, and `Calls` has no other | met while proving `AnswersAreTrue` |
| every store reads its schema stamp and then writes it unconditionally, so of two releases that open one database at once the older may write its lower number last (`_sqlite.py:263-291`, `_postgres.py:266-297`, `_mongodb.py:212-232` against `docs/concepts/storage.md:203`, "never stamps a record with a lower schema number") | read, not modelled |

## Fairness

- `Swept` (closing): the clock ticks and something calls `close_expired` again and again, which is
  what `Sweep` or a scheduled job does. Nothing is assumed of the serving processes.
- `Relayed(c)` (relay): in a process that does not stop for good, calls that hold the lock return,
  `relay` is called again and again and gets the lock when others contend for it (strong fairness),
  and the transport does not fail for ever (strong fairness of the send).
- `Running` (lanes): the lane's thread runs on and a call of the transport returns or raises, as
  `HttpxTransport`'s timeout ensures.

- `Fairness` (client): a caller goes on, whatever came back or did not: `httpx`'s timeout ends every
  attempt. Nothing is assumed of the network or the service.
- `Running` (windows): the clock runs, a due timer call begins and gets the lock, and the process
  calls `notify_due` again and again, as a process that serves other processes' writes is to do.

`EveryRowLeaves` is checked where the agent is held by the process without a transport. It fails
once the relaying process holds the agent itself: a row that has become moot is then never marked
(`_control.py:1253-1259` dispatches nothing), and stays in `unsent` until the run closes.

## What is proved

`BoardStoreProofs` proves for every value of the constants, from the named assumptions of
`BoardStore` (disjoint names, natural limits):

| Theorem | Property | Argument |
| --- | --- | --- |
| `TypeCorrect` | `TypeOK` | inductive as it stands |
| `AnswersWithinTelling` | `AckedWithinNotified` | inductive with `TypeOK` |
| `IntentIsKept` | `OutboxKeepsIntent` | `OutboxInv` adds that the counter is the length of `changes` and that `sent` and `cleared` do not pass it, without which a new row could be born already marked |
| `KeysAreIdempotent` | `KeyWritesOnce` | `KeyInv` adds that `keys` answers with the number, region and key of a write that is there, and that every keyed write is in `keys`: only then does `Repeated` see every earlier use |
| `ProgressRises` | `ProgressOnlyRises` | step by step from `TypeOK` |
| `ClosedStaysClosed` | `OutcomeStands` | step by step from `TypeOK` |
| `RecordsAgree` | `RecordAgrees` | inductive with `TypeOK`; `MadeRecord` shows that a write adds one number to the writes made to its region, so versions count them |
| `StoreKeepsTheRecord` | `KeepsTheRecord` | the refinement `log <- Shown(changes)`: `RecordExtends` needs `RecordAgrees` (the version is the count) and `KeyInv` (an unused key is fresh) to map a write to a step of `BoardRecord` |

`LaneProofs` proves, from `LaneAssumption` (names that differ, at least one attempt):

| Theorem | Property | Argument |
| --- | --- | --- |
| `LaneTypeCorrect` | `TypeOK` | with `HoldsInv`: a busy thread holds a notification, and one in a backoff has an attempt left |
| `FatesAreOne` | `OneFate` | `FateInv`: a notification is in one place at most (in a caller's hands, in the queue and there once, held by the thread, sent, reported), which is what makes a report its only fate |
| `MarksAreSends` | `OnlySendsAreMarked` | `MarkInv` adds that a thread about to mark holds a notification that was sent |
| `ClosesAccount` | `CloseAccounts` | `AccountInv`: a notification the lane was called with is in a caller's hands, queued, held, sent or reported (`AccountOf`), and behind `_STOP` only late ones are queued (`BehindStop`), so a thread that has come to it leaves nothing else. A close that returns has owed no lane its `_STOP` since (`ClosersInv`), so each of its lanes has no thread, one that has ended, or one inside a call of the transport (`WhoReturns`), which is what `Left` names |

`ClosesAccount` assumes nothing of how long a call of the transport takes. That nothing at all is
left unreported (`NothingUnreported`) needs calls shorter than `_REPORTING_GRACE`, which the default
timeout of `HttpxTransport` does not give (`MCLaneGrace.cfg`, see "Differences").

`BatchWindowProofs` proves, from `WindowAssumption` (premises are regions, windows are naturals up
to the longest), for any regions, windows, clock, writes and registrations:

| Theorem | Property | Argument |
| --- | --- | --- |
| `WindowTypeCorrect` | `TypeOK` | inductive as it stands |
| `WindowsAreArmed` | `PendingIsArmed` | `ArmInv`: every timer call outstanding is of an earlier life or generation than the armed one, or is the armed one, so none can be taken for it within a life; what closes a window also empties what it was armed for |
| `WritesAreToldByDue` | `ToldByDue` | `KeptInv`: a write this process took in the agent's present life is told, or answered, or its region is pending and due no later than its own window; with `PendingIsArmed` no due write is left once no due call is outstanding |
| `OwnStaleCallsAreHarmless` | `OwnStaleCallChangesNothing` | `ArmInv`: within a life a generation names one window, which is what fails across a registration (see "Differences") |

`ControlProofs` proves, from `ControlAssumption` (regions, declarations, positive limits and page)
and `NamesAssumption` (names of one kind are not names of another, as `BoardStore` assumes), for any
number of processes, agents, regions, writes, ticks and crashes:

| Theorem | Property | Argument |
| --- | --- | --- |
| `ControlTypeCorrect` | `TypeOK` | `TypeInv` adds that the rows of the outbox are writes of the board, so the last of them is a number |
| `CachesStayBehind` | `CacheNeverAhead` | `Behind`: each process's last number and cached cursors, each answer still to be noted, and the end of each delivery are behind the store's columns, which only rise while the run is open; a process learns them only from the store |
| `NotificationsStayAnswerable` | `EveryNotificationAnswerable` | `Behind` too: `notified` is raised in the step that queues a delivery, never after |
| `OneOutcomeForAll` | `OneOutcome` | `OutcomeInv`: a process's outcome is none or the store's; only an open run takes one, and it keeps it |
| `NothingIsLost` | `NoNotificationLost` | `Lossless`: who is held or listed was declared (`Declared`); what a write read of its hearers stands until it notes them (`HearersStand`), so a change names only agents it wakes (`HearersWake`); a delivery starts no later than its agent's answer, and counts as sent only once received (`DeliveriesCover`). Hence a row that a mark takes lies in a range its agent received |
| `SettlesInSilence` | `SettlesAfterCalls` | `SilenceInv`: an armed idle timer runs the whole limit from the last call that ended (`Counts`), and a predicate is being asked, and a close as settled under way, only in a process whose timer is past (`Silent`). `StepPushes` shows that every call that ends moves the timer on, `StepMoves` that a step which moves it withdraws both |
| `ProcessesAgreeOnTheRecord` | `RecordAgrees` | `RecordInv` is `BoardStore`'s: `ProcessesOnlyWrite` shows that a step of any process is a write of the store under a fresh number, or leaves the record alone, so `BoardStore`'s own lemmas (`Board`, an instance of its proofs) apply |
| `ProcessesKeepTheRecord` | `KeepsTheRecord` | the same lemmas: many processes over one store implement `BoardRecord` |
| `ProcessesKeepIntent` | `OutboxKeepsIntent` | `IntentInv`, with `Within`: no process has read past the counter and no delivery tells beyond it, so no mark can take a row that is not written yet (`ProcessesOnlySend`) |
| `ProcessesTellBeforeAnswers` | `AckedWithinNotified` | `ProcessesOnlyTell`: an agent's row is made, told, answered within what it was told, or wiped |
| `ProcessesRaiseProgress` | `ProgressOnlyRises` | `ProcessesOnlyTell`, each case of which raises or wipes |
| `ProcessesKeepOutcome` | `OutcomeStands` | `ClosedOutcomeStep`: of the closes that race only the first finds the run open |

The last six are the store's promises over everything the processes do to it, crashes and late
starts included; `BoardStoreProofs` has them of any store calls in any order. With
`ControlTypeCorrect` and `SettlesInSilence` they assume nothing more. The others assume
`~ LateStart`, that no process is created once the run has closed: closing clears the cursors, so
over a run opened again a process of the first one would know more than the store, and an outcome
the store no longer has. `NothingIsLost` also assumes `MaxSequence <= PageSize`, that the board fits on one page, without which it is false
(`long_board`).

`BoardClientProofs` proves, from `AttemptsAtLeastOne` and `PagesHoldSomething`, for any callers,
calls, attempts, keys, regions and any network:

| Theorem | Property | Argument |
| --- | --- | --- |
| `ClientTypeCorrect` | `TypeOK` | `TypeInv` adds that what is asked and what is on the way is a request that a call builds, of a call that was made |
| `CallsWriteOnce` | `AtMostOnce` | `OnceInv`: what is on the way for a call has the call's key and operation (`OneRequest`), and is there once without a key (`SentOnce`); what a call has written carries its key, and what is then still on the way for it has one (`WrittenUnderKey`). The service writes only what has no key or a key that is not in the log (`OnlyFreshWrites`), so a second request of the call is answered with the first's number or refused |
| `AnswersStayTrue` | `AnswersAreTrue` | `AnswerInv` states what each answer claims where it is kept, on its way to the caller (`ReplyTrue`) and with it (`ToldTrue`). `Stand` says which claims a step leaves standing: an entry stays (`Made`, `Known`); a write that lost names a version that is past, so no late attempt of it is accepted (`Lost`); one that was refused without a key has no attempt left (`TurnedDown`). What is asked is sensible when asked and stays so (`AskedInv`), which is why an acknowledgment is never unknown |
| `PagesStayWhole` | `PagesAreWhole` | `PagesInv`: what a read has found lists everything before the page it asks for (`Lists`, `Stretch`). A page is one stretch of the record, to its last entry when more is left and to the end of the record otherwise (`PageIsStretch`), and what is written later comes behind every stretch (`StretchStands`) |

`SharedTablesProofs` has what the three engines' proofs share. `RecordInv` says of the tables what
`RecordWhole` and the key index promise, `CounterInv` that the counter's row is one past the writes,
`LandedInv` that what an earlier attempt of a call has written is still there. `WriteKeepsRecord` and
`WriteExtendsLog` show that one new row, numbered by the counter and fresh of key, keeps them and is
a step of `BoardRecord`.

At its end are the theorems of `SqliteStore` (its instance `Sqlite`), for any number of threads and
processes:

| Theorem | Property | Argument |
| --- | --- | --- |
| `SqliteTypeCorrect` | `TypeOK` | `SqliteTypeInv` adds the stages of each call and that the record has a last number (`SqliteLast`), which is what the next one is read from; of every interleaving of processes |
| `SqliteRecordWhole` | `RecordWhole` | `SqliteOrdered`: while no two processes are in a call one caller at most is (`SqliteTurn`), and what its statements found is so when the next one runs (`SqliteFound`), because `SqliteSteps` shows every other step to leave the record alone |
| `SqliteOneWinner` | `OneWinner` | `RecordInvGivesOneWinner`: a premise has as many rows as versions and every version has one, so none has two. Of one process only: across processes it is false (`sqlite_versions`) |
| `SqliteAnswersWithinTelling` | `AckedWithinNotified` | `SqliteFound` between the read of an agent's row and its update: what marks a notification meanwhile only raises how far the agent was told |
| `SqliteKeysAgree` | `KeysAgree` | `SqliteUnique`: no key and no number is on two rows, of every interleaving of processes, because the insertion of a second one fails |
| `SqliteRetryIsRecognised`, `SqliteConflictIsFinal` | `RetryIsRecognised`, `LosesToItself` | `SqliteFound`: a key that was not there when it was looked up is not there when the version is compared, and the row of one that has landed is found. The second is stated of one process's threads; across processes it is false (`MCStoresConflict.cfg`) |
| `SqliteKeepsTheRecord` | `KeepsTheRecord` | the refinement of `BoardRecord` |

`MongoStoreProofs` proves, from the assumptions of `SharedTables`, for any callers, regions, keys,
agents and numbers, with aborts, reruns and lost connections at any step:

| Theorem | Property | Argument |
| --- | --- | --- |
| `MongoTypeCorrect` | `TypeOK` | `TypeInv` adds the stages of each operation and what each has seen |
| `MongoRecordWhole` | `RecordWhole` | `OrderedInv`: `SnapshotsHold`, what a transaction decided on its snapshot still holds when it commits unless a document it changes is stale. Every write changes the counter's document, so of two that overlap one is stale |
| `MongoOneWinner` | `OneWinner` | `RecordInvGivesOneWinner` as over SQLite, but of every process: only a deletion beside a declaration is set aside |
| `MongoOneCloses` | `OneCloses` | `ClosedInv`: a caller that won closed an era that is open no longer, whatever rows it has still to remove |
| `MongoAnswersWithinTelling` | `AckedWithinNotified` | `AnsweredInv`: `find_one_and_update` compares and raises in one step |
| `MongoKeysAgree` | `KeysAgree` | `KeysInv`, which holds beside a deletion too: a key is on one row at most (`OneRowPerKey`), and what a transaction's snapshot showed of its key stands as long as none of the documents it changes is stale (`KeyStands`) |
| `MongoConflictIsFinal` | `ConflictIsFinal` | step by step: the answer is decided on one snapshot, the key before the version |
| `MongoRetryIsRecognised` | `RetryIsRecognised` | `SnapshotsHold`, and the row of a write that has landed is found |
| `MongoOneFirstAnswer` | `OneFirstAnswer` | step by step: the update that raises the row returns it as it stood |
| `MongoKeepsTheRecord` | `KeepsTheRecord` | the refinement of `BoardRecord`: a commit of a write is a step of it, of a deletion a clear, anything else a stutter |

`PostgresStoreProofs` proves the same of `PostgresStore`, with statements that wait, roll back,
are a deadlock's victims or are cut off:

| Theorem | Property | Argument |
| --- | --- | --- |
| `PostgresTypeCorrect` | `TypeOK` | `TypeInv` as above, and that what is held are rows |
| `PostgresRecordWhole` | `RecordWhole` | `LocksInv`: no row is held by two calls. `Found`, a clause for each call: what its statements found stands, because the rows whose change would undo it are held (the counter's from the number to the commit, the premise's from its comparison, the key's from its insertion) |
| `PostgresOneWinner` | `OneWinner` | as for Mongo, with a deletion beside any call set aside |
| `PostgresOneCloses` | `OneCloses` | `ClosersHold`: the caller whose update matched holds the run's row until it commits |
| `PostgresAnswersWithinTelling` | `AckedWithinNotified` | the agent's row is read `FOR UPDATE`, so `Found` gives the comparison at the commit |
| `PostgresKeysAgree` | `KeysAgree` | `RowsInv`, which holds beside a deletion too: a key is on one row at most (`OneRowPerKey`), and from its insertion to the commit its row is held and nobody else's (`KeyStands`); the insertion of a key in use waits for its row and is not told that it wrote |
| `PostgresRetryIsRecognised` | `RetryIsRecognised` | `Found`: the row of a write that has landed is there when its key is looked up, before any lock |
| `PostgresOneFirstAnswer` | `OneFirstAnswer` | `RowsInv`: the row read `FOR UPDATE` is held, so neither an answer nor a deletion changes it before the commit that raises it |
| `PostgresKeepsTheRecord` | `KeepsTheRecord` | the refinement of `BoardRecord` |

Each engine's invariant has its ordered part under `~ overlapped`, as most of the properties do, and
the proof that `overlapped` is set in the step that leaves it (`Apart`, `Alone` and `SqliteTurn`: no
deletion runs beside a declaration, no deletion beside any call, no call beside another process's)
is part of the induction. What `KeysAgree`, `ConflictIsFinal` and `OneFirstAnswer` need holds without
it (`KeysInv`, `RowsInv`, `SqliteUnique`).

Each safety property that a passing run checks is stated by a theorem, but for
`ConflictIsFinalInOneSnapshot` and `OneFirstAnswerOfServers`, which are of the engines' common run:
`MongoConflictIsFinal`, `MongoOneFirstAnswer` and `PostgresOneFirstAnswer` prove what they say of
each. Liveness under fairness is out of the prover's reach and stays with TLC: `EveryRunCloses`,
`EveryRowLeaves`, `EveryQueuedIsAnswered`, `EveryWriteIsTold`, `EveryCallReturns`.

## Not modelled

- In `Control`, batch windows: they are zero there, so a pending set is dispatched or cleared where
  it is filled. `BatchWindow` has them, for one agent, without the delivery that follows.
- In `Control`, admission, permissions and idempotency keys, which refuse or answer before a write
  changes anything. They are in `BoardService`, the keys in every store too.
- `Control.declare` while the run is under way, and the race of two processes over one undeclared
  region.
- `attach_model`, which is `Create` without opening premises, and validation of arguments.
- Boards longer than one page of `_TAIL` in the runs of `Control` that pass (`PageSize` is a constant
  for it): a page of one change is `long_board`'s subject.
- In the stores over a database: contents, writers, instants, deadlines (so `touch_run`), what an
  agent declares, paged reads, and the columns and indexes added to an older database.
- The schema stamp (`_schema.py`): one comparison of two numbers and an unconditional write; what
  reading it shows is under "Differences".
- In the service: `read_regions`, `read_premise`, and requests `BoardClient` cannot build.
- The tools for model providers, which describe and render and keep no state, and the conformance
  suite, which is test code for adapters.

## Plan

Done: `BoardRecord`, `BoardStore`, `Control`, `Lane`, `BatchWindow`, the three engines, the service
and its client; proofs of every safety property of `BoardStore`, `Lane`, `BatchWindow` and
`Control` that a passing run checks, of the three engines, and of the client; the store's
promises over `Control`.

Next, in this order:

1. Two releases over one database: the schema stamp with the calls that check it once.
2. `Control` with batch windows that are not zero, over `BatchWindow` for every agent.
3. The order of deletion against every other call in each engine, which `overlapped` sets aside.
