# mp-collector and monitoring-platform in TLA+

The repository holds two services and a shared crate:

* **monitoring-platform** (`src/`), the *receiver*: takes OTLP logs over HTTP, stores
  them in SQLite, answers queries and serves pages to signed-in users;
* **mp-collector** (`crates/mp-collector`), the *collector*: runs on a device whose clock may be
  wrong after boot, takes OTLP logs from the applications on it, holds them until the clock is
  good, corrects their timestamps and forwards them to a receiver;
* **mp-host** (`crates/mp-host`): clock readings and unix sockets, used by both.

This directory models what is concurrent, persistent or fault-tolerant in them. The first part of
this file is the inventory of the system and of what is hard in it, the second the models and what
they show, the third what is not modelled, and why.

## 1. Inventory

### 1.1 Collector

| Part | State it keeps | Operations | Interacts with |
|---|---|---|---|
| HTTP receipt (`receive.rs`, `peer.rs`, `correct.rs` first pass) | none | decode a batch, resolve each stamp against a snapshot of the epoch table, `try_send` to the inbox; 503 when it is full | reads the watch channel of the clock task, fills the inbox |
| Clock task (`runtime.rs`, `sync.rs`, `stepwatch.rs`) | epoch table, step count, `sync_source`, sticky `ever_synchronized`, streak of good readings, the step watch (lost after an error) | `on_step`, `on_poll` (1 Hz, every 60th tick once settled), `persist` | publishes a snapshot on the watch channel, writes `epochs.json` |
| Offset history (`epoch.rs`, `state.rs`, `journal.rs`) | the ordered list of (boottime, offset); the snapshot on disk, keyed by boot id | `with`, `from_epochs`, `disagrees_with`, `resolve`; `load`, `save`; reconstruction from journald | start-up takes the snapshot, else the journal, else one reading |
| Flush task (`runtime.rs`) | inbox end, buffer, spool, outbox, hold and retry deadlines, dirty flag of the spool | one `select!` loop: receive and spill, tick, health event, clock change; each followed by a cycle: decide, correct everything with one offset, shed, deliver | consumes the inbox, reads the watch channel, calls the receiver |
| Buffer (`buffer.rs`) | queue bounded by records and bytes | `push` evicts the oldest, `drain` | flush task |
| Spool (`spool.rs`) | files `<boot>/<seq>.pb` | `open` resumes the sequence, `write`, `read_all` (own boot first), `remove`, `retire_other_boots` | flush task; survives a process, and a boot |
| Forwarder (`forward.rs`, `retry.rs`) | one kept connection | `send` with one timeout for connect and exchange | the receiver |
| Life cycle (`main.rs`) | the two task handles | start, graceful shutdown, abort the clock task, wait ten seconds for the drain | service manager |

### 1.2 Receiver

| Part | State it keeps | Operations | Interacts with |
|---|---|---|---|
| Ingest (`api/ingest.rs`, `api/compress.rs`, `otlp/*`) | none | authenticate, decompress, decode, convert, hand to the writer and await its answer | store writer |
| Store writer (`store/write.rs`, `store/series.rs`, `content_id.rs`) | one connection, a queue of 64 batches | a batch in one transaction, `INSERT OR IGNORE` by content hash, series folded only for rows inserted; drains on close, then checkpoints the WAL | ingest handlers, `main` at shutdown |
| Schema (`store/schema.rs`) | `user_version` and the tables | all pending migrations in one transaction; refuses a newer major | the service and most commands, each of which migrates what it opens |
| Boot gate (`clock.rs`) | streak of good readings, polls left | poll until the clock is good or give up | the service manager, before each start of the service (`ExecStartPre`) |
| Sessions, passkeys, login tokens, users (`auth.rs`, `store/*`, `web/*`) | tables of the database, ceremonies in memory (bounded) | sign in by passkey or one-time token, list, revoke, add and delete passkeys, delete users, expiry | browser, command line on the same database |
| API keys (`store/keys.rs`, `api/auth.rs`) | table of the database | create, revoke, check per request | the page of the keys, the command line, ingest |
| Queries (`store/read.rs`, `api/query.rs`) | none | one page of rows with a cursor, the values a filter may take, the extent of the data, buckets and series of a chart | database, one connection per request |
| Explorer (`web/mod.rs`, `web/svg.rs`, `web/html.rs`) | none: the view is the URL | window, facets, charts and table of one view; links to older rows, to neighbouring windows, to zones of a plot; legend | the queries, statement by statement |

### 1.3 What is hard

The collector acknowledges a batch before it is safe anywhere but in memory, and then moves it
through four places (inbox, buffer or spool, outbox, receiver) while the process can be stopped,
killed or restarted, the machine rebooted, the clock stepped and each file operation fail. What must
survive all that: order per boot, no loss that is not counted, a correction that is computed once,
and never with the offset of another boot. Around it: two tasks that share a watch channel and end
each other when one is gone, deadlines (hold, backoff, send timeout), and a cached "is there
anything on disk".

The receiver's hard parts are a writer task that must not acknowledge what is not committed, a
deduplication that makes the collector's repeats harmless, account operations that span several
transactions on several connections, and migrations that several processes of several releases may
run on one file. Between the two services there is a kept connection behind a proxy, on which the
answer to one request must never pass for the answer to the next. The pages keep all of their state
in the URL and read the database in several statements: what is hard there is that a sequence of
links neither repeats nor skips a row, and that what is drawn is what is said of it.

`PROJECT.json` lists each hazard at its line with the properties that cover it.

## 2. The models

### 2.1 Modules

| Module | What it is |
|---|---|
| `CollectorDelivery` | the flush task with everything it owns, the inbox, and the life of process and machine around it |
| `DeliveryContract` | what an application is promised about a batch; `CollectorDelivery` implements it (`KeepsContract`) |
| `CollectorDeliveryProofs` | theorems about `CollectorDelivery`: types, no foreign offset, nothing lost, and that it implements `DeliveryContract` |
| `CollectorOrderProofs` | theorems: arrival order, shedding order, identical repeats |
| `OffsetTable` | the epoch table, the journal's reconstruction of it and `resolve`, as pure functions |
| `Correction` | the two passes over the times of a record, over `OffsetTable`, and which one the receiver keeps; pure functions too |
| `ClockTask` | the clock task, over `Correction`, on a machine whose clock steps |
| `ClockTaskProofs` | theorems about `ClockTask`: the table, the disk, and the times kept of records |
| `Exchange` | one batch after another from the collector's ingest over `Forwarder` to the receiver's guard, handler and store, with the keys |
| `ExchangeProofs` | theorems about `Exchange` |
| `StoreWriter` | the receiver's ingest handlers, writer task and tables |
| `StoreWriterProofs` | theorems about `StoreWriter` |
| `ContentId` | the bytes that identify a measurement and a series, as pure functions for any width of a number and any depth of nesting |
| `BootGate` | the poll loop of the clock gate, as pure functions |
| `Schema` | versions, the migrations as their statements, and what SQLite does on each; pure functions |
| `Migrations` | the processes that open, migrate and write one database, behind `BootGate`, over `Schema` |
| `MigrationsProofs` | theorems: the gate, the schema and its versions, the rows, what an admitted release may write |
| `Accounts` | users, passkeys, sessions, one-time tokens and passkey prompts, under the handlers of the pages and the commands |
| `AccountsProofs` | theorems about `Accounts` |
| `Credentials` | the three kinds of credential, printed, parsed, hashed and compared; pure functions |
| `OneTimeUse` | what is promised of a thing that works once; tokens and challenges of `Accounts` implement it |
| `ReadQueries` | the statements of `store/read.rs`, as functions of the database |
| `Plot` | the geometry of the two plots of `web/svg.rs`: ticks, labels, lines, names, links; pure functions |
| `Explorer` | the measurement pages and the JSON API over `ReadQueries` and `Plot`, under the writer's commits |
| `ExplorerProofs` | theorems about `Explorer`: what a page has read, its windows, zones, offers and lists |
| `MCDelivery`, `MCClock`, `MCExchange`, `MCStore`, `MCAccounts`, `MCExplorer` | values of the constants for TLC |

Operators named in a comment "Mutation of ..." are wrong versions of the definition that follows
them. No specification uses them; `PROJECT.json` says which property each one breaks, as the
evidence that the property watches that line of the code.

#### CollectorDelivery

A batch is the number of its arrival. Of its content only the correction it leaves with is kept:
which boot's offset, after how many steps, or none (`mark`).

| Variable | In the code |
|---|---|
| `disk` | files of `<state_dir>/spool/<boot>/<seq>.pb`; `intact` is false after a torn write |
| `inbox` | the channel from `Handle::accept` to `FlushTask` |
| `buffer`, `spilling`, `nextSeq`, `spoolDirty`, `holding`, `outbox` | fields of `InFlight`; `spilling` is what `push` returned and `receive` still has to write |
| `retry` | the deadline `Backoff` sets |
| `clock` | what the watch channel shows, and whether its sender exists |
| `pc`, `final`, `frozen`, `todo`, `attempt` | where `FlushTask::run` and `cycle` are, with their locals |
| `bornIn`, `received`, `shed` | history: the boot that accepted each batch, what the receiver got, what was counted as shed |

`Receive`, `Wake`, `EmitHealth` and `Break` are the arms of the `select!`. `Decide`, `ReadSpool`,
`ShipSpooled`, `ShipBuffer`, `Rest`, `SendSucceeds`, `SendFails` and `AnswerIsLost` are one cycle in
the order of the code. The cycle is cut there because a kill may fall between any two of its file
operations and sends, and the other task may change the watch in between. `Accept` runs on another
thread. `Start`, `Shutdown`, `AbortClock`, `MainExits` and `MainGivesUp` are `serve`; `Crash` and
`PowerLoss` may come at any moment. `Faults` names the file operations that may fail.

#### OffsetTable and ClockTask

`OffsetTable` has no state. `from_epochs` and `journal::epochs` walk a list and keep the first
element of every run; `PicksRuns` says which indices such a walk keeps, so that no recursion is
needed and the proofs can speak of it. `Resolve` returns label, boottime and spread, as `resolve`
does.

In `ClockTask`, `now`, `offset` and `boot` are the machine's clocks; `truth` and `slept` record what the
offset was at every moment, and how long the machine had been suspended by then: `now` is `CLOCK_BOOTTIME`,
and `Monotonic` takes the sleep from it. `fd` is the state of the timerfd: a step, or a resume, cancels an
armed timer, and does nothing where none is armed. `initial_table` is two actions. `FirstReading` is its first
line, and `InitialTable` the rest: the table comes from the snapshot, or, where that is of another boot or
cannot be read or parsed, from the journal, or from the one reading. `Entries` are what journald may have
stamped, each true to its moment; `Imported` is what `journal::epochs` makes of them with one present
difference of the two clocks, and `imported` remembers which difference that was. `Arm` is the creation of the
watch, `Notice` the read of the timer with its re-arming, `OnStep`, `Persist`, `Tick` and `Poll` the rest of
`run`. `TimePasses`, `ClockSteps` and `Sleeps` interleave with all of them.

`CollectorDelivery` sees the clock task through two actions, `Release` and `ClockStep`. It keeps the
sticky verdict only: the clock task sets it wherever it shows a good source.

#### StoreWriter

| Variable | In the code |
|---|---|
| `handler` | the futures of `POST /v1/logs`: reading the body, awaiting room in the channel, awaiting the reply |
| `queue` | the channel of `WriteRequest`s |
| `wpc`, `request`, `at`, `added`, `deltas`, `result` | the writer thread in `insert_batch`: the record it is at, and its open transaction |
| `rows`, `series` | the two tables as committed |
| `wal` | the states committed since the last checkpoint, which a power loss may go back to |
| `acked`, `failed` | history: batches answered 200 before any power loss, and batches whose write failed or that died with a process |

`InsertNext` is one turn of the loop over measurements, `Commit` the series upsert with the commit,
`Fails` any error of the transaction, `Reply` the reply with the handler's answer. `Disconnect` drops
a handler's future at any await. `Terminate`, `DropWriter` and `Exit` are the end of `serve`. A
record is its content: two equal records have the same id. That `content_id` makes this so is
`IdsFollowContent`, over `ContentId`: there an id is the bytes that are hashed. Tags, lengths, numbers and
strings are all made of the same bytes, so that nothing but the layout can tell two contents apart. A number
has `WORD` bytes (8 in the code), and values are nested at most `Depth` deep, a bound that no proof depends on.
A measurement is the place of its record in the batch (`Measurements`), so `at`, the last place the
writer has been through, is all its loop needs to remember. `Upsert` adds contributions to a map, as
`accumulate` does to the transaction's and `upsert` to the table.

#### Accounts

| Variable | In the code |
|---|---|
| `users`, `passkeys`, `tokens`, `sessions` | the tables `web_user`, `web_passkey`, `web_login_token`, `web_session`, by id, with what decides a sign-in |
| `ceremonies` | both sets of `Ceremonies`: the user who is registering, or nobody for a sign-in |
| `request` | per web request or command: the step it is at, whose session the guard found, what it is about, the reading of the clock it uses |
| `up`, `lifetime`, `capped` | the process, its session lifetime, whether its `cap_lifetimes` went through |
| `made` | how many ids of each kind were drawn; an id is the number of its drawing |
| `redeemed`, `answered` | history: how often a token signed somebody in, or a challenge was answered well |

Each action is one transaction, or one turn at the lock of the ceremonies, and a handler with several
is several actions, with everything else in between: `InsertUser` and `Issue`, `Count` and `Delete`,
`Login` (its sweep) and `Redeem`, `PasskeyLogin`, `Establish` (its sweep) and `InsertSession`,
`FinishRegistration` and `InsertPasskey`. `Submit` is the guard with the form behind it: whatever the
browser of that user ever saw, and ids it never saw. `Fails` ends a request at any of its steps, as an
error or a client that leaves does. The commands of `main.rs` share `InsertUser`, `Issue` and `Delete`
without the guard and without `Count`.

A credential is its id here and in `Exchange`. `Credentials` is what that rests on: `auth.rs` with the places
where one is presented, a header, a cookie, a form. `CredentialsOpenTheirOwn` takes every printed token of every
kind, whole or with one character changed, added or lost, against a row made for any kind: it opens the row
exactly when it is the string printed for it. Only blanks around it are forgiven, and not in a cookie.
The bytes drawn and the texts presented are constants: the theorem is for all of them.

#### Exchange

| Variable | In the code |
|---|---|
| `outbox`, `attempt`, `live` | the queue of the flush task; the locals of `Forwarder::send`; `Forwarder.live` |
| `client`, `server` | the two ends of a connection: the collector's `Conn` with its pump, and the proxy or receiver; `lost` is an end that takes everything and answers nothing |
| `wire`, `handler`, `reply` | the request on its way, being handled, and its answer on its way |
| `up`, `clear` | the receiver runs, the proxy reaches it |
| `issued`, `keys` | the table `api_key`, and what was ever in it |
| `stored`, `delivered`, `offered` | what the receiver committed; history: what `send` returned Ok for, what applications posted |

A post is a record of what either end tests of it (`Refusal`, in the order of both handlers), so the
same operator says what the collector takes and what the receiver takes; `Request` is the form in
which it is sent on: inflated, corrected, uncompressed. `TakeLive`, `Connect`, `SendRequest`,
`Succeed`, `Refused`, `Broken` and `Timeout` are `send`; `Notice` is the pump that sees the peer's
close. `Guard`, `Check`, `Write`, `Answer` are one request at the receiver, with everything else in
between: a key's row is read in `Guard` only. `Reap`, `Stall`, `Crash`, `Answer` with an announced
close and an early `Timeout` are the faults, and `MaxFaults` bounds them together.

#### BootGate, Schema and Migrations

`Schema` holds each entry of `MIGRATIONS` as the sequence of its statements, and `Run` what SQLite
does on one: which are refused, what a dropped parent takes with it while foreign keys are on, what is
checked at once and what at commit; `execute_batch` stops at the first that is refused. A table has columns (required, nullable or defaulted), a key,
references and rows; types are left out. `Fresh` is a new database at each version.

`Migrations` runs several openers on it. `Open`, `Refuse`, `Begin`, `Settle`, `Lock`, `Migrate`,
`CommitMigration` are `open_write` and `migrate_with` in their order: the version is read before the
transaction begins, and the transaction takes its lock at its first statement only. `Write` is one
transaction of what a release inserts, for every release there was, so that old rows go through new
migrations; `Backfill` is what 3.2 and 3.3 did beside their migrations. Every `Open` is of any release in
circulation, so a newer or an older one may run beside the others; `Exit` is the end or the kill of a
process at any line. What a process found when it was let in (`found`) is history, as is `stale`: a migration
was committed on a database that neither was what it had read nor is what it leads to. The opener in `Gated`
passes `Gate` and `Poll`, which is `BootGate`, before each `Open`.

#### ReadQueries, Plot and Explorer

| Variable of `Explorer` | In the code |
|---|---|
| `db` | the tables `series` and `measurement`; the writer adds rows at any moment |
| `now` | the receiver's clock |
| `path`, `url` | the request: its page and parameters. `view` is `parse_explore` of them |
| `stage`, `got` | which statement of `gather` is next, and `ExploreData` as far as it was read |
| `trail` | history: the rows listed from page to page, and those a reader was owed at first |

An operator of `ReadQueries` is one statement, on one state of the database. `ReadWindow`,
`ReadFacets`, `ReadTimeline`, `ReadCharts` and `ReadRows` are `gather`, one statement or one group of
them after another, with commits in between. The other actions are what a reader may do next: the
controls of the form (`Form` is what the page shows in them, not what the URL said), `OlderPage`,
`Step`, `OpenChart`, `TapZone`, `ToggleSeries`. `List` and `NextPage` are the JSON API, whose page is one
statement and whose limits are its own.

`Plot` computes in hundredths of a unit where the code has floating point, and in whole
nanoseconds and buckets where it has those. A label is the value it states and its length, not its
characters.

### 2.2 Runs that pass

| Run | Question | Bounds |
|---|---|---|
| `delivery_safety` | is order, accounting and the contract kept when no file operation fails? | 4 batches, buffer and outbox of 2, inbox of 1, two starts, two boots, torn files |
| `delivery_faults` | is an offset ever of another boot when every file operation may fail? | 3 batches, the third as large as the byte cap, two starts, two boots, one health event, one lost answer |
| `delivery_liveness` | does everything get delivered or shed, also what an earlier process left on disk, and is a repeat identical? | 2 batches, buffer of 1, two starts, two boots, torn files, one clock step, one lost answer |
| `clock` | is the table true, sorted, kept on disk, is the time kept of every record right, and is a step found that the watch missed? | boottime up to 3, two steps, or one and a suspend of one unit, two boots, two starts, all faults |
| `exchange` | is what `send` takes for delivered stored, does a revoked key store nothing, does nothing wedge the outbox? | 8 posts, one for each refusal and two that pass, two connections, two faults, an outbox of 1 |
| `store` | are tables exact and answers true, does shutdown drain, and do ids follow content? | two requests of three batches, a channel of 1, two starts, one power loss; some 4000 contents, with numbers of two bytes and nesting of two |
| `accounts` | is a token or a challenge good for one sign-in, does nothing outlive its user, and does a credential open only its own row? | three requests or commands, three of them at once, two users, two starts with either of two lifetimes |
| `migrations` | is the database whole and of one version, does every row survive, can every release that is let in write, and is the service let in on a good clock? | a service and a command, each of any of five releases (3.1, 3.3, 4.1, 4.2, 5.0), two measurements, a gate of three polls |
| `explorer` | do links tile time and rows, are options exact and labels honest, while rows are committed? | three series, three rows and two that may come, three clicks from any of three bookmarks or four API requests |

Why these bounds are enough to be interesting. With every batch as large as the byte cap a push
evicts on the second batch; four batches fill inbox, buffer, spool and outbox at once and overflow
the outbox, so each of the four places holds something while another one moves. Two starts and two
boots give a spool file every history it can have: of this process, of an earlier one, of an earlier
boot, and seen by a cycle before or after the retirement of its directory. One lost answer is enough
for a duplicate, and a step between it and the repeat for a different correction. Offsets of 0, 1
and 4 with a tolerance of 1 and a threshold of 2 give steps the poll ignores and steps it must find;
three units of time leave room for two boundaries and for stamps before, between and after them. They also
leave room for an entry, a suspend after it, and the import, with the first reading before the suspend or after it. In the exchange, two faults are an abandoned attempt and whatever happens to its connection afterwards; two
connections are the one dropped and the one in use, and the outbox of one makes the abandoned batch
give way to another while its answer is under way. In the store,
one of the batches repeats a record, one shares a record with another, one has nothing acceptable;
two requests can be the same batch twice, the client of the first may be gone before the second, and
a channel of one makes the second wait. For the accounts, three requests are enough to issue a token and
present it twice, to open a prompt and answer it twice, or to be in the middle of any request while two
others run from end to end; clock readings come in any order, so a token can be late, early, or late
first and in time afterwards. The two handlers are interchangeable, which TLC is told. In the
migrations, the releases are those whose next migrations rebuild tables, add tables, or change who may
insert what; two openers are enough for the race between the reading of the version and the lock, and
the two measurements are one before and one after any upgrade. In the explorer, two rows share an
instant, a page holds one row, a palette one hue and a facet two values, so each limit is passed; the
values of one field need labels that the margin has no room for; three clicks are a filter, a page of
it and the next, or a chart, a zone of it and a step.

What the properties are for is said at each of them, and `PROJECT.json` relates them to the hazards.
In short:

* a batch answered 200 leaves a running collector only to the receiver or counted (`NoSilentLoss`,
  `KeepsContract`), in order (`DeliveredInArrivalOrder`), oldest first when it must shed
  (`ShedsOldest`). These four need file operations that succeed; with failing ones the code says in its
  log that it gives up. No correction is of another boot, whatever fails (`OwnOffsetOnly`);
* a repeat is identical (`FrozenCorrection`), progress is made, with what an earlier process left on disk too
  (`EventuallyShipped`), a dead receiver does not wedge the front (`InboxEmpties`);
* the offset table is in order (`TableWellFormed`) and every entry really held in this boot, one from the
  journal up to the sleep since (`TableWitnessed`), no step slips through the re-arming of the watch
  (`StepsKnown`), the poll catches what does (`TableCatchesUp`), the disk forgets nothing that a process
  could read (`SavedHistoryKept`), and whenever the
  table is complete, the time the receiver keeps of an event is its time by the present clock, to within
  the spread it is marked with, whatever steps lay between event, receipt and flush
  (`CorrectedHonestly`);
* on the way, an Ok means stored (`OkMeansStored`), a request that arrives after the revocation of its
  key stores nothing (`RevokedStaysOut`), and a batch at the head of the outbox gets through or makes
  room once the faults end (`EventuallyDelivered`);
* the tables of the receiver hold whole batches (`BatchesWhole`), counted exactly (`SeriesExact`), under
  ids that are equal where the contents are (`IdsFollowContent`); a 200 means committed
  (`AcknowledgedIsStored`), what reached the writer is written although nobody waits
  (`QueuedIsStored`), and the stop ends (`StopEnds`);
* a token or a challenge is accepted once and never after it was replaced, deleted, taken or expired
  (`TokenUsedOnce`, `ChallengeUsedOnce`, as implementations of `OneTimeUse`), whatever a request adds
  after its user is gone does not stay (`NoOrphans`), removals leave a passkey (`WayInKept`), a session is
  cut to the binary's lifetime (`LifetimesCapped`);
* the database has the tables, columns, keys and indexes of exactly one version (`SchemaIsItsVersion`, but for
  one race of three releases, see 2.3), keeps its rows through every migration (`NothingLost`), and takes the
  inserts of every release that was let in until a newer major is migrated under it
  (`AcceptedBinaryWrites`); the service is let in on contiguous good
  readings only (`AdmittedOnGoodClock`);
* following "older", or the API's cursors, lists every row once (`PagesListOnce`); a filter offers exactly
  the values that lead somewhere (`OptionsExact`); zones cut a plot so that each row is behind one
  (`ZonesPartition`); neighbouring windows leave no gap (`StepsTile`); no line of an axis carries a wrong
  number (`AxisHonest`).

### 2.3 Where the code is at odds with its comments

Three runs find a comment violated:

| Run | The comment | What happens |
|---|---|---|
| `stop_strands_inbox` | `main.rs:81`: aborting the clock task first is harmless, the flush loop ends when the inbox closes | the lost watch sender ends the `select!` too, and may be polled first, with accepted batches still in the inbox |
| `inflated_forever` | `receive.rs:7`: limits "mirror" the receiver's, so that an application can be pointed at either | a gzipped body within both limits of the collector is forwarded inflated, and refused by the receiver with 413 at every retry |
| `chart_colours` | `web/mod.rs:316`: a line keeps its colour when another one is hidden | slots go by place among the visible groups, lines by place among those the query returned; a group without rows in the window shifts every line after it to the colour of another |

The models show more of the kind, which no run is kept for:

* `spool.rs:40` says that `remove` is "called only after the batch has been accepted downstream".
  `correct_into_outbox` (`runtime.rs:673`) removes the file when it queues the batch in memory; a kill
  before delivery loses it.
* `config.rs:154` describes `buffer_timeout` as the wait "before flushing anyway". The wait starts with a
  batch of this process (`runtime.rs:605`); a spool left by the one before waits for the clock alone.
* `state.rs:3` says that "a restart must not lose offset history". The first table is saved only after
  the first boundary (`runtime.rs:238`); without a journal, a kill right after that boundary loses the
  offset before it.
* `web/mod.rs:1337` refuses "to remove the last user". The count and the deletion (line 1339) are two
  transactions; two requests for the last two users both count two.
* A spilled batch whose write fails is logged and gone (`runtime.rs:542`), and a flush task that cannot
  open its spool returns at once while the server keeps serving and refusing (`runtime.rs:508`).
* `main.rs:60` calls a command against a live server safe, "on a receiver upgraded but not yet restarted". It
  migrates the database to its own version under that server. Across minors of one major that is so, as
  `AcceptedBinaryWrites` says. A new major drops columns that the server, let in before, names in each of its inserts
  (4.0 drops `type` and `attributes` of a measurement), and no batch is stored until it is restarted. The property
  ends there; without the comparison of majors TLC finds it violated by a command of 4.1 beside a server of 3.3.
* `schema.rs:703` reads the version before the transaction that migrates, and does not read it again. With three
  releases about, a command of 4.2 that read version 4.1 can take the lock after a service of 5.0 has migrated,
  repeat 4.2's rebuild, and store the lower version again: the schema is then no version's. The history variable
  `stale` marks such a commit, and `SchemaIsItsVersion` and `AcceptedBinaryWrites` end there too; without `~stale`
  TLC finds the first one violated. `NothingLost` holds even so, as `RowsSurvive` shows. No comment speaks of
  three releases at once.
* `journal.rs:47` says that `suspended_nanos` brings "every monotonic value" into boottime. It is the sum of sleep
  at the import, so an entry from before a suspend lands later than it was, and the epoch it gives has an
  offset that is too small by that much. `collector-clock-correction-design.md:169` accepts this; `TableWitnessed`
  states how far off an epoch can be.
* `state.rs:43` has a process whose snapshot cannot be read start over. Its first save then replaces the history that
  was there, also if only the reading had failed. The comment accepts that, and `SavedHistoryKept` leaves out that one save
  (`unread`).
* `receive.rs:165` says that the collector "answers in the same currency the receiver does". It answers a
  refusal in JSON, the receiver in protobuf, and it has a 500 where the receiver has a 503.
* `web/mod.rs:292` has a page read "the same snapshot". `gather` opens no transaction: a commit between
  two of its statements can make a facet, a legend or a link speak of rows the table has not got. The
  properties above hold all the same; none asks the parts of one page to agree.
* Of the pages: a filter on the body that no row of the slice has any more keeps no control; the values of
  a filter are cut to their limit before they are sorted by number; hiding every line of a chart draws all
  of them.

### 2.4 Fairness

*Collector, flush task.* `tokio::select!` without `biased` polls its ready arms in random order and
the tick comes every second, so `Receive`, `Wake` and `Break` get strong fairness: each is ready again
and again, while other arms win in between. What a cycle began it ends (weak). The two deadlines pass
with time (weak). Once serving has ended, `main` runs through its last lines (weak). Nothing is assumed
of the clock becoming good, nor of applications. That the receiver recovers is an assumption of
`EventuallyShipped` itself (`ReceiverRecovers`) and no part of the specification; `InboxEmpties` does
without it. Of what an earlier process left on disk it speaks only once the clock is good, as nothing else
releases that (2.3).

*Clock task.* The same `select!`: `Notice` and `Tick` strong, the rest weak. A reading may fail, but of
the readings taken again and again one succeeds (`SF_vars(Poll)`): `clock_gettime` and `adjtimex` fail
for reasons that pass, if at all.

*Store.* The writer is a thread that runs; the permits of a tokio channel are handed out first come,
first served, so a handler that waits for room gets it (strong, `Enqueue`). Clients are assumed to do
nothing: `StopEnds` speaks of a stop with no body still on its way, since the code sets no limit on
that wait.

*Exchange.* The forwarder's loop sends its head again after every refusal (weak, `Forward`); a connection is
taken up, a lost one noticed, and a receiver that is up serves what arrives (weak). Serving is a task per
connection, and no connection waits for another. That the faults end and the receiver stays up is the
assumption of `EventuallyDelivered` (`<>[](up /\ clear)`) and no part of the specification.

A kill is never assumed and never excluded. `Accounts`, `Migrations` and `Explorer` state no liveness: what
waits there is a person, or the clock.

### 2.5 Proofs

TLAPS checks these for all values of the constants that the `ASSUME`s allow: every capacity, cap,
number of batches, set of boots, offsets, thresholds and faults, and every value of the bounds. Where a
theorem needs more than the `ASSUME`s, the hypothesis has a name and stands in its statement:
`SpoolKeeps`, `SpoolInLine`, `ClockNotBeforeBoot`, `OpenWindowsHaveBegun`, or is `1 \notin Binaries`. Each run of the
component but `delivery_faults`, which is there for failing files, satisfies it.

`CollectorDeliveryProofs`:

* `TypeCorrect`: `TypeOK`, which is inductive by itself. Its content is the depth of the inbox and that
  `Keep`, `Push` and `Corrected` always yield queues.
* `NoForeignOffset`: `OwnOffsetOnly`. It is not inductive: what keeps a foreign offset out of the outbox
  is where each batch was before. The invariant is `Provenance`: the queues in memory hold batches of
  this boot only, a file lies in the directory of the boot that accepted its batch, an entry carries no
  other boot's offset, a cycle's frozen offset is this boot's, and a process that is gone has nothing
  left that the next boot could take for its own. The last two are what a reboot in the middle of a
  cycle would break.

The next two hold as long as the spool can be listed, read and written (`SpoolKeeps`). Where it
cannot be, the code logs that and goes on without the batch, so the statements would be false. Torn
files, files and directories that cannot be deleted, lost answers, kills and power losses are all in:

* `NothingLostInTransit`: `NoSilentLoss`. The invariant is `Placed`. The next file number is free, or a
  spilled batch would overwrite one that waits (`NumberIsFree`, which a restart has to find on the disk);
  what `push` evicted is written before a cycle begins (`EvictedFirst`); the spool is taken for empty only
  after each intact file has been queued (`SpoolQueued`), though a cycle removes file by file and a
  kill may fall in between; a process that is gone has no outbox. On that, each action moves a batch from one
  place to the next or counts it as shed; one lemma per kind of action says so (`ArrivalPlaced`, `SpillPlaced`,
  `CorrectPlaced`, `SendPlaced`, `ProcessPlaced`).
* `ContractKept`: `KeepsContract`, the refinement of `DeliveryContract`. The mapping `Standing` reads a batch's
  standing from where it lies and what the receiver has. What was dropped stays dropped, as it
  is in no queue and no intact file, and nothing but an acceptance puts a batch into the first of these
  places: a start finds in the spool only what was in hand as a file all the time.

`CollectorOrderProofs`, as long as the spool can be listed and its files deleted (`SpoolInLine`). A file that
stays behind is read and delivered again after younger ones, and a spool that is passed over is overtaken
by the buffer. Writes and reads that fail are in: a batch that is lost leaves the others in order.

* `ArrivalOrderKept`: `DeliveredInArrivalOrder`. The invariant `InOrder` lines up the five places, outbox, spool,
  what is being spilled, buffer and inbox: each is in order, and of one boot's batches what is further on is
  older (`StagesInOrder`); file numbers follow arrivals (`FilesInOrder`); nothing that waits is older than
  what the receiver has (`ReceivedFirst`). The line holds inside a cycle only if everything in the spool is
  queued before the buffer is (`AllToDo`).
* `OldestAreShed`: `ShedsOldest`. What an overflow cuts off is the front of an outbox that is in order.
* `RepeatsAreIdentical`: `FrozenCorrection`, from `CorrectedOnce`: what the receiver has is in no place where it
  could be corrected again, and the entry that waits to be repeated has the mark it went out with. This is
  where `InOrder` is needed: a batch is in the line once.

`ClockTaskProofs`:

* `ClockTypeCorrect`, `TablesAreWellFormed`, `TablesAreWitnessed` from `IInv`: types; `truth` ends in the
  present (`TruthOK`); a machine sleeps no longer than time passes (`SleptOK`); the table in order and witnessed; and
  the snapshot, if it is of this boot, likewise, if not, of an earlier one. The snapshot has to be in it
  because a start makes a table of it, and its boot bounded because a reboot must not make an old snapshot current.
  `Sound` is stronger than witnessed: no epoch is dated past the present, and one dated to the present is in
  force, or the next reading could be dropped as no later than it. `LiveOK` says the same between the first reading and
  the table it goes into. The lemmas on `FromEpochs`, `With` and `JournalEpochs` say that each keeps a list in
  order and adds no offset that was not there. `FromEntryIsSound` is where the conversion of the journal comes in: an
  epoch dated to the entry before it is off by the sleep between its entry and the import (`FromEntry`), in offset
  and in date, and nowhere past the present, since that sleep is no longer than the time since.
* `StepsAreKnown` from `OnClock`: at every line between two waits, not only at the waits, if no notice is
  under way and none was missed, the table's last offset is the clock's. `StepsKnown` alone says nothing
  of the lines where the re-arming could lose a step. For the first table it takes `FirstHolds`: nothing has stepped
  or slept since the reading that the table is to get, or a step counts as missed. So an entry that would keep
  that reading out of the table shows the same offset (`StartsOnClock`).
* `DiskNeverForgets` (an action property) from `SavedWithin`: the snapshot of this boot is a part of the
  running table, unless the process could not read it. That a start does not drop a part of it rests on
  `FromWellFormed`: `from_epochs` of a list that is in order keeps all of it.
* `CorrectionsAreHonest`: `CorrectedHonestly`, for every tolerance, size of steps and number of epochs. It
  needs no invariant beyond types: the property supposes a table that knows every step (`Complete`), and the
  rest is what the two passes do with it. The lemmas follow `resolve`. The epochs `Candidates` keeps are the set
  its loop would take (there is one, as there is no least counterexample). Of a complete table, the epoch at a
  moment has the offset of that moment, so a time stamped at that moment is explained by it (`CompleteSays`).
  The loop keeps that epoch or one that explains the stamp equally well, so the nearest candidate to what is
  asked is within spread and tolerance of the truth. What `decide` makes of it at receipt is carried to the flush,
  where the offset is the present one. Two hypotheses bound it. By its wall clock the machine did not boot before
  1970 (`ClockNotBeforeBoot`), and the event is a tolerance or more after the boot (in the property itself): a
  time of 0 is "none" to OTLP and to the code, and an event that resolves to it would be taken for one
  without a time.

`StoreWriterProofs`, for any records and batches, any clock readings and any number of handlers:

* `StoreTypeCorrect`: `TypeOK`, inductive by itself. That the last entry of the log is what is committed
  is the part the other theorems use.
* `StoreCountsExact`, `StoreAcknowledgedKept`, `StoreBatchesWhole` and `StoreFirstArrivalKept` from
  `IInv`. None of the four carries itself. A power loss goes back to any commit since the checkpoint, so
  every entry of the log has to be exact and whole, and an earlier one a part of a later one (`LogOK`).
  A commit adds the open transaction, so that has to count what it adds, hold no row that is there
  already, and miss no record the writer has been through (`TransactionOK`). The lemmas behind them say
  that merging the counts of two tables without a common row gives the counts of both together
  (`ExactUnion`): the code's `accumulate` and `upsert` are both that step, of one record and of one
  batch. It is where a row folded in without being inserted, or inserted twice, would break.
  Finiteness of the set of records is assumed, as counting needs it.
* `StoreIdsFollowContent`: `IdsFollowContent`, for any measurements, any width of a number and any depth. Two
  codes are *apart* when neither begins the other, whatever bytes follow (`Apart`). Joining keeps this: once the
  first parts are apart, so are the wholes when the second parts are (`CodedJoined`). Words are apart by their
  fixed length, strings and lists because their length is in front, values of different types by their tag;
  values of one type by induction on the depth. For objects, `BytesBefore` is a strict total order, so the sort
  has a result (`OrderExists`), and a set of entries has only one order (`OrderedOnce`): the order of arrival is
  gone and nothing else is. The recursive functions are shown to be what their definitions say (`limitIs` and
  the others), each by induction over a number.

`AccountsProofs`, for any names, handlers and commands, any lifetimes and clock readings, any capacities:

* `AccountsTypeCorrect`: `TypeOK`, inductive by itself. `Step` says what a request carries at each of its
  steps, which is what the later transactions of a handler rely on; every id in a table is one that was
  made, so an id that is made is new. That a set of prompts stays within its capacity needs it to be
  finite, which the ids being made gives.
* `AccountsNoOrphans`, `AccountsOneTokenEach` and `AccountsLifetimesCapped` are inductive, with `TypeOK`:
  the tables only lose rows, except at four steps, each of which adds one row whose user, token or
  lifetime is checked in the same transaction. No strengthening speaks of the requests under way: the
  rules hold whatever they carry, which is why a stale guard does no harm to them.
* `AccountsWayInKept` is an action property. A removal is of one's own passkeys and leaves another of
  them; an added one replaces none, its id being new.
* `AccountsTokenUsedOnce` and `AccountsChallengeUsedOnce`: `Accounts` implements `OneTimeUse`, twice. The
  mapping reads an id as alive while it is in the table, ended when it is not and was made, unissued
  otherwise. Every step either accepts one id and ends it, or ends some and accepts none, and issues at
  most the next id.
* `AccountsCredentialsOpenTheirOwn`, for ids and secrets of any length, any bytes drawn and any texts presented.
  It is a fact of `Credentials` alone. `ParsePrinted` and `ParsedIsPrinted` are its two halves: what is printed
  is read as the token it was, and whatever can be read at all is, to the letter, what is printed for what was
  read. The second is where a second spelling of a digit, or a separator found elsewhere, would break it.
  `SameHash` has the domains keep the kinds apart, `EvaluatedAs` that the header, the cookie and the form all
  come down to the same comparison, and `ShownIsMeant` that `trim` takes nothing from a printed token.

`ExchangeProofs`, for any senders, keys, bodies, limits, retries and bounds:

* `ExchangeTypeCorrect`, `ExchangeOkMeansStored` and `ExchangeRevokedStaysOut` from `IInv`. What carries them is
  that a connection has one request, which is on the wire, with the handler, or answered, and never two of
  these (`OwnAnswer`): an answer taken from a connection is the answer to the request that is waiting
  for one, though requests are retried and connections replaced. A connection is taken up with nothing left
  on it, so a late answer to an earlier try finds nobody. On that, an Ok is of a body that was stored before it
  was written (`OkIsStored`), every key in use was made and none is made twice (`KeyWasMade`), and what arrived
  after its key was revoked is not waiting to be stored (`LateIsOut`).

`MigrationsProofs`, for any number of openers, any of them gated, any releases in circulation, any rows, and any
errors of the clock, threshold and budget of readings:

* `GateAdmitsOnGoodClock`: `AdmittedOnGoodClock`. The invariant is that the counter never exceeds the good
  readings the history ends in, and that the polls are counted; the action that admits asks for the
  counter. It holds for any number of services at the gate, whatever the database does meanwhile.
* `SchemaStaysWhole`: `SchemaIsItsVersion`, with releases of any age beside one another. Rows make it hard: which
  statements run depends on them, and so does what a batch makes of a database. `RunAlike` says that a statement
  which runs on a database with rows runs on one without, and does the same to tables and indexes; `BatchAlike`
  carries that over a list of statements. So an entry that succeeds on the schema of one version yields the schema of
  the next (`NextRelease`). The invariant is `SchemaInv`, which holds as long as nothing stale was committed. The
  version is read before the lock is taken, so a process at work may find the schema of what it read, or that of its
  own release, because another one of that release was faster, or another one, which makes its commit stale. In the
  second case it repeats entries that are there. `WorkRight` says that it is then at
  the first of them, or at the second with work on which that one fails, or that the first was the last and
  changed nothing. What is committed got past the last entry, which leaves the release's own schema.
* `AdmittedCanWrite`: `AcceptedBinaryWrites`. A process is let in at its own version or at a minor after it
  (`ReadyRight`, by `VersionsSorted`: the order of versions, as `user_version` encodes them, is that of the list).
  While it runs, the schema only moves up the list; as long as the major is the one it found, the rule for
  minors says that it finds what it writes to.
* `RowsSurvive`: `NothingLost`, whatever was committed, stale or not, but without 1.0, whose
  measurements 2.0 drops (`1 \notin Binaries`; a revert to 1.0 loses them by design). It cannot rest on
  `SchemaInv`, as a stale commit breaks that. `RowsInv` asks for less: the tables are those of no version
  in particular, but the version that is stored is one of a release in circulation, there is a table of
  measurements from the first commit on (`Made`), and columns and references are such as the rebuilds rely on
  (`Tidy`). Of a migration at work it says by the place of the next entry what its work holds (`WorkKeeps`).
  Before the first, it is what is committed. The first fails where there is a table of measurements, so before
  the second there is nothing to lose, and after 2.0 every committed row is in the work (`Keeps`). A release
  from 2.0 on gets no sooner to its commit. `EntriesKeep` says that each entry from 3.0 on keeps rows. Six of
  them only create and add (`GentleBatch`). 4.0 and 4.2 rebuild `measurement` and `web_session` by create, copy,
  drop and rename (`RebuildCarries`), where the drop takes no row of another table along because nothing refers
  to those two (`Tidy`, which every entry leaves so, `BatchTidy`); 5.0 drops a column that is no key. Entries
  chain by `CarriedOn`: a session that stays through one entry is not one of those that the next may leave out,
  since its user stays too. What an opener writes has its key and only columns that the table has
  (`WritesKeyed`).

  Three `ASSUME`s of `Migrations` are about the list itself, and TLC evaluates them in the run. That versions
  ascend (`SortedAssumption`, schema.rs:125) and that a minor leaves to the releases of its major what they write
  to (`MinorsAssumption`, schema.rs:127) are the rules that the list is kept by. That an entry applied to a
  database which has it either fails, or makes the next one fail, or is the last and changes nothing
  (`RepeatsAssumption`) is a fact about the text of the entries, and no comment promises it: 4.2's rebuild can be
  repeated, and what stops a longer repetition is a `CREATE` in each other entry. An entry that breaks one of the
  three stops the run before the first state.

`ExplorerProofs`, for any catalogue of series, any rows and commits, any limits, presets, bucket and field
lists, and any URLs. The assumptions on constants say what the code's tables of constants are: limits in
order and positive, presets and buckets that are positive numbers, "none" apart from every value, an order
of texts that has each text once.

* `PageIsRight`: what each statement has read is of its kind (`PageRight`): a window that is not empty, facets
  that are lists, series in order of time, rows of the database that no page exceeds. It is the induction the
  others stand on, over five statements and thirteen links, and says of every link that `parse_explore` reads
  its URL back as a view.
* `WindowsTile`: `StepsTile`. It is arithmetic on `Window` and `steps`, case by case: a preset or a custom
  window, at the present or away from it, shorter than its bucket or not.
* `ZonesPartitionWindow`: `ZonesPartition`. The loop that lays zones over the buckets tiles its window
  (`LoopTiles`), a tap on a zone makes a fixed window of exactly its bounds (`FixedWindow`), and so a row of the
  page is listed behind one zone and no other (`LinkLists`).
* `EveryRowListedOnce`: `PagesListOnce`, on the invariant `Paging`. A list grows by pages that other
  statements, commits and the moving clock come between. What is kept is that the rows listed so far are in
  order without a repeat (`TrailTyped`), that each row of the first page's slice is listed or lies past the
  cursor (`ReachedRight`, `MoreRight`) and is still in the slice of the next page unless the window has
  moved past it (`OwedRight`), and that a window's end never goes back (`EndRight`). The last is false of one
  kind of URL, which `OpenWindowsHaveBegun` excludes: with `from` in the future and no `to`, `Window` makes one
  second from `from` on, and moves back to the present once that has come. A list begun before can then skip a
  row; TLC finds that too when the bookmarks hold such a URL.
* `OfferedValuesAreExact` (an action property): `OptionsExact`. A value is offered by a page if and only if the
  filter with it has a row. The lemmas say that what the statements order is ordered (`TextsAreOrdered`,
  `NumberTextsAreOrdered`), that sorting and cutting a list within its limit keeps its values
  (`SortKeepsValues`, `OfferOf`), and that a filter is what `Matching` makes of it (`SliceHolds`).

Six of the theorems state invariants that no run checks, as the proofs cover them: `ClockTypeCorrect`,
`StoreTypeCorrect`, `ExchangeTypeCorrect`, `StoreFirstArrivalKept`, `AccountsOneTokenEach` and `PageIsRight`.
TLC found them true first.

Where a proof is by induction over a number, it is by least counterexample, from the library's
`NatLessThanWellFounded`. What is out of reach is a `RECURSIVE` operator, and a theorem that takes an operator.

Only model-checked:

* all liveness, as fairness and `ENABLED` are out of the prover's reach: `EventuallyShipped`, `InboxEmpties`,
  `TableCatchesUp`, `QueuedIsStored`, `StopEnds`, `EventuallyDelivered`;
* `AxisHonest`: the steps of a value axis are powers of ten, of which the model has eight. A theorem would hold for
  values within them only, a bound that the code does not have.

### 2.6 Abstractions

* Time: deadlines are "not yet" and "over"; the clock task's boottime counts units of the tolerance.
  In `clock` a settled task polls on every tick (`SettledPollTicks = 1`): since a tick need not come, this leaves no step out.
* A body is its type, its encoding, its lengths, and whether it unzips and decodes (`Exchange`); of the
  attributes of a record only the clock marks are modelled, and in `ContentId` what the id is made from. A
  request that the collector refuses changes no state and is no action.
* In `Exchange` a post is one batch and a whole request arrives at once; bytes are not split. An answer that
  announces the close of its connection counts as a fault, as do the early timeouts: their number is bounded
  in the run and not in the proofs.
* The spool's file names are numbers; that their order is the directory's order (`sort` on a zero-padded
  name) is taken for granted.
* Journald's entries may be any that are in order and each true to its moment, in the two clocks it is stamped
  with. Clocks that step twice, or sleep, between two of them are included; entries with stamps that no clock
  showed, and several with one monotonic stamp, are not. What the code makes of true stamps after a suspend is modelled.
* A suspend takes one unit of boottime at a time and moves no offset by itself; a clock that the resume sets is a step
  after it.
* A hash is its input. Collisions of 128 bits are not modelled.
* SQLite is taken at its word: a transaction is committed whole or rolled back, a commit survives the
  process, and under `synchronous = NORMAL` a power loss goes back to some earlier commit. On DDL, `Schema` says
  when a statement fails and what it does, with foreign keys on; types of columns and orders of indexes
  are left out.
* A reading of the clock that fails at the boot gate ends the process, as a kill does (`Exit`).
* `Migrations` has one row per table that is not a measurement; a key that is there is not inserted again.
* `Plot` computes in hundredths, rounded down, where the code has `f64`; the strings of labels and the markup
  are left out. What depends on the rounding of floats, as the axis of a flat series, is not modelled.
* In `Accounts` a secret is its id: a wrong secret is an id that nobody was given. `Credentials` has
  prefixes, schemes and names of cookies as one character, and a hash that is its input; the run draws one byte
  for an id and one for a secret. A signature verifies or does not;
  the site a passkey is bound to, its counter and its time of use are left out.
* A ceremony is gone when it expires, though the set drops it only when it needs the room: an expired one
  verifies no answer, and is replaced when the set is full.
* A passkey is looked up and its challenge taken in one step of `PasskeyLogin`: the one only reads the
  database, the other only touches memory.
* The writer thread does not panic, and a handler never finds the writer gone.

## 3. What is left

### 3.1 Not modelled

* *Metrics and configuration of the collector* (`metrics.rs`, `config.rs`): parsing with defaults and checks of single
  values, and counters that nothing reads back. No state that a second actor could find half done.
* *`mp-host`*: wrappers of system calls. Their results are inputs of `ClockTask`, `BootGate` and `Correction`.
* *HTML, forms and formatting* (`web/html.rs`, the text of `web/svg.rs`): layout and wording, which its unit tests
  compare as text. What decides numbers on the page, ticks, steps, slots and zones, is in `Plot`.
* *The origin guard* (`web/origin.rs`): a comparison of two headers of one request; it has no state.
* *The conversion of attribute values to JSON* (`otlp/anyvalue.rs`): a recursion over one value. `ContentId` has the part
  that the database's uniqueness rests on.
* *The sender's start* (`peer.rs`): the lookup of a pid in `/proc`. `Correction` takes the window it yields as any
  earlier part of the table.
* *Listing commands and argument parsing* (`main.rs`, `config.rs`): they read one snapshot and print it.

### 3.2 Next

1. `Pipeline`: the sends of `Exchange` as the batches of `StoreWriter`, so that a batch repeated after a lost
   answer is one row end to end. Each half is modelled; `OkMeansStored` and `BatchesWhole` meet at the handler.
2. `Receipt`: the two passes of `Correction` over the real watch channel, instead of every earlier part
   of the table.
3. Theorems: `tick_labels` on any ticks, the half of `AxisHonest` that needs no bound on values; `CorrectedOnce` without `SpoolInLine`, for the batches whose file was deleted.
