---------------------------- MODULE Migrations ----------------------------
(***************************************************************************)
(* The openers of one database: the service and the commands of main.rs,   *)
(* each of which migrates what it opens (store/schema.rs, open_write) and  *)
(* then writes to it, under binaries that are upgraded and reverted. The   *)
(* service waits at the clock gate before each start, the commands do not. *)
(* Between any two actions every other opener may move, and be killed.     *)
(***************************************************************************)
EXTENDS Schema, BootGate

CONSTANTS
  Openers,          \* the service, and commands run by hand
  Gated,            \* the service, whose start is behind the clock gate
  Binaries,         \* the releases in circulation, as places of MIGRATIONS
  Measurements,     \* ids of the measurements the devices send
  Series            \* the id of the series of all of them

ASSUME BinariesAssumption ==
  /\ Binaries \subseteq 1..Len(MIGRATIONS) /\ Len(MIGRATIONS) \in Binaries
  /\ MIGRATIONS[Len(MIGRATIONS)].version = SCHEMA_VERSION
ASSUME OpenersAssumption == Gated \subseteq Openers
\* "in ascending version order" (schema.rs:125).
ASSUME SortedAssumption ==
  /\ \A i \in 1..Len(MIGRATIONS) :
       MIGRATIONS[i].version \in [major : 1..COMPONENT_LIMIT - 1, minor : 0..COMPONENT_LIMIT - 1]
  /\ \A i, j \in 1..Len(MIGRATIONS) : i < j => Precedes(MIGRATIONS[i].version, MIGRATIONS[j].version)
\* A release that applies what it read as missing to a database that has it: the first
\* or the second entry fails, or the first is the last and changes nothing.
ASSUME RepeatsAssumption ==
  \A n \in 1..Len(MIGRATIONS) : \A i \in 1..n :
    LET once == execute_batch(Fresh[n], MIGRATIONS[i].sql)
    IN once.ok => IF i = n THEN Alike(once.db, Fresh[n])
                  ELSE ~execute_batch(once.db, MIGRATIONS[i + 1].sql).ok
ASSUME NamesAssumption == Measurements \subseteq STRING /\ Series \in STRING

VARIABLES
  db,               \* the committed database
  proc,             \* opener -> its life, its release, what it read, its transaction
  stale             \* history: a plan was committed on what is not its subject any more
vars == <<db, proc, stale>>

Declared(binary) == MIGRATIONS[binary].version
Off == [at |-> "off"]
\* The write lock is held from a migration's first statement to its end.
Unlocked == \A p \in Openers : proc[p].at # "migrating"
---------------------------------------------------------------------------
\* What the release that declares v inserts, one set of <<table, row>> per transaction.
Values(cols, special) == [c \in cols \cup DOMAIN special |-> IF c \in DOMAIN special THEN special[c] ELSE "some"]
Sent == {"event_time", "processed_time", "body"}
SeriesRow == <<"series", Values({"type", "attributes", "added"}, [id |-> Series])>>
MeasurementRows(v, m) ==
  IF Precedes(v, Version(3, 2))
  THEN {<<"measurement", Values(Sent \cup {"type", "attributes"}, [id |-> m])>>}
  ELSE {<<"measurement", Values(IF Precedes(v, Version(4, 0)) THEN Sent \cup {"type", "attributes"} ELSE Sent,
                                [id |-> m, series_id |-> Series])>>, SeriesRow}
UserRow(v) ==
  <<"web_user", Values(IF Precedes(v, Version(5, 0)) THEN {"password_hash", "created_at"} ELSE {"created_at"},
                       [username |-> "op"])>>
Bearer(table, id) ==
  <<table, Values({"secret_hash", "created_at", "expires_at"}, [id |-> id, username |-> "op"])>>
PasskeyRow ==
  <<"web_passkey", Values({"rp_id", "static_state", "dynamic_state", "label", "created_at"},
                          [credential_id |-> "phone", username |-> "op"])>>
Inserts(v) ==
  {[since |-> Version(1, 0), rows |-> MeasurementRows(v, m)] : m \in Measurements}
  \cup { [since |-> Version(3, 0), rows |-> {<<"api_key", Values({"secret_hash", "label", "created_at"}, [id |-> "pi"])>>}],
         [since |-> Version(3, 1), rows |-> {UserRow(v)}],
         [since |-> Version(3, 1), rows |-> {Bearer("web_session", "tab")}],
         [since |-> Version(4, 1), rows |-> {PasskeyRow}],
         [since |-> Version(4, 3), rows |-> {Bearer("web_login_token", "link")}] }
Writes(v) == {i.rows : i \in {j \in Inserts(v) : ~Precedes(v, j.since)}}

\* The statement names columns the table has, and leaves out none it needs.
Accepts(d, rows) ==
  \A r \in rows : /\ r[1] \in DOMAIN d.tables
                  /\ DOMAIN r[2] \subseteq Columns(d, r[1])
                  /\ NotNull(d.tables[r[1]]) \subseteq DOMAIN r[2]
Holds(d, table, row) ==
  \E old \in d.tables[table].rows : old[KeyOf(table)] = row[KeyOf(table)]
\* "What may be a minor bump" (schema.rs:127): one that leaves every release of its
\* major with the tables it writes to.
ASSUME MinorsAssumption ==
  \A i, n \in 1..Len(MIGRATIONS) :
    i <= n /\ MIGRATIONS[i].version.major = MIGRATIONS[n].version.major =>
      \A rows \in Writes(MIGRATIONS[i].version) : Accepts(Fresh[n], rows)

\* INSERT OR IGNORE: a key that is there keeps its row.
Inserted(d, rows) ==
  LET New(t) == {r[2] : r \in {q \in rows : q[1] = t /\ ~Holds(d, t, q[2])}}
  IN Database(d.version, [t \in DOMAIN d.tables |-> WithRows(d.tables[t], d.tables[t].rows \cup New(t))], d.indexes)
---------------------------------------------------------------------------
Init == /\ db = NoDatabase
        /\ proc = [p \in Openers |-> Off]
        /\ stale = FALSE

\* ExecStartPre, in a process of its own. A reading that fails ends it, as Exit does.
Gate(p) ==
  /\ p \in Gated /\ proc[p].at = "off"
  /\ proc' = [proc EXCEPT ![p] = Waiting]
  /\ UNCHANGED <<db, stale>>
Poll(p) ==
  /\ proc[p].at = "gate" /\ MayPoll(proc[p])
  /\ \E error \in Errors :
       LET gate == AfterPoll(proc[p], error)
       IN proc' = [proc EXCEPT ![p] = IF gate.at = "refused" THEN Off ELSE gate]
  /\ UNCHANGED <<db, stale>>

\* apply_pragmas: WAL, busy_timeout, foreign keys. The release that is installed may
\* have been replaced by then, by a newer or an older one, whatever still runs.
Open(p) ==
  /\ proc[p].at = IF p \in Gated THEN "admitted" ELSE "off"
  /\ \E binary \in Binaries : proc' = [proc EXCEPT ![p] = [at |-> "opened", binary |-> binary]]
  /\ UNCHANGED <<db, stale>>

\* migrate_with up to BEGIN, which locks nothing yet.
Pending(p) == Precedes(decode(db.version), Declared(proc[p].binary))
\* Mutation of TooNew: one major back is let in as well.
TooNewByTwo(p) == decode(db.version).major > Declared(proc[p].binary).major + 1
TooNew(p) == decode(db.version).major > Declared(proc[p].binary).major
Refuse(p) ==
  /\ proc[p].at = "opened" /\ TooNew(p)
  /\ proc' = [proc EXCEPT ![p] = Off]
  /\ UNCHANGED <<db, stale>>
Begin(p) ==
  /\ proc[p].at = "opened" /\ Pending(p)
  /\ proc' = [proc EXCEPT ![p] = [at |-> "begun", binary |-> proc[p].binary,
                                  current |-> decode(db.version)]]
  /\ UNCHANGED <<db, stale>>
Settle(p) ==
  /\ proc[p].at = "opened" /\ ~TooNew(p) /\ ~Pending(p)
  /\ proc' = [proc EXCEPT ![p] = [at |-> "ready", binary |-> proc[p].binary,
                                  found |-> decode(db.version)]]
  /\ UNCHANGED <<db, stale>>

\* The places of the migrations that the binary applies to what it read.
Unapplied(p) == {i \in 1..proc[p].binary : Precedes(proc[p].current, MIGRATIONS[i].version)}
FirstOf(S) == CHOOSE i \in S : \A j \in S : i <= j
\* The first statement takes the lock, and sees what is committed by then.
Lock(p) ==
  /\ proc[p].at = "begun" /\ Unlocked
  /\ proc' = [proc EXCEPT ![p] = [at |-> "migrating", binary |-> @.binary, current |-> @.current,
                                  work |-> db, next |-> FirstOf(Unapplied(p))]]
  /\ UNCHANGED <<db, stale>>
\* Another holds the lock for longer than busy_timeout.
BusyTimeout(p) ==
  /\ proc[p].at = "begun" /\ ~Unlocked
  /\ proc' = [proc EXCEPT ![p] = Off]
  /\ UNCHANGED <<db, stale>>

\* Mutation of Migrate: user_version follows each migration, and each is committed.
MigrateCommittingEach(p) ==
  /\ proc[p].at = "migrating" /\ proc[p].next <= proc[p].binary
  /\ LET done == execute_batch(proc[p].work, MIGRATIONS[proc[p].next].sql)
     IN IF done.ok THEN /\ proc' = [proc EXCEPT ![p].work = done.db, ![p].next = @ + 1]
                        /\ db' = done.db
        ELSE proc' = [proc EXCEPT ![p] = Off] /\ UNCHANGED db
  /\ UNCHANGED stale

\* One entry of MIGRATIONS; a statement that fails rolls all of them back.
Migrate(p) ==
  /\ proc[p].at = "migrating" /\ proc[p].next <= proc[p].binary
  /\ LET done == execute_batch(proc[p].work, MIGRATIONS[proc[p].next].sql)
     IN proc' = [proc EXCEPT ![p] =
          IF done.ok THEN [at |-> "migrating", binary |-> @.binary, current |-> @.current,
                           work |-> done.db, next |-> @.next + 1]
          ELSE Off]
  /\ UNCHANGED <<db, stale>>
\* The database is neither what the migration was planned on nor what it leads to:
\* a third release has migrated it between the reading and the lock.
OffPlan(r, d) == decode(d.version) \notin {r.current, Declared(r.binary)}
\* user_version and COMMIT, which checks what was deferred, or rolls back.
CommitMigration(p) ==
  /\ proc[p].at = "migrating" /\ proc[p].next > proc[p].binary
  /\ IF DeferredResolve(proc[p].work)
     THEN /\ db' = AtVersion(proc[p].work, Declared(proc[p].binary))
          /\ proc' = [proc EXCEPT ![p] = [at |-> "ready", binary |-> @.binary,
                                          found |-> Declared(@.binary)]]
          /\ stale' = (stale \/ OffPlan(proc[p], db))
     ELSE proc' = [proc EXCEPT ![p] = Off] /\ UNCHANGED <<db, stale>>

\* One transaction of rows the database has not got. A session or a passkey may
\* be about a user who is gone, which only the foreign keys of 4.0 refuse.
Write(p) ==
  /\ proc[p].at = "ready" /\ Unlocked
  /\ \E rows \in Writes(Declared(proc[p].binary)) :
       /\ Accepts(db, rows)
       /\ \E r \in rows : ~Holds(db, r[1], r[2])
       /\ LET new == Inserted(db, rows)
          IN /\ \A r \in rows : Storable(new, new.tables[r[1]], r[2])
             /\ DeferredResolve(new)
             /\ db' = new
  /\ UNCHANGED <<proc, stale>>
\* What 3.2 and 3.3 do about rows of older binaries: find or mint their series.
Backfill(p) ==
  /\ proc[p].at = "ready" /\ Unlocked
  /\ Declared(proc[p].binary) \in {Version(3, 2), Version(3, 3)} /\ "measurement" \in DOMAIN db.tables
  /\ \E row \in db.tables["measurement"].rows :
       LET d == Inserted(db, {SeriesRow})
           t == d.tables["measurement"]
           filled == [c \in DOMAIN row \cup {"series_id"} |-> IF c = "series_id" THEN Series ELSE row[c]]
       IN /\ "series_id" \notin DOMAIN row
          /\ Accepts(db, {SeriesRow, <<"measurement", filled>>})
          /\ db' = WithTable(d, "measurement", WithRows(t, (t.rows \ {row}) \cup {filled}))
  /\ UNCHANGED <<proc, stale>>

\* The process ends or is killed, at any line; SQLite rolls back what it had open.
Exit(p) ==
  /\ proc[p].at # "off"
  /\ proc' = [proc EXCEPT ![p] = Off]
  /\ UNCHANGED <<db, stale>>

Next == \E p \in Openers :
  \/ Gate(p) \/ Poll(p) \/ Open(p) \/ Refuse(p) \/ Begin(p) \/ Settle(p) \/ Lock(p)
  \/ BusyTimeout(p) \/ Migrate(p) \/ CommitMigration(p)
  \/ Write(p) \/ Backfill(p) \/ Exit(p)
Spec == Init /\ [][Next]_vars
---------------------------------------------------------------------------
\* However often the clock was good in between, the service that is let in has just
\* seen it good Consecutive times in a row, within its budget ("A single bad poll
\* resets the run").
AdmittedOnGoodClock == \A p \in Gated : proc[p].at = "admitted" => OnGoodReadings(proc[p])

\* The committed database always has exactly the tables, columns, keys and indexes
\* that a fresh install of its stored version has, whatever path of upgrades, reverts,
\* kills and racing openers of whichever releases led there ("in one transaction"; the
\* tests of 4.2 and 5.0 compare the upgraded schema with the fresh one). One race is
\* out: that a third release migrated between a process's reading and its lock, and
\* the process committed its old plan all the same.
SchemaIsItsVersion ==
  ~stale => \E n \in DOMAIN Fresh : db.version = Fresh[n].version /\ Alike(db, Fresh[n])

\* Whatever is opened, migrated or killed, a row that was committed stays, with every
\* value but those of the three columns that migrations drop. Only a session whose user
\* does not exist may go, as 4.0 says.
Dropping == {"type", "attributes", "password_hash"}
Survives(table, row) ==
  \E new \in db'.tables[table].rows :
    /\ new[KeyOf(table)] = row[KeyOf(table)]
    /\ DOMAIN row \ DOMAIN new \subseteq IF table = "series" THEN {} ELSE Dropping
    /\ \A c \in DOMAIN row \cap DOMAIN new : new[c] = row[c]
Orphan(table, row) ==
  table = "web_session" /\ ~Resolves(db, [username |-> UserRef], row, "username")
NothingLost ==
  [][\A t \in DOMAIN db.tables : \A row \in db.tables[t].rows :
       Survives(t, row) \/ Orphan(t, row)]_db

\* A process that was let in can do all its writes, also when the database is at a newer
\* minor, found so or migrated beside it while it runs: no column it names is gone, none
\* that it leaves out is demanded (the rule over MIGRATIONS, and what a revert relies
\* on). Under a command of a newer major, which main.rs:60 calls safe beside a server
\* that is not yet restarted, it is false: it ends where such a one has migrated.
AcceptedBinaryWrites ==
  ~stale => \A p \in Openers :
    proc[p].at = "ready" /\ decode(db.version).major = proc[p].found.major =>
      \A rows \in Writes(Declared(proc[p].binary)) : Accepts(db, rows)

=============================================================================
