------------------------------ MODULE Schema ------------------------------
(***************************************************************************)
(* store/schema.rs without its processes: versions, the migrations as the  *)
(* statements they are made of, what SQLite does on each statement with    *)
(* foreign keys on, and the rows the binaries insert.                      *)
(*                                                                         *)
(*   database [version, tables |-> name -> table, indexes |-> name -> index] *)
(*   table    [cols |-> column -> how it may be left out, key, refs, rows] *)
(*   row      a function from its columns that are not NULL                *)
(* `version` is user_version. Types of columns and orders of indexes are   *)
(* left out.                                                               *)
(***************************************************************************)
EXTENDS Integers, FiniteSets, Sequences

\* NOT NULL, NULL, NOT NULL DEFAULT
Required == "required"
Nullable == "nullable"
Defaulted == "defaulted"

COMPONENT_LIMIT == 1000
Version(major, minor) == [major |-> major, minor |-> minor]
Precedes(v, w) == v.major < w.major \/ (v.major = w.major /\ v.minor < w.minor)
encode(v) == IF v.minor = 0 THEN v.major ELSE v.major * COMPONENT_LIMIT + v.minor
decode(raw) == IF raw < COMPONENT_LIMIT THEN Version(raw, 0)
               ELSE Version(raw \div COMPONENT_LIMIT, raw % COMPONENT_LIMIT)
---------------------------------------------------------------------------
\* Statements. A reference is [to, on_delete, checked]; unless it cascades, it restricts.
CreateTable(table, key, cols, refs) ==
  [do |-> "create table", table |-> table, key |-> key, cols |-> cols, refs |-> refs]
CreateIndex(name, table, cols) ==
  [do |-> "create index", name |-> name, table |-> table, cols |-> cols, unique |-> FALSE]
CreateUniqueIndex(name, table, cols) == [CreateIndex(name, table, cols) EXCEPT !.unique = TRUE]
AddColumn(table, col, how) == [do |-> "add column", table |-> table, col |-> col, how |-> how]
DropColumn(table, col) == [do |-> "drop column", table |-> table, col |-> col]
DropTable(table) == [do |-> "drop table", table |-> table]
RenameTable(table, as) == [do |-> "rename table", table |-> table, as |-> as]
\* INSERT INTO as SELECT every column of it FROM table [WHERE the reference at col resolves]
CopyRows(table, as, resolving) ==
  [do |-> "copy rows", table |-> table, as |-> as, resolving |-> resolving]

NoRefs == [c \in {} |-> <<>>]
SeriesRef == [to |-> "series", on_delete |-> "restrict", checked |-> "at commit"]
UserRef == [to |-> "web_user", on_delete |-> "cascade", checked |-> "at once"]
KeyOf(table) == CASE table = "web_user" -> "username"
                  [] table = "web_passkey" -> "credential_id"
                  [] OTHER -> "id"

OldMeasurement == [id |-> Required, event_time |-> Required, processed_time |-> Required,
                   type |-> Required, body |-> Nullable, attributes |-> Defaulted]
NewMeasurement == [id |-> Required, event_time |-> Required, processed_time |-> Required,
                   body |-> Nullable, series_id |-> Required]
Token == [id |-> Required, secret_hash |-> Required, username |-> Required,
          created_at |-> Required, expires_at |-> Required]
TypeIndexes == << CreateIndex("measurement_type_event_time_idx", "measurement", {"type", "event_time", "id"}),
                  CreateIndex("measurement_event_time_idx", "measurement", {"event_time", "id"}) >>

Migration_1_0 == <<CreateTable("measurement", {"id"}, OldMeasurement, NoRefs)>> \o TypeIndexes
Migration_2_0 ==
  <<DropTable("measurement"), CreateTable("measurement", {"id"}, OldMeasurement, NoRefs)>> \o TypeIndexes
Migration_3_0 ==
  << CreateTable("api_key", {"id"}, [id |-> Required, secret_hash |-> Required,
                                     label |-> Required, created_at |-> Required], NoRefs) >>
Migration_3_1 ==
  << CreateTable("web_user", {"username"}, [username |-> Required, password_hash |-> Required,
                                            created_at |-> Required], NoRefs),
     CreateTable("web_session", {"id"}, Token, NoRefs),
     CreateIndex("web_session_expires_at_idx", "web_session", {"expires_at"}) >>
Migration_3_2 ==
  << CreateTable("series", {"id"}, [id |-> Required, type |-> Required, attributes |-> Required,
                                    added |-> Required], NoRefs),
     AddColumn("measurement", "series_id", Nullable),
     CreateIndex("measurement_backfill_idx", "measurement", {"id", "series_id"}),
     CreateIndex("series_type_attributes_idx", "series", {"type", "attributes"}) >>
Migration_3_3 ==
  << CreateIndex("measurement_series_event_time_idx", "measurement", {"series_id", "event_time", "id"}) >>
\* A table made anew under its name, with the rows that its old self held.
Rebuilt(table, as, key, cols, refs, resolving) ==
  << CreateTable(as, key, cols, refs), CopyRows(table, as, resolving),
     DropTable(table), RenameTable(as, table) >>
Migration_4_0 ==
  Rebuilt("measurement", "measurement_new", {"id"}, NewMeasurement, [series_id |-> SeriesRef], {})
  \o << CreateIndex("measurement_event_time_idx", "measurement", {"event_time", "id"}),
        CreateIndex("measurement_series_event_time_idx", "measurement", {"series_id", "event_time", "id"}) >>
  \o Rebuilt("web_session", "web_session_new", {"id"}, Token, [username |-> UserRef], {"username"})
  \o <<CreateIndex("web_session_expires_at_idx", "web_session", {"expires_at"})>>
Migration_4_1 ==
  << CreateTable("web_passkey", {"credential_id"},
                 [credential_id |-> Required, username |-> Required, rp_id |-> Required,
                  static_state |-> Required, dynamic_state |-> Required, label |-> Required,
                  created_at |-> Required, last_used_at |-> Nullable], [username |-> UserRef]),
     CreateIndex("web_passkey_username_idx", "web_passkey", {"username"}) >>
Migration_4_2 ==
  Rebuilt("measurement", "measurement_new", {}, NewMeasurement, [series_id |-> SeriesRef], {})
  \o << CreateUniqueIndex("measurement_event_time_idx", "measurement", {"event_time", "id"}),
        CreateIndex("measurement_series_event_time_idx", "measurement", {"series_id", "event_time", "id"}) >>
Migration_4_3 ==
  << CreateTable("web_login_token", {"id"}, Token, [username |-> UserRef]),
     CreateIndex("web_login_token_username_idx", "web_login_token", {"username"}) >>
\* Mutation of Migration_5_0: rebuilt, as 4.0 and 4.2 rebuild their tables.
Migration_5_0_Rebuilt ==
  Rebuilt("web_user", "web_user_new", {"username"},
          [username |-> Required, created_at |-> Required], NoRefs, {})
Migration_5_0 == <<DropColumn("web_user", "password_hash")>>

MIGRATIONS ==
  << [version |-> Version(1, 0), sql |-> Migration_1_0], [version |-> Version(2, 0), sql |-> Migration_2_0],
     [version |-> Version(3, 0), sql |-> Migration_3_0], [version |-> Version(3, 1), sql |-> Migration_3_1],
     [version |-> Version(3, 2), sql |-> Migration_3_2], [version |-> Version(3, 3), sql |-> Migration_3_3],
     [version |-> Version(4, 0), sql |-> Migration_4_0], [version |-> Version(4, 1), sql |-> Migration_4_1],
     [version |-> Version(4, 2), sql |-> Migration_4_2], [version |-> Version(4, 3), sql |-> Migration_4_3],
     [version |-> Version(5, 0), sql |-> Migration_5_0] >>
SCHEMA_VERSION == Version(5, 0)
---------------------------------------------------------------------------
Database(version, tables, indexes) == [version |-> version, tables |-> tables, indexes |-> indexes]
Table(key, cols, refs, rows) == [key |-> key, cols |-> cols, refs |-> refs, rows |-> rows]
NoDatabase == Database(0, [t \in {} |-> <<>>], [i \in {} |-> <<>>])
Columns(db, t) == DOMAIN db.tables[t].cols
NotNull(t) == {c \in DOMAIN t.cols : t.cols[c] = Required}
Project(row, cols) == [c \in DOMAIN row \cap cols |-> row[c]]
\* The reference at column c finds its row, or is NULL.
Resolves(db, refs, row, c) ==
  c \in DOMAIN row =>
    /\ refs[c].to \in DOMAIN db.tables
    /\ \E parent \in db.tables[refs[c].to].rows : parent[KeyOf(refs[c].to)] = row[c]
\* A row that may be stored now; the deferred references are COMMIT's.
Storable(db, t, row) ==
  /\ NotNull(t) \subseteq DOMAIN row
  /\ \A c \in DOMAIN t.refs : t.refs[c].checked = "at once" => Resolves(db, t.refs, row, c)
DeferredResolve(db) ==
  \A n \in DOMAIN db.tables : \A row \in db.tables[n].rows :
    \A c \in DOMAIN db.tables[n].refs : Resolves(db, db.tables[n].refs, row, c)

Copied(db, s) ==
  LET to == db.tables[s.as]
  IN {Project(row, DOMAIN to.cols) : row \in
        {r \in db.tables[s.table].rows : \A c \in s.resolving : Resolves(db, to.refs, r, c)}}
\* Whether SQLite runs the statement.
Possible(db, s) ==
  \/ s.do = "create table" /\ s.table \notin DOMAIN db.tables
  \/ /\ s.do = "create index"
     /\ s.name \notin DOMAIN db.indexes
     /\ s.table \in DOMAIN db.tables /\ s.cols \subseteq Columns(db, s.table)
  \/ /\ s.do = "add column"
     /\ s.table \in DOMAIN db.tables /\ s.col \notin Columns(db, s.table) /\ s.how # Required
  \/ /\ s.do = "drop column"
     /\ s.table \in DOMAIN db.tables /\ s.col \in Columns(db, s.table)
     /\ \A i \in DOMAIN db.indexes :
          db.indexes[i].table = s.table => s.col \notin db.indexes[i].cols
  \/ s.do = "drop table" /\ s.table \in DOMAIN db.tables
  \/ s.do = "rename table" /\ s.table \in DOMAIN db.tables /\ s.as \notin DOMAIN db.tables
  \/ /\ s.do = "copy rows"
     /\ {s.table, s.as} \subseteq DOMAIN db.tables
     /\ Columns(db, s.as) \subseteq Columns(db, s.table)
     /\ \A row \in Copied(db, s) : Storable(db, db.tables[s.as], row)

\* DROP TABLE deletes the rows first, and what refers to them with ON DELETE CASCADE.
Cascaded(db, table, n) ==
  {row \in db.tables[n].rows :
     \A c \in DOMAIN db.tables[n].refs :
       db.tables[n].refs[c].to = table /\ db.tables[n].refs[c].on_delete = "cascade"
         => c \notin DOMAIN row}
\* What each statement makes of tables and indexes.
WithTable(db, n, t) ==
  Database(db.version, [m \in DOMAIN db.tables \cup {n} |-> IF m = n THEN t ELSE db.tables[m]], db.indexes)
WithRows(t, rows) == Table(t.key, t.cols, t.refs, rows)
TableCreated(db, s) == WithTable(db, s.table, Table(s.key, s.cols, s.refs, {}))
IndexCreated(db, s) ==
  Database(db.version, db.tables,
           [i \in DOMAIN db.indexes \cup {s.name} |->
              IF i = s.name THEN [table |-> s.table, cols |-> s.cols, unique |-> s.unique] ELSE db.indexes[i]])
ColumnAdded(db, s) ==
  LET t == db.tables[s.table]
      cols == [c \in DOMAIN t.cols \cup {s.col} |-> IF c = s.col THEN s.how ELSE t.cols[c]]
  IN WithTable(db, s.table, Table(t.key, cols, t.refs, t.rows))
ColumnDropped(db, s) ==
  LET t == db.tables[s.table]
      left == DOMAIN t.cols \ {s.col}
  IN WithTable(db, s.table, Table(t.key, [c \in left |-> t.cols[c]], t.refs, {Project(row, left) : row \in t.rows}))
TableDropped(db, s) ==
  Database(db.version,
           [n \in DOMAIN db.tables \ {s.table} |-> WithRows(db.tables[n], Cascaded(db, s.table, n))],
           [i \in {j \in DOMAIN db.indexes : db.indexes[j].table # s.table} |-> db.indexes[i]])
TableRenamed(db, s) ==
  Database(db.version,
           [n \in (DOMAIN db.tables \ {s.table}) \cup {s.as} |-> db.tables[IF n = s.as THEN s.table ELSE n]],
           [i \in DOMAIN db.indexes |-> [db.indexes[i] EXCEPT !.table = IF @ = s.table THEN s.as ELSE @]])
RowsCopied(db, s) ==
  LET t == db.tables[s.as] IN WithTable(db, s.as, WithRows(t, t.rows \cup Copied(db, s)))
Run(db, s) ==
  CASE s.do = "create table" -> TableCreated(db, s)
    [] s.do = "create index" -> IndexCreated(db, s)
    [] s.do = "add column"   -> ColumnAdded(db, s)
    [] s.do = "drop column"  -> ColumnDropped(db, s)
    [] s.do = "drop table"   -> TableDropped(db, s)
    [] s.do = "rename table" -> TableRenamed(db, s)
    [] s.do = "copy rows"    -> RowsCopied(db, s)

\* execute_batch: the statements in order, up to the first that fails.
AfterStatement(before, s) ==
  IF before.ok /\ Possible(before.db, s) THEN [ok |-> TRUE, db |-> Run(before.db, s)]
  ELSE [ok |-> FALSE, db |-> before.db]
execute_batch(db, sql) ==
  LET after[i \in 0..Len(sql)] ==
        IF i = 0 THEN [ok |-> TRUE, db |-> db] ELSE AfterStatement(after[i - 1], sql[i])
  IN after[Len(sql)]

\* PRAGMA user_version, the statement after the last migration's.
AtVersion(db, v) == Database(encode(v), db.tables, db.indexes)

\* The database a fresh install of the binary at place n of MIGRATIONS makes.
Fresh[n \in 0..Len(MIGRATIONS)] ==
  IF n = 0 THEN NoDatabase
  ELSE AtVersion(execute_batch(Fresh[n - 1], MIGRATIONS[n].sql).db, MIGRATIONS[n].version)

\* Two databases with the same tables, columns, keys, references and indexes.
SameTable(t, u) == t.key = u.key /\ t.cols = u.cols /\ t.refs = u.refs
Alike(d, e) ==
  /\ DOMAIN d.tables = DOMAIN e.tables /\ d.indexes = e.indexes
  /\ \A t \in DOMAIN d.tables : SameTable(d.tables[t], e.tables[t])
=============================================================================
