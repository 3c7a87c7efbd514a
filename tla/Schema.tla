------------------------------- MODULE Schema -------------------------------
(***************************************************************************)
(* The migration files under backend/migrations as functions on a catalog: *)
(* the columns of each table and the table that each named index belongs   *)
(* to.  Types, defaults, keys, rows and the monthly partitions are left    *)
(* out: they change neither the columns nor the named indexes.             *)
(***************************************************************************)
EXTENDS Integers, Functions

EmptyCatalog == [tables |-> <<>>, indexes |-> <<>>]

With(f, name, value) == [n \in DOMAIN f \cup {name} |-> IF n = name THEN value ELSE f[n]]
Without(f, gone) == Restrict(f, DOMAIN f \ gone)
On(cat, table) == {n \in DOMAIN cat.indexes : cat.indexes[n] = table}

CreateTable(cat, t, columns) ==
  IF t \in DOMAIN cat.tables THEN cat
  ELSE [cat EXCEPT !.tables = With(@, t, columns)]

AddColumns(cat, t, columns) == [cat EXCEPT !.tables[t] = @ \cup columns]

\* IF NOT EXISTS looks at the name of the index, whatever table it is on.
CreateIndexes(cat, t, names) ==
  [cat EXCEPT !.indexes = [n \in DOMAIN @ \cup names |-> IF n \in DOMAIN @ THEN @[n] ELSE t]]

\* The indexes stay with the table and keep their names.
RenameTable(cat, t, new) ==
  [tables |-> With(Without(cat.tables, {t}), new, cat.tables[t]),
   indexes |-> [n \in DOMAIN cat.indexes |-> IF n \in On(cat, t) THEN new ELSE cat.indexes[n]]]

DropTable(cat, t) ==
  [tables |-> Without(cat.tables, {t}), indexes |-> Without(cat.indexes, On(cat, t))]

-----------------------------------------------------------------------------

ClickColumns == {"id", "short_code", "click_time", "ip_address", "user_agent",
                 "referrer", "country", "browser", "os"}

InitSchema(cat) ==
  LET urls == CreateTable(cat, "urls", {"id", "short_code", "long_url", "is_custom",
                                        "created_at", "expires_at"})
      both == CreateTable(urls, "analytics", ClickColumns)
  IN CreateIndexes(CreateIndexes(both, "urls", {"idx_urls_short_code"}),
                   "analytics", {"idx_analytics_short_code"})

UsersOwnership(cat) ==
  LET users == CreateTable(cat, "users", {"id", "firebase_uid", "email", "plan", "created_at"})
      urls == AddColumns(users, "urls", {"user_id", "click_count"})
  IN CreateIndexes(CreateIndexes(urls, "urls", {"idx_urls_user_id"}),
                   "analytics", {"idx_analytics_code_time"})

AddDeviceColumn(cat) ==
  CreateIndexes(AddColumns(cat, "analytics", {"device"}), "analytics", {"idx_analytics_device"})

AnalyticsPartitioning(cat) ==
  LET renamed == RenameTable(cat, "analytics", "analytics_old")
      created == CreateTable(renamed, "analytics", ClickColumns)
      indexed == CreateIndexes(created, "analytics",
                               {"idx_analytics_short_code", "idx_analytics_click_time"})
  IN DropTable(indexed, "analytics_old")

Latest == 4

\* The file that takes the database from version v - 1 to version v.
Migrated(v, cat) ==
  CASE v = 1 -> InitSchema(cat)
    [] v = 2 -> UsersOwnership(cat)
    [] v = 3 -> AddDeviceColumn(cat)
    [] v = 4 -> AnalyticsPartitioning(cat)

\* What BulkInsert and the queries of GetByCode name.
RecordColumns == (ClickColumns \ {"id"}) \cup {"device"}
=============================================================================
