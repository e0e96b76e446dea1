----------------------------- MODULE SchemaSync -----------------------------
(***************************************************************************)
(* warpin-storage: services boot against one database, check its health and *)
(* add the tables and columns their entities register, statement by         *)
(* statement and without a lock; each keeps a runtime with a status.        *)
(***************************************************************************)
EXTENDS Integers, SequencesExt

CONSTANTS
    Services,
    Plans,       \* of each service the set of its possible SchemaPlans: sequences of
                 \* [table, columns], columns a sequence
    Tables,
    FirstSchemas, \* the schemas the database may have at first
    MaxBoots,    \* bound: boots of one service
    MaxFaults    \* bound: statements that fail

VARIABLES
    schema,   \* the columns of each table, or Absent
    runtime,  \* of each service: see Off
    boots, faults

schemaVars == <<schema, runtime, boots, faults>>

Absent == {"no_such_table"}
Exists(table) == schema[table] # Absent

(* Plans and first schemas speak of the tables; Absent names no column.      *)
ASSUME PlansAssumption ==
    LET Names == STRING \ Absent
    IN  /\ \A s \in Services : Plans[s] \subseteq Seq([table : Tables, columns : Seq(Names)])
        /\ FirstSchemas \subseteq [Tables -> {Absent} \union SUBSET Names]

NoReport == [created |-> {}, updated |-> {}, added |-> 0]
Off == [step |-> "off", plan |-> <<>>, sync |-> FALSE, at |-> 0, missing |-> {},
        report |-> NoReport, connected |-> FALSE, healthy |-> FALSE, state |-> "Disabled",
        synced |-> FALSE]

SchemaInit ==
    /\ schema \in FirstSchemas
    /\ runtime = [s \in Services |-> Off]
    /\ boots = [s \in Services |-> 0]
    /\ faults = 0

-----------------------------------------------------------------------------
Entity(r) == r.plan[r.at]
Become(s, r) == runtime' = [runtime EXCEPT ![s] = r]

(* from_connected builds the status once the health check and the sync ran.  *)
Connected(r) == [r EXCEPT !.step = "ready", !.connected = TRUE, !.healthy = TRUE, !.state = "Connected"]
Degraded(r, healthy) ==
    [r EXCEPT !.step = "ready", !.connected = TRUE, !.healthy = healthy, !.state = "Degraded"]
IsReady(r) == r.connected /\ r.healthy

NextEntity(r) ==
    IF r.at < Len(r.plan) THEN [r EXCEPT !.step = "exists", !.at = @ + 1]
    ELSE Connected([r EXCEPT !.synced = TRUE])

(* A process may boot, again after a crash, with the plan of its version;    *)
(* without a url the runtime stays disabled.                                 *)
Boot(s, plan, sync, configured) ==
    /\ boots[s] < MaxBoots
    /\ boots' = [boots EXCEPT ![s] = @ + 1]
    /\ Become(s, IF configured THEN [Off EXCEPT !.step = "connect", !.plan = plan, !.sync = sync]
                 ELSE [Off EXCEPT !.step = "ready"])
    /\ UNCHANGED <<schema, faults>>

ConnectDatabase(s) ==
    /\ runtime[s].step = "connect"
    /\ Become(s, [runtime[s] EXCEPT !.step = "health"])
    /\ UNCHANGED <<schema, boots, faults>>

HealthCheck(s) ==
    LET r == runtime[s]
    IN  /\ r.step = "health"
        /\ Become(s, IF r.sync THEN NextEntity(r) ELSE Connected(r))
        /\ UNCHANGED <<schema, boots, faults>>

TableExists(s) ==
    LET r == runtime[s]
    IN  /\ r.step = "exists"
        /\ Become(s, [r EXCEPT !.step = IF Exists(Entity(r).table) THEN "columns" ELSE "create"])
        /\ UNCHANGED <<schema, boots, faults>>

(* CREATE TABLE IF NOT EXISTS: no error, and no new column, when another     *)
(* service has created the table since.                                      *)
CreateTable(s) ==
    LET r == runtime[s]
        table == Entity(r).table
    IN  /\ r.step = "create"
        /\ schema' = IF Exists(table) THEN schema
                     ELSE [schema EXCEPT ![table] = Range(Entity(r).columns)]
        /\ Become(s, NextEntity([r EXCEPT !.report.created = @ \union {table}]))
        /\ UNCHANGED <<boots, faults>>

(* The columns are read once; the ALTER statements follow one by one, each   *)
(* for the first column of the entity that is missing still.                 *)
GetExistingColumns(s) ==
    LET r == runtime[s]
        columns == Entity(r).columns
        missing == {i \in DOMAIN columns : columns[i] \notin schema[Entity(r).table]}
    IN  /\ r.step = "columns"
        /\ Become(s, IF missing = {} THEN NextEntity(r)
                     ELSE [r EXCEPT !.step = "alter", !.missing = missing])
        /\ UNCHANGED <<schema, boots, faults>>

SyncFailedReady(r) == Connected(r)   \* mutant: a failed sync is only logged
SyncFailed(r) == Degraded(r, TRUE)

AddColumn(s) ==
    LET r == runtime[s]
        table == Entity(r).table
    IN  /\ r.step = "alter"
        /\ \E i \in r.missing :
             LET column == Entity(r).columns[i]
                 left == [r EXCEPT !.missing = @ \ {i}, !.report.added = @ + 1,
                                   !.report.updated = @ \union {table}]
             IN  /\ \A j \in r.missing : i <= j
                 /\ IF column \in schema[table]
                    THEN Become(s, SyncFailed(r)) /\ UNCHANGED schema
                    ELSE /\ schema' = [schema EXCEPT ![table] = @ \union {column}]
                         /\ Become(s, IF left.missing = {} THEN NextEntity(left) ELSE left)
        /\ UNCHANGED <<boots, faults>>

(* Any statement may fail; what was executed before it stays.                *)
StatementFails(s) ==
    LET r == runtime[s]
    IN  /\ r.step \notin {"off", "ready"} /\ faults < MaxFaults
        /\ faults' = faults + 1
        /\ Become(s, CASE r.step = "connect" -> [r EXCEPT !.step = "ready", !.state = "Degraded"]
                       [] r.step = "health" -> Degraded(r, FALSE)
                       [] OTHER -> SyncFailed(r))
        /\ UNCHANGED <<schema, boots>>

SchemaNext ==
    \E s \in Services :
        \/ \E plan \in Plans[s], sync, configured \in BOOLEAN : Boot(s, plan, sync, configured)
        \/ ConnectDatabase(s) \/ HealthCheck(s) \/ TableExists(s) \/ CreateTable(s)
        \/ GetExistingColumns(s) \/ AddColumn(s) \/ StatementFails(s)

SchemaSpec == SchemaInit /\ [][SchemaNext]_schemaVars

-----------------------------------------------------------------------------
Columns(plan, table) ==
    UNION {Range(plan[i].columns) : i \in {j \in DOMAIN plan : plan[j].table = table}}
TablesOf(plan) == {plan[i].table : i \in DOMAIN plan}

(* A service that was asked to synchronise and reports Connected has all its *)
(* tables, and all columns of every table that was there before: a column    *)
(* another service added between the look and the ALTER makes it Degraded,   *)
(* never wrongly Connected.  A sync that stopped half way leaves the service *)
(* usable, and only the state tells.                                         *)
ReportedSchemaIsThere ==
    \A s \in Services :
        LET r == runtime[s]
        IN  /\ (r.state = "Connected" /\ r.sync) =>
                  \A table \in TablesOf(r.plan) :
                      /\ Exists(table)
                      /\ table \notin r.report.created =>
                            Columns(r.plan, table) \subseteq schema[table]
            /\ r.state = "Connected" => IsReady(r)
            /\ (IsReady(r) /\ r.sync) => (r.synced <=> r.state = "Connected")

(* auto_schema.rs:237: "On bootstrap, the plan ... ensures the database      *)
(* schema matches the entity definitions".                                   *)
SyncedMeansComplete ==
    \A s \in Services :
        (runtime[s].state = "Connected" /\ runtime[s].sync) =>
            \A table \in TablesOf(runtime[s].plan) :
                Exists(table) /\ Columns(runtime[s].plan, table) \subseteq schema[table]
=============================================================================
