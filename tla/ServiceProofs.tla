--------------------------- MODULE ServiceProofs ---------------------------
(* What the services around the managed writes rely on.  In the first part,  *)
(* services that synchronise one schema, for any services, plans and first   *)
(* schema, any number of boots, crashes and faults.  In the second, the      *)
(* audit pipeline, for any fields, payloads, block list, limits and number   *)
(* of senders.                                                               *)
EXTENDS SchemaSync, AuditPipeline, SequenceTheorems, WellFoundedInduction, TLAPS

Names == STRING \ Absent
Entities == [table : Tables, columns : Seq(Names)]
Schemas == [Tables -> {Absent} \union SUBSET Names]
Syncing == {"exists", "create", "columns", "alter"}
Steps == {"off", "connect", "health", "ready"} \union Syncing
SyncReports == [created : SUBSET Tables, updated : SUBSET Tables, added : Nat]
Runtimes ==
    [step : Steps, plan : Seq(Entities), sync : BOOLEAN, at : Nat, missing : SUBSET Nat,
     report : SyncReports, connected : BOOLEAN, healthy : BOOLEAN,
     state : {"Disabled", "Connected", "Degraded"}, synced : BOOLEAN]

(* Tables and columns come and stay. *)
Grows(d, e) ==
    \A t \in Tables : d[t] # Absent => e[t] # Absent /\ d[t] \subseteq e[t]

(* Entity i is in schema d: its table exists, with all its columns unless    *)
(* this service believes it has created the table itself.                    *)
Has(d, entity, created) ==
    /\ d[entity.table] # Absent
    /\ entity.table \notin created =>
         \A j \in 1..Len(entity.columns) : entity.columns[j] \in d[entity.table]

(* A runtime reports nothing until it is ready.  It walks over its plan and  *)
(* leaves no entity behind that is not in the schema; the columns it has     *)
(* still to add are all that the entity it is at can miss.                   *)
Underway(r) == r.step # "ready" /\ ~r.connected /\ ~r.synced /\ r.state = "Disabled"
Outcome(r) ==
    /\ r.step = "ready"
    /\ r.state = "Connected" => r.connected /\ r.healthy
    /\ (r.connected /\ r.healthy /\ r.sync) => (r.synced <=> r.state = "Connected")
Walk(d, r) ==
    /\ r.step \in {"connect", "health"} => r.at = 0
    /\ r.step \in Syncing =>
         /\ r.sync /\ r.at \in 1..Len(r.plan)
         /\ \A i \in 1..r.at - 1 : Has(d, r.plan[i], r.report.created)
    /\ r.step \in {"columns", "alter"} => d[r.plan[r.at].table] # Absent
    /\ r.step = "alter" =>
         /\ r.missing \subseteq 1..Len(r.plan[r.at].columns)
         /\ \A j \in 1..Len(r.plan[r.at].columns) :
            j \in r.missing \/ r.plan[r.at].columns[j] \in d[r.plan[r.at].table]
    /\ (r.state = "Connected" /\ r.sync) =>
         \A i \in 1..Len(r.plan) : Has(d, r.plan[i], r.report.created)
Good(d, r) == r \in Runtimes /\ (Underway(r) \/ Outcome(r)) /\ Walk(d, r)

IInv ==
    /\ schema \in Schemas /\ DOMAIN runtime = Services
    /\ \A s \in Services : Good(schema, runtime[s])

-----------------------------------------------------------------------------
LEMMA EntityShape ==
    ASSUME NEW r \in Runtimes, NEW i \in 1..Len(r.plan)
    PROVE  /\ r.plan[i].table \in Tables /\ r.plan[i].columns \in Seq(Names)
           /\ Len(r.plan[i].columns) \in Nat
           /\ \A j \in 1..Len(r.plan[i].columns) : r.plan[i].columns[j] \in Names
<1>1. r.plan \in Seq(Entities)
  BY DEF Runtimes
<1>2. r.plan[i] \in Entities
  BY <1>1, ElementOfSeq
<1>3. r.plan[i].table \in Tables /\ r.plan[i].columns \in Seq(Names)
  BY <1>2 DEF Entities
<1> QED
  BY <1>3, ElementOfSeq, LenProperties

LEMMA RuntimeShape ==
    ASSUME NEW r \in Runtimes
    PROVE  r.plan \in Seq(Entities) /\ Len(r.plan) \in Nat /\ DOMAIN r.plan = 1..Len(r.plan)
<1>1. r.plan \in Seq(Entities)
  BY DEF Runtimes
<1> QED
  BY <1>1, LenProperties

(* What one service has found or done stays so while the schema grows. *)
LEMMA GoodGrows ==
    ASSUME NEW d, NEW e, Grows(d, e), NEW r, Good(d, r)
    PROVE  Good(e, r)
<1>1. r \in Runtimes /\ (Underway(r) \/ Outcome(r)) /\ Walk(d, r)
  BY DEF Good
<1>2. \A c : \A i \in 1..Len(r.plan) : Has(d, r.plan[i], c) => Has(e, r.plan[i], c)
  BY <1>1, EntityShape DEF Has, Grows
<1>3. /\ r.step \in {"connect", "health"} => r.at = 0
      /\ r.step \in Syncing => r.sync /\ r.at \in 1..Len(r.plan)
  BY <1>1 DEF Walk
<1>4. r.step \in Syncing => \A i \in 1..r.at - 1 : Has(e, r.plan[i], r.report.created)
  <2>1. r.step \in Syncing => \A i \in 1..r.at - 1 : i \in 1..Len(r.plan)
    BY <1>1, <1>3, RuntimeShape
  <2> QED
    BY <1>1, <1>2, <2>1 DEF Walk
<1>5. r.step \in {"columns", "alter"} =>
        /\ e[r.plan[r.at].table] # Absent
        /\ d[r.plan[r.at].table] \subseteq e[r.plan[r.at].table]
  BY <1>1, <1>3, EntityShape DEF Walk, Grows, Syncing
<1>6. r.step = "alter" =>
         /\ r.missing \subseteq 1..Len(r.plan[r.at].columns)
         /\ \A j \in 1..Len(r.plan[r.at].columns) :
            j \in r.missing \/ r.plan[r.at].columns[j] \in e[r.plan[r.at].table]
  BY <1>1, <1>5 DEF Walk
<1>7. (r.state = "Connected" /\ r.sync) =>
         \A i \in 1..Len(r.plan) : Has(e, r.plan[i], r.report.created)
  BY <1>1, <1>2 DEF Walk
<1> QED
  BY <1>1, <1>3, <1>4, <1>5, <1>6, <1>7 DEF Good, Walk

(* The records the steps make of a runtime. *)
LEMMA StepReads ==
    ASSUME NEW r \in Runtimes, NEW x \in Steps, NEW q, q = [r EXCEPT !.step = x]
    PROVE  /\ q \in Runtimes /\ q.step = x /\ q.plan = r.plan /\ q.sync = r.sync
           /\ q.at = r.at /\ q.report = r.report /\ q.state = r.state /\ q.missing = r.missing
           /\ q.connected = r.connected /\ q.synced = r.synced
BY DEF Runtimes, Steps

LEMMA NextReads ==
    ASSUME NEW r \in Runtimes, NEW q, q = [r EXCEPT !.step = "exists", !.at = @ + 1]
    PROVE  /\ q \in Runtimes /\ q.step = "exists" /\ q.at = r.at + 1 /\ q.plan = r.plan
           /\ q.sync = r.sync /\ q.report = r.report /\ q.state = r.state
           /\ q.connected = r.connected /\ q.synced = r.synced
<1>1. PICK p : p = [r EXCEPT !.step = "exists"]
  OBVIOUS
<1>2. /\ p \in Runtimes /\ p.step = "exists" /\ p.plan = r.plan /\ p.sync = r.sync
      /\ p.at = r.at /\ p.report = r.report /\ p.state = r.state
      /\ p.connected = r.connected /\ p.synced = r.synced
  BY <1>1, StepReads DEF Steps, Syncing
<1>3. q = [p EXCEPT !.at = r.at + 1]
  BY <1>1
<1>4. r.at + 1 \in Nat
  BY DEF Runtimes
<1> QED
  BY <1>2, <1>3, <1>4 DEF Runtimes

LEMMA ConnectedReads ==
    ASSUME NEW r \in Runtimes, NEW q, q = Connected(r)
    PROVE  /\ q \in Runtimes /\ q.step = "ready" /\ q.plan = r.plan /\ q.sync = r.sync
           /\ q.report = r.report /\ q.state = "Connected" /\ q.connected = TRUE
           /\ q.healthy = TRUE /\ q.synced = r.synced
BY DEF Connected, Runtimes, Steps

LEMMA SyncedReads ==
    ASSUME NEW r \in Runtimes, NEW q, q = [r EXCEPT !.synced = TRUE]
    PROVE  /\ q \in Runtimes /\ q.plan = r.plan /\ q.sync = r.sync /\ q.report = r.report
           /\ q.synced = TRUE
BY DEF Runtimes

LEMMA DegradedReads ==
    ASSUME NEW r \in Runtimes, NEW b \in BOOLEAN, NEW q, q = Degraded(r, b)
    PROVE  /\ q \in Runtimes /\ q.step = "ready" /\ q.state = "Degraded"
           /\ q.healthy = b /\ q.synced = r.synced
BY DEF Degraded, Runtimes, Steps

-----------------------------------------------------------------------------
(* An entity that is in the schema is left behind; after the last one the    *)
(* service reports Connected.                                                *)
LEMMA NextEntityGood ==
    ASSUME NEW d, NEW r \in Runtimes, Underway(r), r.sync, r.at \in 0..Len(r.plan),
           \A i \in 1..r.at : Has(d, r.plan[i], r.report.created)
    PROVE  Good(d, NextEntity(r))
<1>1. Len(r.plan) \in Nat /\ r.at \in Nat
  BY RuntimeShape
<1>2. CASE r.at < Len(r.plan)
  <2>1. PICK q : q = [r EXCEPT !.step = "exists", !.at = @ + 1]
    OBVIOUS
  <2>2. /\ q \in Runtimes /\ q.step = "exists" /\ q.at = r.at + 1 /\ q.plan = r.plan
        /\ q.sync = r.sync /\ q.report = r.report /\ q.state = r.state
        /\ q.connected = r.connected /\ q.synced = r.synced
    BY <2>1, NextReads
  <2>3. q.at \in 1..Len(q.plan) /\ \A i \in 1..q.at - 1 : i \in 1..r.at
    BY <1>1, <1>2, <2>2
  <2>4. Underway(q)
    BY <2>2 DEF Underway
  <2>5. \A i \in 1..q.at - 1 : Has(d, q.plan[i], q.report.created)
    BY <2>2, <2>3
  <2>6. Walk(d, q)
    BY <2>2, <2>3, <2>4, <2>5 DEF Walk, Underway
  <2> QED
    BY <1>2, <2>1, <2>2, <2>4, <2>6 DEF NextEntity, Good
<1>3. CASE ~(r.at < Len(r.plan))
  <2>0. PICK p : p = [r EXCEPT !.synced = TRUE]
    OBVIOUS
  <2>1. PICK q : q = Connected(p)
    OBVIOUS
  <2>2. /\ q \in Runtimes /\ q.step = "ready" /\ q.plan = r.plan /\ q.sync = r.sync
        /\ q.report = r.report /\ q.state = "Connected" /\ q.connected = TRUE
        /\ q.healthy = TRUE /\ q.synced = TRUE
    <3>1. /\ p \in Runtimes /\ p.plan = r.plan /\ p.sync = r.sync /\ p.report = r.report
          /\ p.synced = TRUE
      BY <2>0, SyncedReads
    <3> QED
      BY <2>1, <3>1, ConnectedReads
  <2>3. r.at = Len(r.plan)
    BY <1>1, <1>3
  <2>4. Outcome(q)
    BY <2>2 DEF Outcome
  <2>5. \A i \in 1..Len(q.plan) : Has(d, q.plan[i], q.report.created)
    BY <2>2, <2>3
  <2>6. Walk(d, q)
    BY <2>2, <2>5 DEF Walk, Syncing
  <2> QED
    BY <1>3, <2>0, <2>1, <2>2, <2>4, <2>6 DEF NextEntity, Good
<1> QED
  BY <1>2, <1>3

(* Without a sync the health check alone makes a service Connected; a        *)
(* Degraded one promises nothing of the schema.                              *)
LEMMA ConnectedGood ==
    ASSUME NEW d, NEW r \in Runtimes, Underway(r), ~r.sync
    PROVE  Good(d, Connected(r))
<1>2. PICK q : q = Connected(r)
  OBVIOUS
<1>3. /\ q \in Runtimes /\ q.step = "ready" /\ q.sync = r.sync
      /\ q.state = "Connected" /\ q.connected = TRUE /\ q.healthy = TRUE
  BY <1>2, ConnectedReads
<1> QED
  BY <1>2, <1>3 DEF Good, Outcome, Walk, Syncing

LEMMA DegradedGood ==
    ASSUME NEW d, NEW r \in Runtimes, Underway(r), NEW b \in BOOLEAN
    PROVE  Good(d, Degraded(r, b))
<1>1. PICK q : q = Degraded(r, b)
  OBVIOUS
<1>2. /\ q \in Runtimes /\ q.step = "ready" /\ q.state = "Degraded" /\ q.synced = r.synced
  BY <1>1, DegradedReads
<1>3. ~q.synced
  BY <1>2 DEF Underway
<1> QED
  BY <1>1, <1>2, <1>3 DEF Good, Outcome, Walk, Syncing

LEMMA OffGood ==
    ASSUME NEW d
    PROVE  Good(d, Off)
<1>1. Off \in Runtimes
  <2>1. <<>> \in Seq(Entities)
    OBVIOUS
  <2> QED
    BY <2>1 DEF Off, NoReport, Runtimes, SyncReports, Steps
<1>2. Underway(Off) /\ Off.step = "off"
  BY DEF Off, Underway
<1> QED
  BY <1>1, <1>2 DEF Good, Underway, Walk, Syncing

(* One service takes a step that may make the schema grow. *)
LEMMA ServiceKeeps ==
    ASSUME IInv, NEW s \in Services, NEW r, Become(s, r), schema' \in Schemas,
           Grows(schema, schema'), Good(schema', r)
    PROVE  IInv'
<1>1. runtime' = [runtime EXCEPT ![s] = r] /\ DOMAIN runtime = Services
  BY DEF Become, IInv
<1>2. ASSUME NEW x \in Services
      PROVE  Good(schema', runtime'[x])
  BY <1>1, GoodGrows DEF IInv
<1> QED
  BY <1>1, <1>2 DEF IInv

LEMMA SchemaStays ==
    ASSUME IInv, schema' = schema
    PROVE  schema' \in Schemas /\ Grows(schema, schema')
BY DEF IInv, Grows

-----------------------------------------------------------------------------
(* Before the statements: a process boots, connects, checks its health.      *)
LEMMA BootKeeps ==
    ASSUME IInv, NEW s \in Services, NEW plan \in Plans[s], NEW sync \in BOOLEAN,
           NEW configured \in BOOLEAN, Boot(s, plan, sync, configured)
    PROVE  IInv'
<1>1. schema' \in Schemas /\ Grows(schema, schema')
  BY SchemaStays DEF Boot
<1>2. plan \in Seq(Entities)
  BY PlansAssumption DEF Entities, Names
<1>3. Off \in Runtimes /\ Underway(Off) /\ Off.at = 0 /\ Off.state = "Disabled" /\ ~Off.connected
  BY OffGood DEF Good, Off, Underway
<1>4. CASE configured
  <2>1. PICK r : r = [Off EXCEPT !.step = "connect", !.plan = plan, !.sync = sync]
    OBVIOUS
  <2>2. /\ r \in Runtimes /\ r.step = "connect" /\ r.at = 0 /\ r.state = "Disabled"
        /\ r.connected = FALSE /\ r.synced = FALSE
    BY <1>2, <1>3, <2>1 DEF Off, Runtimes, Steps, NoReport
  <2>3. Good(schema', r)
    BY <2>2 DEF Good, Underway, Walk, Syncing
  <2> QED
    BY <1>1, <1>4, <2>1, <2>3, ServiceKeeps DEF Boot
<1>5. CASE ~configured
  <2>1. PICK r : r = [Off EXCEPT !.step = "ready"]
    OBVIOUS
  <2>2. /\ r \in Runtimes /\ r.step = "ready" /\ r.state = "Disabled" /\ r.connected = FALSE
    BY <1>3, <2>1 DEF Off, Runtimes, Steps
  <2>3. Good(schema', r)
    BY <2>2 DEF Good, Outcome, Walk, Syncing
  <2> QED
    BY <1>1, <1>5, <2>1, <2>3, ServiceKeeps DEF Boot
<1> QED
  BY <1>4, <1>5

LEMMA ConnectKeeps ==
    ASSUME IInv, NEW s \in Services, ConnectDatabase(s) \/ HealthCheck(s)
    PROVE  IInv'
<1>1. PICK r : r = runtime[s]
  OBVIOUS
<1>2. /\ schema' = schema /\ r \in Runtimes /\ Walk(schema, r) /\ Underway(r)
      /\ r.step \in {"connect", "health"} /\ r.at = 0
  BY <1>1 DEF ConnectDatabase, HealthCheck, IInv, Good, Outcome, Walk
<1>3. CASE ConnectDatabase(s)
  <2>1. PICK q : q = [r EXCEPT !.step = "health"]
    OBVIOUS
  <2>2. /\ q \in Runtimes /\ q.step = "health" /\ q.at = r.at /\ q.state = r.state
        /\ q.connected = r.connected /\ q.synced = r.synced
    BY <1>2, <2>1, StepReads DEF Steps
  <2>3. Good(schema', q)
    BY <1>2, <2>2 DEF Good, Underway, Walk, Syncing
  <2> QED
    BY <1>1, <1>2, <1>3, <2>1, <2>3, SchemaStays, ServiceKeeps DEF ConnectDatabase
<1>4. CASE HealthCheck(s)
  <2>1. CASE r.sync
    <3>1. r.at \in 0..Len(r.plan) /\ \A i \in 1..r.at : FALSE
      BY <1>2, RuntimeShape
    <3>2. Good(schema, NextEntity(r))
      BY <1>2, <2>1, <3>1, NextEntityGood
    <3>3. Become(s, NextEntity(r))
      BY <1>1, <1>4, <2>1 DEF HealthCheck
    <3> QED
      BY <1>2, <3>2, <3>3, SchemaStays, ServiceKeeps
  <2>2. CASE ~r.sync
    <3>1. Good(schema, Connected(r))
      BY <1>2, <2>2, ConnectedGood
    <3>2. Become(s, Connected(r))
      BY <1>1, <1>4, <2>2 DEF HealthCheck
    <3> QED
      BY <1>2, <3>1, <3>2, SchemaStays, ServiceKeeps
  <2> QED
    BY <2>1, <2>2
<1> QED
  BY <1>3, <1>4

(* What is known of a service in the middle of its plan. *)
LEMMA AtAnEntity ==
    ASSUME IInv, NEW s \in Services, NEW r, r = runtime[s], r.step \in Syncing
    PROVE  /\ r \in Runtimes /\ Underway(r) /\ r.sync
           /\ r.at \in 1..Len(r.plan) /\ r.at \in 0..Len(r.plan)
           /\ \A i \in 1..r.at - 1 : Has(schema, r.plan[i], r.report.created)
           /\ Walk(schema, r)
           /\ Entity(r).table \in Tables /\ Entity(r).columns \in Seq(Names)
           /\ Len(Entity(r).columns) \in Nat
           /\ \A j \in 1..Len(Entity(r).columns) : Entity(r).columns[j] \in Names
<1>1. r \in Runtimes /\ Underway(r) /\ Walk(schema, r)
  BY DEF IInv, Good, Outcome, Syncing
<1>2. r.sync /\ r.at \in 1..Len(r.plan)
      /\ \A i \in 1..r.at - 1 : Has(schema, r.plan[i], r.report.created)
  BY <1>1 DEF Walk
<1> QED
  BY <1>1, <1>2, RuntimeShape, EntityShape DEF Entity

LEMMA TableExistsKeeps ==
    ASSUME IInv, NEW s \in Services, TableExists(s)
    PROVE  IInv'
<1>1. PICK r : r = runtime[s]
  OBVIOUS
<1>2. r.step = "exists" /\ schema' = schema
  BY <1>1 DEF TableExists
<1>3. /\ r \in Runtimes /\ Underway(r) /\ r.sync /\ r.at \in 1..Len(r.plan)
      /\ \A i \in 1..r.at - 1 : Has(schema, r.plan[i], r.report.created)
  BY <1>1, <1>2, AtAnEntity DEF Syncing
<1>4. PICK x \in {"columns", "create"} :
        /\ Become(s, [r EXCEPT !.step = x])
        /\ x = "columns" => schema[r.plan[r.at].table] # Absent
  BY <1>1 DEF TableExists, Exists, Entity
<1>5. PICK q : q = [r EXCEPT !.step = x]
  OBVIOUS
<1>6. /\ q \in Runtimes /\ q.step = x /\ q.plan = r.plan /\ q.sync = r.sync
      /\ q.at = r.at /\ q.report = r.report /\ q.state = r.state
      /\ q.connected = r.connected /\ q.synced = r.synced
  BY <1>3, <1>5 DEF Runtimes, Steps, Syncing
<1>7. Underway(q)
  BY <1>3, <1>6 DEF Underway
<1>8. Walk(schema, q)
  BY <1>3, <1>4, <1>6, <1>7 DEF Walk, Underway, Syncing
<1>9. Good(schema', q)
  BY <1>2, <1>6, <1>7, <1>8 DEF Good
<1> QED
  BY <1>2, <1>4, <1>5, <1>9, SchemaStays, ServiceKeeps

(* CREATE TABLE IF NOT EXISTS: the table is there afterwards; with which     *)
(* columns is not known, so the service counts it among those it created.    *)
LEMMA CreateTableKeeps ==
    ASSUME IInv, NEW s \in Services, CreateTable(s)
    PROVE  IInv'
<1>1. PICK r : r = runtime[s]
  OBVIOUS
<1>2. PICK table : table = Entity(r).table
  OBVIOUS
<1>3. r.step = "create"
  BY <1>1 DEF CreateTable
<1>4. /\ r \in Runtimes /\ Underway(r) /\ r.sync
      /\ r.at \in 1..Len(r.plan) /\ r.at \in 0..Len(r.plan)
      /\ \A i \in 1..r.at - 1 : Has(schema, r.plan[i], r.report.created)
      /\ table \in Tables
  BY <1>1, <1>2, <1>3, AtAnEntity DEF Syncing
<1>5. schema' = IF schema[table] # Absent THEN schema
                ELSE [schema EXCEPT ![table] = Range(Entity(r).columns)]
  BY <1>1, <1>2 DEF CreateTable, Exists
<1>6. schema \in Schemas /\ Range(Entity(r).columns) \in SUBSET Names
      /\ Range(Entity(r).columns) # Absent
  <2>1. /\ Entity(r).columns \in Seq(Names)
        /\ DOMAIN Entity(r).columns = 1..Len(Entity(r).columns)
    BY <1>1, <1>3, AtAnEntity, LenProperties DEF Syncing
  <2>2. Range(Entity(r).columns) \in SUBSET Names
    BY <2>1, ElementOfSeq DEF Range
  <2>3. Absent \notin SUBSET Names
    BY DEF Absent, Names
  <2> QED
    BY <2>2, <2>3 DEF IInv
<1>7. schema' \in Schemas /\ Grows(schema, schema') /\ schema'[table] # Absent
  BY <1>4, <1>5, <1>6 DEF Schemas, Grows
<1>8. PICK q : q = [r EXCEPT !.report.created = @ \union {table}]
  OBVIOUS
<1>9. /\ q \in Runtimes /\ q.step = r.step /\ q.plan = r.plan /\ q.sync = r.sync
      /\ q.at = r.at /\ q.state = r.state
      /\ q.connected = r.connected /\ q.synced = r.synced
      /\ q.report.created = r.report.created \union {table}
  <2>1. r.report \in SyncReports
    BY <1>4 DEF Runtimes
  <2>2. PICK x : x = [r.report EXCEPT !.created = @ \union {table}]
    OBVIOUS
  <2>3. x \in SyncReports /\ x.created = r.report.created \union {table}
    BY <1>4, <2>1, <2>2 DEF SyncReports
  <2>4. q = [r EXCEPT !.report = x]
    BY <1>8, <2>2
  <2> QED
    BY <1>4, <2>3, <2>4 DEF Runtimes
<1>10. Underway(q)
  BY <1>4, <1>9 DEF Underway
<1>11. \A i \in 1..q.at : Has(schema', q.plan[i], q.report.created)
  <2> SUFFICES ASSUME NEW i \in 1..r.at
               PROVE  Has(schema', r.plan[i], r.report.created \union {table})
    BY <1>9
  <2>1. i \in 1..Len(r.plan) /\ (i \in 1..r.at - 1 \/ i = r.at)
    BY <1>4, RuntimeShape
  <2>2. CASE i = r.at
    BY <1>2, <1>7, <2>2 DEF Has, Entity
  <2>3. CASE i \in 1..r.at - 1
    <3>1. Has(schema, r.plan[i], r.report.created) /\ r.plan[i].table \in Tables
      BY <1>4, <2>1, <2>3, EntityShape
    <3> QED
      BY <1>7, <3>1 DEF Has, Grows
  <2> QED
    BY <2>1, <2>2, <2>3
<1>12. Good(schema', NextEntity(q))
  BY <1>4, <1>9, <1>10, <1>11, NextEntityGood
<1>13. Become(s, NextEntity(q))
  BY <1>1, <1>2, <1>8 DEF CreateTable
<1> QED
  BY <1>7, <1>12, <1>13, ServiceKeeps

LEMMA GetExistingColumnsKeeps ==
    ASSUME IInv, NEW s \in Services, GetExistingColumns(s)
    PROVE  IInv'
<1>1. PICK r : r = runtime[s]
  OBVIOUS
<1>2. r.step = "columns" /\ schema' = schema
  BY <1>1 DEF GetExistingColumns
<1>3. /\ r \in Runtimes /\ Underway(r) /\ r.sync /\ Walk(schema, r)
      /\ r.at \in 1..Len(r.plan) /\ r.at \in 0..Len(r.plan)
      /\ \A i \in 1..r.at - 1 : Has(schema, r.plan[i], r.report.created)
      /\ Entity(r).columns \in Seq(Names)
  BY <1>1, <1>2, AtAnEntity DEF Syncing
<1>4. PICK n \in Nat : n = Len(Entity(r).columns) /\ DOMAIN Entity(r).columns = 1..n
  BY <1>3, LenProperties
<1>5. PICK missing : missing = {i \in 1..n : Entity(r).columns[i] \notin schema[Entity(r).table]}
  OBVIOUS
<1>6. schema[Entity(r).table] # Absent
  BY <1>2, <1>3 DEF Walk, Entity
<1>7. CASE missing = {}
  <2>1. \A j \in 1..n : Entity(r).columns[j] \in schema[Entity(r).table]
    BY <1>5, <1>7
  <2>2. Has(schema, r.plan[r.at], r.report.created)
    BY <1>4, <1>6, <2>1 DEF Has, Entity
  <2>3. \A i \in 1..r.at : i \in 1..r.at - 1 \/ i = r.at
    BY <1>3
  <2>4. Good(schema, NextEntity(r))
    BY <1>3, <2>2, <2>3, NextEntityGood
  <2>5. Become(s, NextEntity(r))
    BY <1>1, <1>4, <1>5, <1>7 DEF GetExistingColumns
  <2> QED
    BY <1>2, <2>4, <2>5, SchemaStays, ServiceKeeps
<1>8. CASE missing # {}
  <2>1. PICK q : q = [r EXCEPT !.step = "alter", !.missing = missing]
    OBVIOUS
  <2>2. missing \subseteq Nat
    BY <1>5
  <2>3. /\ q \in Runtimes /\ q.step = "alter" /\ q.plan = r.plan /\ q.sync = r.sync
        /\ q.at = r.at /\ q.state = r.state /\ q.report = r.report
        /\ q.connected = r.connected /\ q.synced = r.synced /\ q.missing = missing
    BY <1>3, <2>1, <2>2 DEF Runtimes, Steps, Syncing
  <2>4. Underway(q)
    BY <1>3, <2>3 DEF Underway
  <2>5. missing \subseteq 1..n
        /\ \A j \in 1..n : j \in missing \/ Entity(r).columns[j] \in schema[Entity(r).table]
    BY <1>5
  <2>6. Walk(schema, q)
    BY <1>3, <1>4, <1>6, <2>3, <2>4, <2>5 DEF Walk, Underway, Syncing, Entity
  <2>7. Good(schema, q)
    BY <2>3, <2>4, <2>6 DEF Good
  <2>8. Become(s, q)
    BY <1>1, <1>4, <1>5, <1>8, <2>1 DEF GetExistingColumns
  <2> QED
    BY <1>2, <2>7, <2>8, SchemaStays, ServiceKeeps
<1> QED
  BY <1>7, <1>8

(* ALTER TABLE for the first column still missing: it is added, or another   *)
(* service has added it and the sync has failed.                             *)
LEMMA AddColumnKeeps ==
    ASSUME IInv, NEW s \in Services, AddColumn(s)
    PROVE  IInv'
<1>1. PICK r : r = runtime[s]
  OBVIOUS
<1>2. PICK table : table = Entity(r).table
  OBVIOUS
<1>3. r.step = "alter"
  BY <1>1 DEF AddColumn
<1>4. /\ r \in Runtimes /\ Underway(r) /\ r.sync /\ Walk(schema, r)
      /\ r.at \in 1..Len(r.plan) /\ r.at \in 0..Len(r.plan)
      /\ \A i \in 1..r.at - 1 : Has(schema, r.plan[i], r.report.created)
      /\ table \in Tables /\ Entity(r).columns \in Seq(Names)
  BY <1>1, <1>2, <1>3, AtAnEntity DEF Syncing
<1>5. PICK n \in Nat : n = Len(Entity(r).columns)
  BY <1>4, LenProperties
<1>6. /\ schema[table] # Absent
      /\ r.missing \subseteq 1..n
      /\ \A j \in 1..n : j \in r.missing \/ Entity(r).columns[j] \in schema[table]
  BY <1>2, <1>3, <1>4, <1>5 DEF Walk, Entity
<1>7. PICK i \in r.missing :
        LET column == Entity(r).columns[i]
            left == [r EXCEPT !.missing = @ \ {i}, !.report.added = @ + 1,
                              !.report.updated = @ \union {table}]
        IN  IF column \in schema[table]
            THEN Become(s, SyncFailed(r)) /\ UNCHANGED schema
            ELSE /\ schema' = [schema EXCEPT ![table] = @ \union {column}]
                 /\ Become(s, IF left.missing = {} THEN NextEntity(left) ELSE left)
  BY <1>1, <1>2 DEF AddColumn
<1>8. PICK column : column = Entity(r).columns[i]
  OBVIOUS
<1>9. CASE column \in schema[table]
  <2>1. Good(schema, SyncFailed(r))
    BY <1>4, DegradedGood DEF SyncFailed
  <2>2. Become(s, SyncFailed(r)) /\ schema' = schema
    BY <1>7, <1>8, <1>9
  <2> QED
    BY <2>1, <2>2, SchemaStays, ServiceKeeps
<1>10. CASE column \notin schema[table]
  <2>1. PICK q : q = [r EXCEPT !.missing = @ \ {i}, !.report.added = @ + 1,
                               !.report.updated = @ \union {table}]
    OBVIOUS
  <2>2. /\ schema' = [schema EXCEPT ![table] = @ \union {column}]
        /\ Become(s, IF q.missing = {} THEN NextEntity(q) ELSE q)
    BY <1>7, <1>8, <1>10, <2>1
  <2>3. /\ q \in Runtimes /\ q.step = "alter" /\ q.plan = r.plan /\ q.sync = r.sync
        /\ q.at = r.at /\ q.state = r.state /\ q.report.created = r.report.created
        /\ q.connected = r.connected /\ q.synced = r.synced /\ q.missing = r.missing \ {i}
    <3>1. r.report \in SyncReports /\ r.missing \in SUBSET Nat
      BY <1>4 DEF Runtimes
    <3>2. PICK x : x = [r.report EXCEPT !.added = @ + 1, !.updated = @ \union {table}]
      OBVIOUS
    <3>3. x \in SyncReports /\ x.created = r.report.created
      <4>1. PICK y : y = [r.report EXCEPT !.added = @ + 1]
        OBVIOUS
      <4>2. y \in SyncReports /\ y.created = r.report.created
        BY <3>1, <4>1 DEF SyncReports
      <4>3. r.report.updated \union {table} \in SUBSET Tables
        BY <1>4, <3>1 DEF SyncReports
      <4>4. x = [y EXCEPT !.updated = r.report.updated \union {table}]
        BY <3>2, <4>1
      <4> QED
        BY <4>2, <4>3, <4>4 DEF SyncReports
    <3>4. q = [r EXCEPT !.missing = @ \ {i}, !.report = x]
      BY <1>4, <2>1, <3>2 DEF Runtimes
    <3> QED
      BY <1>3, <1>4, <3>1, <3>3, <3>4 DEF Runtimes
  <2>4. Underway(q)
    BY <1>4, <2>3 DEF Underway
  <2>5. column \in Names /\ column # "no_such_table"
    <3>1. i \in 1..n
      BY <1>6
    <3> QED
      BY <1>4, <1>5, <1>8, <3>1, ElementOfSeq DEF Names, Absent
  <2>6. schema' \in Schemas /\ Grows(schema, schema') /\ schema'[table] = schema[table] \union {column}
    <3>1. schema \in Schemas /\ schema[table] \in SUBSET Names
      BY <1>4, <1>6 DEF IInv, Schemas
    <3>2. schema[table] \union {column} \in SUBSET Names
      BY <2>5, <3>1
    <3>3. schema[table] \union {column} # Absent
      BY <2>5 DEF Absent
    <3> QED
      BY <1>4, <2>2, <3>1, <3>2, <3>3 DEF Schemas, Grows
  <2>7. schema'[table] # Absent
    BY <2>5, <2>6 DEF Absent
  <2>8. \A j \in 1..n : j \in r.missing \ {i} \/ Entity(r).columns[j] \in schema'[table]
    BY <1>6, <1>8, <2>6
  <2>9. \A k \in 1..r.at - 1 : Has(schema', r.plan[k], r.report.created)
    <3> SUFFICES ASSUME NEW k \in 1..r.at - 1
                 PROVE  Has(schema', r.plan[k], r.report.created)
      OBVIOUS
    <3>1. k \in 1..Len(r.plan)
      BY <1>4, RuntimeShape
    <3>2. Has(schema, r.plan[k], r.report.created) /\ r.plan[k].table \in Tables
      BY <1>4, <3>1, EntityShape
    <3> QED
      BY <2>6, <3>2 DEF Has, Grows
  <2>10. CASE q.missing = {}
    <3>1. Has(schema', r.plan[r.at], r.report.created)
      BY <1>2, <1>5, <2>3, <2>7, <2>8, <2>10 DEF Has, Entity
    <3>2. \A k \in 1..r.at : k \in 1..r.at - 1 \/ k = r.at
      BY <1>4
    <3>3. \A k \in 1..q.at : Has(schema', q.plan[k], q.report.created)
      BY <2>3, <2>9, <3>1, <3>2
    <3>4. Good(schema', NextEntity(q))
      BY <1>4, <2>3, <2>4, <3>3, NextEntityGood
    <3> QED
      BY <2>2, <2>6, <2>10, <3>4, ServiceKeeps
  <2>11. CASE q.missing # {}
    <3>1. q.missing \subseteq 1..n
      BY <1>6, <2>3
    <3>2. Walk(schema', q)
      BY <1>2, <1>4, <1>5, <2>3, <2>4, <2>7, <2>8, <2>9, <3>1 DEF Walk, Underway, Syncing, Entity
    <3>3. Good(schema', q)
      BY <2>3, <2>4, <3>2 DEF Good
    <3> QED
      BY <2>2, <2>6, <2>11, <3>3, ServiceKeeps
  <2> QED
    BY <2>10, <2>11
<1> QED
  BY <1>9, <1>10

LEMMA StatementFailsKeeps ==
    ASSUME IInv, NEW s \in Services, StatementFails(s)
    PROVE  IInv'
<1>1. PICK r : r = runtime[s]
  OBVIOUS
<1>2. schema' = schema /\ r.step \notin {"off", "ready"} /\ r \in Runtimes /\ Underway(r)
  BY <1>1 DEF StatementFails, IInv, Good, Outcome
<1>3. \A b \in BOOLEAN : Good(schema, Degraded(r, b))
  BY <1>2, DegradedGood
<1>4. PICK q : q = [r EXCEPT !.step = "ready", !.state = "Degraded"]
  OBVIOUS
<1>5. Good(schema, q)
  <2>1. /\ q \in Runtimes /\ q.step = "ready" /\ q.state = "Degraded"
        /\ q.connected = r.connected
    BY <1>2, <1>4 DEF Runtimes, Steps
  <2>2. ~q.connected
    BY <1>2, <2>1 DEF Underway
  <2> QED
    BY <2>1, <2>2 DEF Good, Outcome, Walk, Syncing
<1>6. \/ Become(s, q) \/ Become(s, Degraded(r, FALSE)) \/ Become(s, Degraded(r, TRUE))
  BY <1>1, <1>4 DEF StatementFails, SyncFailed
<1> QED
  BY <1>2, <1>3, <1>5, <1>6, SchemaStays, ServiceKeeps

LEMMA NextKeeps ==
    ASSUME IInv, [SchemaNext]_schemaVars
    PROVE  IInv'
<1>1. CASE UNCHANGED schemaVars
  BY <1>1 DEF schemaVars, IInv
<1>2. CASE SchemaNext
  BY <1>2, BootKeeps, ConnectKeeps, TableExistsKeeps, CreateTableKeeps,
     GetExistingColumnsKeeps, AddColumnKeeps, StatementFailsKeeps DEF SchemaNext
<1> QED
  BY <1>1, <1>2

(* from_connected and sync_schema: a service that reports Connected after a  *)
(* sync has every table of its plan, with all columns of those it found, and *)
(* the state is what tells a sync that stopped half way.                     *)
THEOREM ReportedIsThere == SchemaSpec => []ReportedSchemaIsThere
<1>1. SchemaInit => IInv
  <2> SUFFICES ASSUME SchemaInit
               PROVE  IInv
    OBVIOUS
  <2>1. schema \in Schemas /\ runtime = [s \in Services |-> Off]
    BY PlansAssumption DEF SchemaInit, Schemas, Names
  <2> QED
    BY <2>1, OffGood DEF IInv
<1>2. IInv /\ [SchemaNext]_schemaVars => IInv'
  BY NextKeeps
<1>3. IInv => ReportedSchemaIsThere
  <2> SUFFICES ASSUME IInv, NEW s \in Services, NEW r, r = runtime[s]
               PROVE  /\ (r.state = "Connected" /\ r.sync) =>
                            \A table \in TablesOf(r.plan) :
                                /\ Exists(table)
                                /\ table \notin r.report.created =>
                                      Columns(r.plan, table) \subseteq schema[table]
                      /\ r.state = "Connected" => IsReady(r)
                      /\ (IsReady(r) /\ r.sync) => (r.synced <=> r.state = "Connected")
    BY DEF ReportedSchemaIsThere
  <2>1. r \in Runtimes /\ (Underway(r) \/ Outcome(r)) /\ Walk(schema, r)
    BY DEF IInv, Good
  <2>2. /\ r.state = "Connected" => IsReady(r)
        /\ (IsReady(r) /\ r.sync) => (r.synced <=> r.state = "Connected")
    BY <2>1 DEF Underway, Outcome, IsReady
  <2>3. ASSUME r.state = "Connected", r.sync, NEW table \in TablesOf(r.plan)
        PROVE  /\ Exists(table)
               /\ table \notin r.report.created => Columns(r.plan, table) \subseteq schema[table]
    <3>1. \A i \in DOMAIN r.plan : Has(schema, r.plan[i], r.report.created)
      BY <2>1, <2>3, RuntimeShape DEF Walk
    <3>2. PICK i \in DOMAIN r.plan : r.plan[i].table = table
      BY DEF TablesOf
    <3>3. Exists(table)
      BY <3>1, <3>2 DEF Has, Exists
    <3>4. ASSUME table \notin r.report.created, NEW c \in Columns(r.plan, table)
          PROVE  c \in schema[table]
      <4>1. PICK k \in DOMAIN r.plan : r.plan[k].table = table /\ c \in Range(r.plan[k].columns)
        BY DEF Columns
      <4>2. DOMAIN r.plan[k].columns = 1..Len(r.plan[k].columns)
        BY <2>1, RuntimeShape, EntityShape, LenProperties
      <4> QED
        BY <3>1, <3>4, <4>1, <4>2 DEF Has, Range
    <3> QED
      BY <3>3, <3>4
  <2> QED
    BY <2>2, <2>3
<1> QED
  BY <1>1, <1>2, <1>3, PTL DEF SchemaSpec

-----------------------------------------------------------------------------
(* Second part: the audit pipeline.                                          *)
(* A set of numbers has a smallest one.                                      *)
LEMMA Smallest ==
  ASSUME NEW D, D \subseteq Nat, D # {}
  PROVE  \E n \in D : \A m \in D : ~ m < n
<1>1. PICK n \in D : \A m \in D : <<m, n>> \notin OpToRel(<, Nat)
  BY WFMin, NatLessThanWellFounded, Zenon
<1> SUFFICES ASSUME NEW m \in D, m < n PROVE FALSE
  OBVIOUS
<1>2. <<m, n>> \in Nat \X Nat
  OBVIOUS
<1> QED
  BY <1>1, <1>2, Zenon DEF OpToRel

(* A walk up the spans: what a span has, or the nearest of its ancestors.    *)
Climbs(g, own, s) ==
    g = [a \in 0..Len(s) |-> IF a = 0 THEN NoValue ELSE IF own[a] # NoValue THEN own[a] ELSE g[s[a].parent]]

(* Parents are older. *)
Family(s) ==
    /\ Len(s) \in Nat /\ DOMAIN s = 1..Len(s)
    /\ \A a \in 1..Len(s) : s[a].parent \in 0..a - 1

ClimbsTo(g, own, s, n) ==
    \A a \in 0..n : g[a] = IF a = 0 THEN NoValue ELSE IF own[a] # NoValue THEN own[a] ELSE g[s[a].parent]

LEMMA ClimbThere ==
  ASSUME NEW own, NEW s, Family(s)
  PROVE  \E g : Climbs(g, own, s)
<1>1. PICK l \in Nat : l = Len(s)
  BY DEF Family
<1>2. \A a \in 1..l : s[a].parent \in 0..a - 1
  BY <1>1 DEF Family
<1>3. PICK D : D = {n \in 0..l : ~\E g : ClimbsTo(g, own, s, n)}
  OBVIOUS
<1>4. D = {}
  <2> SUFFICES ASSUME D # {} PROVE FALSE
    OBVIOUS
  <2>1. D \subseteq Nat
    BY <1>3
  <2>2. PICK n \in D : \A m \in D : ~ m < n
    BY <2>1, Smallest
  <2>3. n \in 0..l /\ ~\E g : ClimbsTo(g, own, s, n)
    BY <1>3
  <2>4. CASE n = 0
    <3>1. PICK g : g = [a \in 0..0 |-> NoValue]
      OBVIOUS
    <3>2. ClimbsTo(g, own, s, n)
      BY <2>4, <3>1 DEF ClimbsTo
    <3> QED
      BY <2>3, <3>2
  <2>5. CASE n # 0
    <3>1. n - 1 \in 0..l /\ n - 1 < n /\ n \in 1..l
      BY <2>3, <2>5
    <3>2. PICK g : ClimbsTo(g, own, s, n - 1)
      BY <1>3, <2>2, <3>1
    <3>3. PICK x : x = IF own[n] # NoValue THEN own[n] ELSE g[s[n].parent]
      OBVIOUS
    <3>4. PICK h : h = [a \in 0..n |-> IF a = n THEN x ELSE g[a]]
      OBVIOUS
    <3>5. ClimbsTo(h, own, s, n)
      <4> SUFFICES ASSUME NEW a \in 0..n
                   PROVE  h[a] = IF a = 0 THEN NoValue ELSE IF own[a] # NoValue THEN own[a] ELSE h[s[a].parent]
        BY DEF ClimbsTo
      <4>1. CASE a = n
        <5>1. s[n].parent \in 0..n - 1
          BY <1>2, <3>1
        <5>2. h[s[n].parent] = g[s[n].parent]
          BY <3>1, <3>4, <5>1
        <5> QED
          BY <2>5, <3>3, <3>4, <4>1, <5>2
      <4>2. CASE a # n
        <5>1. a \in 0..n - 1 /\ h[a] = g[a]
          BY <2>3, <3>4, <4>2
        <5>2. g[a] = IF a = 0 THEN NoValue ELSE IF own[a] # NoValue THEN own[a] ELSE g[s[a].parent]
          BY <3>2, <5>1 DEF ClimbsTo
        <5>3. a # 0 => h[s[a].parent] = g[s[a].parent]
          <6> SUFFICES ASSUME a # 0 PROVE h[s[a].parent] = g[s[a].parent]
            OBVIOUS
          <6>1. s[a].parent \in 0..a - 1
            BY <1>2, <2>3
          <6> QED
            BY <2>3, <3>4, <5>1, <6>1
        <5> QED
          BY <5>1, <5>2, <5>3
      <4> QED
        BY <4>1, <4>2
    <3> QED
      BY <2>3, <3>5
  <2> QED
    BY <2>4, <2>5
<1>5. PICK g : ClimbsTo(g, own, s, l)
  <2>1. l \in 0..l
    OBVIOUS
  <2> QED
    BY <1>3, <1>4, <2>1, Zenon
<1>6. PICK h : h = [a \in 0..l |-> g[a]]
  OBVIOUS
<1>7. \A a \in 0..l : h[a] = IF a = 0 THEN NoValue ELSE IF own[a] # NoValue THEN own[a] ELSE h[s[a].parent]
  <2> SUFFICES ASSUME NEW a \in 0..l
               PROVE  h[a] = IF a = 0 THEN NoValue ELSE IF own[a] # NoValue THEN own[a] ELSE h[s[a].parent]
    OBVIOUS
  <2>1. g[a] = IF a = 0 THEN NoValue ELSE IF own[a] # NoValue THEN own[a] ELSE g[s[a].parent]
    BY <1>5 DEF ClimbsTo
  <2>2. a # 0 => h[s[a].parent] = g[s[a].parent]
    BY <1>2, <1>6
  <2> QED
    BY <1>6, <2>1, <2>2
<1>8. h = [a \in 0..l |-> IF a = 0 THEN NoValue ELSE IF own[a] # NoValue THEN own[a] ELSE h[s[a].parent]]
  BY <1>6, <1>7
<1> QED
  BY <1>1, <1>8 DEF Climbs

Alike(own, s, other, t, n) == \A a \in 1..n : s[a].parent = t[a].parent /\ own[a] = other[a]
Agree(g, h, n) == \A a \in 0..n : g[a] = h[a]

(* What a walk finds depends on the older spans alone. *)
LEMMA ClimbAgrees ==
  ASSUME NEW own, NEW s, Family(s), NEW g, Climbs(g, own, s),
         NEW other, NEW t, Family(t), NEW h, Climbs(h, other, t),
         NEW n \in 0..Len(s), n =< Len(t),
         Alike(own, s, other, t, n)
  PROVE  Agree(g, h, n)
<1>1. PICK l \in Nat, k \in Nat : l = Len(s) /\ k = Len(t)
  BY DEF Family
<1>2. PICK D : D = {a \in 0..n : g[a] # h[a]}
  OBVIOUS
<1> SUFFICES ASSUME D # {} PROVE FALSE
  BY <1>2 DEF Agree
<1>3. D \subseteq Nat
  BY <1>1, <1>2
<1>4. PICK a \in D : \A b \in D : ~ b < a
  BY <1>3, Smallest
<1>5. a \in 0..n /\ a \in 0..l /\ a \in 0..k /\ g[a] # h[a]
  BY <1>1, <1>2, <1>4
<1>6. /\ g[a] = IF a = 0 THEN NoValue ELSE IF own[a] # NoValue THEN own[a] ELSE g[s[a].parent]
      /\ h[a] = IF a = 0 THEN NoValue ELSE IF other[a] # NoValue THEN other[a] ELSE h[t[a].parent]
  BY <1>1, <1>5 DEF Climbs
<1>7. a # 0 /\ a \in 1..n /\ a \in 1..l
  BY <1>5, <1>6
<1>8. s[a].parent = t[a].parent /\ own[a] = other[a]
  BY <1>7 DEF Alike
<1>9. PICK p : p = s[a].parent
  OBVIOUS
<1>10. p \in 0..a - 1
  BY <1>1, <1>7, <1>9 DEF Family
<1>11. p \in 0..n /\ p < a
  BY <1>5, <1>10
<1>12. g[p] = h[p]
  BY <1>2, <1>4, <1>11
<1> QED
  BY <1>5, <1>6, <1>7, <1>8, <1>9, <1>12

(* A walk over what walks have found finds the same.                         *)
LEMMA ClimbOnce ==
  ASSUME NEW own, NEW s, Family(s), NEW g, Climbs(g, own, s),
         NEW found, NEW h, Climbs(h, found, s),
         \A a \in 1..Len(s) : found[a] = g[a]
  PROVE  \A a \in 0..Len(s) : h[a] = g[a]
<1>1. PICK l \in Nat : l = Len(s)
  BY DEF Family
<1>2. PICK D : D = {a \in 0..l : h[a] # g[a]}
  OBVIOUS
<1> SUFFICES ASSUME D # {} PROVE FALSE
  BY <1>1, <1>2
<1>3. D \subseteq Nat
  BY <1>1, <1>2
<1>4. PICK a \in D : \A b \in D : ~ b < a
  BY <1>3, Smallest
<1>5. a \in 0..l /\ h[a] # g[a]
  BY <1>1, <1>2, <1>4
<1>6. /\ g[a] = IF a = 0 THEN NoValue ELSE IF own[a] # NoValue THEN own[a] ELSE g[s[a].parent]
      /\ h[a] = IF a = 0 THEN NoValue ELSE IF found[a] # NoValue THEN found[a] ELSE h[s[a].parent]
  BY <1>1, <1>5 DEF Climbs
<1>7. a # 0 /\ a \in 1..l
  BY <1>5, <1>6
<1>8. found[a] = g[a]
  BY <1>1, <1>7
<1>9. PICK p : p = s[a].parent
  OBVIOUS
<1>10. p \in 0..a - 1
  BY <1>1, <1>7, <1>9 DEF Family
<1>11. p \in 0..l /\ p < a
  BY <1>5, <1>10
<1>12. g[p] = h[p]
  BY <1>2, <1>4, <1>11
<1> QED
  BY <1>5, <1>6, <1>7, <1>8, <1>9, <1>12

(* The spans that name a field themselves, and the nearest that do.          *)
Own(f, s)  == [a \in 1..Len(s) |-> IF f \in s[a].given.text THEN a ELSE NoValue]
Near(f, s) == CHOOSE g : Climbs(g, Own(f, s), s)

LEMMA NearClimbs ==
  ASSUME NEW f, NEW s, Family(s)
  PROVE  /\ Climbs(Near(f, s), Own(f, s), s)
         /\ Near(f, s)[0] = NoValue
         /\ \A a \in 1..Len(s) :
               Near(f, s)[a] = IF f \in s[a].given.text THEN a ELSE Near(f, s)[s[a].parent]
<1>1. PICK g : g = Near(f, s)
  OBVIOUS
<1>2. PICK own : own = Own(f, s)
  OBVIOUS
<1>3. Climbs(g, own, s)
  BY <1>1, <1>2, ClimbThere DEF Near
<1>4. PICK l \in Nat : l = Len(s)
  BY DEF Family
<1>5. g[0] = NoValue
  BY <1>3, <1>4 DEF Climbs
<1>6. ASSUME NEW a \in 1..l
      PROVE  g[a] = IF f \in s[a].given.text THEN a ELSE g[s[a].parent]
  <2>1. g[a] = IF own[a] # NoValue THEN own[a] ELSE g[s[a].parent]
    BY <1>3, <1>4 DEF Climbs
  <2>2. own[a] = IF f \in s[a].given.text THEN a ELSE NoValue
    BY <1>2, <1>4 DEF Own
  <2> QED
    BY <2>1, <2>2 DEF NoValue
<1> QED
  BY <1>1, <1>2, <1>3, <1>4, <1>5, <1>6

LEMMA NearestReads ==
  ASSUME NEW f, NEW a, Family(spans)
  PROVE  NearestWith(f, a) = Near(f, spans)[a]
<1>1. PICK h : h = CHOOSE x : x = [b \in 0..Len(spans) |->
                   IF b = 0 THEN NoValue ELSE IF f \in spans[b].given.text THEN b ELSE x[spans[b].parent]]
  OBVIOUS
<1>2. PICK g : g = Near(f, spans)
  OBVIOUS
<1>3. PICK l \in Nat : l = Len(spans)
  BY DEF Family
<1>4. g = [b \in 0..l |-> g[b]]
  BY <1>2, <1>3, NearClimbs DEF Climbs
<1>5. \A b \in 0..l : g[b] = IF b = 0 THEN NoValue ELSE IF f \in spans[b].given.text THEN b ELSE g[spans[b].parent]
  BY <1>2, <1>3, NearClimbs
<1>6. g = [b \in 0..Len(spans) |->
              IF b = 0 THEN NoValue ELSE IF f \in spans[b].given.text THEN b ELSE g[spans[b].parent]]
  BY <1>3, <1>4, <1>5
<1>7. h = [b \in 0..Len(spans) |->
              IF b = 0 THEN NoValue ELSE IF f \in spans[b].given.text THEN b ELSE h[spans[b].parent]]
  BY <1>1, <1>6
<1>8. PICK own : own = Own(f, spans)
  OBVIOUS
<1>9. \A b \in 1..l : own[b] = IF f \in spans[b].given.text THEN b ELSE NoValue
  BY <1>3, <1>8 DEF Own
<1>10. h = [b \in 0..l |-> h[b]]
  BY <1>3, <1>7
<1>11. \A b \in 0..l : h[b] = IF b = 0 THEN NoValue ELSE IF own[b] # NoValue THEN own[b] ELSE h[spans[b].parent]
  <2> SUFFICES ASSUME NEW b \in 0..l
               PROVE  h[b] = IF b = 0 THEN NoValue ELSE IF own[b] # NoValue THEN own[b] ELSE h[spans[b].parent]
    OBVIOUS
  <2>1. h[b] = IF b = 0 THEN NoValue ELSE IF f \in spans[b].given.text THEN b ELSE h[spans[b].parent]
    BY <1>3, <1>7
  <2> QED
    BY <1>9, <2>1 DEF NoValue
<1>12. Climbs(h, own, spans)
  BY <1>3, <1>10, <1>11 DEF Climbs
<1>13. Climbs(g, own, spans)
  BY <1>2, <1>8, NearClimbs
<1>16. \A b \in 0..l : h[b] = g[b]
  <2>1. l \in 0..Len(spans) /\ l =< Len(spans)
    BY <1>3
  <2>2. Alike(own, spans, own, spans, l)
    BY DEF Alike
  <2>3. Agree(g, h, l)
    BY <1>12, <1>13, <2>1, <2>2, ClimbAgrees
  <2> QED
    BY <2>3 DEF Agree
<1>14. h = g
  BY <1>4, <1>10, <1>16
<1>15. NearestWith(f, a) = h[a]
  BY <1>1 DEF NearestWith
<1> QED
  BY <1>2, <1>14, <1>15

LEMMA FirstUpReads ==
  ASSUME NEW own, Family(spans), NEW a
  PROVE  \E h : Climbs(h, own, spans) /\ FirstUp(own, a) = h[a]
<1>1. PICK h : h = CHOOSE x : Climbs(x, own, spans)
  OBVIOUS
<1>2. Climbs(h, own, spans)
  BY <1>1, ClimbThere
<1>3. FirstUp(own, a) = h[a]
  BY <1>1 DEF FirstUp, Climbs
<1> QED
  BY <1>2, <1>3

(* What a span hands down is what the nearest span that names it has.        *)
DataIsNear(s) == \A a \in 1..Len(s) : \A f \in ContextFields : s[a].data[f] = Near(f, s)[a]

LEMMA HandedDown ==
  ASSUME Family(spans), DataIsNear(spans), NEW f \in ContextFields, NEW data, NEW a \in 0..Len(spans)
  PROVE  Inherit(data, a)[f] = IF data[f] # NoValue THEN data[f] ELSE Near(f, spans)[a]
<1>1. PICK own : own = [b \in DOMAIN spans |-> spans[b].data[f]]
  OBVIOUS
<1>2. PICK h : Climbs(h, own, spans) /\ FirstUp(own, a) = h[a]
  BY FirstUpReads
<1>3. Inherit(data, a)[f] = IF data[f] # NoValue THEN data[f] ELSE h[a]
  BY <1>1, <1>2 DEF Inherit
<1>4. PICK l \in Nat : l = Len(spans) /\ DOMAIN spans = 1..l
  BY DEF Family
<1>5. PICK g : g = Near(f, spans)
  OBVIOUS
<1>6. Climbs(g, Own(f, spans), spans)
  BY <1>5, NearClimbs
<1>7. \A b \in 1..Len(spans) : own[b] = g[b]
  <2> SUFFICES ASSUME NEW b \in 1..l PROVE own[b] = g[b]
    BY <1>4
  <2>1. own[b] = spans[b].data[f]
    BY <1>1, <1>4
  <2>2. spans[b].data[f] = Near(f, spans)[b]
    BY <1>4 DEF DataIsNear
  <2> QED
    BY <1>5, <2>1, <2>2
<1>8. h[a] = g[a]
  BY <1>2, <1>6, <1>7, ClimbOnce
<1> QED
  BY <1>3, <1>5, <1>8

(* Spans that come later change nothing for those that are there.            *)
LEMMA NearStays ==
  ASSUME NEW s, Family(s), NEW t, Family(t), Len(s) =< Len(t),
         \A a \in 1..Len(s) : t[a] = s[a], NEW f, NEW a \in 0..Len(s)
  PROVE  Near(f, t)[a] = Near(f, s)[a]
<1>1. PICK n \in Nat, k \in Nat : n = Len(s) /\ k = Len(t)
  BY DEF Family
<1>2. PICK own, other : own = Own(f, s) /\ other = Own(f, t)
  OBVIOUS
<1>3. PICK g, h : g = Near(f, s) /\ h = Near(f, t)
  OBVIOUS
<1>4. Climbs(g, own, s) /\ Climbs(h, other, t)
  BY <1>2, <1>3, NearClimbs
<1>5. Alike(own, s, other, t, n)
  <2> SUFFICES ASSUME NEW b \in 1..n
               PROVE  s[b].parent = t[b].parent /\ own[b] = other[b]
    BY DEF Alike
  <2>1. t[b] = s[b] /\ b \in 1..k
    BY <1>1
  <2> QED
    BY <1>1, <1>2, <2>1 DEF Own
<1>6. n \in 0..Len(s) /\ n =< Len(t)
  BY <1>1
<1>7. Agree(g, h, n)
  BY <1>4, <1>5, <1>6, ClimbAgrees
<1> QED
  BY <1>1, <1>3, <1>7 DEF Agree

IsSequence(s) == \E S : s \in Seq(S)

LEMMA Appends ==
  ASSUME NEW s, IsSequence(s), NEW x
  PROVE  /\ IsSequence(Append(s, x)) /\ Len(s) \in Nat /\ Len(Append(s, x)) = Len(s) + 1
         /\ DOMAIN Append(s, x) = 1..Len(s) + 1
         /\ \A i \in 1..Len(s) : Append(s, x)[i] = s[i]
         /\ Append(s, x)[Len(s) + 1] = x
<1>1. PICK S : s \in Seq(S)
  BY DEF IsSequence
<1>2. PICK T : T = S \cup {x}
  OBVIOUS
<1>3. s \in Seq(T) /\ x \in T
  BY <1>1, <1>2, SeqMonotonic
<1>4. PICK t : t = Append(s, x)
  OBVIOUS
<1>5. t \in Seq(T) /\ Len(t) = Len(s) + 1 /\ (\A i \in 1..Len(s) : t[i] = s[i]) /\ t[Len(s) + 1] = x
  BY <1>3, <1>4, AppendProperties
<1>6. Len(s) \in Nat /\ DOMAIN t = 1..Len(t)
  BY <1>1, <1>5, LenProperties
<1> QED
  BY <1>4, <1>5, <1>6 DEF IsSequence

(* Fields: a span and an event have what the nearest span that names it has. *)
SpansInv == IsSequence(spans) /\ Family(spans) /\ DataIsNear(spans)

ContextIsNear(e) ==
    e.span \in 0..Len(spans) /\ \A f \in ContextFields : e.context[f] = Near(f, spans)[e.span]

EventsInv ==
    /\ IsSequence(events) /\ DOMAIN events = 1..Len(events) /\ Len(events) \in Nat
    /\ \A id \in 1..Len(events) : events[id].payload \in Payloads /\ ContextIsNear(events[id])

LEMMA NewSpanKeeps ==
  ASSUME SpansInv, EventsInv, NEW parent \in 0..Len(spans), NEW given, OnNewSpan(parent, given)
  PROVE  SpansInv' /\ EventsInv'
<1>1. PICK n \in Nat : n = Len(spans)
  BY DEF SpansInv, Family
<1>2. PICK x : x = [parent |-> parent, given |-> given, data |-> Inherit(OwnData(n + 1, given), parent)]
  OBVIOUS
<1>3. PICK t : t = Append(spans, x)
  OBVIOUS
<1>4. spans' = t /\ events' = events
  BY <1>1, <1>2, <1>3 DEF OnNewSpan
<1>5. /\ IsSequence(t) /\ Len(t) = n + 1 /\ DOMAIN t = 1..n + 1
      /\ (\A i \in 1..n : t[i] = spans[i]) /\ t[n + 1] = x
  BY <1>1, <1>3, Appends DEF SpansInv
<1>6. Family(t)
  <2>1. ASSUME NEW a \in 1..n + 1 PROVE t[a].parent \in 0..a - 1
    <3>1. CASE a = n + 1
      BY <1>1, <1>2, <1>5, <3>1
    <3>2. CASE a # n + 1
      BY <1>1, <1>5, <3>2 DEF SpansInv, Family
    <3> QED
      BY <3>1, <3>2
  <2> QED
    BY <1>5, <2>1 DEF Family
<1>7. ASSUME NEW f \in ContextFields, NEW a \in 0..n PROVE Near(f, t)[a] = Near(f, spans)[a]
  BY <1>1, <1>5, <1>6, NearStays DEF SpansInv
<1>8. DataIsNear(t)
  <2> SUFFICES ASSUME NEW a \in 1..n + 1, NEW f \in ContextFields
               PROVE  t[a].data[f] = Near(f, t)[a]
    BY <1>5 DEF DataIsNear
  <2>1. CASE a = n + 1
    <3>1. PICK g : g = Near(f, t)
      OBVIOUS
    <3>2. g[a] = IF f \in given.text THEN a ELSE g[parent]
      BY <1>2, <1>5, <1>6, <2>1, <3>1, NearClimbs
    <3>3. PICK d : d = OwnData(n + 1, given)
      OBVIOUS
    <3>4. d[f] = IF f \in given.text THEN a ELSE NoValue
      BY <2>1, <3>3 DEF OwnData
    <3>5. Inherit(d, parent)[f] = IF d[f] # NoValue THEN d[f] ELSE Near(f, spans)[parent]
      BY HandedDown DEF SpansInv
    <3>6. t[a].data[f] = Inherit(d, parent)[f]
      BY <1>2, <1>5, <2>1, <3>3
    <3>7. g[parent] = Near(f, spans)[parent]
      BY <1>1, <1>7, <3>1
    <3> QED
      BY <1>1, <2>1, <3>1, <3>2, <3>4, <3>5, <3>6, <3>7 DEF NoValue
  <2>2. CASE a # n + 1
    <3>1. a \in 1..n /\ a \in 0..n /\ t[a] = spans[a]
      BY <1>1, <1>5, <2>2
    <3>2. spans[a].data[f] = Near(f, spans)[a]
      BY <1>1, <3>1 DEF SpansInv, DataIsNear
    <3> QED
      BY <1>7, <3>1, <3>2
  <2> QED
    BY <2>1, <2>2
<1>9. ASSUME NEW id \in 1..Len(events) PROVE ContextIsNear(events[id])'
  <2>1. ContextIsNear(events[id])
    BY DEF EventsInv
  <2>2. PICK b : b = events[id].span
    OBVIOUS
  <2>3. b \in 0..n /\ b \in 0..n + 1
    BY <1>1, <2>1, <2>2 DEF ContextIsNear
  <2>4. ASSUME NEW f \in ContextFields PROVE events[id].context[f] = Near(f, t)[b]
    BY <1>7, <2>1, <2>2, <2>3 DEF ContextIsNear
  <2> QED
    BY <1>4, <1>5, <2>2, <2>3, <2>4 DEF ContextIsNear
<1>10. SpansInv'
  BY <1>4, <1>5, <1>6, <1>8 DEF SpansInv
<1>11. EventsInv'
  BY <1>4, <1>9 DEF EventsInv
<1> QED
  BY <1>10, <1>11

LEMMA EventKeeps ==
  ASSUME SpansInv, EventsInv, NEW span \in 0..Len(spans), NEW payload \in Payloads, OnEvent(span, payload)
  PROVE  SpansInv' /\ EventsInv'
<1>1. PICK n \in Nat : n = Len(events)
  BY DEF EventsInv
<1>2. PICK none : none = [f \in ContextFields |-> NoValue]
  OBVIOUS
<1>3. PICK x : x = [payload |-> payload, context |-> Inherit(none, span), span |-> span]
  OBVIOUS
<1>4. PICK t : t = Append(events, x)
  OBVIOUS
<1>5. events' = t /\ spans' = spans
  BY <1>2, <1>3, <1>4 DEF OnEvent
<1>6. /\ IsSequence(t) /\ Len(t) = n + 1 /\ DOMAIN t = 1..n + 1
      /\ (\A i \in 1..n : t[i] = events[i]) /\ t[n + 1] = x
  BY <1>1, <1>4, Appends DEF EventsInv
<1>7. ContextIsNear(x)
  <2>1. ASSUME NEW f \in ContextFields PROVE x.context[f] = Near(f, spans)[span]
    <3>1. Inherit(none, span)[f] = IF none[f] # NoValue THEN none[f] ELSE Near(f, spans)[span]
      BY HandedDown DEF SpansInv
    <3> QED
      BY <1>2, <1>3, <3>1
  <2> QED
    BY <1>3, <2>1 DEF ContextIsNear
<1>8. ASSUME NEW id \in 1..n + 1 PROVE t[id].payload \in Payloads /\ ContextIsNear(t[id])
  <2>1. CASE id = n + 1
    BY <1>3, <1>6, <1>7, <2>1
  <2>2. CASE id # n + 1
    BY <1>1, <1>6, <2>2 DEF EventsInv
  <2> QED
    BY <2>1, <2>2
<1>9. SpansInv'
  BY <1>5 DEF SpansInv
<1>10. ASSUME NEW id \in 1..n + 1 PROVE t[id].payload \in Payloads /\ ContextIsNear(t[id])'
  BY <1>5, <1>8 DEF ContextIsNear
<1>11. EventsInv'
  BY <1>1, <1>5, <1>6, <1>10 DEF EventsInv
<1> QED
  BY <1>9, <1>11

-----------------------------------------------------------------------------
(* The worker: records, by their numbers.                                    *)
Cleaned == Payloads \union {RedactValue(payload) : payload \in Payloads}
Records == [id : Nat, payload : Cleaned]
Ids(s)  == [i \in DOMAIN s |-> s[i].id]

LEMMA IdsOf ==
  ASSUME NEW s \in Seq(Records)
  PROVE  Ids(s) \in Seq(Nat) /\ Len(Ids(s)) = Len(s) /\ \A i \in 1..Len(s) : Ids(s)[i] = s[i].id
<1>1. PICK n \in Nat : n = Len(s) /\ DOMAIN s = 1..n
  BY LenProperties
<1>2. \A i \in 1..n : s[i].id \in Nat
  <2> SUFFICES ASSUME NEW i \in 1..n PROVE s[i].id \in Nat
    OBVIOUS
  <2>1. s[i] \in Records
    BY <1>1, ElementOfSeq
  <2> QED
    BY <2>1 DEF Records
<1>3. PICK t : t = Ids(s)
  OBVIOUS
<1>4. t = [i \in 1..n |-> s[i].id]
  BY <1>1, <1>3 DEF Ids
<1>5. t \in [1..n -> Nat]
  BY <1>2, <1>4
<1>6. t \in Seq(Nat)
  BY <1>5, SeqDef
<1>7. PICK l \in Nat : l = Len(t) /\ DOMAIN t = 1..l
  BY <1>6, LenProperties
<1>8. l = n
  <2>1. 1..l = 1..n
    BY <1>4, <1>7
  <2> QED
    BY <2>1
<1> QED
  BY <1>1, <1>3, <1>4, <1>6, <1>7, <1>8

LEMMA IdsOfNone == Ids(<<>>) = <<>>
<1>1. PICK t : t = Ids(<<>>)
  OBVIOUS
<1>2. <<>> \in Seq(Records) /\ Len(<<>>) = 0
  BY EmptySeq
<1>3. t \in Seq(Nat) /\ Len(t) = 0
  BY <1>1, <1>2, IdsOf
<1> QED
  BY <1>1, <1>3, EmptySeq

LEMMA IdsAppend ==
  ASSUME NEW s \in Seq(Records), NEW r \in Records
  PROVE  Ids(Append(s, r)) = Ids(s) \o <<r.id>>
<1>1. PICK n \in Nat : n = Len(s)
  BY LenProperties
<1>2. PICK t : t = Append(s, r)
  OBVIOUS
<1>3. t \in Seq(Records) /\ Len(t) = n + 1 /\ t[n + 1] = r /\ \A i \in 1..n : t[i] = s[i]
  BY <1>1, <1>2, AppendProperties
<1>4. PICK a, b, c : a = Ids(s) /\ b = Ids(t) /\ c = Append(a, r.id)
  OBVIOUS
<1>5. a \in Seq(Nat) /\ Len(a) = n /\ \A i \in 1..n : a[i] = s[i].id
  BY <1>1, <1>4, IdsOf
<1>6. b \in Seq(Nat) /\ Len(b) = n + 1 /\ \A i \in 1..n + 1 : b[i] = t[i].id
  BY <1>3, <1>4, IdsOf
<1>7. r.id \in Nat
  BY DEF Records
<1>8. c \in Seq(Nat) /\ Len(c) = n + 1 /\ c[n + 1] = r.id /\ \A i \in 1..n : c[i] = a[i]
  BY <1>4, <1>5, <1>7, AppendProperties
<1>9. \A i \in 1..n + 1 : b[i] = c[i]
  <2> SUFFICES ASSUME NEW i \in 1..n + 1 PROVE b[i] = c[i]
    OBVIOUS
  <2>1. CASE i = n + 1
    BY <1>1, <1>3, <1>6, <1>8, <2>1
  <2>2. CASE i # n + 1
    <3>1. i \in 1..n
      BY <1>1, <2>2
    <3> QED
      BY <1>3, <1>5, <1>6, <1>8, <3>1
  <2> QED
    BY <2>1, <2>2
<1>10. b = c
  BY <1>6, <1>8, <1>9, SeqEqual
<1>11. c = a \o <<r.id>>
  BY <1>4, <1>5, <1>7, AppendIsConcat
<1> QED
  BY <1>2, <1>4, <1>10, <1>11

LEMMA IdsHead ==
  ASSUME NEW s \in Seq(Records), s # <<>>
  PROVE  Ids(s) = <<Head(s).id>> \o Ids(Tail(s))
<1>1. PICK n \in Nat : n = Len(s)
  BY LenProperties
<1>2. PICK h, t : h = Head(s) /\ t = Tail(s)
  OBVIOUS
<1>3. h \in Records /\ t \in Seq(Records) /\ Len(t) = n - 1 /\ h = s[1] /\ n # 0
      /\ \A i \in 1..Len(t) : t[i] = s[i + 1]
  BY <1>1, <1>2, HeadTailProperties, EmptySeq
<1>4. PICK a, b, c, d : a = Ids(s) /\ b = Ids(t) /\ c = <<h.id>> /\ d = c \o b
  OBVIOUS
<1>5. a \in Seq(Nat) /\ Len(a) = n /\ \A i \in 1..n : a[i] = s[i].id
  BY <1>1, <1>4, IdsOf
<1>6. b \in Seq(Nat) /\ Len(b) = n - 1 /\ \A i \in 1..n - 1 : b[i] = t[i].id
  BY <1>3, <1>4, IdsOf
<1>7. h.id \in Nat
  BY <1>3 DEF Records
<1>8. c \in Seq(Nat) /\ Len(c) = 1 /\ c[1] = h.id
  BY <1>4, <1>7
<1>9. /\ d \in Seq(Nat) /\ Len(d) = 1 + (n - 1)
      /\ \A i \in 1..1 + (n - 1) : d[i] = IF i <= 1 THEN c[i] ELSE b[i - 1]
  BY <1>4, <1>6, <1>8, ConcatProperties
<1>10. \A i \in 1..n : a[i] = d[i]
  <2> SUFFICES ASSUME NEW i \in 1..n PROVE a[i] = d[i]
    OBVIOUS
  <2>1. CASE i = 1
    BY <1>1, <1>3, <1>5, <1>8, <1>9, <2>1
  <2>2. CASE i # 1
    <3>1. PICK j : j = i - 1
      OBVIOUS
    <3>2. j \in 1..n - 1 /\ i = j + 1
      BY <1>1, <2>2, <3>1
    <3>3. d[i] = b[j] /\ b[j] = t[j].id /\ t[j] = s[j + 1]
      BY <1>1, <1>3, <1>6, <1>9, <2>2, <3>1, <3>2
    <3> QED
      BY <1>5, <3>2, <3>3
  <2> QED
    BY <2>1, <2>2
<1>11. 1 + (n - 1) = n
  BY <1>1
<1>12. Len(a) = Len(d)
  BY <1>5, <1>9, <1>11
<1>13. \A i \in 1..Len(a) : a[i] = d[i]
  BY <1>5, <1>10
<1>14. a = d
  BY <1>5, <1>9, <1>12, <1>13, SeqEqual
<1> QED
  BY <1>2, <1>4, <1>14

Regroups(s, t, u) == (s \o t) \o u = s \o (t \o u)

LEMMA Regroup ==
  ASSUME NEW s \in Seq(Nat), NEW t \in Seq(Nat), NEW u \in Seq(Nat)
  PROVE  Regroups(s, t, u)
BY ConcatAssociative, SMTT(60) DEF Regroups

(* Numbers that rise.                                                        *)
Rising(s)   == \A i, j \in 1..Len(s) : i < j => s[i] < s[j]
Below(A, B) == \A x \in A, y \in B : x < y

LEMMA RisingConcat ==
  ASSUME NEW s \in Seq(Nat), NEW t \in Seq(Nat)
  PROVE  /\ Rising(s \o t) <=> Rising(s) /\ Rising(t) /\ Below(Range(s), Range(t))
         /\ Range(s \o t) = Range(s) \cup Range(t)
<1>1. PICK n \in Nat, m \in Nat : n = Len(s) /\ m = Len(t)
  BY LenProperties
<1>2. PICK u : u = s \o t
  OBVIOUS
<1>3. /\ u \in Seq(Nat) /\ Len(u) = n + m
      /\ \A i \in 1..n + m : u[i] = IF i <= n THEN s[i] ELSE t[i - n]
  BY <1>1, <1>2, ConcatProperties
<1>4. \A i \in 1..n : i \in 1..n + m /\ u[i] = s[i]
  BY <1>1, <1>3
<1>5. \A i \in 1..m : n + i \in 1..n + m /\ u[n + i] = t[i]
  <2> SUFFICES ASSUME NEW i \in 1..m PROVE n + i \in 1..n + m /\ u[n + i] = t[i]
    OBVIOUS
  <2>1. PICK k : k = n + i
    OBVIOUS
  <2>2. k \in 1..n + m /\ ~ k <= n /\ k - n = i
    BY <1>1, <2>1
  <2>3. u[k] = t[k - n]
    BY <1>3, <2>2
  <2> QED
    BY <2>1, <2>2, <2>3
<1>6. Range(s) = {s[i] : i \in 1..n} /\ Range(t) = {t[i] : i \in 1..m}
  BY <1>1, RangeEquality
<1>7. ASSUME Rising(u) PROVE Rising(s) /\ Rising(t) /\ Below(Range(s), Range(t))
  <2>1. Rising(s)
    BY <1>1, <1>3, <1>4, <1>7 DEF Rising
  <2>2. Rising(t)
    <3> SUFFICES ASSUME NEW i \in 1..m, NEW j \in 1..m, i < j PROVE t[i] < t[j]
      BY <1>1 DEF Rising
    <3>1. n + i < n + j
      BY <1>1
    <3>2. u[n + i] < u[n + j]
      BY <1>3, <1>5, <1>7, <3>1 DEF Rising
    <3> QED
      BY <1>5, <3>2
  <2>3. Below(Range(s), Range(t))
    <3> SUFFICES ASSUME NEW i \in 1..n, NEW j \in 1..m PROVE s[i] < t[j]
      BY <1>6 DEF Below
    <3>1. i < n + j
      BY <1>1
    <3>2. u[i] < u[n + j]
      BY <1>3, <1>4, <1>5, <1>7, <3>1 DEF Rising
    <3> QED
      BY <1>4, <1>5, <3>2
  <2> QED
    BY <2>1, <2>2, <2>3
<1>8. ASSUME Rising(s), Rising(t), Below(Range(s), Range(t)) PROVE Rising(u)
  <2> SUFFICES ASSUME NEW i \in 1..n + m, NEW j \in 1..n + m, i < j PROVE u[i] < u[j]
    BY <1>3 DEF Rising
  <2>1. CASE j <= n
    <3>1. i \in 1..n /\ j \in 1..n
      BY <1>1, <2>1
    <3>2. s[i] < s[j]
      BY <1>1, <1>8, <3>1 DEF Rising
    <3> QED
      BY <1>4, <3>1, <3>2
  <2>2. CASE i > n
    <3>1. PICK p, q : p = i - n /\ q = j - n
      OBVIOUS
    <3>2. p \in 1..m /\ q \in 1..m /\ p < q /\ i = n + p /\ j = n + q
      BY <1>1, <2>2, <3>1
    <3>3. t[p] < t[q]
      BY <1>1, <1>8, <3>2 DEF Rising
    <3> QED
      BY <1>5, <3>2, <3>3
  <2>3. CASE i <= n /\ j > n
    <3>1. PICK q : q = j - n
      OBVIOUS
    <3>2. i \in 1..n /\ q \in 1..m /\ j = n + q
      BY <1>1, <2>3, <3>1
    <3>3. s[i] < t[q]
      BY <1>6, <1>8, <3>2 DEF Below
    <3> QED
      BY <1>4, <1>5, <3>2, <3>3
  <2> QED
    BY <1>1, <2>1, <2>2, <2>3
<1> QED
  BY <1>2, <1>7, <1>8, RangeConcatenation

(* Every number up to n is in one place, and those in p rise.                *)
Accounted(p, lost, spoilt, n) ==
    /\ p \in Seq(Nat) /\ Rising(p)
    /\ lost \intersect (spoilt \union Range(p)) = {} /\ spoilt \intersect Range(p) = {}
    /\ lost \union spoilt \union Range(p) = 1..n

LEMMA OneMore ==
  ASSUME NEW n \in Nat, NEW p, NEW lost, NEW spoilt, Accounted(p, lost, spoilt, n)
  PROVE  /\ Accounted(p \o <<n + 1>>, lost, spoilt, n + 1)
         /\ Accounted(p, lost \union {n + 1}, spoilt, n + 1)
<1>1. PICK A : A = Range(p)
  OBVIOUS
<1>2. /\ p \in Seq(Nat) /\ Rising(p) /\ lost \intersect (spoilt \union A) = {} /\ spoilt \intersect A = {}
      /\ lost \union spoilt \union A = 1..n
  BY <1>1 DEF Accounted
<1>3. n + 1 \notin 1..n /\ 1..n + 1 = (1..n) \union {n + 1} /\ \A x \in 1..n : x < n + 1
  OBVIOUS
<1>4. PICK t : t = <<n + 1>>
  OBVIOUS
<1>5. t \in Seq(Nat) /\ Len(t) = 1 /\ t[1] = n + 1
  BY <1>4
<1>6. Range(t) = {n + 1}
  <2>1. Range(t) = {t[i] : i \in 1..Len(t)}
    BY <1>5, RangeEquality
  <2> QED
    BY <1>5, <2>1
<1>7. Rising(t)
  BY <1>5 DEF Rising
<1>8. Below(A, {n + 1})
  BY <1>2, <1>3 DEF Below
<1>9. Rising(p \o t) /\ Range(p \o t) = A \union {n + 1} /\ p \o t \in Seq(Nat)
  <2>1. p \o t \in Seq(Nat)
    BY <1>2, <1>5, ConcatProperties
  <2>2. Below(Range(p), Range(t))
    BY <1>1, <1>6, <1>8
  <2>3. Rising(p \o t)
    BY <1>2, <1>5, <1>7, <2>2, RisingConcat
  <2>4. Range(p \o t) = Range(p) \union Range(t)
    BY <1>2, <1>5, RisingConcat
  <2> QED
    BY <1>1, <1>6, <2>1, <2>3, <2>4
<1>10. Accounted(p \o t, lost, spoilt, n + 1)
  <2>1. lost \intersect (spoilt \union (A \union {n + 1})) = {} /\ spoilt \intersect (A \union {n + 1}) = {}
    BY <1>2, <1>3
  <2>2. lost \union spoilt \union (A \union {n + 1}) = 1..n + 1
    BY <1>2, <1>3
  <2> QED
    BY <1>9, <2>1, <2>2 DEF Accounted
<1>11. Accounted(p, lost \union {n + 1}, spoilt, n + 1)
  <2>1. (lost \union {n + 1}) \intersect (spoilt \union A) = {}
    BY <1>2, <1>3
  <2>2. (lost \union {n + 1}) \union spoilt \union A = 1..n + 1
    BY <1>2, <1>3
  <2> QED
    BY <1>1, <1>2, <2>1, <2>2 DEF Accounted
<1> QED
  BY <1>4, <1>10, <1>11

LEMMA SomeSpoilt ==
  ASSUME NEW n \in Nat, NEW a \in Seq(Nat), NEW b \in Seq(Nat), NEW c \in Seq(Nat),
         NEW lost, NEW spoilt, Accounted(a \o (b \o c), lost, spoilt, n)
  PROVE  Accounted(a \o c, lost, spoilt \union Range(b), n)
<1>1. PICK t, u, v : t = b \o c /\ u = a \o t /\ v = a \o c
  OBVIOUS
<1>2. PICK A, B, C : A = Range(a) /\ B = Range(b) /\ C = Range(c)
  OBVIOUS
<1>3. t \in Seq(Nat) /\ u \in Seq(Nat) /\ v \in Seq(Nat)
  BY <1>1, ConcatProperties
<1>4. Range(t) = B \union C /\ Range(u) = A \union Range(t) /\ Range(v) = A \union C
  BY <1>1, <1>2, <1>3, RisingConcat
<1>5. /\ Rising(u) /\ lost \intersect (spoilt \union Range(u)) = {} /\ spoilt \intersect Range(u) = {}
      /\ lost \union spoilt \union Range(u) = 1..n
  BY <1>1 DEF Accounted
<1>6. Rising(a) /\ Rising(t) /\ Below(A, Range(t))
  BY <1>1, <1>2, <1>3, <1>5, RisingConcat
<1>7. Rising(b) /\ Rising(c) /\ Below(B, C)
  BY <1>1, <1>2, <1>6, RisingConcat
<1>8. Below(A, C) /\ Below(A, B)
  BY <1>4, <1>6 DEF Below
<1>9. Rising(v)
  BY <1>1, <1>2, <1>6, <1>7, <1>8, RisingConcat
<1>10. A \subseteq Nat /\ B \subseteq Nat /\ C \subseteq Nat
  <2>1. \A s \in Seq(Nat) : Range(s) \subseteq Nat
    <3> SUFFICES ASSUME NEW s \in Seq(Nat) PROVE Range(s) \subseteq Nat
      OBVIOUS
    <3>1. Range(s) = {s[i] : i \in 1..Len(s)}
      BY RangeEquality
    <3> QED
      BY <3>1, ElementOfSeq
  <2> QED
    BY <1>2, <2>1
<1>11. A \intersect B = {} /\ B \intersect C = {}
  BY <1>7, <1>8, <1>10 DEF Below
<1>12. Accounted(v, lost, spoilt \union B, n)
  BY <1>3, <1>4, <1>5, <1>9, <1>11 DEF Accounted
<1> QED
  BY <1>1, <1>2, <1>12

-----------------------------------------------------------------------------
OnTheWay == (Ids(sending) \o Ids(batch)) \o channel
Passed   == Ids(sent) \o OnTheWay

OrderInv == Accounted(Passed, dropped, failed, Len(events))

(* Records stand for captured events, without their secrets if there is a     *)
(* policy, and else as they were captured.                                   *)
Cleared(s, told, policy) ==
    \A i \in 1..Len(s) :
        s[i].id \in 1..Len(told) /\ IsForwardOf(policy, s[i].payload, told[s[i].id].payload)

RecordsInv ==
    /\ sent \in Seq(Records) /\ sending \in Seq(Records) /\ batch \in Seq(Records)
    /\ channel \in Seq(1..Len(events))
    /\ Cleared(sent, events, redaction) /\ Cleared(sending, events, redaction) /\ Cleared(batch, events, redaction)

WorkerInv ==
    /\ worker # "running" => worker \in {"closing", "ended"} /\ channel = <<>> /\ batch = <<>> /\ senders = 0
    /\ worker = "ended" => sending = <<>>

AuditInv == SpansInv /\ EventsInv /\ RecordsInv /\ OrderInv /\ WorkerInv

LEMMA RedactedIsRedaction ==
  ASSUME NEW payload \in Payloads
  PROVE  IsRedactionOf(RedactValue(payload), payload)
<1>1. PICK clean : clean = RedactValue(payload)
  OBVIOUS
<1>2. DOMAIN clean = DOMAIN payload
  BY <1>1 DEF RedactValue
<1>3. ASSUME NEW path \in DOMAIN payload, NEW v, v = payload[path]
      PROVE  /\ v.kind = "text" =>
                   /\ NameAt(path) \in BlockedNames \/ v.secret => clean[path] = Redacted
                   /\ ~clean[path].secret /\ clean[path].length <= MaxText + MarkerBytes
             /\ clean[path] # v =>
                   v.kind = "text" /\ (NameAt(path) \in BlockedNames \/ v.secret \/ v.length > MaxText)
  <2>1. v \in Scalars
    BY <1>3, AuditAssumption
  <2>2. clean[path] = IF v.kind # "text" THEN v
                      ELSE IF NameAt(path) \in BlockedNames THEN Redacted ELSE RedactString(v)
    BY <1>1, <1>3 DEF RedactValue
  <2>3. Redacted.secret = FALSE /\ Redacted.length <= MaxText + MarkerBytes
    BY AuditAssumption DEF Redacted
  <2>4. CASE v.kind # "text"
    BY <2>2, <2>4
  <2>5. CASE v.kind = "text" /\ NameAt(path) \in BlockedNames
    BY <2>2, <2>3, <2>5
  <2>6. CASE v.kind = "text" /\ NameAt(path) \notin BlockedNames /\ v.secret
    <3>1. clean[path] = Redacted
      BY <2>2, <2>6 DEF RedactString
    <3> QED
      BY <2>3, <2>6, <3>1
  <2>7. CASE v.kind = "text" /\ NameAt(path) \notin BlockedNames /\ ~v.secret
    <3>1. v.length \in Nat /\ v.wide \in Nat \ {0} /\ v.secret \in BOOLEAN /\ MaxText \in Nat /\ MarkerBytes \in Nat
      BY <2>1, AuditAssumption DEF Scalars
    <3>2. CASE v.length > MaxText
      <4>1. PICK w : w = MaxText - (MaxText % v.wide) + MarkerBytes
        OBVIOUS
      <4>2. MaxText % v.wide \in Nat
        BY <3>1
      <4>3. w <= MaxText + MarkerBytes
        BY <3>1, <4>1, <4>2
      <4>4. clean[path] = [v EXCEPT !.length = w]
        BY <2>2, <2>7, <3>2, <4>1 DEF RedactString
      <4>5. [v EXCEPT !.length = w].length = w /\ [v EXCEPT !.length = w].secret = v.secret
        BY <2>1 DEF Scalars
      <4> QED
        BY <2>7, <3>2, <4>3, <4>4, <4>5
    <3>3. CASE ~ v.length > MaxText
      <4>1. clean[path] = v
        BY <2>2, <2>7, <3>3 DEF RedactString
      <4>2. v.length <= MaxText + MarkerBytes
        BY <3>1, <3>3
      <4> QED
        BY <2>7, <4>1, <4>2
    <3> QED
      BY <3>2, <3>3
  <2> QED
    BY <2>4, <2>5, <2>6, <2>7
<1>4. IsRedactionOf(clean, payload)
  BY <1>2, <1>3 DEF IsRedactionOf
<1> QED
  BY <1>1, <1>4

LEMMA ForwardedIsForward ==
  ASSUME NEW payload \in Payloads
  PROVE  Forwarded(payload) \in Cleaned /\ IsForwardOf(redaction, Forwarded(payload), payload)
BY RedactedIsRedaction DEF Forwarded, IsForwardOf, Cleaned

LEMMA ClearedAppend ==
  ASSUME NEW s \in Seq(Records), NEW told, NEW policy, Cleared(s, told, policy), NEW r \in Records,
         r.id \in 1..Len(told), IsForwardOf(policy, r.payload, told[r.id].payload)
  PROVE  Append(s, r) \in Seq(Records) /\ Cleared(Append(s, r), told, policy)
<1>1. PICK n \in Nat : n = Len(s)
  BY LenProperties
<1>2. PICK t : t = Append(s, r)
  OBVIOUS
<1>3. t \in Seq(Records) /\ Len(t) = n + 1 /\ t[n + 1] = r /\ \A i \in 1..n : t[i] = s[i]
  BY <1>1, <1>2, AppendProperties
<1>4. ASSUME NEW i \in 1..n + 1
      PROVE  t[i].id \in 1..Len(told) /\ IsForwardOf(policy, t[i].payload, told[t[i].id].payload)
  <2>1. CASE i = n + 1
    BY <1>1, <1>3, <2>1
  <2>2. CASE i # n + 1
    <3>1. i \in 1..n /\ t[i] = s[i]
      BY <1>1, <1>3, <2>2
    <3> QED
      BY <1>1, <3>1 DEF Cleared
  <2> QED
    BY <2>1, <2>2
<1> QED
  BY <1>2, <1>3, <1>4 DEF Cleared

LEMMA ClearedTail ==
  ASSUME NEW s \in Seq(Records), NEW told, NEW policy, Cleared(s, told, policy), s # <<>>
  PROVE  /\ Tail(s) \in Seq(Records) /\ Cleared(Tail(s), told, policy)
         /\ Head(s) \in Records /\ Head(s).id \in 1..Len(told)
         /\ IsForwardOf(policy, Head(s).payload, told[Head(s).id].payload)
<1>1. PICK n \in Nat : n = Len(s)
  BY LenProperties
<1>2. PICK h, t : h = Head(s) /\ t = Tail(s)
  OBVIOUS
<1>3. h \in Records /\ t \in Seq(Records) /\ Len(t) = n - 1 /\ h = s[1] /\ n # 0
      /\ \A i \in 1..Len(t) : t[i] = s[i + 1]
  BY <1>1, <1>2, HeadTailProperties, EmptySeq
<1>4. \A i \in 1..n : s[i].id \in 1..Len(told) /\ IsForwardOf(policy, s[i].payload, told[s[i].id].payload)
  BY <1>1 DEF Cleared
<1>5. ASSUME NEW i \in 1..n - 1
      PROVE  t[i].id \in 1..Len(told) /\ IsForwardOf(policy, t[i].payload, told[t[i].id].payload)
  <2>1. PICK j : j = i + 1
    OBVIOUS
  <2>2. j \in 1..n /\ t[i] = s[j]
    BY <1>1, <1>3, <2>1
  <2> QED
    BY <1>4, <2>2
<1>6. Cleared(t, told, policy)
  BY <1>3, <1>5 DEF Cleared
<1>7. 1 \in 1..n
  BY <1>1, <1>3
<1>8. h.id \in 1..Len(told) /\ IsForwardOf(policy, h.payload, told[h.id].payload)
  BY <1>3, <1>4, <1>7
<1> QED
  BY <1>2, <1>3, <1>6, <1>8

LEMMA NothingIsCleared == ASSUME NEW told, NEW policy PROVE <<>> \in Seq(Records) /\ Cleared(<<>>, told, policy)
<1>1. <<>> \in Seq(Records) /\ Len(<<>>) = 0
  BY EmptySeq
<1> QED
  BY <1>1 DEF Cleared

(* A later event changes nothing for the records that are there.             *)
LEMMA ClearedStays ==
  ASSUME NEW s, NEW told, NEW policy, NEW more, Cleared(s, told, policy), Len(told) \in Nat, Len(more) \in Nat,
         Len(told) =< Len(more), \A i \in 1..Len(told) : more[i] = told[i]
  PROVE  Cleared(s, more, policy)
<1> SUFFICES ASSUME NEW i \in 1..Len(s)
             PROVE  s[i].id \in 1..Len(more) /\ IsForwardOf(policy, s[i].payload, more[s[i].id].payload)
  BY DEF Cleared
<1>1. PICK id : id = s[i].id
  OBVIOUS
<1>2. id \in 1..Len(told) /\ IsForwardOf(policy, s[i].payload, told[id].payload)
  BY <1>1 DEF Cleared
<1>3. id \in 1..Len(more) /\ more[id] = told[id]
  BY <1>2
<1> QED
  BY <1>1, <1>2, <1>3

LEMMA EventKept ==
  ASSUME EventsInv, RecordsInv, OrderInv, WorkerInv, NEW span, NEW payload, OnEvent(span, payload)
  PROVE  RecordsInv' /\ OrderInv' /\ WorkerInv'
<1>1. PICK n \in Nat : n = Len(events)
  BY DEF EventsInv
<1>2. PICK t, x : events' = t /\ t = Append(events, x)
  BY DEF OnEvent
<1>3. Len(t) = n + 1 /\ \A i \in 1..n : t[i] = events[i]
  BY <1>1, <1>2, Appends DEF EventsInv
<1>4. /\ UNCHANGED <<redaction, senders, batch, sending, worker, sent, failed>> /\ senders > 0
      /\ \/ channel' = Append(channel, n + 1) /\ UNCHANGED dropped
         \/ dropped' = dropped \union {n + 1} /\ UNCHANGED channel
  BY <1>1 DEF OnEvent
<1>5. \A s : Cleared(s, events, redaction) => Cleared(s, t, redaction)
  <2> SUFFICES ASSUME NEW s, Cleared(s, events, redaction) PROVE Cleared(s, t, redaction)
    OBVIOUS
  <2>1. Len(events) \in Nat /\ Len(t) \in Nat /\ Len(events) =< Len(t)
        /\ \A i \in 1..Len(events) : t[i] = events[i]
    BY <1>1, <1>3
  <2> QED
    BY <2>1, ClearedStays
<1>6. channel \in Seq(1..n + 1) /\ n + 1 \in 1..n + 1
  <2>1. PICK A, B : A = 1..n /\ B = 1..n + 1
    OBVIOUS
  <2>2. A \subseteq B /\ n + 1 \in B
    BY <2>1
  <2>3. channel \in Seq(A)
    BY <1>1, <2>1 DEF RecordsInv
  <2>4. channel \in Seq(B)
    BY <2>2, <2>3, SeqMonotonic
  <2> QED
    BY <2>1, <2>2, <2>4
<1>7. channel' \in Seq(1..n + 1)
  BY <1>4, <1>6, AppendProperties
<1>8. RecordsInv'
  BY <1>2, <1>3, <1>4, <1>5, <1>7 DEF RecordsInv
<1>9. OrderInv'
  <2>1. PICK P : P = Passed /\ Accounted(P, dropped, failed, n)
    BY <1>1 DEF OrderInv
  <2>2. CASE dropped' = dropped \union {n + 1} /\ UNCHANGED channel
    <3>1. Passed' = P
      BY <1>4, <2>1, <2>2 DEF Passed, OnTheWay
    <3>2. Accounted(P, dropped \union {n + 1}, failed, n + 1)
      BY <1>1, <2>1, OneMore
    <3> QED
      BY <1>2, <1>3, <1>4, <2>2, <3>1, <3>2 DEF OrderInv
  <2>3. CASE channel' = Append(channel, n + 1) /\ UNCHANGED dropped
    <3>1. PICK X, Y, Z, C : X = Ids(sent) /\ Y = Ids(sending) /\ Z = Ids(batch) /\ C = channel
      OBVIOUS
    <3>2. X \in Seq(Nat) /\ Y \in Seq(Nat) /\ Z \in Seq(Nat)
      BY <3>1, IdsOf DEF RecordsInv
    <3>3. C \in Seq(Nat) /\ n + 1 \in Nat
      <4>1. PICK B : B = 1..n + 1
        OBVIOUS
      <4>2. B \subseteq Nat /\ n + 1 \in Nat
        BY <4>1
      <4>3. C \in Seq(B)
        BY <1>6, <3>1, <4>1
      <4> QED
        BY <4>2, <4>3, SeqMonotonic
    <3>4. PICK l, W : l = <<n + 1>> /\ W = Y \o Z
      OBVIOUS
    <3>5. l \in Seq(Nat) /\ W \in Seq(Nat) /\ W \o C \in Seq(Nat)
      BY <3>2, <3>3, <3>4, ConcatProperties
    <3>6. P = X \o (W \o C)
      BY <2>1, <3>1, <3>4 DEF Passed, OnTheWay
    <3>7. channel' = C \o l
      BY <2>3, <3>1, <3>3, <3>4, AppendIsConcat
    <3>8. Passed' = X \o (W \o (C \o l))
      BY <1>4, <3>1, <3>4, <3>7 DEF Passed, OnTheWay
    <3>9. (W \o C) \o l = W \o (C \o l)
      <4>1. W \in Seq(Nat) /\ C \in Seq(Nat) /\ l \in Seq(Nat)
        BY <3>3, <3>5
      <4> QED
        BY <4>1, Regroup DEF Regroups
    <3>10. (X \o (W \o C)) \o l = X \o ((W \o C) \o l)
      <4>1. PICK V : V = W \o C
        OBVIOUS
      <4>2. X \in Seq(Nat) /\ V \in Seq(Nat) /\ l \in Seq(Nat)
        BY <3>2, <3>5, <4>1
      <4>3. (X \o V) \o l = X \o (V \o l)
        BY <4>2, Regroup DEF Regroups
      <4> QED
        BY <4>1, <4>3
    <3>11. Passed' = P \o l
      BY <3>6, <3>8, <3>9, <3>10
    <3>12. Accounted(P \o l, dropped, failed, n + 1)
      BY <1>1, <2>1, <3>4, OneMore
    <3> QED
      BY <1>2, <1>3, <1>4, <2>3, <3>11, <3>12 DEF OrderInv
  <2> QED
    BY <1>4, <2>2, <2>3
<1>10. WorkerInv'
  <2>1. worker = "running"
    BY <1>4 DEF WorkerInv
  <2> QED
    BY <1>4, <2>1 DEF WorkerInv
<1> QED
  BY <1>8, <1>9, <1>10

LEMMA RecvKept ==
  ASSUME EventsInv, RecordsInv, OrderInv, WorkerInv, Recv
  PROVE  RecordsInv' /\ OrderInv' /\ WorkerInv'
<1>1. PICK n, B : n \in Nat /\ n = Len(events) /\ B = 1..n
  BY DEF EventsInv
<1>2. PICK c, t : c = Head(channel) /\ t = Tail(channel)
  OBVIOUS
<1>3. PICK payload : payload = events[c].payload
  OBVIOUS
<1>4. PICK r : r = [id |-> c, payload |-> Forwarded(payload)]
  OBVIOUS
<1>5. /\ worker = "running" /\ sending = <<>> /\ channel # <<>> /\ channel' = t
      /\ UNCHANGED <<redaction, events, dropped, worker, sent, failed>>
      /\ \/ sending' = Append(batch, r) /\ batch' = <<>>
         \/ batch' = Append(batch, r) /\ sending' = sending
  BY <1>2, <1>3, <1>4 DEF Recv, AtSelect
<1>6. channel \in Seq(B)
  BY <1>1 DEF RecordsInv
<1>7. c \in B /\ t \in Seq(B)
  BY <1>2, <1>5, <1>6, HeadTailProperties
<1>8. payload \in Payloads /\ c \in Nat
  BY <1>1, <1>3, <1>7 DEF EventsInv
<1>9. IsForwardOf(redaction, Forwarded(payload), payload)
  BY <1>8, ForwardedIsForward
<1>10. Forwarded(payload) \in Cleaned
  BY <1>8, ForwardedIsForward
<1>11. r \in Records /\ r.id = c /\ r.payload = Forwarded(payload)
  BY <1>4, <1>8, <1>10 DEF Records
<1>12. Append(batch, r) \in Seq(Records) /\ Cleared(Append(batch, r), events, redaction)
  <2>1. batch \in Seq(Records) /\ Cleared(batch, events, redaction)
    BY DEF RecordsInv
  <2>2. r.id \in 1..Len(events) /\ IsForwardOf(redaction, r.payload, events[r.id].payload)
    BY <1>1, <1>3, <1>7, <1>9, <1>11
  <2> QED
    BY <1>11, <2>1, <2>2, ClearedAppend
<1>13. RecordsInv'
  <2>1. /\ sent' \in Seq(Records) /\ Cleared(sent', events, redaction)
        /\ sending' \in Seq(Records) /\ Cleared(sending', events, redaction)
        /\ batch' \in Seq(Records) /\ Cleared(batch', events, redaction)
    BY <1>5, <1>12, NothingIsCleared DEF RecordsInv
  <2>2. channel' \in Seq(1..Len(events))
    BY <1>1, <1>5, <1>7
  <2> QED
    BY <1>5, <2>1, <2>2 DEF RecordsInv
<1>14. Passed' = Passed
  <2>1. PICK l, Z : l = <<c>> /\ Z = Ids(batch)
    OBVIOUS
  <2>2. Z \in Seq(Nat) /\ l \in Seq(Nat) /\ t \in Seq(Nat)
    <3>1. Z \in Seq(Nat)
      BY <2>1, IdsOf DEF RecordsInv
    <3>2. B \subseteq Nat
      BY <1>1
    <3>3. t \in Seq(Nat)
      BY <1>7, <3>2, SeqMonotonic
    <3> QED
      BY <1>8, <2>1, <3>1, <3>3
  <2>3. channel = l \o t
    BY <1>2, <1>5, <1>6, <2>1
  <2>4. Ids(Append(batch, r)) = Z \o l
    <3>1. batch \in Seq(Records)
      BY DEF RecordsInv
    <3> QED
      BY <1>11, <2>1, <3>1, IdsAppend
  <2>5. PICK V : V = Z \o l
    OBVIOUS
  <2>6. V \in Seq(Nat)
    BY <2>2, <2>5, ConcatProperties
  <2>7. (Z \o l) \o t = Z \o (l \o t)
    BY <2>2, Regroup DEF Regroups
  <2>8. <<>> \o Z = Z
    BY <2>2, ConcatEmptySeq
  <2>9. <<>> \o V = V /\ V \o <<>> = V
    BY <2>6, ConcatEmptySeq
  <2>10. OnTheWay = Z \o (l \o t)
    BY <1>5, <2>1, <2>3, <2>8, IdsOfNone DEF OnTheWay
  <2>11. OnTheWay' = V \o t
    <3>1. CASE sending' = Append(batch, r) /\ batch' = <<>>
      BY <1>5, <2>4, <2>5, <2>9, <3>1, IdsOfNone DEF OnTheWay
    <3>2. CASE batch' = Append(batch, r) /\ sending' = sending
      BY <1>5, <2>4, <2>5, <2>9, <3>2, IdsOfNone DEF OnTheWay
    <3> QED
      BY <1>5, <3>1, <3>2
  <2> QED
    BY <1>5, <2>5, <2>7, <2>10, <2>11 DEF Passed
<1>15. OrderInv'
  BY <1>5, <1>14 DEF OrderInv
<1>16. WorkerInv'
  BY <1>5 DEF WorkerInv
<1> QED
  BY <1>13, <1>15, <1>16

LEMMA FlushKept ==
  ASSUME EventsInv, RecordsInv, OrderInv, WorkerInv, Tick \/ Closed
  PROVE  RecordsInv' /\ OrderInv' /\ WorkerInv'
<1>1. /\ worker = "running" /\ sending = <<>> /\ sending' = batch /\ batch' = <<>>
      /\ UNCHANGED <<redaction, events, channel, senders, dropped, sent, failed>>
  BY DEF Tick, Closed, AtSelect
<1>2. RecordsInv'
  BY <1>1, NothingIsCleared DEF RecordsInv
<1>3. Ids(batch) \in Seq(Nat)
  BY IdsOf DEF RecordsInv
<1>4. <<>> \o Ids(batch) = Ids(batch) /\ Ids(batch) \o <<>> = Ids(batch)
  BY <1>3, ConcatEmptySeq
<1>5. Passed' = Passed
  BY <1>1, <1>4, IdsOfNone DEF Passed, OnTheWay
<1>6. OrderInv'
  BY <1>1, <1>5 DEF OrderInv
<1>7. WorkerInv'
  <2>1. CASE Tick
    BY <1>1, <2>1 DEF Tick, WorkerInv
  <2>2. CASE Closed
    BY <1>1, <2>2 DEF Closed, WorkerInv
  <2> QED
    BY <2>1, <2>2
<1> QED
  BY <1>2, <1>6, <1>7

LEMMA EmitKept ==
  ASSUME EventsInv, RecordsInv, OrderInv, WorkerInv, NEW succeeds \in BOOLEAN, Emit(succeeds)
  PROVE  RecordsInv' /\ OrderInv' /\ WorkerInv'
<1>1. /\ sending # <<>> /\ UNCHANGED <<redaction, events, channel, senders, dropped, batch>>
      /\ worker' = IF worker = "closing" /\ sending' = <<>> THEN "ended" ELSE worker
  BY DEF Emit
<1>2. PICK n \in Nat : n = Len(events)
  BY DEF EventsInv
<1>3. PICK X, Y, Z, C, W : X = Ids(sent) /\ Y = Ids(sending) /\ Z = Ids(batch) /\ C = channel /\ W = Z \o C
  OBVIOUS
<1>4. X \in Seq(Nat) /\ Y \in Seq(Nat) /\ Z \in Seq(Nat)
  BY <1>3, IdsOf DEF RecordsInv
<1>5. C \in Seq(Nat)
  <2>1. PICK B : B = 1..n
    OBVIOUS
  <2>2. B \subseteq Nat /\ C \in Seq(B)
    BY <1>2, <1>3, <2>1 DEF RecordsInv
  <2> QED
    BY <2>2, SeqMonotonic
<1>6. W \in Seq(Nat)
  BY <1>3, <1>4, <1>5, ConcatProperties
<1>7. (Y \o Z) \o C = Y \o (Z \o C)
  <2>1. Y \in Seq(Nat) /\ Z \in Seq(Nat) /\ C \in Seq(Nat)
    BY <1>4, <1>5
  <2> QED
    BY <2>1, Regroup DEF Regroups
<1>8. Passed = X \o (Y \o W)
  BY <1>3, <1>7 DEF Passed, OnTheWay
<1>9. WorkerInv'
  BY <1>1 DEF WorkerInv
<1>10. CASE succeeds
  <2>1. PICK h, t : h = Head(sending) /\ t = Tail(sending)
    OBVIOUS
  <2>2. sent' = Append(sent, h) /\ sending' = t /\ failed' = failed
    BY <1>10, <2>1 DEF Emit
  <2>3. /\ t \in Seq(Records) /\ Cleared(t, events, redaction) /\ h \in Records /\ h.id \in 1..Len(events)
        /\ IsForwardOf(redaction, h.payload, events[h.id].payload)
    BY <1>1, <2>1, ClearedTail DEF RecordsInv
  <2>4. Append(sent, h) \in Seq(Records) /\ Cleared(Append(sent, h), events, redaction)
    BY <2>3, ClearedAppend DEF RecordsInv
  <2>5. RecordsInv'
    BY <1>1, <2>2, <2>3, <2>4 DEF RecordsInv
  <2>6. PICK l, U : l = <<h.id>> /\ U = Ids(t)
    OBVIOUS
  <2>7. l \in Seq(Nat) /\ U \in Seq(Nat)
    <3>1. h.id \in Nat
      BY <2>3 DEF Records
    <3>2. U \in Seq(Nat)
      BY <2>3, <2>6, IdsOf
    <3> QED
      BY <2>6, <3>1, <3>2
  <2>8. Y = l \o U
    BY <1>1, <1>3, <2>1, <2>6, IdsHead DEF RecordsInv
  <2>9. Ids(sent') = X \o l
    BY <1>3, <2>2, <2>3, <2>6, IdsAppend DEF RecordsInv
  <2>10. (U \o Z) \o C = U \o (Z \o C)
    <3>1. U \in Seq(Nat) /\ Z \in Seq(Nat) /\ C \in Seq(Nat)
      BY <1>4, <1>5, <2>7
    <3> QED
      BY <3>1, Regroup DEF Regroups
  <2>11. (l \o U) \o W = l \o (U \o W)
    BY <1>6, <2>7, Regroup DEF Regroups
  <2>12. PICK V : V = U \o W
    OBVIOUS
  <2>13. V \in Seq(Nat)
    BY <1>6, <2>7, <2>12, ConcatProperties
  <2>14. (X \o l) \o V = X \o (l \o V)
    <3>1. X \in Seq(Nat) /\ l \in Seq(Nat) /\ V \in Seq(Nat)
      BY <1>4, <2>7, <2>13
    <3> QED
      BY <3>1, Regroup DEF Regroups
  <2>15. OnTheWay' = V
    BY <1>1, <1>3, <2>2, <2>6, <2>10, <2>12 DEF OnTheWay
  <2>16. Passed' = Passed
    BY <1>8, <2>8, <2>9, <2>11, <2>12, <2>14, <2>15 DEF Passed
  <2>17. OrderInv'
    BY <1>1, <2>2, <2>16 DEF OrderInv
  <2> QED
    BY <1>9, <2>5, <2>17
<1>11. CASE ~succeeds
  <2>1. sent' = sent /\ sending' = <<>> /\ failed' = failed \union {sending[i].id : i \in DOMAIN sending}
    BY <1>11 DEF Emit
  <2>2. RecordsInv'
    BY <1>1, <2>1, NothingIsCleared DEF RecordsInv
  <2>3. Range(Y) = {sending[i].id : i \in DOMAIN sending}
    <3>1. PICK m \in Nat : m = Len(sending) /\ DOMAIN sending = 1..m
      BY LenProperties DEF RecordsInv
    <3>2. Len(Y) = m /\ \A i \in 1..m : Y[i] = sending[i].id
      BY <1>3, <3>1, IdsOf DEF RecordsInv
    <3>3. Range(Y) = {Y[i] : i \in 1..m}
      BY <1>4, <3>2, RangeEquality
    <3> QED
      BY <3>1, <3>2, <3>3
  <2>4. Passed' = X \o W
    <3>1. <<>> \o Z = Z
      BY <1>4, ConcatEmptySeq
    <3> QED
      BY <1>1, <1>3, <2>1, <3>1, IdsOfNone DEF Passed, OnTheWay
  <2>5. Accounted(X \o (Y \o W), dropped, failed, n)
    BY <1>2, <1>8 DEF OrderInv
  <2>6. Accounted(X \o W, dropped, failed \union Range(Y), n)
    BY <1>4, <1>6, <2>5, SomeSpoilt
  <2>7. OrderInv'
    BY <1>1, <1>2, <2>1, <2>3, <2>4, <2>6 DEF OrderInv
  <2> QED
    BY <1>9, <2>2, <2>7
<1> QED
  BY <1>10, <1>11

LEMMA AuditStarts == ASSUME AuditInit PROVE AuditInv
<1>1. PICK e : e = <<>>
  OBVIOUS
<1>2. spans = e /\ events = e /\ channel = e /\ batch = e /\ sending = e /\ sent = e /\ dropped = {}
      /\ failed = {} /\ worker = "running"
  BY <1>1 DEF AuditInit
<1>3. Len(e) = 0 /\ DOMAIN e = {} /\ \A S : e \in Seq(S)
  BY <1>1, EmptySeq
<1>4. 1..0 = {}
  OBVIOUS
<1>5. IsSequence(e)
  BY <1>3 DEF IsSequence
<1>6. SpansInv
  BY <1>2, <1>3, <1>4, <1>5 DEF SpansInv, Family, DataIsNear
<1>7. EventsInv
  BY <1>2, <1>3, <1>4, <1>5 DEF EventsInv
<1>8. RecordsInv
  BY <1>1, <1>2, <1>3, NothingIsCleared DEF RecordsInv
<1>9. Passed = e
  <2>1. e \in Seq(Nat)
    BY <1>3
  <2>2. e \o e = e
    BY <1>1, <2>1, ConcatEmptySeq
  <2> QED
    BY <1>1, <1>2, <2>2, IdsOfNone DEF Passed, OnTheWay
<1>10. Accounted(e, {}, {}, 0)
  <2>1. e \in Seq(Nat)
    BY <1>3
  <2>2. Range(e) = {e[i] : i \in 1..Len(e)}
    BY <2>1, RangeEquality
  <2>3. Range(e) = {}
    BY <1>3, <2>2
  <2> QED
    BY <1>3, <1>4, <2>1, <2>3 DEF Accounted, Rising
<1>11. OrderInv
  BY <1>2, <1>3, <1>9, <1>10 DEF OrderInv
<1>12. WorkerInv
  BY <1>2 DEF WorkerInv
<1> QED
  BY <1>6, <1>7, <1>8, <1>11, <1>12 DEF AuditInv

LEMMA AuditKeeps == ASSUME AuditInv, [AuditNext]_auditVars PROVE AuditInv'
<1> USE DEF AuditInv
<1>1. ASSUME NEW parent \in 0..Len(spans), NEW given \in Attributes, OnNewSpan(parent, given)
      PROVE  AuditInv'
  <2>1. SpansInv' /\ EventsInv'
    BY <1>1, NewSpanKeeps
  <2>2. UNCHANGED <<redaction, events, channel, senders, dropped, batch, sending, worker, sent, failed>>
    BY <1>1 DEF OnNewSpan
  <2>3. RecordsInv'
    BY <2>2 DEF RecordsInv
  <2>4. OrderInv'
    BY <2>2 DEF OrderInv, Passed, OnTheWay
  <2>5. WorkerInv'
    BY <2>2 DEF WorkerInv
  <2> QED
    BY <2>1, <2>3, <2>4, <2>5
<1>2. ASSUME NEW span \in 0..Len(spans), NEW payload \in Payloads, OnEvent(span, payload)
      PROVE  AuditInv'
  BY <1>2, EventKeeps, EventKept
<1>3. ASSUME UNCHANGED spans, UNCHANGED events
      PROVE  SpansInv' /\ EventsInv'
  BY <1>3 DEF SpansInv, EventsInv, ContextIsNear
<1>4. CASE DropSender
  <2>1. senders > 0 /\ UNCHANGED <<redaction, spans, events, channel, dropped, batch, sending, worker, sent, failed>>
    BY <1>4 DEF DropSender
  <2>2. RecordsInv'
    BY <2>1 DEF RecordsInv
  <2>3. OrderInv'
    BY <2>1 DEF OrderInv, Passed, OnTheWay
  <2>4. WorkerInv'
    BY <2>1 DEF WorkerInv
  <2> QED
    BY <1>3, <2>1, <2>2, <2>3, <2>4
<1>5. CASE Recv
  BY <1>3, <1>5, RecvKept DEF Recv
<1>6. CASE Tick \/ Closed
  BY <1>3, <1>6, FlushKept DEF Tick, Closed
<1>7. ASSUME NEW succeeds \in BOOLEAN, Emit(succeeds) PROVE AuditInv'
  BY <1>3, <1>7, EmitKept DEF Emit
<1>8. CASE UNCHANGED auditVars
  <2>1. UNCHANGED <<redaction, spans, events, channel, senders, dropped, batch, sending, worker, sent, failed>>
    BY <1>8 DEF auditVars
  <2>2. RecordsInv'
    BY <2>1 DEF RecordsInv
  <2>3. OrderInv'
    BY <2>1 DEF OrderInv, Passed, OnTheWay
  <2>4. WorkerInv'
    BY <2>1 DEF WorkerInv
  <2> QED
    BY <1>3, <2>1, <2>2, <2>3, <2>4
<1> QED
  BY <1>1, <1>2, <1>4, <1>5, <1>6, <1>7, <1>8 DEF AuditNext

LEMMA AuditSays == ASSUME AuditInv PROVE AuditIsAccounted
<1> DEFINE ids(records) == [i \in DOMAIN records |-> records[i].id]
           way == ids(sending) \o ids(batch) \o channel
           all == ids(sent) \o way
<1>1. way = OnTheWay /\ all = Passed
  BY DEF Passed, OnTheWay, Ids
<1>2. PICK n \in Nat : n = Len(events) /\ DOMAIN events = 1..n
  BY DEF AuditInv, EventsInv
<1>3. PICK P : P = Passed
  OBVIOUS
<1>4. Accounted(P, dropped, failed, n)
  BY <1>2, <1>3 DEF AuditInv, OrderInv
<1>5. \A i, j \in DOMAIN P : i < j => P[i] < P[j]
  <2>1. DOMAIN P = 1..Len(P)
    BY <1>4, LenProperties DEF Accounted
  <2> QED
    BY <1>4, <2>1 DEF Accounted, Rising
<1>6. /\ dropped \intersect (failed \union Range(P)) = {} /\ failed \intersect Range(P) = {}
      /\ dropped \union failed \union Range(P) = DOMAIN events
  BY <1>2, <1>4 DEF Accounted
<1>7. worker = "ended" => OnTheWay = <<>>
  <2>1. <<>> \o <<>> = <<>>
    BY EmptySeq, ConcatEmptySeq
  <2> QED
    BY <2>1, IdsOfNone DEF OnTheWay, AuditInv, WorkerInv
<1>8. \A i \in DOMAIN sent : IsForwardOf(redaction, sent[i].payload, events[sent[i].id].payload)
  <2>1. DOMAIN sent = 1..Len(sent)
    BY LenProperties DEF AuditInv, RecordsInv
  <2> QED
    BY <2>1 DEF AuditInv, RecordsInv, Cleared
<1>9. \A id \in DOMAIN events : \A f \in ContextFields :
         events[id].context[f] = NearestWith(f, events[id].span)
  <2> SUFFICES ASSUME NEW id \in 1..n, NEW f \in ContextFields
               PROVE  events[id].context[f] = NearestWith(f, events[id].span)
    BY <1>2
  <2>1. ContextIsNear(events[id])
    BY <1>2 DEF AuditInv, EventsInv
  <2>2. Family(spans)
    BY DEF AuditInv, SpansInv
  <2> QED
    BY <2>1, <2>2, NearestReads DEF ContextIsNear
<1> QED
  BY <1>1, <1>3, <1>5, <1>6, <1>7, <1>8, <1>9 DEF AuditIsAccounted

(* Every captured event is in one place, the sink gets each at most once, in *)
(* order, redacted if there is a policy, and its context is that of the nearest span that      *)
(* names it: for any payloads, block list, limits and number of senders.     *)
THEOREM EventsAccounted == AuditSpec => []AuditIsAccounted
<1>1. AuditInit => AuditInv
  BY AuditStarts
<1>2. AuditInv /\ [AuditNext]_auditVars => AuditInv'
  BY AuditKeeps
<1>3. AuditInv => AuditIsAccounted
  BY AuditSays
<1> QED
  BY <1>1, <1>2, <1>3, PTL DEF AuditSpec
=============================================================================
