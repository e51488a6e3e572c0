------------------------------- MODULE Database -------------------------------
(***************************************************************************)
(* The SQLite file below ~/.mostrix and the trade keys counted in it: the  *)
(* first start that creates the tables and the user, the migrations that   *)
(* bring the file of an earlier release up to date, and, once the program  *)
(* runs, the tasks that reserve a trade key each and save an order under   *)
(* it while the identity keys may be rotated.  The process may stop        *)
(* between any two statements.                                             *)
(*                                                                         *)
(* Journal mode is WAL: a transaction reads the database as it was at its  *)
(* first SELECT, one connection writes at a time, and a transaction that   *)
(* has read is refused the write lock once anything was committed since.   *)
(***************************************************************************)
EXTENDS Integers

CONSTANTS
  Tasks,          \* create, take and release tasks that may run together
  Releases,       \* the files earlier releases may have left
  Disputes,       \* rows such a file has in admin_disputes
  SqliteVersions, \* versions of the SQLite library, <<major, minor, patch>>
  MaxSeeds,       \* bound: mnemonics generated
  MaxIndex,       \* bound: trade indices of one mnemonic
  MaxStops        \* bound: times the process stops

ASSUME TasksAssumption == {"nobody", "rotation"} \cap Tasks = {}
ASSUME DatabaseBounds == MaxSeeds \in Nat /\ MaxIndex \in Nat /\ MaxStops \in Nat

VARIABLES
  pc,        \* what the start-up does next; "running" once main has its keys
  exists,    \* the database file exists
  tables,    \* committed tables: their columns and rows
  staged,    \* the tables as the open start-up transaction sees them
  todo,      \* places in `Added` of the columns the transaction has yet to add
  user,      \* the row of users: its mnemonic and last_trade_index
  seeds,     \* mnemonics generated so far
  task,      \* what each task holds: its transaction, then its trade key
  stale,     \* tasks whose snapshot is older than the database
  writer,    \* who holds the write lock
  stops,
  known,     \* history: the orders stored and not cleared by a rotation
  handed,    \* history: the trade keys handed out
  completed  \* history: some start of the program completed this file

startup == <<pc, exists, tables, staged, todo>>
keys    == <<user, task, stale, writer, handed>>
vars    == <<startup, keys, seeds, stops, known, completed>>

(***************************************************************************)
(* Columns.  Those every release has had are left out.                     *)
(***************************************************************************)
Column(t, c) == [table |-> t, column |-> c]

\* The columns migrate_db knows how to add, in its order.
Added ==
  <<Column("admin_disputes", "initiator_info"),
    Column("admin_disputes", "counterpart_info"),
    Column("admin_disputes", "fiat_code"),
    Column("admin_disputes", "dispute_id"),
    Column("admin_disputes", "buyer_chat_last_seen"),
    Column("admin_disputes", "seller_chat_last_seen"),
    Column("admin_disputes", "buyer_shared_key_hex"),
    Column("admin_disputes", "seller_shared_key_hex"),
    Column("orders", "request_id"),
    Column("orders", "trade_index"),
    Column("orders", "last_seen_dm_ts"),
    Column("orders", "order_chat_shared_key_hex"),
    Column("orders", "dispute_id"),
    Column("orders", "solver_pubkey"),
    Column("orders", "dispute_chat_shared_key_hex")>>

\* A release knew of none or some of them; its user has been given no key or a few.
ASSUME ReleasesAssumption ==
  \A r \in Releases :
    /\ r.missing \subseteq {Added[i] : i \in DOMAIN Added}
    /\ r.last = -1 \/ r.last \in Nat \ {0}

Obsolete == "suppress_next_new_order_dm"

\* The columns of the CREATE TABLE statements.
DeclaredColumns ==
  [t \in {"orders", "users", "admin_disputes"} |->
    {Added[i].column : i \in {j \in DOMAIN Added : Added[j].table = t}}]

Blank == ""
NoIndex == -1
NoUser == [seed |-> 0, last |-> NoIndex]
Nobody == "nobody"
Rotation == "rotation"

NoTask == [step |-> "idle", seed |-> 0, index |-> 0, base |-> 0]

KeyOf(seed, index) == [seed |-> seed, index |-> index]

ReleasedTable(r, t) ==
  [columns |-> (DeclaredColumns[t] \ {c.column : c \in {m \in r.missing : m.table = t}})
               \cup (IF t = "orders" /\ r.obsolete THEN {Obsolete} ELSE {}),
   rows    |-> CASE t = "orders"         -> r.orders
                 [] t = "admin_disputes" ->
                      {[id |-> d,
                        dispute_id |-> IF Column(t, "dispute_id") \in r.missing
                                         THEN Blank ELSE d] : d \in Disputes}
                 [] OTHER                -> {}]

\* No file yet, or the file of an earlier release.
NoFile ==
  /\ exists = FALSE /\ tables = << >> /\ user = NoUser /\ seeds = 0
  /\ known = {} /\ handed = {} /\ completed = FALSE

ReleasedFile(r) ==
  /\ exists = TRUE /\ completed = TRUE
  /\ tables = [t \in DOMAIN DeclaredColumns |-> ReleasedTable(r, t)]
  /\ user = [seed |-> 1, last |-> r.last] /\ seeds = 1
  /\ known = r.orders
  /\ handed = {KeyOf(1, i) : i \in 1..r.last}

Init ==
  /\ pc = "off" /\ staged = << >> /\ todo = {}
  /\ task = [t \in Tasks |-> NoTask] /\ stale = {} /\ writer = Nobody
  /\ stops = 0
  /\ NoFile \/ \E r \in Releases : ReleasedFile(r)

(***************************************************************************)
(* First start: the file, the tables one statement at a time, the user.    *)
(***************************************************************************)
Goto(next) == pc' = next

init_db ==
  /\ pc \in {"off", "refused"}
  /\ IF exists THEN Goto("check") /\ UNCHANGED exists
               ELSE Goto("create") /\ exists' = TRUE
  /\ UNCHANGED <<tables, staged, todo, keys, seeds, stops, known, completed>>

TableOrder == <<"orders", "users", "admin_disputes">>

CreateTable ==
  /\ pc = "create"
  /\ \E i \in DOMAIN TableOrder :
       /\ DOMAIN tables = {TableOrder[j] : j \in 1..(i - 1)}
       /\ tables' = [t \in DOMAIN tables \cup {TableOrder[i]} |->
                       IF t = TableOrder[i]
                         THEN [columns |-> DeclaredColumns[t], rows |-> {}]
                         ELSE tables[t]]
  /\ IF DOMAIN tables' = DOMAIN DeclaredColumns THEN Goto("user") ELSE UNCHANGED pc
  /\ UNCHANGED <<exists, staged, todo, keys, seeds, stops, known, completed>>

\* User::new with a fresh mnemonic.
NewUser ==
  /\ pc = "user" /\ seeds < MaxSeeds
  /\ seeds' = seeds + 1
  /\ user' = [seed |-> seeds + 1, last |-> NoIndex]
  /\ Goto("identity")
  /\ UNCHANGED <<exists, tables, staged, todo, task, stale, writer, handed,
                 stops, known, completed>>

(***************************************************************************)
(* migrate_db.  A table that is missing is an error the start gives up on; *)
(* a column that is missing is added.                                      *)
(***************************************************************************)
check_column_exists(c) == c.column \in tables[c.table].columns

Missing == {i \in DOMAIN Added : ~check_column_exists(Added[i])}

\* Mutant: each statement of the migration commits on its own.
InTransaction_autocommit(t) == staged' = t /\ tables' = t

\* Where a transaction's statements go until it commits.
InTransaction(t) == staged' = t /\ UNCHANGED tables

NoTransaction == staged' = << >> /\ UNCHANGED tables

CheckColumns ==
  /\ pc = "check"
  /\ IF {"orders", "admin_disputes"} \subseteq DOMAIN tables
       THEN IF Missing = {}
              THEN Goto("drop") /\ UNCHANGED <<tables, staged, todo>>
              ELSE Goto("alter") /\ todo' = Missing /\ InTransaction(tables)
       ELSE Goto("refused") /\ UNCHANGED <<tables, staged, todo>>
  /\ UNCHANGED <<exists, keys, seeds, stops, known, completed>>

\* All but the first.
Later(places) == {i \in places : \E j \in places : j < i}

\* ALTER TABLE ... ADD COLUMN.
WithColumn(all, c) ==
  [all EXCEPT ![c.table].columns = @ \cup {c.column}]

AddColumn ==
  /\ pc = "alter"
  /\ \E i \in todo \ Later(todo) :
       /\ InTransaction(WithColumn(staged, Added[i]))
       /\ IF Added[i] = Column("admin_disputes", "dispute_id")
            THEN Goto("name") /\ UNCHANGED todo
            ELSE todo' = Later(todo) /\ UNCHANGED pc
  /\ UNCHANGED <<exists, keys, seeds, stops, known, completed>>

\* The column is NOT NULL DEFAULT '': older rows take the id of their order.
NameDisputes ==
  /\ pc = "name"
  /\ InTransaction(
       [staged EXCEPT !["admin_disputes"].rows =
          {IF d.dispute_id = Blank THEN [d EXCEPT !.dispute_id = d.id] ELSE d : d \in @}])
  /\ todo' = Later(todo) /\ Goto("alter")
  /\ UNCHANGED <<exists, keys, seeds, stops, known, completed>>

Commit(next) ==
  /\ tables' = staged /\ staged' = << >> /\ Goto(next)
  /\ UNCHANGED <<exists, todo, keys, seeds, stops, known, completed>>

CommitColumns == pc = "alter" /\ todo = {} /\ Commit("drop")

\* Versions compare lexicographically.
sqlite_version_at_least(v, min) ==
  \/ v = min
  \/ \E i \in 1..3 : v[i] > min[i] /\ \A j \in 1..(i - 1) : v[j] = min[j]

\* The obsolete column must go, for SELECT * has to match Order.
DropObsolete ==
  /\ pc = "drop"
  /\ \E v \in SqliteVersions :
       IF ~check_column_exists(Column("orders", Obsolete))
         THEN Goto("identity") /\ UNCHANGED <<tables, staged>>
       ELSE IF sqlite_version_at_least(v, <<3, 35, 0>>)
         THEN /\ tables' = [tables EXCEPT !["orders"].columns = @ \ {Obsolete}]
              /\ Goto("identity") /\ UNCHANGED staged
         ELSE Goto("rebuild") /\ InTransaction(tables)
  /\ UNCHANGED <<exists, todo, keys, seeds, stops, known, completed>>

(***************************************************************************)
(* orders_table_rebuild_without_suppress_column: create, copy, drop,       *)
(* rename, commit.                                                         *)
(***************************************************************************)
Without(all, t) == [x \in DOMAIN all \ {t} |-> all[x]]
With(all, t, table) == [x \in DOMAIN all \cup {t} |-> IF x = t THEN table ELSE all[x]]

RebuildStep(from, to, result) ==
  /\ pc = from /\ InTransaction(result) /\ Goto(to)
  /\ UNCHANGED <<exists, todo, keys, seeds, stops, known, completed>>

\* CREATE TABLE has no IF NOT EXISTS here: a table in the way is an error.
CreateOrdersNew ==
  IF "orders_new" \in DOMAIN staged
    THEN /\ pc = "rebuild" /\ Goto("refused") /\ NoTransaction
         /\ UNCHANGED <<exists, todo, keys, seeds, stops, known, completed>>
    ELSE RebuildStep("rebuild", "copy",
           With(staged, "orders_new", [columns |-> DeclaredColumns["orders"], rows |-> {}]))

CopyOrders ==
  RebuildStep("copy", "drop_old",
              [staged EXCEPT !["orders_new"].rows = staged["orders"].rows])

DropOrders == RebuildStep("drop_old", "rename", Without(staged, "orders"))

RenameOrdersNew ==
  RebuildStep("rename", "commit",
              Without(With(staged, "orders", staged["orders_new"]), "orders_new"))

CommitRebuild == pc = "commit" /\ Commit("identity")

\* main: User::get_identity_keys, which needs the row of the user.
get_identity_keys ==
  /\ pc = "identity"
  /\ IF user = NoUser
       THEN Goto("refused") /\ UNCHANGED completed
       ELSE Goto("running") /\ completed' = TRUE
  /\ UNCHANGED <<exists, tables, staged, todo, keys, seeds, stops, known>>

(***************************************************************************)
(* Trade keys.  reserve_next_trade_index is a transaction of its own: it   *)
(* reads the user, writes the next index and commits; only then is the key *)
(* derived and handed to the task.                                         *)
(***************************************************************************)
Running == pc = "running" /\ UNCHANGED startup

\* A commit makes the snapshot of every transaction that has read stale.
Readers == {t \in Tasks : task[t].step = "read"}

\* The value a NULL counter stands for: 1 for a new or taken order, 0 for the
\* child of a range order, which is asked for by a task about a stored order.
NoneBases == {1} \cup (IF tables["orders"].rows = {} THEN {} ELSE {0})

\* BEGIN is deferred: the SELECT takes the snapshot.
ReadUser(t) ==
  /\ Running /\ task[t].step = "idle"
  /\ \E base \in NoneBases :
       task' = [task EXCEPT ![t] =
         [step |-> "read", seed |-> user.seed, base |-> base, index |-> user.last]]
  /\ UNCHANGED <<user, stale, writer, handed, seeds, stops, known, completed>>

\* Mutant: the counter is read outside the transaction that writes it.
MayWrite_over_stale(t) == writer = Nobody

MayWrite(t) == writer = Nobody /\ t \notin stale

NextIndex(x) == (IF x.index = NoIndex THEN x.base ELSE x.index) + 1

UpdateIndex(t) ==
  /\ Running /\ task[t].step = "read"
  /\ MayWrite(t)
  /\ NextIndex(task[t]) <= MaxIndex
  /\ writer' = t
  /\ task' = [task EXCEPT ![t].step = "written", ![t].index = NextIndex(task[t])]
  /\ UNCHANGED <<user, stale, handed, seeds, stops, known, completed>>

\* The COMMIT, then derive_trade_keys from the row that was read.
CommitIndex(t) ==
  /\ Running /\ task[t].step = "written"
  /\ user' = [user EXCEPT !.last = task[t].index]
  /\ writer' = Nobody /\ stale' = stale \cup Readers
  /\ handed' = handed \cup {KeyOf(task[t].seed, task[t].index)}
  /\ task' = [task EXCEPT ![t].step = "holds"]
  /\ UNCHANGED <<seeds, stops, known, completed>>

\* The database is busy, its snapshot stale, or a statement fails: the task
\* ends with an error and its transaction is rolled back.
ReserveFails(t) ==
  /\ Running /\ task[t].step \in {"read", "written"}
  /\ task' = [task EXCEPT ![t] = NoTask]
  /\ stale' = stale \ {t}
  /\ writer' = IF writer = t THEN Nobody ELSE writer
  /\ UNCHANGED <<user, handed, seeds, stops, known, completed>>

\* save_order: the order of a reply, under the key the task holds.
SaveOrder(t) ==
  /\ pc = "running" /\ task[t].step = "holds" /\ task[t].base = 1
  /\ writer = Nobody
  /\ LET key == KeyOf(task[t].seed, task[t].index) IN
       /\ tables' = [tables EXCEPT !["orders"].rows = @ \cup {key}]
       /\ known' = known \cup {key}
  /\ task' = [task EXCEPT ![t] = NoTask]
  /\ stale' = stale \cup Readers
  /\ UNCHANGED <<pc, exists, staged, todo, user, writer, handed, seeds, stops, completed>>

\* No reply, a refusal, a failed save (it is only logged), or the key of a
\* child order, under which nothing is saved here.
TaskEnds(t) ==
  /\ Running /\ task[t].step = "holds"
  /\ task' = [task EXCEPT ![t] = NoTask]
  /\ UNCHANGED <<user, stale, writer, handed, seeds, stops, known, completed>>

(***************************************************************************)
(* spawn_key_rotation_task: the transaction that replaces the user and     *)
(* clears the orders stays open while the settings are written.            *)
(***************************************************************************)
BeginRotation ==
  /\ Running /\ writer = Nobody /\ seeds < MaxSeeds
  /\ writer' = Rotation /\ seeds' = seeds + 1
  /\ UNCHANGED <<user, task, stale, handed, stops, known, completed>>

CommitRotation ==
  /\ pc = "running" /\ writer = Rotation
  /\ user' = [seed |-> seeds, last |-> NoIndex]
  /\ tables' = [tables EXCEPT !["orders"].rows = {}]
  /\ known' = {}
  /\ writer' = Nobody /\ stale' = stale \cup Readers
  /\ UNCHANGED <<pc, exists, staged, todo, task, handed, seeds, stops, completed>>

RotationFails ==
  /\ Running /\ writer = Rotation /\ writer' = Nobody
  /\ UNCHANGED <<user, task, stale, handed, seeds, stops, known, completed>>

\* The process stops, by a signal, a failed statement of the start-up or the
\* user: open transactions are rolled back, the tasks are gone.
Stop ==
  /\ pc \notin {"off", "refused"} /\ stops < MaxStops
  /\ stops' = stops + 1
  /\ Goto("off") /\ NoTransaction /\ todo' = {}
  /\ task' = [t \in Tasks |-> NoTask] /\ stale' = {} /\ writer' = Nobody
  /\ UNCHANGED <<exists, user, handed, seeds, known, completed>>

StartUp ==
  \/ init_db \/ CreateTable \/ NewUser \/ get_identity_keys
  \/ CheckColumns \/ AddColumn \/ NameDisputes \/ CommitColumns \/ DropObsolete
  \/ CreateOrdersNew \/ CopyOrders \/ DropOrders
  \/ RenameOrdersNew \/ CommitRebuild

Next ==
  \/ StartUp
  \/ \E t \in Tasks :
       \/ ReadUser(t) \/ UpdateIndex(t) \/ CommitIndex(t)
       \/ ReserveFails(t) \/ SaveOrder(t) \/ TaskEnds(t)
  \/ BeginRotation \/ CommitRotation \/ RotationFails
  \/ Stop

Spec == Init /\ [][Next]_vars

(***************************************************************************)
(* Properties.                                                             *)
(***************************************************************************)
\* What the statements of a running program rely on: the three tables, every
\* column a row type has and none that was taken out, no order or dispute
\* lost, and every dispute findable by an id of its own.
Whole ==
  /\ DOMAIN tables = DOMAIN DeclaredColumns
  /\ \A t \in DOMAIN tables : tables[t].columns = DeclaredColumns[t]
  /\ tables["orders"].rows = known
  /\ tables["admin_disputes"].rows \in
       {{}, {[id |-> d, dispute_id |-> d] : d \in Disputes}}

\* A database some start completed survives the migrations: wherever earlier
\* starts were cut off, a later one is not refused, and once it runs the
\* tables are whole.
DatabaseSurvives ==
  /\ pc = "running" => Whole
  /\ completed => pc # "refused"

\* Every key a task is handed is new: no other task got it before, under the
\* same mnemonic, and it is never the identity key (index 0); tasks reserving
\* at the same time, a rotation between the two steps of one, and restarts
\* included.
Handing(t) == task[t].step = "written" /\ task'[t].step = "holds"

NoKeyTwice ==
  [][\A t \in Tasks : Handing(t) =>
       LET key == KeyOf(task'[t].seed, task'[t].index) IN
         key \in handed' \ handed /\ key.index > 0]_vars

===============================================================================
