---------------------------- MODULE DatabaseProofs ----------------------------
(***************************************************************************)
(* No trade key is handed out twice, for any number of tasks, rotations    *)
(* and stops.  The counter alone does not show it: a task has read it      *)
(* before it writes, so the invariant relates each open transaction to the *)
(* row of the user.  A task that has read and whose snapshot is current    *)
(* holds the counter's present value; one that has written holds the lock  *)
(* and an index above every index handed out under the present mnemonic;   *)
(* and a rotation under way has a mnemonic no key was handed out under.    *)
(***************************************************************************)
EXTENDS Database, TLAPS

Holder == [step : {"idle", "read", "written", "holds"},
           seed : Nat, index : Int, base : {0, 1}]

\* The shape of the state the keys depend on.
KeysTyped ==
  /\ seeds \in Nat
  /\ user \in [seed : Nat, last : {-1} \cup (Nat \ {0})]
  /\ task \in [Tasks -> Holder]
  /\ handed \subseteq [seed : Nat, index : Nat \ {0}]

\* Keys handed out lie below the counter, or under an earlier mnemonic.
HandedBelow ==
  \A k \in handed : \/ k.seed < user.seed
                    \/ k.seed = user.seed /\ k.index <= user.last

\* A transaction that has read, and may still write, has read the present row.
ReadIsCurrent ==
  \A t \in Tasks : task[t].step = "read" /\ t \notin stale
    => task[t].seed = user.seed /\ task[t].index = user.last

\* A transaction that has written holds the lock and a free index.
WrittenIsFree ==
  \A t \in Tasks : task[t].step = "written"
    => /\ writer = t
       /\ task[t].seed = user.seed /\ task[t].index > user.last
       /\ task[t].index > 0

\* The mnemonic of the user is one that was generated; a rotation has one newer.
SeedsFresh ==
  /\ user.seed <= seeds
  /\ writer = Rotation => user.seed < seeds

\* Tasks run only once the start-up is over.
IdleAtStart ==
  pc # "running" => writer = Nobody /\ \A t \in Tasks : task[t].step = "idle"

KeysInv == KeysTyped /\ HandedBelow /\ ReadIsCurrent /\ WrittenIsFree /\ SeedsFresh /\ IdleAtStart

\* The first start and the file of any earlier release satisfy the invariant.
LEMMA KeysInit == Init => KeysInv
<1> SUFFICES ASSUME Init PROVE KeysInv
  OBVIOUS
<1>1. task \in [Tasks -> Holder] /\ \A t \in Tasks : task[t].step = "idle"
  BY DEF Init, NoTask, Holder
<1>2. CASE NoFile
  BY <1>1, <1>2 DEF Init, NoFile, NoUser, NoIndex, KeysInv, KeysTyped, HandedBelow,
     ReadIsCurrent, WrittenIsFree, SeedsFresh, IdleAtStart, Nobody, Rotation
<1>3. ASSUME NEW r \in Releases, ReleasedFile(r) PROVE KeysInv
  <2>1. r.last = -1 \/ r.last \in Nat \ {0}
    BY <1>3, ReleasesAssumption
  <2>2. user.seed = 1 /\ user.last = r.last /\ seeds = 1
    BY <1>3 DEF ReleasedFile
  <2>3. user \in [seed : Nat, last : {-1} \cup (Nat \ {0})]
    BY <1>3, <2>1 DEF ReleasedFile
  <2>4. \A k \in handed : /\ k \in [seed : Nat, index : Nat \ {0}]
                          /\ k.seed = 1 /\ k.index <= r.last
    <3>1. handed = {[seed |-> 1, index |-> i] : i \in 1..r.last}
      BY <1>3 DEF ReleasedFile, KeyOf
    <3> QED BY <2>1, <3>1
  <2> QED BY <1>1, <2>2, <2>3, <2>4 DEF Init, KeysInv, KeysTyped, HandedBelow,
       ReadIsCurrent, WrittenIsFree, SeedsFresh, IdleAtStart, Nobody, Rotation
<1> QED BY <1>2, <1>3 DEF Init

\* Nothing the start-up does before it has a user touches the keys.
LEMMA StartUpKeepsKeys ==
  ASSUME KeysInv, StartUp \/ UNCHANGED vars
  PROVE  KeysInv'
<1>1. CASE NewUser
  <2>1. /\ user' = [seed |-> seeds + 1, last |-> -1] /\ seeds' = seeds + 1
        /\ UNCHANGED <<task, stale, writer, handed>>
    BY <1>1 DEF NewUser, NoIndex
  <2>2. writer = Nobody /\ \A t \in Tasks : task[t].step = "idle"
    BY <1>1 DEF NewUser, KeysInv, IdleAtStart
  <2>3. KeysTyped' /\ SeedsFresh' /\ HandedBelow'
    BY <2>1, <2>2 DEF KeysInv, KeysTyped, HandedBelow, SeedsFresh, Nobody, Rotation
  <2> QED BY <2>1, <2>2, <2>3 DEF KeysInv, ReadIsCurrent, WrittenIsFree, IdleAtStart
<1>2. ASSUME UNCHANGED <<user, seeds, task, stale, writer, handed>>,
             pc = "running" => pc' = pc
      PROVE  KeysInv'
  BY <1>2 DEF KeysInv, KeysTyped, HandedBelow, ReadIsCurrent, WrittenIsFree, SeedsFresh,
     IdleAtStart
<1>3. ASSUME StartUp, ~NewUser
      PROVE  /\ UNCHANGED <<user, seeds, task, stale, writer, handed>>
             /\ pc # "running"
  BY <1>3 DEF StartUp, init_db, CreateTable, get_identity_keys, CheckColumns, AddColumn,
     NameDisputes, CommitColumns, DropObsolete, CreateOrdersNew, CopyOrders, DropOrders,
     RenameOrdersNew, CommitRebuild, RebuildStep, Commit, keys
<1> QED BY <1>1, <1>2, <1>3 DEF vars, keys, startup

\* Reading the user and writing the next index: the snapshot is the present
\* row when it is read, and still is when the lock is granted.
LEMMA ReserveKeepsKeys ==
  ASSUME KeysInv, NEW t \in Tasks, ReadUser(t) \/ UpdateIndex(t)
  PROVE  KeysInv'
<1> USE DEF KeysInv
<1>1. CASE ReadUser(t)
  <2>1. PICK base \in {0, 1} : task' = [task EXCEPT ![t] =
          [step |-> "read", seed |-> user.seed, base |-> base, index |-> user.last]]
    BY <1>1 DEF ReadUser, NoneBases
  <2>2. UNCHANGED <<pc, user, stale, writer, handed, seeds>> /\ pc = "running"
    BY <1>1 DEF ReadUser, Running, startup
  <2>3. task' \in [Tasks -> Holder]
    BY <2>1 DEF KeysTyped, Holder
  <2>4. \A x \in Tasks : task'[x].step \in {"read", "written"} =>
          task'[x] = task[x] \/ (x = t /\ task'[x].step = "read"
                                /\ task'[x].seed = user.seed /\ task'[x].index = user.last)
    BY <2>1 DEF KeysTyped
  <2> QED BY <2>2, <2>3, <2>4
       DEF KeysTyped, HandedBelow, ReadIsCurrent, WrittenIsFree, SeedsFresh, IdleAtStart
<1>2. CASE UpdateIndex(t)
  <2> DEFINE next == NextIndex(task[t])
  <2>1. /\ task' = [task EXCEPT ![t].step = "written", ![t].index = next]
        /\ task[t].step = "read" /\ writer = Nobody /\ t \notin stale /\ writer' = t
        /\ UNCHANGED <<pc, user, stale, handed, seeds>> /\ pc = "running"
    BY <1>2 DEF UpdateIndex, MayWrite, Running, startup
  <2>2. task[t] \in Holder /\ task[t].seed = user.seed /\ task[t].index = user.last
    BY <2>1 DEF KeysTyped, ReadIsCurrent
  <2>3. next \in Nat /\ next > user.last /\ next > 0
    BY <2>2 DEF KeysTyped, NextIndex, NoIndex, Holder
  <2>4. /\ task'[t] = [step |-> "written", seed |-> task[t].seed,
                       index |-> next, base |-> task[t].base]
        /\ \A x \in Tasks \ {t} : task'[x] = task[x]
    BY <2>1, <2>2 DEF KeysTyped, Holder
  <2>5. task' \in [Tasks -> Holder]
    BY <2>1, <2>2, <2>3 DEF KeysTyped, Holder
  <2>6. t # Rotation /\ Nobody \notin Tasks
    BY TasksAssumption DEF Nobody, Rotation
  <2>7. \A x \in Tasks \ {t} : task[x].step # "written"
    BY <2>1, <2>6 DEF WrittenIsFree
  <2> QED BY <2>1, <2>2, <2>3, <2>4, <2>5, <2>6, <2>7
       DEF KeysTyped, HandedBelow, ReadIsCurrent, WrittenIsFree, SeedsFresh, IdleAtStart
<1> QED BY <1>1, <1>2

\* The commit hands out a key no task has had, and makes every other reader
\* stale.
LEMMA CommitIsNew ==
  ASSUME KeysInv, NEW t \in Tasks, CommitIndex(t)
  PROVE  /\ KeysInv'
         /\ KeyOf(task'[t].seed, task'[t].index) \in handed' \ handed
         /\ task'[t].index > 0
         /\ \A x \in Tasks \ {t} : task'[x] = task[x]
<1> USE DEF KeysInv
<1> DEFINE key == KeyOf(task[t].seed, task[t].index)
<1>1. /\ user' = [user EXCEPT !.last = task[t].index]
      /\ task' = [task EXCEPT ![t].step = "holds"] /\ task[t].step = "written"
      /\ writer' = Nobody /\ stale' = stale \cup Readers
      /\ handed' = handed \cup {key} /\ seeds' = seeds
      /\ pc = "running" /\ pc' = pc
  BY DEF CommitIndex, Running, startup
<1>2. /\ task[t] \in Holder /\ writer = t /\ task[t].seed = user.seed
      /\ task[t].index > user.last /\ task[t].index > 0
  BY <1>1 DEF KeysTyped, WrittenIsFree
<1>3. /\ task'[t] = [step |-> "holds", seed |-> task[t].seed,
                     index |-> task[t].index, base |-> task[t].base]
      /\ \A x \in Tasks \ {t} : task'[x] = task[x]
  BY <1>1, <1>2 DEF KeysTyped, Holder
<1>4. key \notin handed
  BY <1>2 DEF HandedBelow, KeysTyped, KeyOf, Holder
<1>5. \A x \in Tasks \ {t} : task[x].step # "written"
  BY <1>2 DEF WrittenIsFree
<1>6. user' = [seed |-> user.seed, last |-> task[t].index]
  BY <1>1 DEF KeysTyped
<1>7. task' \in [Tasks -> Holder] /\ user' \in [seed : Nat, last : {-1} \cup (Nat \ {0})]
  BY <1>1, <1>2, <1>6 DEF KeysTyped, Holder
<1>8. KeysTyped' /\ SeedsFresh'
  <2>1. key \in [seed : Nat, index : Nat \ {0}]
    BY <1>2 DEF KeyOf, Holder
  <2> QED BY <1>1, <1>6, <1>7, <2>1 DEF KeysTyped, SeedsFresh, Nobody, Rotation
<1>9. HandedBelow'
  BY <1>1, <1>2, <1>6 DEF HandedBelow, KeysTyped, KeyOf, Holder
<1>10. ReadIsCurrent' /\ WrittenIsFree' /\ IdleAtStart'
  BY <1>1, <1>3, <1>5 DEF ReadIsCurrent, WrittenIsFree, IdleAtStart, Readers
<1> QED BY <1>1, <1>2, <1>3, <1>4, <1>8, <1>9, <1>10

\* A task that ends, with or without saving an order, leaves the keys alone.
LEMMA TaskEndKeepsKeys ==
  ASSUME KeysInv, NEW t \in Tasks, ReserveFails(t) \/ SaveOrder(t) \/ TaskEnds(t)
  PROVE  KeysInv'
<1> USE DEF KeysInv
<1>1. /\ task' = [task EXCEPT ![t] = NoTask]
      /\ writer' = writer \/ (writer = t /\ writer' = Nobody)
      /\ stale \ {t} \subseteq stale'
      /\ UNCHANGED <<pc, user, handed, seeds>> /\ pc = "running"
  BY DEF ReserveFails, SaveOrder, TaskEnds, Running, startup
<1>2. task[t].step = "written" => writer = t
  BY DEF WrittenIsFree
<1>3. task'[t].step = "idle" /\ \A x \in Tasks \ {t} : task'[x] = task[x]
  BY <1>1 DEF KeysTyped, NoTask
<1>4. task' \in [Tasks -> Holder]
  BY <1>1 DEF KeysTyped, NoTask, Holder
<1>5. \A x \in Tasks \ {t} : task[x].step = "written" => writer' = writer
  BY <1>1 DEF WrittenIsFree
<1>6. writer' = Rotation => writer = Rotation
  BY <1>1 DEF Nobody, Rotation
<1> QED BY <1>1, <1>3, <1>4, <1>5, <1>6
     DEF KeysTyped, HandedBelow, ReadIsCurrent, WrittenIsFree, SeedsFresh, IdleAtStart

\* A rotation ends with a mnemonic newer than that of every key handed out,
\* and makes every reader stale.
LEMMA RotationKeepsKeys ==
  ASSUME KeysInv, BeginRotation \/ CommitRotation \/ RotationFails
  PROVE  KeysInv'
<1> USE DEF KeysInv
<1>0. Nobody # Rotation /\ Rotation \notin Tasks /\ Nobody \notin Tasks
  BY TasksAssumption DEF Nobody, Rotation
<1>1. CASE BeginRotation
  BY <1>0, <1>1 DEF BeginRotation, Running, startup, KeysTyped, HandedBelow, ReadIsCurrent,
     WrittenIsFree, SeedsFresh, IdleAtStart
<1>2. CASE CommitRotation
  <2>1. /\ user' = [seed |-> seeds, last |-> -1] /\ writer = Rotation /\ writer' = Nobody
        /\ stale' = stale \cup Readers
        /\ UNCHANGED <<pc, task, handed, seeds>> /\ pc = "running"
    BY <1>2 DEF CommitRotation, NoIndex
  <2>2. \A x \in Tasks : task[x].step # "written"
    BY <1>0, <2>1 DEF WrittenIsFree
  <2>3. KeysTyped' /\ SeedsFresh' /\ HandedBelow'
    BY <1>0, <2>1 DEF KeysTyped, SeedsFresh, HandedBelow
  <2> QED BY <2>1, <2>2, <2>3 DEF ReadIsCurrent, WrittenIsFree, IdleAtStart, Readers
<1>3. CASE RotationFails
  BY <1>0, <1>3 DEF RotationFails, Running, startup, KeysTyped, HandedBelow, ReadIsCurrent,
     WrittenIsFree, SeedsFresh, IdleAtStart
<1> QED BY <1>1, <1>2, <1>3

\* A stop leaves the counter and the keys handed out where they were.
LEMMA StopKeepsKeys == ASSUME KeysInv, Stop PROVE KeysInv'
<1>1. /\ task' = [x \in Tasks |-> NoTask] /\ writer' = Nobody
      /\ UNCHANGED <<user, handed, seeds>>
  BY DEF Stop
<1>2. task' \in [Tasks -> Holder] /\ \A x \in Tasks : task'[x].step = "idle"
  BY <1>1 DEF NoTask, Holder
<1>3. Nobody # Rotation
  BY DEF Nobody, Rotation
<1> QED BY <1>1, <1>2, <1>3 DEF KeysInv, KeysTyped, HandedBelow, ReadIsCurrent,
     WrittenIsFree, SeedsFresh, IdleAtStart

LEMMA KeysStep == ASSUME KeysInv, [Next]_vars PROVE KeysInv'
<1>1. CASE StartUp \/ UNCHANGED vars
  BY <1>1, StartUpKeepsKeys
<1>2. ASSUME NEW t \in Tasks,
             \/ ReadUser(t) \/ UpdateIndex(t) \/ CommitIndex(t)
             \/ ReserveFails(t) \/ SaveOrder(t) \/ TaskEnds(t)
      PROVE  KeysInv'
  BY <1>2, ReserveKeepsKeys, CommitIsNew, TaskEndKeepsKeys
<1>3. CASE BeginRotation \/ CommitRotation \/ RotationFails
  BY <1>3, RotationKeepsKeys
<1>4. CASE Stop
  BY <1>4, StopKeepsKeys
<1> QED BY <1>1, <1>2, <1>3, <1>4 DEF Next

THEOREM KeysInvariant == Spec => []KeysInv
BY KeysInit, KeysStep, PTL DEF Spec

\* Only the commit of the task itself hands it a key.
LEMMA HandedByCommit ==
  ASSUME KeysInv, [Next]_vars, NEW t \in Tasks, Handing(t)
  PROVE  CommitIndex(t)
<1> USE DEF Handing
<1>1. task' # task /\ task'[t].step = "holds" /\ task[t].step = "written"
  OBVIOUS
<1>2. ~(StartUp \/ UNCHANGED vars)
  BY <1>1 DEF StartUp, init_db, CreateTable, NewUser, get_identity_keys, CheckColumns,
     AddColumn, NameDisputes, CommitColumns, DropObsolete, CreateOrdersNew, CopyOrders,
     DropOrders, RenameOrdersNew, CommitRebuild, RebuildStep, Commit, keys, vars
<1>3. ~(BeginRotation \/ CommitRotation \/ RotationFails)
  BY <1>1 DEF BeginRotation, CommitRotation, RotationFails
<1>4. ~Stop
  BY <1>1 DEF Stop, NoTask
<1>5. \A x \in Tasks :
        ~(ReadUser(x) \/ UpdateIndex(x) \/ ReserveFails(x) \/ SaveOrder(x) \/ TaskEnds(x))
  BY <1>1 DEF ReadUser, UpdateIndex, ReserveFails, SaveOrder, TaskEnds, NoTask,
     KeysInv, KeysTyped, Holder
<1>6. ASSUME NEW x \in Tasks, CommitIndex(x), x # t PROVE FALSE
  BY <1>1, <1>6, CommitIsNew
<1> QED BY <1>2, <1>3, <1>4, <1>5, <1>6 DEF Next

\* reserve_next_trade_index: every key handed out is new and is not the
\* identity key, whatever tasks, rotations and stops come between the read of
\* the counter and its commit.
THEOREM KeysAreNew == Spec => NoKeyTwice
<1>1. KeysInv /\ [Next]_vars =>
        [\A t \in Tasks : Handing(t) =>
           LET key == KeyOf(task'[t].seed, task'[t].index) IN
             key \in handed' \ handed /\ key.index > 0]_vars
  BY HandedByCommit, CommitIsNew DEF KeyOf
<1> QED BY <1>1, KeysInvariant, PTL DEF Spec, NoKeyTwice

(***************************************************************************)
(* A database that some start completed survives the migrations.  Its file *)
(* keeps its three tables and their rows and lacks at most columns that    *)
(* the migration adds; the columns still missing from what the open        *)
(* transaction sees are those it has yet to add; and disputes are without  *)
(* an id of their own only as long as the column is.                       *)
(***************************************************************************)
TableNames == {"orders", "users", "admin_disputes"}
IsTable(x) == x = [columns |-> x.columns, rows |-> x.rows]
AreTables(all, names) ==
  all = [t \in names |-> all[t]] /\ \A t \in names : IsTable(all[t])

MayHave(t) == DeclaredColumns[t] \cup IF t = "orders" THEN {Obsolete} ELSE {}

\* Every column the migration knows of is there, but those in places of `rest`.
Complete(all, rest) ==
  \A i \in DOMAIN Added : Added[i].column \in all[Added[i].table].columns \/ i \in rest

Named(all) ==
  all["admin_disputes"].rows \in {{}, {[id |-> d, dispute_id |-> d] : d \in Disputes}}
Unnamed(all) ==
  all["admin_disputes"].rows \in {{}, {[id |-> d, dispute_id |-> Blank] : d \in Disputes}}
DisputesKept(all) ==
  IF "dispute_id" \in all["admin_disputes"].columns THEN Named(all) ELSE Unnamed(all)

\* The tables of this or an earlier release.
Usable(all) ==
  /\ AreTables(all, TableNames)
  /\ \A t \in TableNames : all[t].columns \subseteq MayHave(t)
  /\ all["orders"].rows = known

\* Between its creation and its completion a file has some first tables, all empty.
Growing ==
  /\ known = {} /\ ~completed
  /\ tables \in {[t \in names |-> [columns |-> DeclaredColumns[t], rows |-> {}]] :
                   names \in {{}, {"orders"}, {"orders", "users"}}}
  /\ pc \in {"off", "check", "create", "refused"}

\* What a start finds in the file, wherever the last one was cut off.
FileKept ==
  /\ Growing \/ (Usable(tables) /\ DisputesKept(tables) /\ pc # "create")
  /\ ~exists => Growing /\ tables = << >>
  /\ pc = "off" \/ pc = "refused" \/ exists

\* A completed file has a user, and a start that got to the user a complete file.
UserKept ==
  /\ user = NoUser \/ user.seed > 0
  /\ completed => user.seed > 0 /\ pc # "refused"
  /\ pc = "running" => completed

\* The rebuilt table of orders, and the transaction's tables beside it.
OrdersNew(rows) == [columns |-> DeclaredColumns["orders"], rows |-> rows]
Beside(names, rows) ==
  staged = [t \in names |-> IF t \in TableNames THEN tables[t] ELSE OrdersNew(rows)]

\* How far the transaction under way has come.
StagedKept ==
  /\ pc = "alter" => /\ todo \subseteq DOMAIN Added
                     /\ Usable(staged) /\ DisputesKept(staged) /\ Complete(staged, todo)
  /\ pc = "name" => /\ todo \subseteq DOMAIN Added
                    /\ "dispute_id" \in staged["admin_disputes"].columns
                    /\ Usable(staged) /\ (Named(staged) \/ Unnamed(staged))
                    /\ Complete(staged, Later(todo))
  /\ pc = "rebuild" => staged = tables
  /\ pc = "copy" => Beside(TableNames \cup {"orders_new"}, {})
  /\ pc = "drop_old" => Beside(TableNames \cup {"orders_new"}, known)
  /\ pc = "rename" => Beside({"users", "admin_disputes", "orders_new"}, known)
  /\ pc = "commit" =>
       staged = [t \in TableNames |-> IF t = "orders" THEN OrdersNew(known) ELSE tables[t]]

\* From the columns on, none is missing; from the user on, none is too many.
TablesComplete ==
  /\ pc \in {"drop", "rebuild", "copy", "drop_old", "rename", "commit"} => Complete(tables, {})
  /\ pc \in {"user", "identity", "running"} => Whole

FileInv == FileKept /\ UserKept /\ StagedKept /\ TablesComplete

LEMMA AddedColumns ==
  /\ DOMAIN DeclaredColumns = TableNames /\ DeclaredColumns["users"] = {}
  /\ Obsolete \notin DeclaredColumns["orders"]
  /\ "dispute_id" \in DeclaredColumns["admin_disputes"]
  /\ \A i \in DOMAIN Added :
       /\ i \in Nat /\ Added[i].table \in {"orders", "admin_disputes"}
       /\ Added[i].column \in DeclaredColumns[Added[i].table]
       /\ Added[i] = Column(Added[i].table, Added[i].column)
  /\ \A t \in TableNames : \A c \in DeclaredColumns[t] :
       \E i \in DOMAIN Added : Added[i].table = t /\ Added[i].column = c
<1>1. /\ DOMAIN Added = 1 .. 15
      /\ \A i \in 1 .. 15 : /\ Added[i].table \in {"orders", "admin_disputes"}
                            /\ Added[i] = Column(Added[i].table, Added[i].column)
      /\ \A i \in 1 .. 15 : Added[i].column # Obsolete
      /\ Added[4].table = "admin_disputes" /\ Added[4].column = "dispute_id"
  BY DEF Added, Column, Obsolete
<1>2. DeclaredColumns = [t \in TableNames |->
         {Added[i].column : i \in {j \in DOMAIN Added : Added[j].table = t}}]
  BY DEF DeclaredColumns, TableNames
<1>3. \A t \in TableNames : DeclaredColumns[t] =
         {Added[i].column : i \in {j \in 1 .. 15 : Added[j].table = t}}
  BY <1>1, <1>2
<1>4. DOMAIN DeclaredColumns = TableNames
  BY <1>2
<1>5. DeclaredColumns["users"] = {}
  BY <1>1, <1>3 DEF TableNames
<1>6. Obsolete \notin DeclaredColumns["orders"]
  BY <1>1, <1>3 DEF TableNames
<1>7. "dispute_id" \in DeclaredColumns["admin_disputes"]
  BY <1>1, <1>3 DEF TableNames
<1>8. \A i \in DOMAIN Added :
       /\ i \in Nat /\ Added[i].table \in {"orders", "admin_disputes"}
       /\ Added[i].column \in DeclaredColumns[Added[i].table]
       /\ Added[i] = Column(Added[i].table, Added[i].column)
  BY <1>1, <1>3 DEF TableNames
<1>9. \A t \in TableNames : \A c \in DeclaredColumns[t] :
       \E i \in DOMAIN Added : Added[i].table = t /\ Added[i].column = c
  BY <1>1, <1>3
<1> QED BY <1>4, <1>5, <1>6, <1>7, <1>8, <1>9

\* Adding a column changes nothing else.
LEMMA ColumnAdded ==
  ASSUME NEW all, AreTables(all, TableNames), NEW i \in DOMAIN Added
  PROVE  /\ AreTables(WithColumn(all, Added[i]), TableNames)
         /\ \A t \in TableNames :
              /\ WithColumn(all, Added[i])[t].rows = all[t].rows
              /\ WithColumn(all, Added[i])[t].columns =
                   all[t].columns \cup IF t = Added[i].table THEN {Added[i].column} ELSE {}
<1> DEFINE c == Added[i]
           new == WithColumn(all, c)
           grown == [columns |-> all[c.table].columns \cup {c.column}, rows |-> all[c.table].rows]
<1>1. c.table \in TableNames
  BY AddedColumns DEF TableNames
<1>2. all = [t \in TableNames |-> all[t]] /\ \A t \in TableNames : IsTable(all[t])
  BY DEF AreTables
<1>3. all[c.table] = [columns |-> all[c.table].columns, rows |-> all[c.table].rows]
  BY <1>1, <1>2 DEF IsTable
<1>4. [all[c.table] EXCEPT !.columns = @ \cup {c.column}] = grown
  BY <1>3
<1>5. new = [all EXCEPT ![c.table] = [all[c.table] EXCEPT !.columns = @ \cup {c.column}]]
  BY DEF WithColumn
<1>6. new = [t \in TableNames |-> IF t = c.table THEN grown ELSE all[t]]
  BY <1>2, <1>4, <1>5
<1>7. grown.columns = all[c.table].columns \cup {c.column} /\ grown.rows = all[c.table].rows
      /\ IsTable(grown)
  BY DEF IsTable
<1> HIDE DEF new, grown, c
<1>8. \A t \in TableNames : new[t] = IF t = c.table THEN grown ELSE all[t]
  BY <1>6
<1>9. AreTables(new, TableNames)
  BY <1>2, <1>6, <1>7, <1>8 DEF AreTables
<1>10. \A t \in TableNames :
         /\ new[t].rows = all[t].rows
         /\ new[t].columns = all[t].columns \cup IF t = c.table THEN {c.column} ELSE {}
  BY <1>7, <1>8
<1> QED BY <1>9, <1>10 DEF new, c

\* What the columns of a usable file say, once none is missing.
LEMMA CompleteFile ==
  ASSUME NEW all, \A t \in TableNames : all[t].columns \subseteq MayHave(t), Complete(all, {})
  PROVE  /\ \A t \in TableNames : DeclaredColumns[t] \subseteq all[t].columns
         /\ \A t \in TableNames \ {"orders"} : all[t].columns = DeclaredColumns[t]
         /\ all["orders"].columns \ {Obsolete} = DeclaredColumns["orders"]
<1>1. \A t \in TableNames : DeclaredColumns[t] \subseteq all[t].columns
  BY AddedColumns DEF Complete
<1>2. \A t \in TableNames \ {"orders"} : all[t].columns \subseteq DeclaredColumns[t]
  BY DEF MayHave
<1>3. all["orders"].columns \subseteq DeclaredColumns["orders"] \cup {Obsolete}
  BY DEF MayHave, TableNames
<1>4. all["orders"].columns \ {Obsolete} = DeclaredColumns["orders"]
  BY <1>1, <1>3, AddedColumns DEF TableNames
<1> QED BY <1>1, <1>2, <1>4

LEMMA EarlierColumns ==
  ASSUME NEW r \in Releases, NEW t \in TableNames
  PROVE  /\ ReleasedTable(r, t).columns \subseteq MayHave(t)
         /\ IsTable(ReleasedTable(r, t))
         /\ ReleasedTable(r, "orders").rows = r.orders
         /\ DisputesKept([x \in TableNames |-> ReleasedTable(r, x)])
<1> DEFINE all == [x \in TableNames |-> ReleasedTable(r, x)]
           c == Column("admin_disputes", "dispute_id")
           gone == {m.column : m \in {x \in r.missing : x.table = "admin_disputes"}}
<1>1. ReleasedTable(r, t).columns \subseteq MayHave(t) /\ IsTable(ReleasedTable(r, t))
  BY DEF ReleasedTable, MayHave, IsTable
<1>2. ReleasedTable(r, "orders").rows = r.orders
  BY DEF ReleasedTable
<1>3. all["admin_disputes"].columns = (DeclaredColumns["admin_disputes"] \ gone) \cup {}
  BY DEF ReleasedTable, TableNames
<1>4. all["admin_disputes"].rows =
        {[id |-> d, dispute_id |-> IF c \in r.missing THEN Blank ELSE d] : d \in Disputes}
  BY DEF ReleasedTable, TableNames
<1>5. c.table = "admin_disputes" /\ c.column = "dispute_id"
  BY DEF Column
<1>6. ASSUME NEW m \in r.missing, m.table = "admin_disputes", m.column = "dispute_id"
      PROVE  c \in r.missing
  <2>1. PICK i \in DOMAIN Added : m = Added[i]
    BY ReleasesAssumption
  <2> QED BY <1>6, <2>1, AddedColumns
<1>7. "dispute_id" \in gone <=> c \in r.missing
  BY <1>5, <1>6
<1> HIDE DEF all, c, gone
<1>8. DisputesKept(all)
  <2>1. CASE c \in r.missing
    BY <1>3, <1>4, <1>7, <2>1 DEF DisputesKept, Unnamed
  <2>2. CASE c \notin r.missing
    BY <1>3, <1>4, <1>7, <2>2, AddedColumns DEF DisputesKept, Named
  <2> QED BY <2>1, <2>2
<1> QED BY <1>1, <1>2, <1>8 DEF all

LEMMA FileInit == ASSUME Init PROVE FileInv
<1>1. pc = "off"
  BY DEF Init
<1>2. CASE NoFile
  <2>1. tables = [t \in {} |-> [columns |-> DeclaredColumns[t], rows |-> {}]]
    BY <1>2 DEF NoFile
  <2>2. Growing
    BY <1>1, <1>2, <2>1 DEF NoFile, Growing
  <2> QED BY <1>1, <1>2, <2>2
          DEF NoFile, FileInv, FileKept, UserKept, StagedKept, TablesComplete
<1>3. ASSUME NEW r \in Releases, ReleasedFile(r) PROVE FileInv
  <2>1. tables = [t \in TableNames |-> ReleasedTable(r, t)] /\ known = r.orders
        /\ exists /\ user = [seed |-> 1, last |-> r.last]
    BY <1>3, AddedColumns DEF ReleasedFile
  <2>2. \A t \in TableNames : tables[t] = ReleasedTable(r, t)
    BY <2>1
  <2>3. AreTables(tables, TableNames) /\ \A t \in TableNames : tables[t].columns \subseteq MayHave(t)
    BY <2>1, <2>2, EarlierColumns DEF AreTables
  <2>4. tables["orders"].rows = known
    BY <2>1, <2>2, EarlierColumns DEF TableNames
  <2>5. DisputesKept(tables)
    BY <2>1, EarlierColumns DEF TableNames
  <2> QED BY <1>1, <2>1, <2>3, <2>4, <2>5
          DEF FileInv, FileKept, UserKept, StagedKept, TablesComplete, Usable
<1> QED BY <1>2, <1>3 DEF Init

\* A statement of an open transaction leaves the file as it is.
LEMMA SameFile ==
  ASSUME FileInv, ~Growing, UNCHANGED <<tables, exists, user, known, completed>>,
         exists, pc' \notin {"create", "running", "refused"}
  PROVE  FileKept' /\ UserKept'
<1>1. pc' # "create"
  OBVIOUS
<1>2. FileKept'
  BY <1>1 DEF FileInv, FileKept, Usable, AreTables, DisputesKept, Named, Unnamed
<1> QED BY <1>2 DEF FileInv, UserKept

LEMMA InitDbKeepsFile == ASSUME FileInv, init_db PROVE FileInv'
<1>1. FileKept'
  BY DEF FileInv, FileKept, init_db, Goto, Growing, Usable, AreTables, DisputesKept, Named, Unnamed
<1>2. UserKept'
  BY DEF FileInv, FileKept, UserKept, Growing, init_db, Goto, keys
<1>3. pc' \in {"check", "create"}
  BY DEF init_db, Goto
<1> QED BY <1>1, <1>2, <1>3 DEF FileInv, StagedKept, TablesComplete

LEMMA CreateKeepsFile == ASSUME FileInv, CreateTable PROVE FileInv'
<1> DEFINE empty(names) == [t \in names |-> [columns |-> DeclaredColumns[t], rows |-> {}]]
           all == {{}, {"orders"}, {"orders", "users"}}
<1>1. Growing /\ exists /\ pc = "create"
  BY DEF FileInv, FileKept, CreateTable
<1>2. PICK names \in all : tables = empty(names)
  BY <1>1 DEF Growing
<1>3. PICK i \in DOMAIN TableOrder :
        /\ DOMAIN tables = {TableOrder[j] : j \in 1..(i - 1)}
        /\ tables' = [t \in DOMAIN tables \cup {TableOrder[i]} |->
                       IF t = TableOrder[i]
                         THEN [columns |-> DeclaredColumns[t], rows |-> {}]
                         ELSE tables[t]]
  BY DEF CreateTable
<1>4. i \in {1, 2, 3} /\ TableOrder[1] = "orders" /\ TableOrder[2] = "users"
      /\ TableOrder[3] = "admin_disputes"
  BY DEF TableOrder
<1>5. tables' = empty(names \cup {TableOrder[i]}) /\ DOMAIN tables = names
  BY <1>2, <1>3
<1>6. names = {TableOrder[j] : j \in 1..(i - 1)}
  BY <1>3, <1>5
<1>7. names \cup {TableOrder[i]} \in {{"orders"}, {"orders", "users"}, TableNames}
  <2>1. CASE i = 1
    BY <1>4, <1>6, <2>1 DEF TableNames
  <2>2. CASE i = 2
    BY <1>4, <1>6, <2>2 DEF TableNames
  <2>3. CASE i = 3
    BY <1>4, <1>6, <2>3 DEF TableNames
  <2> QED BY <1>4, <2>1, <2>2, <2>3
<1>8. UNCHANGED <<exists, known, completed, user>> /\ pc' \in {"create", "user"}
  BY <1>1 DEF CreateTable, Goto, keys
<1>9. CASE names \cup {TableOrder[i]} # TableNames
  <2>1. DOMAIN tables' # DOMAIN DeclaredColumns
    BY <1>5, <1>9, AddedColumns
  <2>2. pc' = "create"
    BY <1>1, <2>1 DEF CreateTable
  <2>3. Growing'
    BY <1>1, <1>5, <1>7, <1>8, <1>9, <2>2 DEF Growing
  <2> QED BY <1>1, <1>8, <2>2, <2>3
          DEF FileInv, FileKept, UserKept, StagedKept, TablesComplete
<1>10. CASE names \cup {TableOrder[i]} = TableNames
  <2>1. tables' = empty(TableNames)
    BY <1>5, <1>10
  <2>2. pc' = "user"
    BY <1>1, <2>1, AddedColumns DEF CreateTable, Goto
  <2>3. \A t \in TableNames : tables'[t] = [columns |-> DeclaredColumns[t], rows |-> {}]
    BY <2>1
  <2>4. known' = {}
    BY <1>1, <1>8 DEF Growing
  <2>5. Usable(tables)' /\ DisputesKept(tables)'
    BY <2>1, <2>3, <2>4, AddedColumns
       DEF Usable, AreTables, IsTable, MayHave, DisputesKept, Named, TableNames
  <2>6. Whole'
    BY <2>1, <2>3, <2>4, AddedColumns DEF Whole, TableNames
  <2> QED BY <1>1, <1>8, <2>2, <2>5, <2>6
          DEF FileInv, FileKept, UserKept, StagedKept, TablesComplete
<1> QED BY <1>9, <1>10

LEMMA UserKeepsFile ==
  ASSUME FileInv, KeysInv, NewUser \/ get_identity_keys PROVE FileInv'
<1>1. UNCHANGED <<tables, exists, known>> /\ exists /\ pc \in {"user", "identity"}
  BY DEF NewUser, get_identity_keys, FileInv, FileKept
<1>2. FileKept'
  BY <1>1 DEF FileInv, FileKept, NewUser, get_identity_keys, Goto, Growing, Usable, AreTables,
     DisputesKept, Named, Unnamed
<1>3. UserKept'
  <2>1. seeds \in Nat
    BY DEF KeysInv, KeysTyped
  <2>2. CASE NewUser
    BY <2>1, <2>2, <1>1 DEF FileInv, UserKept, NewUser, Goto
  <2>3. CASE get_identity_keys
    BY <2>3, <1>1 DEF FileInv, UserKept, get_identity_keys, Goto, NoUser, keys
  <2> QED BY <2>2, <2>3
<1>4. pc' \in {"identity", "running", "refused"} /\ Whole'
  BY <1>1 DEF FileInv, TablesComplete, Whole, NewUser, get_identity_keys, Goto
<1> QED BY <1>2, <1>3, <1>4 DEF FileInv, StagedKept, TablesComplete

LEMMA CheckKeepsFile == ASSUME FileInv, CheckColumns PROVE FileInv'
<1>1. pc = "check" /\ UNCHANGED <<tables, exists, user, known, completed>> /\ exists
  BY DEF CheckColumns, InTransaction, keys, FileInv, FileKept
<1>2. CASE Growing
  <2>1. "admin_disputes" \notin DOMAIN tables
    BY <1>2 DEF Growing
  <2>2. pc' = "refused"
    BY <2>1 DEF CheckColumns, Goto
  <2>3. Growing' /\ ~completed
    BY <1>1, <1>2, <2>2 DEF Growing
  <2> QED BY <1>1, <2>2, <2>3 DEF FileInv, FileKept, UserKept, StagedKept, TablesComplete
<1>3. CASE ~Growing
  <2>1. Usable(tables) /\ DisputesKept(tables)
    BY <1>3 DEF FileInv, FileKept
  <2>2. DOMAIN tables = TableNames
    BY <2>1 DEF Usable, AreTables
  <2>3. \/ Missing = {} /\ pc' = "drop"
        \/ pc' = "alter" /\ todo' = Missing /\ staged' = tables
    BY <2>2 DEF TableNames, CheckColumns, Goto, InTransaction
  <2>4. FileKept' /\ UserKept'
    BY <1>1, <1>3, <2>3, SameFile
  <2>5. Missing \subseteq DOMAIN Added /\ Complete(tables, Missing)
    BY DEF Missing, Complete, check_column_exists
  <2>6. ASSUME Missing = {} /\ pc' = "drop" PROVE FileInv'
    BY <1>1, <2>4, <2>5, <2>6 DEF FileInv, StagedKept, TablesComplete, Complete
  <2>7. ASSUME pc' = "alter" /\ todo' = Missing /\ staged' = tables PROVE FileInv'
    <3>1. (Usable(staged) /\ DisputesKept(staged) /\ Complete(staged, todo))'
      BY <1>1, <2>1, <2>5, <2>7
         DEF Usable, AreTables, DisputesKept, Named, Unnamed, Complete
    <3> QED BY <2>4, <2>5, <2>7, <3>1 DEF FileInv, StagedKept, TablesComplete
  <2> QED BY <2>3, <2>6, <2>7
<1> QED BY <1>2, <1>3

LEMMA AddKeepsFile == ASSUME FileInv, AddColumn PROVE FileInv'
<1>1. /\ pc = "alter" /\ UNCHANGED <<tables, exists, user, known, completed>>
      /\ exists /\ ~Growing /\ pc' \in {"alter", "name"}
  BY DEF AddColumn, InTransaction, Goto, keys, FileInv, FileKept, Growing
<1>2. FileKept' /\ UserKept'
  BY <1>1, SameFile
<1>3. /\ todo \subseteq DOMAIN Added /\ Usable(staged)
      /\ DisputesKept(staged) /\ Complete(staged, todo)
  BY <1>1 DEF FileInv, StagedKept
<1>4. PICK i \in todo \ Later(todo) :
        /\ staged' = WithColumn(staged, Added[i])
        /\ IF Added[i] = Column("admin_disputes", "dispute_id")
             THEN pc' = "name" /\ todo' = todo
             ELSE pc' = "alter" /\ todo' = Later(todo)
  BY <1>1 DEF AddColumn, InTransaction, Goto
<1>5. i \in DOMAIN Added /\ Added[i].table \in {"orders", "admin_disputes"}
      /\ Added[i].column \in DeclaredColumns[Added[i].table]
      /\ Added[i] = Column(Added[i].table, Added[i].column)
  BY <1>3, AddedColumns
<1>6. \A j \in todo : j \in Later(todo) \/ j = i
  BY <1>3, AddedColumns DEF Later
<1>7. /\ AreTables(staged', TableNames)
      /\ \A t \in TableNames :
           /\ staged'[t].rows = staged[t].rows
           /\ staged'[t].columns = staged[t].columns \cup
                IF t = Added[i].table THEN {Added[i].column} ELSE {}
  BY <1>3, <1>4, <1>5, ColumnAdded DEF Usable
<1>8. \A t \in TableNames : staged'[t].columns \subseteq MayHave(t)
  BY <1>3, <1>5, <1>7 DEF Usable, MayHave
<1>9. Usable(staged)'
  BY <1>1, <1>3, <1>7, <1>8 DEF Usable, AreTables, TableNames, MayHave
<1>10. Complete(staged', Later(todo))
  <2> SUFFICES ASSUME NEW j \in DOMAIN Added, j \notin Later(todo)
               PROVE  Added[j].column \in staged'[Added[j].table].columns
    BY DEF Complete
  <2>1. Added[j].table \in TableNames
    BY AddedColumns DEF TableNames
  <2>2. CASE j = i
    BY <1>7, <2>1, <2>2
  <2>3. CASE j # i
    BY <1>3, <1>6, <1>7, <2>1, <2>3 DEF Complete
  <2> QED BY <2>2, <2>3
<1>11. Later(todo) \subseteq DOMAIN Added
  BY <1>3 DEF Later
<1>12. staged'["admin_disputes"].rows = staged["admin_disputes"].rows
  BY <1>7 DEF TableNames
<1>13. CASE Added[i] = Column("admin_disputes", "dispute_id")
  <2>1. Named(staged)' \/ Unnamed(staged)'
    BY <1>3, <1>12 DEF DisputesKept, Named, Unnamed
  <2>2. pc' = "name" /\ todo' = todo
    BY <1>4, <1>13
  <2>3. "dispute_id" \in staged'["admin_disputes"].columns
    BY <1>7, <1>13 DEF Column, TableNames
  <2> QED BY <1>2, <1>3, <1>9, <1>10, <2>1, <2>2, <2>3
          DEF FileInv, StagedKept, TablesComplete, Complete
<1>14. CASE Added[i] # Column("admin_disputes", "dispute_id")
  <2>1. pc' = "alter" /\ todo' = Later(todo)
    BY <1>4, <1>14
  <2>2. ~(Added[i].table = "admin_disputes" /\ Added[i].column = "dispute_id")
    BY <1>5, <1>14
  <2>3. "dispute_id" \in staged'["admin_disputes"].columns
          <=> "dispute_id" \in staged["admin_disputes"].columns
    BY <1>7, <2>2 DEF TableNames
  <2>4. DisputesKept(staged)'
    BY <1>3, <1>12, <2>3 DEF DisputesKept, Named, Unnamed
  <2> QED BY <1>2, <1>9, <1>10, <1>11, <2>1, <2>4
          DEF FileInv, StagedKept, TablesComplete, Complete
<1> QED BY <1>13, <1>14

LEMMA RowsReplaced ==
  ASSUME NEW x, IsTable(x), NEW rows
  PROVE  [x EXCEPT !.rows = rows] = [columns |-> x.columns, rows |-> rows]
  BY DEF IsTable

\* The disputes of a file without the column get the ids of their orders.
LEMMA NameKeepsFile == ASSUME FileInv, NameDisputes PROVE FileInv'
<1> DEFINE old == staged["admin_disputes"]
           named == {IF d.dispute_id = Blank THEN [d EXCEPT !.dispute_id = d.id] ELSE d : d \in old.rows}
<1>1. /\ pc = "name" /\ UNCHANGED <<tables, exists, user, known, completed>>
      /\ exists /\ ~Growing /\ pc' = "alter" /\ todo' = Later(todo)
  BY DEF NameDisputes, InTransaction, Goto, keys, FileInv, FileKept, Growing
<1>2. FileKept' /\ UserKept'
  BY <1>1, SameFile
<1>3. /\ todo \subseteq DOMAIN Added /\ Usable(staged)
      /\ Named(staged) \/ Unnamed(staged)
      /\ "dispute_id" \in staged["admin_disputes"].columns
  BY <1>1 DEF FileInv, StagedKept
<1>4. Complete(staged, Later(todo))
  BY <1>1 DEF FileInv, StagedKept
<1>5. staged' = [staged EXCEPT !["admin_disputes"] = [old EXCEPT !.rows = named]]
  BY DEF NameDisputes, InTransaction
<1>6. IsTable(old)
  BY <1>3 DEF Usable, AreTables, TableNames
<1>7. [old EXCEPT !.rows = named] = [columns |-> old.columns, rows |-> named]
  BY <1>6, RowsReplaced
<1>8. staged = [t \in TableNames |-> staged[t]] /\ \A t \in TableNames : IsTable(staged[t])
  BY <1>3 DEF Usable, AreTables
<1>9. named \in {{}, {[id |-> d, dispute_id |-> d] : d \in Disputes}}
  <2>1. CASE old.rows = {}
    BY <2>1
  <2>2. CASE old.rows = {[id |-> d, dispute_id |-> d] : d \in Disputes}
    <3>1. \A d \in old.rows : d.dispute_id = Blank => [d EXCEPT !.dispute_id = d.id] = d
      BY <2>2
    <3>2. named = old.rows
      BY <3>1
    <3> QED BY <2>2, <3>2
  <2>3. CASE old.rows = {[id |-> d, dispute_id |-> Blank] : d \in Disputes}
    <3>1. \A d \in Disputes : LET x == [id |-> d, dispute_id |-> Blank] IN
            /\ x.dispute_id = Blank
            /\ [x EXCEPT !.dispute_id = x.id] = [id |-> d, dispute_id |-> d]
      OBVIOUS
    <3>2. ASSUME NEW y \in named PROVE \E d \in Disputes : y = [id |-> d, dispute_id |-> d]
      BY <2>3, <3>1
    <3>3. ASSUME NEW d \in Disputes PROVE [id |-> d, dispute_id |-> d] \in named
      <4>1. [id |-> d, dispute_id |-> Blank] \in old.rows
        BY <2>3
      <4> QED BY <4>1, <3>1
    <3> HIDE DEF named, old
    <3>4. named = {[id |-> d, dispute_id |-> d] : d \in Disputes}
      BY <3>2, <3>3
    <3> QED BY <3>4
  <2> QED BY <1>3, <2>1, <2>2, <2>3 DEF Named, Unnamed
<1> HIDE DEF named, old
<1>10. staged' = [t \in TableNames |-> IF t = "admin_disputes"
                     THEN [columns |-> old.columns, rows |-> named] ELSE staged[t]]
  BY <1>5, <1>7, <1>8
<1>11. /\ \A t \in TableNames \ {"admin_disputes"} : staged'[t] = staged[t]
       /\ staged'["admin_disputes"] = [columns |-> old.columns, rows |-> named]
       /\ \A t \in TableNames : staged'[t].columns = staged[t].columns
  BY <1>10 DEF TableNames, old
<1>12. AreTables(staged', TableNames)
  <2>1. staged' = [t \in TableNames |-> staged'[t]]
    BY <1>10
  <2>2. \A t \in TableNames : IsTable(staged'[t])
    BY <1>8, <1>11 DEF IsTable
  <2> QED BY <2>1, <2>2 DEF AreTables
<1>13. staged'["orders"].rows = known'
  BY <1>1, <1>3, <1>11 DEF Usable, TableNames
<1>14. Usable(staged)'
  BY <1>3, <1>11, <1>12, <1>13 DEF Usable, AreTables, MayHave
<1>15. DisputesKept(staged)'
  <2>1. Named(staged)'
    BY <1>9, <1>11 DEF Named
  <2>2. "dispute_id" \in staged'["admin_disputes"].columns
    <3> QED BY <1>11, <1>3 DEF TableNames
  <2> QED BY <2>1, <2>2 DEF DisputesKept
<1>16. Complete(staged', Later(todo))
  BY <1>4, <1>11, AddedColumns DEF Complete, TableNames
<1>17. Later(todo) \subseteq DOMAIN Added
  BY <1>3 DEF Later
<1> QED BY <1>1, <1>2, <1>14, <1>15, <1>16, <1>17
        DEF FileInv, StagedKept, TablesComplete, Complete

LEMMA CommitKeepsFile == ASSUME FileInv, CommitColumns PROVE FileInv'
<1>1. /\ pc = "alter" /\ pc' = "drop" /\ todo = {} /\ exists /\ tables' = staged
      /\ UNCHANGED <<exists, user, known, completed>>
  BY DEF CommitColumns, Commit, Goto, keys, FileInv, FileKept
<1>2. Usable(staged) /\ DisputesKept(staged) /\ Complete(staged, {})
  BY <1>1 DEF FileInv, StagedKept
<1>3. Usable(tables)' /\ DisputesKept(tables)' /\ Complete(tables, {})'
  BY <1>1, <1>2 DEF Usable, AreTables, DisputesKept, Named, Unnamed, Complete
<1> QED BY <1>1, <1>3 DEF FileInv, FileKept, UserKept, StagedKept, TablesComplete

\* Tables that lack nothing, those of orders without a column too many.
LEMMA NothingLeftOver ==
  ASSUME NEW all, AreTables(all, TableNames),
         \A t \in TableNames : all[t].columns \subseteq MayHave(t),
         DisputesKept(all), Complete(all, {}), Obsolete \notin all["orders"].columns
  PROVE  /\ DOMAIN all = TableNames
         /\ \A t \in TableNames : all[t].columns = DeclaredColumns[t]
         /\ Named(all)
<1>1. DOMAIN all = TableNames
  BY DEF AreTables
<1>2. /\ \A t \in TableNames \ {"orders"} : all[t].columns = DeclaredColumns[t]
      /\ all["orders"].columns \ {Obsolete} = DeclaredColumns["orders"]
  BY CompleteFile
<1>3. \A t \in TableNames : all[t].columns = DeclaredColumns[t]
  BY <1>2
<1>4. "dispute_id" \in all["admin_disputes"].columns
  BY <1>3, AddedColumns DEF TableNames
<1> QED BY <1>1, <1>3, <1>4 DEF DisputesKept

LEMMA DropKeepsFile == ASSUME FileInv, DropObsolete PROVE FileInv'
<1> DEFINE orders == tables["orders"]
           kept == [columns |-> orders.columns \ {Obsolete}, rows |-> orders.rows]
<1>1. /\ pc = "drop" /\ exists /\ ~Growing
      /\ UNCHANGED <<exists, user, known, completed>>
  BY DEF DropObsolete, keys, FileInv, FileKept, Growing
<1>2. Usable(tables) /\ DisputesKept(tables) /\ Complete(tables, {})
  BY <1>1 DEF FileInv, FileKept, TablesComplete
<1>3. \/ Obsolete \notin orders.columns /\ pc' = "identity" /\ tables' = tables
      \/ /\ tables' = [tables EXCEPT !["orders"].columns = @ \ {Obsolete}]
         /\ pc' = "identity"
      \/ pc' = "rebuild" /\ staged' = tables /\ tables' = tables
  BY <1>1 DEF DropObsolete, Goto, InTransaction, check_column_exists, Column
<1>4. CASE Obsolete \notin orders.columns /\ pc' = "identity" /\ tables' = tables
  <2>1. FileKept' /\ UserKept'
    BY <1>1, <1>4, SameFile
  <2>2. Whole'
    <3>1. /\ DOMAIN tables = TableNames
          /\ \A t \in TableNames : tables[t].columns = DeclaredColumns[t]
          /\ Named(tables)
      BY <1>2, <1>4, NothingLeftOver DEF Usable
    <3> QED BY <1>1, <1>2, <1>4, <3>1, AddedColumns DEF Whole, Named, Usable
  <2> QED BY <1>4, <2>1, <2>2 DEF FileInv, StagedKept, TablesComplete
<1>5. CASE /\ tables' = [tables EXCEPT !["orders"].columns = @ \ {Obsolete}]
           /\ pc' = "identity"
  <2>1. tables = [t \in TableNames |-> tables[t]] /\ \A t \in TableNames : IsTable(tables[t])
    BY <1>2 DEF Usable, AreTables
  <2>2. orders = [columns |-> orders.columns, rows |-> orders.rows]
    BY <2>1 DEF IsTable, TableNames
  <2>3. [orders EXCEPT !.columns = @ \ {Obsolete}] = kept
    BY <2>2
  <2>4. tables' = [tables EXCEPT !["orders"] = [orders EXCEPT !.columns = @ \ {Obsolete}]]
    BY <1>5
  <2>5. tables' = [t \in TableNames |-> IF t = "orders" THEN kept ELSE tables[t]]
    BY <2>1, <2>3, <2>4
  <2>6. IsTable(kept) /\ kept.columns = orders.columns \ {Obsolete} /\ kept.rows = orders.rows
    BY DEF IsTable
  <2> HIDE DEF kept
  <2>7. /\ tables'["orders"] = kept
        /\ \A t \in TableNames \ {"orders"} : tables'[t] = tables[t]
    BY <2>5 DEF TableNames
  <2>8. AreTables(tables, TableNames)'
    BY <2>1, <2>5, <2>6, <2>7 DEF AreTables
  <2>9. \A t \in TableNames : tables'[t].columns \subseteq MayHave(t)
    BY <1>2, <2>6, <2>7 DEF Usable, MayHave
  <2>10. Usable(tables)'
    BY <1>1, <1>2, <2>6, <2>7, <2>8, <2>9 DEF Usable, MayHave, TableNames
  <2>11. tables'["admin_disputes"] = tables["admin_disputes"]
    BY <2>7 DEF TableNames
  <2>12. DisputesKept(tables)'
    BY <1>2, <2>11 DEF DisputesKept, Named, Unnamed
  <2>13. Complete(tables, {})'
    <3>1. ASSUME NEW i \in DOMAIN Added
          PROVE  Added[i].column \in tables'[Added[i].table].columns
      <4>1. Added[i].table \in TableNames
        BY AddedColumns DEF TableNames
      <4>2. Added[i].column \in tables[Added[i].table].columns
        BY <1>2 DEF Complete
      <4>3. CASE Added[i].table = "orders"
        BY <2>6, <2>7, <4>2, <4>3, AddedColumns
      <4>4. CASE Added[i].table # "orders"
        BY <2>7, <4>1, <4>2, <4>4
      <4> QED BY <4>3, <4>4
    <3> QED BY <3>1 DEF Complete
  <2>14. Obsolete \notin tables'["orders"].columns
    BY <2>6, <2>7
  <2>15. Whole'
    <3>1. /\ DOMAIN tables' = TableNames
          /\ \A t \in TableNames : tables'[t].columns = DeclaredColumns[t]
          /\ Named(tables')
      BY <2>8, <2>9, <2>12, <2>13, <2>14, NothingLeftOver
    <3> QED BY <2>10, <3>1, AddedColumns DEF Whole, Named, Usable
  <2> QED BY <1>1, <1>5, <2>10, <2>12, <2>15
          DEF FileInv, FileKept, UserKept, StagedKept, TablesComplete
<1>6. CASE pc' = "rebuild" /\ staged' = tables /\ tables' = tables
  <2>1. FileKept' /\ UserKept'
    BY <1>1, <1>6, SameFile
  <2> QED BY <1>2, <1>6, <2>1 DEF FileInv, StagedKept, TablesComplete, Complete
<1> QED BY <1>3, <1>4, <1>5, <1>6

\* Creating, filling and renaming the table that takes the place of the old one.
LEMMA RebuildKeepsFile ==
  ASSUME FileInv, CreateOrdersNew \/ CopyOrders \/ DropOrders \/ RenameOrdersNew
  PROVE  FileInv'
<1> DEFINE both == TableNames \cup {"orders_new"}
           rest == {"users", "admin_disputes", "orders_new"}
<1>1. /\ pc \in {"rebuild", "copy", "drop_old", "rename"} /\ exists /\ ~Growing
      /\ UNCHANGED <<tables, exists, user, known, completed>>
  BY DEF CreateOrdersNew, CopyOrders, DropOrders, RenameOrdersNew, RebuildStep, InTransaction,
     NoTransaction, keys, FileInv, FileKept, Growing
<1>2. Usable(tables) /\ Complete(tables, {})
  BY <1>1 DEF FileInv, FileKept, TablesComplete
<1>3. tables = [t \in TableNames |-> tables[t]] /\ tables["orders"].rows = known
  BY <1>2 DEF Usable, AreTables
<1>4. ASSUME pc' \in {"copy", "drop_old", "rename", "commit"}, StagedKept' PROVE FileInv'
  <2>1. FileKept' /\ UserKept'
    BY <1>1, <1>4, SameFile
  <2> QED BY <1>1, <1>2, <1>4, <2>1 DEF FileInv, TablesComplete, Complete
<1>5. CASE CreateOrdersNew
  <2>1. pc = "rebuild" /\ staged = tables
    BY <1>5 DEF CreateOrdersNew, RebuildStep, FileInv, StagedKept
  <2>2. "orders_new" \notin DOMAIN staged
    BY <1>3, <2>1 DEF TableNames
  <2>3. pc' = "copy" /\ staged' = With(tables, "orders_new", OrdersNew({}))
    BY <1>5, <2>1, <2>2 DEF CreateOrdersNew, RebuildStep, InTransaction, Goto, OrdersNew
  <2>4. staged' = [t \in both |-> IF t \in TableNames THEN tables[t] ELSE OrdersNew({})]
    BY <1>3, <2>3 DEF With, TableNames
  <2> QED BY <1>1, <1>4, <2>3, <2>4 DEF StagedKept, Beside, OrdersNew
<1>6. CASE CopyOrders
  <2>1. /\ pc = "copy" /\ pc' = "drop_old"
        /\ staged' = [staged EXCEPT !["orders_new"].rows = staged["orders"].rows]
    BY <1>6 DEF CopyOrders, RebuildStep, InTransaction, Goto
  <2>2. staged = [t \in both |-> IF t \in TableNames THEN tables[t] ELSE OrdersNew({})]
    BY <2>1 DEF FileInv, StagedKept, Beside
  <2>3. staged["orders"].rows = known /\ staged["orders_new"] = OrdersNew({})
    BY <1>3, <2>2 DEF TableNames
  <2>4. [OrdersNew({}) EXCEPT !.rows = known] = OrdersNew(known)
    BY DEF OrdersNew
  <2>5. staged' = [staged EXCEPT !["orders_new"] = OrdersNew(known)]
    BY <2>1, <2>3, <2>4
  <2>6. staged' = [t \in both |-> IF t \in TableNames THEN tables[t] ELSE OrdersNew(known)]
    BY <2>2, <2>5 DEF TableNames
  <2> QED BY <1>1, <1>4, <2>1, <2>6 DEF StagedKept, Beside, OrdersNew
<1>7. CASE DropOrders
  <2>1. pc = "drop_old" /\ pc' = "rename" /\ staged' = Without(staged, "orders")
    BY <1>7 DEF DropOrders, RebuildStep, InTransaction, Goto
  <2>2. staged = [t \in both |-> IF t \in TableNames THEN tables[t] ELSE OrdersNew(known)]
    BY <2>1 DEF FileInv, StagedKept, Beside
  <2>3. both \ {"orders"} = rest
    BY DEF TableNames
  <2>4. staged' = [t \in rest |-> IF t \in TableNames THEN tables[t] ELSE OrdersNew(known)]
    BY <2>1, <2>2, <2>3 DEF Without
  <2> QED BY <1>1, <1>4, <2>1, <2>4 DEF StagedKept, Beside, OrdersNew
<1>8. CASE RenameOrdersNew
  <2>1. pc = "rename" /\ pc' = "commit"
        /\ staged' = Without(With(staged, "orders", staged["orders_new"]), "orders_new")
    BY <1>8 DEF RenameOrdersNew, RebuildStep, InTransaction, Goto
  <2>2. staged = [t \in rest |-> IF t \in TableNames THEN tables[t] ELSE OrdersNew(known)]
    BY <2>1 DEF FileInv, StagedKept, Beside
  <2>3. staged["orders_new"] = OrdersNew(known) /\ DOMAIN staged = rest
    BY <2>2 DEF TableNames
  <2>4. With(staged, "orders", OrdersNew(known)) =
          [t \in both |-> IF t = "orders" THEN OrdersNew(known) ELSE staged[t]]
    BY <2>3 DEF With, TableNames
  <2>5. staged' = [t \in TableNames |-> IF t = "orders" THEN OrdersNew(known) ELSE staged[t]]
    BY <2>1, <2>3, <2>4 DEF Without, TableNames
  <2>6. \A t \in TableNames \ {"orders"} : staged[t] = tables[t]
    BY <2>2 DEF TableNames
  <2>7. staged' = [t \in TableNames |-> IF t = "orders" THEN OrdersNew(known) ELSE tables[t]]
    BY <2>5, <2>6
  <2> QED BY <1>1, <1>4, <2>1, <2>7 DEF StagedKept, OrdersNew
<1> QED BY <1>5, <1>6, <1>7, <1>8

LEMMA CommitRebuildKeepsFile == ASSUME FileInv, CommitRebuild PROVE FileInv'
<1>1. /\ pc = "commit" /\ pc' = "identity" /\ exists /\ tables' = staged
      /\ UNCHANGED <<exists, user, known, completed>>
  BY DEF CommitRebuild, Commit, Goto, keys, FileInv, FileKept
<1>2. Usable(tables) /\ DisputesKept(tables) /\ Complete(tables, {})
  BY <1>1 DEF FileInv, FileKept, TablesComplete, Growing
<1>3. tables' = [t \in TableNames |-> IF t = "orders" THEN OrdersNew(known) ELSE tables[t]]
  BY <1>1 DEF FileInv, StagedKept
<1>4. /\ tables'["orders"] = OrdersNew(known)
      /\ \A t \in TableNames \ {"orders"} : tables'[t] = tables[t]
  BY <1>3 DEF TableNames
<1>5. IsTable(OrdersNew(known)) /\ OrdersNew(known).rows = known
      /\ OrdersNew(known).columns = DeclaredColumns["orders"]
  BY DEF OrdersNew, IsTable
<1>6. AreTables(tables, TableNames)'
  BY <1>2, <1>3, <1>4, <1>5 DEF Usable, AreTables
<1>7. Usable(tables)'
  BY <1>1, <1>2, <1>4, <1>5, <1>6 DEF Usable, MayHave
<1>8. tables'["admin_disputes"] = tables["admin_disputes"]
  BY <1>4 DEF TableNames
<1>9. DisputesKept(tables)'
  BY <1>2, <1>8 DEF DisputesKept, Named, Unnamed
<1>10. Complete(tables, {})'
  <2>1. ASSUME NEW i \in DOMAIN Added
        PROVE  Added[i].column \in tables'[Added[i].table].columns
    BY <1>2, <1>4, <1>5, AddedColumns DEF Complete, TableNames
  <2> QED BY <2>1 DEF Complete
<1>11. Whole'
  <2>1. Obsolete \notin tables'["orders"].columns
    BY <1>4, <1>5, AddedColumns
  <2>2. \A t \in TableNames : tables'[t].columns \subseteq MayHave(t)
    BY <1>7 DEF Usable, MayHave
  <2>3. /\ DOMAIN tables' = TableNames
        /\ \A t \in TableNames : tables'[t].columns = DeclaredColumns[t]
        /\ Named(tables')
    BY <1>6, <1>9, <1>10, <2>1, <2>2, NothingLeftOver
  <2> QED BY <1>7, <2>3, AddedColumns DEF Whole, Named, Usable
<1> QED BY <1>1, <1>7, <1>9, <1>11 DEF FileInv, FileKept, UserKept, StagedKept, TablesComplete

\* While the program runs, a task saves an order and a rotation clears them.
LEMMA RowsKeepFile ==
  ASSUME FileInv, pc = "running", pc' = pc, UNCHANGED <<exists, completed>>,
         user'.seed > 0, NEW rows, known' = rows,
         tables' = [tables EXCEPT !["orders"].rows = rows]
  PROVE  FileInv'
<1>1. Whole /\ exists /\ Usable(tables) /\ DisputesKept(tables) /\ completed
  BY DEF FileInv, FileKept, UserKept, TablesComplete, Growing
<1> DEFINE orders == tables["orders"]
           new == [columns |-> orders.columns, rows |-> rows]
<1>2. tables = [t \in TableNames |-> tables[t]] /\ \A t \in TableNames : IsTable(tables[t])
  BY <1>1 DEF Usable, AreTables
<1>3. tables' = [tables EXCEPT !["orders"] = [orders EXCEPT !.rows = rows]]
  OBVIOUS
<1>4. [orders EXCEPT !.rows = rows] = new
  BY <1>2, RowsReplaced DEF TableNames
<1>5. tables' = [t \in TableNames |-> IF t = "orders" THEN new ELSE tables[t]]
  BY <1>2, <1>3, <1>4
<1>6. IsTable(new) /\ new.columns = orders.columns /\ new.rows = rows
  BY DEF IsTable
<1> HIDE DEF new
<1>7. /\ tables'["orders"] = new
      /\ \A t \in TableNames \ {"orders"} : tables'[t] = tables[t]
      /\ \A t \in TableNames : tables'[t].columns = tables[t].columns
  BY <1>5, <1>6 DEF TableNames
<1>8. AreTables(tables, TableNames)'
  BY <1>2, <1>5, <1>6, <1>7 DEF AreTables
<1>9. Usable(tables)'
  BY <1>1, <1>6, <1>7, <1>8 DEF Usable, MayHave
<1>10. tables'["admin_disputes"] = tables["admin_disputes"]
  BY <1>7 DEF TableNames
<1>11. DisputesKept(tables)'
  BY <1>1, <1>10 DEF DisputesKept, Named, Unnamed
<1>12. Whole'
  BY <1>1, <1>6, <1>7, <1>8, <1>10, AddedColumns DEF Whole, AreTables
<1> QED BY <1>1, <1>9, <1>11, <1>12
        DEF FileInv, FileKept, UserKept, StagedKept, TablesComplete

LEMMA RunningKeepsFile ==
  ASSUME FileInv, KeysInv, pc = "running",
         \/ \E t \in Tasks : \/ ReadUser(t) \/ UpdateIndex(t) \/ CommitIndex(t)
                             \/ ReserveFails(t) \/ SaveOrder(t) \/ TaskEnds(t)
         \/ BeginRotation \/ CommitRotation \/ RotationFails
  PROVE  FileInv'
<1>1. completed /\ user.seed > 0 /\ exists /\ tables["orders"].rows = known
  BY DEF FileInv, FileKept, UserKept, TablesComplete, Whole
<1>2. ASSUME UNCHANGED <<startup, known, completed>>, user'.seed > 0
      PROVE  FileInv'
  BY <1>1, <1>2 DEF FileInv, FileKept, UserKept, StagedKept, TablesComplete, startup, Growing,
     Usable, AreTables, DisputesKept, Named, Unnamed, Whole, Complete
<1>3. ASSUME NEW t \in Tasks, CommitIndex(t) PROVE FileInv'
  <2>1. user'.seed = user.seed
    BY <1>3 DEF CommitIndex, KeysInv, KeysTyped
  <2> QED BY <1>1, <1>2, <1>3, <2>1 DEF CommitIndex, Running
<1>4. ASSUME NEW t \in Tasks, ReadUser(t) \/ UpdateIndex(t) \/ ReserveFails(t) \/ TaskEnds(t)
      PROVE  FileInv'
  BY <1>1, <1>2, <1>4 DEF ReadUser, UpdateIndex, ReserveFails, TaskEnds, Running
<1>5. ASSUME BeginRotation \/ RotationFails PROVE FileInv'
  BY <1>1, <1>2, <1>5 DEF BeginRotation, RotationFails, Running
<1>6. ASSUME NEW t \in Tasks, SaveOrder(t) PROVE FileInv'
  <2> DEFINE rows == known \cup {KeyOf(task[t].seed, task[t].index)}
  <2>1. /\ pc' = pc /\ known' = rows /\ user'.seed > 0 /\ UNCHANGED <<exists, completed>>
        /\ tables' = [tables EXCEPT !["orders"].rows = rows]
    BY <1>1, <1>6 DEF SaveOrder
  <2> HIDE DEF rows
  <2> QED BY <2>1, RowsKeepFile
<1>7. ASSUME CommitRotation PROVE FileInv'
  <2>1. seeds > 0
    BY <1>7 DEF CommitRotation, KeysInv, KeysTyped, SeedsFresh
  <2>2. /\ pc' = pc /\ known' = {} /\ user'.seed > 0 /\ UNCHANGED <<exists, completed>>
        /\ tables' = [tables EXCEPT !["orders"].rows = {}]
    BY <1>7, <2>1 DEF CommitRotation
  <2> QED BY <2>2, RowsKeepFile
<1> QED BY <1>3, <1>4, <1>5, <1>6, <1>7

\* The file is as the last commit left it.
LEMMA StopKeepsFile == ASSUME FileInv, Stop PROVE FileInv'
<1>1. pc' = "off" /\ UNCHANGED <<tables, exists, user, known, completed>>
  BY DEF Stop, Goto, NoTransaction
<1>2. Growing => Growing'
  BY <1>1 DEF Growing
<1>3. FileKept'
  BY <1>1, <1>2 DEF FileInv, FileKept, Usable, AreTables, DisputesKept, Named, Unnamed
<1> QED BY <1>1, <1>3 DEF FileInv, UserKept, StagedKept, TablesComplete

LEMMA FileStep == ASSUME FileInv, KeysInv, [Next]_vars PROVE FileInv'
<1>1. CASE StartUp
  BY <1>1, InitDbKeepsFile, CreateKeepsFile, UserKeepsFile, CheckKeepsFile, AddKeepsFile,
     NameKeepsFile, CommitKeepsFile, DropKeepsFile, RebuildKeepsFile, CommitRebuildKeepsFile
     DEF StartUp
<1>2. CASE \/ \E t \in Tasks : \/ ReadUser(t) \/ UpdateIndex(t) \/ CommitIndex(t)
                               \/ ReserveFails(t) \/ SaveOrder(t) \/ TaskEnds(t)
           \/ BeginRotation \/ CommitRotation \/ RotationFails
  <2>1. pc = "running"
    BY <1>2 DEF ReadUser, UpdateIndex, CommitIndex, ReserveFails, SaveOrder, TaskEnds,
       BeginRotation, CommitRotation, RotationFails, Running
  <2> QED BY <1>2, <2>1, RunningKeepsFile
<1>3. CASE Stop
  BY <1>3, StopKeepsFile
<1>4. CASE UNCHANGED vars
  <2>1. UNCHANGED <<startup, known, completed, user>>
    BY <1>4 DEF vars, keys
  <2>2. FileKept' /\ UserKept'
    BY <2>1 DEF startup, FileInv, FileKept, UserKept, Growing, Usable, AreTables, DisputesKept,
       Named, Unnamed
  <2>3. StagedKept'
    BY <2>1 DEF startup, FileInv, StagedKept, Usable, AreTables, DisputesKept, Named, Unnamed,
       Complete, Beside, Later
  <2>4. TablesComplete'
    BY <2>1 DEF startup, FileInv, TablesComplete, Whole, Complete
  <2> QED BY <2>2, <2>3, <2>4 DEF FileInv
<1> QED BY <1>1, <1>2, <1>3, <1>4 DEF Next

\* Whatever releases left the file and wherever starts and migrations were cut off: a
\* file that some start completed is never refused again, and once the program runs its
\* tables have the columns the rows are read with, no order or dispute was lost, and
\* every dispute has its id.
THEOREM FilesSurvive == Spec => []DatabaseSurvives
<1>1. Init => FileInv
  BY FileInit
<1>2. FileInv /\ KeysInv /\ [Next]_vars => FileInv'
  BY FileStep
<1>3. FileInv => DatabaseSurvives
  BY DEF FileInv, UserKept, TablesComplete, DatabaseSurvives
<1> QED BY <1>1, <1>2, <1>3, KeysInvariant, PTL DEF Spec

=============================================================================
