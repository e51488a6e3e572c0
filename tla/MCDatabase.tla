----------------------------- MODULE MCDatabase -----------------------------
(***************************************************************************)
(* Two tasks, a first start or one of four older files, a rotation and two *)
(* stops.                                                                  *)
(***************************************************************************)
EXTENDS Database

CONSTANTS t1, t2, d1, d2

TwoTasks == {t1, t2}
TwoDisputes == {d1, d2}

\* The SQLite before DROP COLUMN, the first with it, and versions of which one
\* part is larger and another smaller.
SomeSqliteVersions == {<<3, 34, 1>>, <<3, 35, 0>>, <<4, 0, 0>>, <<2, 40, 9>>}

AllAdded == {Added[i] : i \in DOMAIN Added}

UsedBy(missing, obsolete) ==
  [missing |-> missing, obsolete |-> obsolete, last |-> 2, orders |-> {KeyOf(1, 2)}]

\* The first release, one whose disputes had an id and no chats, one that had
\* the obsolete column, and one that was installed and never traded with.
SomeReleases ==
  {UsedBy(AllAdded, FALSE),
   UsedBy(AllAdded \ {Column("admin_disputes", "initiator_info"),
                      Column("admin_disputes", "counterpart_info"),
                      Column("admin_disputes", "fiat_code"),
                      Column("admin_disputes", "dispute_id")}, FALSE),
   UsedBy({Column("orders", "dispute_id"), Column("orders", "solver_pubkey"),
           Column("orders", "dispute_chat_shared_key_hex")}, TRUE),
   [missing |-> {}, obsolete |-> TRUE, last |-> NoIndex, orders |-> {}]}

=============================================================================
