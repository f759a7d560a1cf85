----------------------------- MODULE StorageMgr -----------------------------
(***************************************************************************)
(* The storagemgr thread of the gateway, start_storagemgr in main.c and    *)
(* sensor_db.c: up to three attempts at a connection to the database, then *)
(* it takes readings out of the shared buffer for ever and inserts each of *)
(* them into the table.  The buffer is the abstract one.                   *)
(***************************************************************************)
EXTENDS SensorData, Sequences, SequencesExt

CONSTANTS
  NoReading,    \* an uninitialised sensor_data_t
  MaxOldRows    \* bound on the rows of an earlier run

VARIABLES
  queue, taken,  \* the shared buffer, see ReadingQueue
  spc,           \* where the storagemgr thread stands
  tries,         \* connection_tries
  sheld,         \* its local sensor_data
  db,            \* the rows of the table, in the order of their keys
  failed,        \* the readings whose insertion SQLite refused
  reported       \* the readings "Data insertion failed" was logged for

svars == <<spc, tries, sheld, db, failed, reported>>

Buffer == INSTANCE ReadingQueue
            WITH Consumers <- {"datamgr", "storagemgr"}

MaxTries == 3

\* What an earlier run of the gateway has left in the table: up to MaxOldRows
\* rows, of different sensors.  The number 0 stands before all that are given
\* to readings.
OldRows == [id : Sensors, n : {0}, ts : {0}]

OldTables ==
  {t \in UNION {[1 .. n -> OldRows] : n \in 0 .. MaxOldRows} :
     \A k, l \in DOMAIN t : k < l => t[k].id # t[l].id}

Init ==
  /\ spc = "unborn"
  /\ tries = 0
  /\ sheld = NoReading
  /\ db \in OldTables
  /\ failed = {}
  /\ reported = {}

\* init_connection(1): the table is opened and cleared.  A DELETE that fails
\* is only logged.
Connect ==
  /\ spc = "connect"
  /\ spc' = "loop"
  /\ db' \in {<<>>, db}
  /\ UNCHANGED <<queue, taken, tries, sheld, failed, reported>>

ConnectFails ==
  /\ spc = "connect"
  /\ tries' = tries + 1
  /\ spc' = IF tries' < MaxTries THEN "connect" ELSE "terminate"
  /\ UNCHANGED <<queue, taken, sheld, db, failed, reported>>

\* A removal that finds no data goes round the loop and changes nothing.
TakeReading ==
  /\ spc = "loop"
  /\ Buffer!Remove("storagemgr")
  /\ sheld' = Head(queue)
  /\ spc' = "insert"
  /\ UNCHANGED <<tries, db, failed, reported>>

\* Fault: the code other than zero is taken for a failure and tried again.
InsertAgain ==
  /\ spc = "insert"
  /\ db' = Append(db, sheld)
  /\ reported' = reported \cup {sheld}
  /\ UNCHANGED <<queue, taken, spc, tries, sheld, failed>>

\* Fault: the statement is executed twice.
InsertTwice ==
  /\ spc = "insert"
  /\ spc' = "loop"
  /\ db' = db \o <<sheld, sheld>>
  /\ reported' = reported \cup {sheld}
  /\ UNCHANGED <<queue, taken, tries, sheld, failed>>

\* insert_sensor returns SQLITE_DONE, which is not zero, so the caller logs
\* a failure for a row that is in the table.
Insert ==
  /\ spc = "insert"
  /\ spc' = "loop"
  /\ db' = Append(db, sheld)
  /\ reported' = reported \cup {sheld}
  /\ UNCHANGED <<queue, taken, tries, sheld, failed>>

\* SQLite refused the statement: the reading is not tried again.
InsertFails ==
  /\ spc = "insert"
  /\ spc' = "loop"
  /\ failed' = failed \cup {sheld}
  /\ reported' = reported \cup {sheld}
  /\ UNCHANGED <<queue, taken, tries, sheld, db>>

Next == Connect \/ ConnectFails \/ TakeReading \/ Insert \/ InsertFails

Rows == {db[i] : i \in 1 .. Len(db)}

TypeOK ==
  /\ spc \in {"unborn", "connect", "loop", "insert", "terminate", "joining",
              "ended"}
  /\ tries \in 0 .. MaxTries
  /\ sheld \in Readings \cup {NoReading}
  /\ db \in Seq(Readings \cup OldRows)
  /\ failed \subseteq Readings
  /\ reported \subseteq Readings

\* The rows of a sensor are in the order of receipt, and the reading to be
\* inserted was received after all of them.  Nothing is taken before the
\* database is open, and there are attempts left by then.
Storing ==
  /\ \A k, l \in 1 .. Len(db) :
       k < l /\ db[k].id = db[l].id => db[k].n < db[l].n
  /\ spc = "insert" =>
       /\ sheld \in ToSet(taken["storagemgr"])
       /\ \A k \in 1 .. Len(db) : db[k].id = sheld.id => db[k].n < sheld.n
  /\ spc \in {"unborn", "connect"} =>
       taken["storagemgr"] = <<>> /\ tries < MaxTries

\* sensor_db.h: insert_sensor returns "zero for success, and non-zero if an
\* error occurs", so the loop logs a failure only for a row that is missing.
ReportedAreMissing == reported \cap Rows = {}
=============================================================================
