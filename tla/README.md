# A verification project for the sensor gateway

TLA+ models of SensorNet-Manager, the C program under `src/`: a gateway that
receives readings from sensor nodes over TCP, shares them between threads,
keeps a running average per room and stores everything in a database.  The
models are checked with TLC on small instances, and their safety properties are
proved with TLAPS for all instances.

## 1. The system

### Processes and threads

`main` (main.c:274) makes a FIFO and forks.  The child (`run_child`) empties
`gateway.log`, opens the FIFO and appends each line it reads to the log.  The
parent (`run_parent`) makes the shared buffer, creates three threads, joins
them and frees the buffer; afterwards `main` waits for the child.  `log_event`
opens the same `gateway.log`, in the parent, and appends to it.

    sensor_node --TCP--> connmgr --insert--> sbuffer --remove--> datamgr
                                               |
                                               +------remove--> storagemgr --> SQLite
    storagemgr --> log_event -----------------> gateway.log
    datamgr --> fifomgr_write --> FIFO --> child --> gateway.log

| Component (source) | State | Operations |
|---|---|---|
| sbuffer (`sbuffer.c`) | linked list of readings: head, tail, `buffer->mutex`, an unused condition variable | `sbuffer_init`, `sbuffer_insert`, `sbuffer_remove`, `sbuffer_get_data`, `sbuffer_free` |
| connmgr (`connmgr.c`) | `master_set`, `max_fd`, the list of sockets with the time each was last heard of | `connmgr_listen` (select loop), `handle_sensor_data`, `close_inactive_sockets`, `connmgr_free` |
| datamgr (`datamgr.c`) | list of sensors, each with its last `RUN_AVG_LENGTH` values, average, time; `list_mutex` | `datamgr_parse_sensor_data`, `datamgr_free`, getters |
| storagemgr (`sensor_db.c`) | the SQLite connection and table | `init_connection`, `storagemgr_parse_sensor_data`, `insert_sensor`, `disconnect`, `find_*` queries |
| main (`main.c`) | thread ids, buffer pointer, FIFO, log sequence number | `start_*`, `run_child`, `run_parent`, `terminate`, `log_event`, `fifomgr_*` |
| dplist (`lib/dplist.c`) | doubly linked list with head, tail, size | insert, remove, search, sort, references, copy, free |
| tcpsock (`lib/tcpsock.c`) | a struct per socket, its descriptor and the string of its address | open, listen, connect, accept, send, receive, close |
| sensor_node (`sensor_node.c`) | one connection | connect, send readings field by field, hang up |
| file_creator | none | writes `room_sensor.map` and test data |
| build (`Makefile`) | none | compilation; `-DTIMEOUT=5` |

### What is hard in it

* **Concurrency.**  Three threads share one linked list; two of them remove from
  it in competition.  `sbuffer_get_data` takes another mutex than the rest.
* **Shutdown.**  `terminate` cancels and joins every thread, also the one that
  calls it.  Two loops hold no cancellation point.
* **Failure.**  The map file, the log file, the database, each insertion and the
  server socket may fail, each at its own moment, with another thread or the
  child waiting at the other end of a FIFO.  Opening a socket fails in up to six
  ways, each after having taken something else.
* **Two writers of one file.**  The child keeps its lines in a buffer and writes
  them where its own file position is, while `log_event` appends.
* **Descriptors.**  They are numbers that the kernel gives out again at once, to
  any thread, also those that `select` is still asked about.
* **Streams.**  `recv` returns what has arrived, not a reading.  Sensor nodes
  hang up, and a stream at its end is always ready.
* **Time.**  `select` returns after `TIMEOUT` seconds of silence, and then
  sensor nodes that were silent are looked for.
* **Pointers.**  List code must be right for zero and one node, at both ends.

### What makes each component correct

* sbuffer: one well-formed list, no node leaked or freed twice, each reading out
  once and in order, the mutex released on every path, everything freed at last.
* gateway: what is received gets lost between the threads only where an insertion
  fails; what storagemgr takes is stored once and in order, what datamgr takes is
  in the window of its sensor; the buffer is freed after the last thread; queued
  readings leave the buffer.
* connmgr: what is sent is received, only silent sensor nodes are closed, and
  the gateway does not go down under active ones.
* log: every message that the child reads comes out in a line, in order, and
  reaches the file; what is lost of the other lines is lost from the front.
* tcpsock: each socket has a descriptor and memory of its own; no error path
  leaks memory; no connection leaks but one whose call failed after it was made; a
  socket that listens has the port asked for.
* dplist: both directions and the size agree, indices and references agree and
  stay good, `dpl_sort` ends and sorts.

`PROJECT.json` lists under "hazards" the lines where each of these could go wrong.

### The code as committed

The repository does not build: main.c:119-146 is the body of `run_parent`
without its header, `buffer_mutex` (sbuffer.c:112) is declared nowhere, and
`handle_new_connection`, `close_socket`, `cmp_sensor_id`, `tcp_recv`,
`datamgr_init` and `fifomgr_destroy` are called and not defined; three queries
print `TABLE_NAME` as a string, and it is not one.  The models read it as it is evidently meant:

* main.c:119-146 is `run_parent`, and its `sbuffer_free(sbuffer)` frees the
  buffer it made;
* `buffer_mutex` is some mutex other than `buffer->mutex`;
* the undefined functions do what their callers give them and expect.  In
  `PROJECT.json` they are marked external;
* the null pointer that `start_conmgr` passes on instead of the shared buffer is
  a constant of the model: `BufferShared = TRUE` is the sharing that the README
  of the repository describes, `FALSE` is the code.  The properties of the other
  threads are checked for `TRUE`, since with `FALSE` no reading reaches them.

## 2. The modules

| Module | What it is | Source |
|---|---|---|
| `ReadingQueue` | abstract: a FIFO queue, each reading handed out once | what `sbuffer.h` promises |
| `SBuffer` | the linked list, its two mutexes, every thread inside every operation | `sbuffer.c` |
| `SensorData` | a reading | `config.h`, `sensor_node.c` |
| `SensorMap` | the lines of `room_sensor.map` | `file_creator.c`, `datamgr.c` |
| `DataMgr` | the datamgr thread | `datamgr.c`, `main.c` |
| `StorageMgr` | the storagemgr thread | `sensor_db.c`, `main.c` |
| `Gateway` | composes `DataMgr`, `StorageMgr` and `ReadingQueue` with main, child, FIFO, cancellation | `main.c` |
| `ConnMgr` | the connmgr thread with sensor nodes, time, and another thread that opens files | `connmgr.c`, `sensor_node.c`, what they use of `tcpsock.c` |
| `EventLog` | `gateway.log`, `log_event`, the FIFO and the child | `main.c` |
| `TcpSock` | sockets, their memory and descriptors, at every step of a call and on every error path | `lib/tcpsock.c` |
| `ElementList` | abstract: a sequence of elements | what `dplist.h` promises |
| `DPList` | the doubly linked nodes | `lib/dplist.c` |
| `SBufferProofs`, `GatewayProofs`, `ConnMgrProofs`, `EventLogProofs`, `TcpSockProofs`, `DPListProofs` | theorems about the module of that name | |
| `Facts` | lemmas that several of these need: numbers, sequences, sums | |
| `MC*` | instances for TLC | |

`Gateway` uses the abstract `ReadingQueue` in place of the list.  That is
justified by the refinement of `SBuffer` to `ReadingQueue`, which is checked
(`ImplementsQueue`) and proved (`Refinement`).  `Gateway` sees of the connmgr
thread that it puts readings into the buffer; what happens on its sockets is
`ConnMgr`.  It sees of the FIFO that each end waits for the other; what goes
through it is `EventLog`.  `ConnMgr` is given connections as streams of bytes;
what a connection costs in descriptors and memory is `TcpSock`.

Operators with a comment that starts with *Fault:* are not part of any
specification.  Each is a mistake the line could well have had, an action or
helper changed in one place; putting it in the place of the real one must make
TLC refute the property that guards the line.  `PROJECT.json` lists the pairs
under "mutants".

### SBuffer

One action per statement another thread can observe.  `pc[t]` is the place of
thread `t`, `dummy[t]` its local node pointer.

| Code | Actions |
|---|---|
| `sbuffer_insert` | `InsertAlloc` or `InsertNoMemory`, `InsertLock`, `InsertFirst` or `InsertLast` then `InsertMoveTail`, `InsertUnlock` |
| `sbuffer_remove` | `RemoveLock`, `RemoveNoData` or `RemoveCopy`, `RemoveUnlink`, `RemoveFree`, `RemoveUnlock` |
| `sbuffer_get_data` | `GetLock`, `GetNoData` or `GetTest`, `GetLoad`, `GetCopy`, `GetUnlock` |
| `sbuffer_free` | `FreeBegin`, `FreeNode` (once per node), `FreeEnd` |

Memory is the set `live` of allocated nodes; `malloc` returns any other node, so
that addresses are used again at once.  `got`, `sent` and `chain` are history
variables: what each removal handed out, what was inserted, and the order of the
linked nodes; no action's guard reads `chain` or `got`.  `sent` counts the
attempts up to the bound `MaxReadings`.

`buffer_mutex` has no declaration to read; the model takes it for a working
mutex.  An unlock never fails.  Condition variable: initialised and destroyed,
never used.  Nobody in the program calls `sbuffer_get_data`; it is modelled as
part of the interface, with threads of its own (`Readers`).

### Gateway, DataMgr, StorageMgr

A reading is what one `tcp_recv` put into a `sensor_data_t`, identified by the id
that came with it and its number `n` among those that came with this id, in the
order of receipt; `n` also stands for the value.  The timestamp is data that is
carried along: nodes take it from clocks of their own, in whole seconds, so that
`Timestamps` may repeat and go back.  The running average is kept as `sum`, the
average times `RUN_AVG_LENGTH`.

* `Receive` is a reading that `sbuffer_insert` takes, `ReceiveRefused` one that it
  refuses: with the null buffer of main.c:6 every one, otherwise those for which
  malloc fails, at most `MaxNoMemory` times.  connmgr.c:124 ignores the result;
  `refused` remembers the readings, by cause.
* The two consuming threads are written as their loops: take a reading, then
  use it.  A removal that finds nothing changes nothing, so it is no step.
* The map is a sequence of lines, each a number, a separator and a number, and
  `LoadLine` appends one of them, as `fscanf` and `dpl_insert_at_index` do, up to the first
  that has no comma (`LoadEnds`).  `room_id` and `sensor_id` have 16 bits.  A
  file that `file_creator` wrote has spaces, and the room in front: nothing of it
  is loaded.  A sensor may have several lines; searching finds the first.
* The getters of `datamgr.c` are operators on the state.  Nobody calls them;
  `ListFollowsReadings` is stated in what they return.
* `Connect` models `init_connection(1)`: the table is cleared, or the failing
  `DELETE` is logged and the old rows stay.  The rows of an earlier run are
  readings with number 0, at most `MaxOldRows` of them.  After three failures `terminate` is
  called by the thread itself: it requests three cancellations, its own included,
  and then waits in `pthread_join`, where its own takes effect.
* The datamgr thread that cannot open the map writes to the FIFO, which waits in
  `open` for the child (`OpenFifo` is the joint step of both) and ends; or its own
  `open` fails, and the message is dropped (`FifoOpenFails`).
* A cancellation takes effect at a cancellation point only: in `select`, in file
  operations, in `pthread_join`.  The loop of the datamgr thread has none.  One
  cancelled inside `fifomgr_write` leaves the FIFO open (`"ended_writing"`).
* `ProcessExits` is `exit(EXIT_FAILURE)` or a crash in the connmgr thread or
  while the map is loaded.
* The child leaves its loop when no writer is left, and then calls `terminate`,
  which it does not survive.

`main` and `run_parent` both initialise the buffer and the FIFO; the first buffer
is lost before any thread exists, and the model starts with the second.

Left out: what is in the messages, `fifomgr_read` (no caller), the branch of the
storagemgr loop for a lost connection (`conn` is never null there), the queries
of `sensor_db.c` (no caller, and all they do is to hand a SELECT to SQLite) and
`datamgr_get_total_sensors` (no caller; the length of the list).

### EventLog

The parent's threads in `fifomgr_write`, statement by statement, `log_event` as
one action, and the child.  A line is who wrote it, its number and its messages.

* `fopen` with `"a"` makes each `fclose` append at the end of the file;
  `log_event` is one thread's, so that `log_sequence_number` has no race.
* `fopen` with `"w"` empties the file (`OpenLog`), and what the child prints is
  in the buffer of its FILE (`lines`) until `fclose` writes it at the position
  of that FILE, the beginning (`CloseLog`), over what was appended there.
* `read` takes all there is, so several messages make one line, and what
  `log_message` held behind them is printed too, as it is not terminated (`text`).
* Each end of the FIFO waits in `open` for the other (`OpenFifo`).  `read` returns
  0 when the FIFO is empty and nobody has it open for writing.  `write` without a
  reader raises SIGPIPE, which ends the process (`WriteBroken`).
* A thread may be cancelled in `open`, `write` or `close`; `fifolock` then stays
  locked, and the FIFO open until the process ends.

The program has one caller of `fifomgr_write`, `start_datamgr`, and it calls once.
The model lets any number of threads call it, since `fifolock` and the loop of
the child are written for several; with one, the FIFO, the stale end of
`log_message` and the two writers of `gateway.log` are as they are here.

### TcpSock

`tcp_passive_open`, `tcp_active_open` and `tcp_wait_for_connection` allocate the
struct (`Start`) and then take one step for each system call and for the string;
`call` is where the call stands, with the struct it has allocated.  Each step has
an action for its success and one for its failure, which frees the struct (`Fail`)
and returns.  The peers act between any two steps.  The other functions are one
action with a disjunct for each way they can return.

| Code | Actions |
|---|---|
| `tcp_passive_open` | `tcp_passive_open` (range check, `Start`), `SocketOpens`/`SocketFails`, `BindSucceeds`/`BindFails`, `ListenSucceeds`/`ListenFails` |
| `tcp_active_open` | `tcp_active_open`, `SocketOpens`/`SocketFails`, `ConnectSucceeds`/`ConnectFails`, `GetsocknameSucceeds`/`GetsocknameFails`, `StringAllocated`/`StringFails` |
| `tcp_wait_for_connection` | `tcp_wait_for_connection`, `AcceptSucceeds`/`AcceptFails`, `StringAllocated`/`StringFails` |
| `tcp_close`, `tcp_send`, `tcp_receive` | the action of that name |

`sock`, `blocks` and `held` are the memory and what the caller was handed; `kern`,
`port` and `backlog` are the kernel's side of a descriptor.  `orphans` are the
descriptors of calls that failed after their connection was made (tcpsock.c:116,
119 and 173); no guard reads it.  `shutdown` fails on a connection
that was reset, and then `close` is not called (tcpsock.c:142).  A failed `bind`,
`listen`, `inet_aton` or `connect` frees the struct and leaves the descriptor;
`listen` leaves the port too.  `MAX_PORT` is 65536, which is 0 in the 16 bits of
`sin_port`: the kernel chooses a port.  A size of zero is not "nothing to
send" to the code, which tests the pointer: 0 bytes are transferred, and reported as a
closed connection.  The caller hands in null or a socket it was given and has not closed.

### ConnMgr

`connmgr_listen` is the loop `select` - `accept` - `receive` - `close_inactive`.
A stream is how many bytes were sent and received on it; what a byte means
follows from its position, since a sensor node sends 2 + 8 + 8 bytes per
reading and the gateway receives up to 24 (the padded struct).  `Intact(q, n)`
says that `n` bytes from position `q` are the fields of one reading where the
struct has them.  Every descriptor of `read_set` gets one `recv`, in ascending
order; the listening socket too, where it fails.  A stream at its end makes
`recv` return 0, an error to the caller, and the descriptor stays in
`master_set`.  `callback_compare` finds all elements equal, so the first element
of the list has its time refreshed, whoever sent.  `close_inactive_sockets` uses
a descriptor as an index.  `accept` returns the lowest free descriptor; where
`handle_new_connection` puts the new element in the list is left open.

A sensor node connects once, may stop anywhere between two sends and may hang up
at any time.  `OtherOpens` and `OtherCloses` are the `fopen` and `fclose` of
`log_event` in another thread: the file takes the lowest free descriptor, which
may be one that `close_socket` has closed and `master_set` still has.

### DPList

The operations have their C names.  A call is one action: the callers hold
`list_mutex` or own the list.  `dpl_sort` is one action per comparison, so that
its end can be checked.  A caller may keep a reference (`ref`) and use it later.
Three calls end the process and are kept as `fault`: removing by the index of the
last node follows its null `next`; sorting an empty list reads through `head`; a
reference to a freed node is used.  As the code has it, `dpl_insert_last`,
`dpl_remove_last` and `dpl_get_last_element` act on the first place (their index
is -1), and `dpl_insert_sorted` puts a new element behind the first one that is
not less, or in front of all.  An allocation that fails is an assertion that ends
the process, so the model takes the nodes that are left.  `dpl_copy` is the
sequence of elements that it inserts into the copy.  `element_copy` and `element_free`, which belong to the caller, are left
out; the contents of freed memory are taken to be null, which nothing reads
without a fault.

## 3. The runs

All bounds are constants in the `.cfg` files.  Deadlock is checked for `tcpsock`,
whose caller can always call again.  For the others it is not: each of
the systems really stops, when its threads have ended or the process has exited
or when the bounded environment has nothing more to do; that it does not stop
too early is what the liveness properties say.

| Run | Instance | Question and answer |
|---|---|---|
| `sbuffer` | 1 thread inserting 3 readings, 2 removing, 1 in `sbuffer_get_data`, 2 nodes | Holds: `ListShape`, `Ownership`, `FreedLeavesNothing`, `DeliveredOnceInOrder`; implements `ReadingQueue`; `MutexReleased`, `BufferFreed`; `IInv`, the invariant of the proofs; `ReaderFaultNeedsRemoval` (126 516 states) |
| `gateway` | 2 sensors with 3 and 1 readings, of which the third has the earliest time and the others the same, a window of 2, at most 1 insertion without memory and 1 row of an earlier run; a map with two lines for one sensor and a bad line for the other, or the one of `file_creator` | Holds: `EachInOnePlace`, `TakenAreStored`, `RowsInOrder`, `ListFollowsReadings`, `FreedAfterThreads`, `QueuedLeaves`; `IInv` (641 988 states) |
| `gateway_stored` | same | Refuted: all readings reach the database.  datamgr takes some |
| `gateway_reported` | same | Refuted: a failure is logged for a missing row only |
| `gateway_gives_up` | same | Refuted: three failed connections finish the gateway |
| `gateway_shadowed` | same, `BufferShared = FALSE` | Refuted: what is received is shared |
| `connmgr` | 2 sensor nodes (2 readings, none), descriptors 4 to 6, timeout 1 s, 3 s in all | Holds: `ClosedWereSilent`, `DownAfterSilence`, `SentIsReceived`; `IInv` (428 314 states) |
| `connmgr_idle` | same | Refuted: no sensor node connecting is harmless |
| `connmgr_intact` | same | Refuted: what is inserted is a reading that was sent |
| `eventlog` | 3 threads with a message each, 2 events, a log of an earlier run or none | Holds: `EventsLostFromTheFront`, `MessagesInLines`, `FirstMessageIsSafe`, `ReadIsLogged`, `WritersReturn`; `IInv` (233 054 states) |
| `tcpsock` | 3 structs, 2 strings, 3 descriptors, ports 1023, 1024 and 65536, 1 waiting connection at each socket | Holds: `SocketsOwnDescriptors`, `MemoryOwned`, `LiveConnectionsAreHeld`, `ClosedMeansGone`, `BoundToItsPort`, `TypeOK` (139 677 states up to symmetry) |
| `dplist` | 4 nodes, elements 1 to 3 | Holds: `ListShape`, `QueriesAgree`, `ImplementsList`, `CallsActAtIndex`, `ReferencesStayGood`, `SortSorts`, `SortReturns`; `IInv` (70 874 states) |

The refuted properties each state what a comment or a document of the repository
says; `PROJECT.json` quotes it under "findings".

Other differences between the code and its comments are in the models as the
code has them, without a run of their own:

* `sbuffer_get_data` locks another mutex than the removals (sbuffer.c:112), so
  that a removal between its test and its copy leaves it a bad pointer; the
  model keeps that as a fault, and `ReaderFaultNeedsRemoval` bounds it.
* The average of fewer than `RUN_AVG_LENGTH` readings is not 0 (datamgr.h:85);
  `ListFollowsReadings` speaks of the average only once the window is full.  For
  an id that is not in the list the getters return a default instead of calling
  an error handler (datamgr.h:78, 86, 94); it speaks of listed ids only.  The
  total counts a sensor with two lines twice ("unique", datamgr.h:103).
  Each line leaks the `sensor_t` that was copied into the list (datamgr.c:43-51).
* `file_creator` writes a map of which the parser reads nothing (datamgr.c:41-42).
* `dpl_insert_last`, `dpl_remove_last` and `dpl_get_last_element` act on the
  first place (dplist.c:330, 360, 388); dplist.h:248-257 promises the last
  element, and `QueriesAgree` leaves this query out.
* `dpl_insert_sorted` does not keep a list sorted (theorem
  `InsertSortedLosesOrder`), and `dpl_remove_at_index` follows a null pointer at
  the index of the last node (`RemovalFaultsAtTheLast`).
* Port 65536 passes the check (tcpsock.h:9); a transfer of no byte is reported
  as a closed connection (tcpsock.c:194, 213).
* A reset connection keeps its descriptor after `tcp_close` (tcpsock.c:142), and
  a call that fails keeps its own, with the peer at the other end if it was
  connected already (tcpsock.c:116, 119, 173).
* Lines of `log_event` are lost when the child starts late or ends, and the
  child's lines may repeat the end of a longer message.

### The properties in words

* `ListShape` (SBuffer): at every moment of every operation the pointers are one
  list; the tail is off by one only between sbuffer.c:98 and :99.
* `Ownership`, `FreedLeavesNothing`: each allocated node is linked or in the
  hands of one thread; `sbuffer_free` leaves none.
* `DeliveredOnceInOrder`: over all threads, and with producers told apart, no
  reading is out twice, and nothing delivered later or still queued is older.
* `MutexReleased`, `BufferFreed`: early returns keep no lock; draining ends.
* `ReaderFaultNeedsRemoval`: insertions alone never give `sbuffer_get_data` a
  bad pointer.
* `EachInOnePlace`: every reading received is in exactly one place: queued, taken
  by one of the two threads, discarded by `sbuffer_free`, or refused by
  `sbuffer_insert`, for want of memory or of a buffer.  It holds for both values
  of `BufferShared`: with `FALSE`, everything is refused.
* `TakenAreStored`: what storagemgr took is in one row, or refused, or in its
  hands.
* `RowsInOrder`: whatever the timestamps say, the rows of an id are in the order
  of receipt, each once and behind those of an earlier run; a reading that is
  missing between two rows was taken by datamgr, or refused.
* `ListFollowsReadings`: what the getters say of a listed sensor follows from its
  first line in the map and from its own readings that datamgr took, whatever
  came between.  The time is that of the newest reading, not the latest time.
* `FreedAfterThreads`: no path to `sbuffer_free` leaves a thread behind.
* `QueuedLeaves`: whichever threads survive, the buffer is empty again and again
  until the process ends (`[]<>`), so that each of the readings leaves it.
* `ClosedWereSilent`: in spite of the confusion of indices and descriptors, and
  of one element refreshed for all, a sensor node is closed only after `TIMEOUT`
  seconds without a word: the search runs after a silence that long.
* `DownAfterSilence`: the thread ends the process, by the descriptor it closes
  and keeps in `master_set` or by an empty list, only when every connected sensor node
  has been silent that long.  The exception is in the property: when another
  thread gets the closed descriptor, the end comes when that thread closes it.
* `SentIsReceived`: dead connections in `master_set` do not starve the others.
* `EventsLostFromTheFront`: whatever the two writers of `gateway.log` do to one
  another, the lines of `log_event` that are left are its last ones, complete,
  in order, and behind the lines of the child.
* `MessagesInLines`: one read takes several messages into a buffer that is never
  terminated, and yet each of them is printed, none in front of one that was read
  before it, and behind them come only garbage and what was read before.
* `ReadIsLogged`: what the child read is in the file in the end, unless a
  cancelled thread keeps the FIFO open.
* `FirstMessageIsSafe`: the race between the last reader and a new writer can
  lose a message, or the process, but never the first message.
* `WritersReturn`: nobody waits for ever for `fifolock`, but for a thread that
  was cancelled in `write`.
* `SocketsOwnDescriptors`: no two sockets share a descriptor or a string, and what
  a caller holds is open.
* `MemoryOwned`: at every step, what is allocated belongs to a socket of the caller
  or to the call under way: no failure forgets a `free`, and none frees twice.
* `LiveConnectionsAreHeld`: descriptors leak, but only such as nobody is
  connected to, and those in `orphans`.
* `ClosedMeansGone`, `BoundToItsPort`: what the functions tell of a connection
  and of a port is so in the kernel; transfers of no byte, and `MAX_PORT`, are the
  exceptions.
* `QueriesAgree`: every query but `dpl_get_last_element`, from either end, by
  index, element or reference, and `dpl_copy`, gives what the sequence of elements has.
* `CallsActAtIndex`: an insertion or a removal by index, one below the first or
  beyond the last included, acts at that place and keeps the others in order.
* `ImplementsList`, `SortSorts`, `SortReturns`: each call changes that sequence
  by one insertion, removal or exchange; `dpl_sort` ends, with a sorted list.
* `ReferencesStayGood`: a reference is good until its own node is removed: other
  calls keep the nodes in their order, and free at most one, or all.

### Why the bounds are enough

*SBuffer*: one thread inserts and two remove, as in the program, so that
insertion and removal, and two removals, meet at every statement; two
nodes make lists of zero, one and two nodes, memory run out, and addresses be
reused while another thread still holds its copy.  Three readings make one wait
while two are taken.  The theorems remove the bounds.  *Gateway*: three
readings of one sensor overflow a window of two, the fourth is of a sensor that
is not listed, and can be taken anywhere between.  The times repeat and go back,
and any one of the readings may be the one without memory.  Three attempts are the code's.
The room of the first line has 17 bits.  *ConnMgr*: two readings let one `recv`
straddle their border; a timeout of one second and an end after three leave room
for a silence, for a sensor node that connects in the middle of it, and for the
second that `last_record + TIMEOUT < time` takes longer.  The
listening descriptor is between those for connections, so that `max_fd` is
exercised both ways; after the bound on time, `select` cannot time out any more,
which the safety properties do not notice and the liveness property
does not need.  *EventLog*: three messages can come in one line, in two or three, or on both
sides of the end of the FIFO, and a line of one may have the end of a line of two
behind it; two events stand before the truncation, between
the two writings of the child, or after both.  *TcpSock*: a listening socket and
two connections use up the descriptors and the structs, and with two strings and three
structs each may be the first to run out; what leaks leaves fewer; the ports are the limits and the one below.  *DPList*: four nodes have two inner ones; three values give
ties and a reverse order that takes three passes.

### Fairness

* `SBuffer!FairSpec`: weak fairness of each thread inside a call, and of the
  owner in `sbuffer_free`.  A pthread mutex promises no order among waiters, so
  there is no strong fairness and no property that a given thread gets the lock.
  Nothing makes a thread call.
* `Gateway!FairSpec`: each thread, main and the child are scheduled, and pending
  cancellations take effect at cancellation points.  A sensor need not send, the
  process need not exit.
* `ConnMgr!FairSpec`: the thread is scheduled.  Sensor nodes and the clock need
  do nothing.
* `EventLog!FairSpec`: each thread inside `fifomgr_write` and the child are
  scheduled.  No call need fail, no thread need be cancelled, the process need
  not end, and nothing makes anybody log.
* `TcpSock` states no liveness and has no fairness.
* `DPList!FairSpec`: a call to `dpl_sort` goes on.

## 4. The proofs

Every safety property, action property and refinement that a passing run checks
is a theorem, for any number of threads, nodes, readings, sensors, descriptors
or messages.  The theorems of a module all follow from one inductive invariant,
`IInv`, which TLC checks first: each proof module shows that the initial states
have it and that each action keeps it, one part at a time and, under a part, by
a case for each action.

| Module | Theorem | Statement |
|---|---|---|
| `SBufferProofs` | `Invariance`, `TypeCorrect` | `Spec => []IInv`, `Spec => []TypeOK` |
| | `ListWellFormed` | `Spec => []ListShape` |
| | `NodesAccountedFor`, `FreedForGood` | `Spec => [](Ownership /\ FreedLeavesNothing)` |
| | `Delivery` | `Spec => []DeliveredOnceInOrder` |
| | `Refinement` | `Spec => ImplementsQueue` |
| | `ReadersSafeFromInsertions` | `Spec => []ReaderFaultNeedsRemoval` |
| `GatewayProofs` | `Invariance`, `TypeCorrect` | `Spec => []IInv`, `Spec => []TypeOK` |
| | `FreedLast` | `Spec => []FreedAfterThreads` |
| | `ReadingsAccountedFor` | `Spec => []EachInOnePlace`, for both values of `BufferShared` |
| | `StoredOnce`, `StoredInOrder` | `Spec => []TakenAreStored`, `Spec => []RowsInOrder` |
| | `ListAndReadings` | `Spec => []ListFollowsReadings` |
| `ConnMgrProofs` | `Invariance`, `TypeCorrect` | `Spec => []IInv`, `Spec => []TypeOK` |
| | `DownOnlyAfterSilence` | `Spec => []DownAfterSilence` |
| | `OnlySilentAreClosed` | `Spec => ClosedWereSilent` |
| `EventLogProofs` | `Invariance`, `TypeCorrect` | `Spec => []IInv`, `Spec => []TypeOK` |
| | `LossIsAtTheFront` | `Spec => []EventsLostFromTheFront` |
| | `MessagesReachLines`, `FirstIsRead` | `Spec => []MessagesInLines`, `Spec => []FirstMessageIsSafe` |
| | `OneWriterAtATime` | at most one thread is between `fifolock`'s lock and unlock |
| `TcpSockProofs` | `Invariance`, `TypeCorrect` | `Spec => []IInv`, `Spec => []TypeOK` |
| | `DescriptorsAreOwned`, `NoMemoryLeaks` | `Spec => []SocketsOwnDescriptors`, `Spec => []MemoryOwned` |
| | `NoPeerLeftAlone` | `Spec => []LiveConnectionsAreHeld` |
| | `ReportsAreTrue`, `PortsAreOwned` | `Spec => []ClosedMeansGone`, `Spec => []BoundToItsPort` |
| `DPListProofs` | `Invariance`, `TypeCorrect` | `Spec => []IInv`, `Spec => []TypeOK` |
| | `ListWellFormed`, `QueriesRight` | `Spec => []ListShape`, `Spec => []QueriesAgree` |
| | `Refinement`, `IndexedCallsAct` | `Spec => ImplementsList`, `Spec => CallsActAtIndex` |
| | `ReferencesKept`, `SortLeavesSorted` | `Spec => ReferencesStayGood`, `Spec => SortSorts` |
| | `InsertSortedLosesOrder` | `dpl_insert_sorted` leaves any list that is not empty, and without the element, unsorted |
| | `RemovalFaultsAtTheLast` | `dpl_remove_at_index` goes wrong for index `size - 1` of two nodes or more, and only for that |

The last two are about what `dplist.h` says and the code does not do: they say
how far it is from true.

### Assumptions

They are about constants only, in the module that declares them, and TLC
evaluates them.

* `SBufferAssumption`: the three sets of threads are disjoint, `NULL` is neither
  a thread nor a node, `MaxReadings` is a natural number.
* `GatewayAssumption`, `SensorDataAssumption`: sensors are numbers of 16 bits, the
  timestamps of each a finite sequence of integers, a map file is a finite sequence
  of lines, the window has a place, `MaxOldRows` and `MaxNoMemory` are natural
  numbers, `NoReading` is none.  `BufferShared` may be either.
* `ConnMgrAssumption`: descriptors are positive (0 is the standard input), the
  server's is one of them, `NoFd` none; the timeout is positive, as `-DTIMEOUT=5` is.
* `EventLogAssumption`: `NULL` and `Garbage` are not threads.
* `TcpSockAssumption`: a null pointer is neither a socket, a string, a descriptor
  nor a struct; descriptors and ports are natural numbers, and a port that the
  kernel chooses is not one that is asked for.
* `DPListAssumption`: `NULL` is no node; the elements are integers, which
  `element_compare` puts in one order.

### The inductive invariants

**SBuffer.**  None of the safety properties is inductive alone.
That the list is well formed after an unlocking step depends on who holds the
mutex (`Control`: exactly the threads between lock and unlock), on the new node
being the thread's own and not linked yet (`Ownership`), on its `next` being null
(`Prepared`), and on the head a removal has copied from being the head it
unlinks (`Taking`).  That delivery is in order needs the readings on their way to
be later than those queued and delivered (`Numbered`).  `ControlStep`, `TypeStep`,
`ShapeStep`, `OwnershipStep`, `FreedStep`, `TakingStep` and `DeliveryStep` prove
one part each.

The queue of the *refinement* is `data` mapped over `chain`.  `InsertFirst` and
`InsertLast` are `Insert`, `RemoveUnlink` is `Remove`, `FreeNode` is `Discard`
and every other step stutters, in particular `InsertAlloc`, which writes a node
that is not linked.  For the *readers*, `ReaderInv`: as long as nothing was
removed, a reader past its test finds the list not empty, and what it loaded is
still linked.

**Gateway.**  That the buffer is freed last needs the order of the joins
(`Joined`), since `main` tests nothing when it frees.  That a reading is stored
once, and rows are in order, needs the readings to be in order in the buffer
already (`InOrder`), nobody to have taken what the other took, and nothing to be
there that was not received (both in `EachInOnePlace`); and that the one in the hands of
the storagemgr thread is newer than its rows (`S!Storing`, which also says that
the table is opened before anything is taken, so that `DELETE` loses nothing).
For datamgr, `D!Loaded` says place by place what is in the list: the first line
of a sensor has the newest readings of that sensor, any other what `LoadLine`
put there.  `ListAndReadings` follows from it by the search for the first line.
`D!Loading` is the same while the map is read, when nothing has been taken.
The average is a sum over the window; `RunningSum` in `Facts` shows that
subtracting the oldest value and adding the newest keeps it that sum.

**ConnMgr.**  Descriptors and indices are confused in the code, so the proof
cannot say that the right element is looked at.  It goes another way: what was
heard was heard before `select` was last called, and `close_inactive_sockets`
runs only after `select` has waited for `Timeout`; then everybody is silent, and
whoever is closed was.  `master_set` has only open descriptors until the
time-out, and until another thread reuses one (`reused`), so that `select` fails
only after silence; and the list has an element when a sensor node has
connected, so that refreshing the first one is no crash.

**EventLog.**  `FileOfChild`: the child's lines come with its `fclose`, and an
earlier run's stay only if the child never opens the log.  `LockOwned`: whoever
is past the lock owns it.  `Ends` says how far the two ends of the FIFO are; the
heart of it is that the child goes on to its end only when there was a writer,
and that a writer who closes has written: hence the first message is read, which
needs nothing to leave the FIFO but by a read (`MessagesInOrder`).  `MessagesInLines`
needs what `log_message` holds to have been read already (`TextWasRead`), since the
end of it comes out again behind shorter messages.

**TcpSock.**  The properties are inductive together with `CallInProgress`, which
says what the call under way has got at each of its steps: a struct of its own,
then a descriptor that no held socket has, bound to the port by the time of
`listen`, connected by the time of `getsockname`.  The proof goes by the few things
a step does to memory and descriptors.

**DPList.**  `ListShape` with `chain`, the sequence of linked nodes, as the
witness, and `Sorting`: `dpl_sort` stands at some place `k` and, if the pass has
exchanged nothing, the elements up to `k` are in order.  The pointers are dealt
with once: `InsertsAt(p, n, x)`, `RemovesAt(p)`, `Clears`, `KeepsList` and
`Exchanges(k)` say what a step does to head, tail and the fields of each node, and
a lemma for each way to link or unlink shows that it is one of these.  All the
theorems about steps go by these five: they keep the shape, they keep references,
and they are `ElementList`'s `Insert`, `Delete`, `Clear` and `Exchange` on
`Listed`, the elements of `chain` in their order; a step that only moves a
reference or `dpl_sort`'s place stutters.  `FollowFacts` shows that walking `i`
times along `next` leads to the node at `i`, from which the queries follow.

### What the provers cannot do

Walking the list, copying it and the sums are recursive functions.  The library's
induction theorems take an operator as a parameter, which no installed prover can
instantiate; `Facts` has induction over a set of numbers instead (`SetInduction`,
from the least number that is not in it, `LeastNumber`), and the proofs show first
that a function with the equation exists, and then, by `SetInduction`, what it is.

**Model-checked only.**  The liveness properties: `MutexReleased`, `BufferFreed`,
`QueuedLeaves`, `SentIsReceived`, `ReadIsLogged`, `WritersReturn`, `SortReturns`.
They rest on fairness, and so on ENABLED, which is beyond the prover.  And the
properties of the runs that expect a violation, which are false.

That `Gateway` may use `ReadingQueue` for the list is `Refinement` of
`SBufferProofs`, about `SBuffer`'s threads; that the two are put together is
argued here and not itself a theorem.

## 5. Not modelled

* `connmgr_free`, `datamgr_free` and `disconnect`, which no path reaches: the
  loops in front of them do not end.  `fifomgr_read`, which nobody calls; it
  would keep `fifolock` while it waits for a writer who needs it.
* The memory of list elements, and the text file `sensor_data_recv.txt`.
* SQL text, and the queries of `sensor_db.c`, which nobody calls.
* The time in the lines of the log, their wording and length.
* The file `sensor_data` of `file_creator`, which nothing reads, and the build.

## 6. Plan

Done, in this order: the buffer and its abstract queue with proofs; the gateway
that composes the threads around the queue; the connection manager with sensor
nodes; the list; the log with the FIFO; the sockets, step by step; the map and
the getters.

Then the proofs: the buffer and its refinement; the gateway; the sockets; the
log; the list and its refinement; the connection manager.

Next:

1. a theorem that binds modules together: that the gateway's calls on the
   buffer, in their place in the loops, are calls of `SBuffer`'s threads;
2. what can be said of liveness by safety: that a thread that holds a mutex is
   never the one the others wait for in vain, in `SBuffer` (`MutexReleased`) and
   `EventLog` (`WritersReturn`), as invariants;
3. `connmgr_intact` turned round: which streams give the readings that were sent.
