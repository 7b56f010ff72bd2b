# newiup (MMDD-Pro): models, checks and proofs

newiup is a multi-threaded daemon.  It watches directories with inotify; when a
marker file appears it hands the file the marker stands for to an analysis
library, on one server of each configured server group, and cleans up after
itself.  Marker files on disk let it go on after a crash.

This directory holds TLA+ models of the program, the TLC configurations that
check them, and TLAPS proofs about them.  Source references are `file:line`
relative to `src/`.

## 1. Inventory

| Part | Source | State | Operations |
|---|---|---|---|
| process | main.c | `g_monitor_run_signal`, `g_upload_run_signal` | read configuration, start threads, SIGINT clears the signals, join, `newiup_exit` |
| monitor thread (one per group) | monitor.c:638-797 | inotify descriptor, `wd_list` | add watches, scan the directory, read events, queue a node per marker |
| directory watches | utils/encapsulate_queue.c:138-296 | `wd_list`: one entry per watched directory | `add_monitor_dir` (recursive), `del_monitor_dir`, look-ups by wd and by path |
| scheduling thread (one per group) | monitor.c:805-1117 | node in hand, `upload_count`, state files on disk | retain test, state files, choice of a server, dispatch of copies, finishing a file |
| upload threads (1-15 per server) | servers.c:294-374 | copy in hand; per server `cur_rc`, `cur_fst` | check, call the library, delete source and state file, retry, put the server to sleep |
| queue nodes | utils/encapsulate_queue.c:18-133 | `queue_s` under a spin lock; nodes and copies, `retain_count` | add, copy, push, pop, free, retain test |
| thread life cycle | monitor.c:1120-1170, servers.c:376-394 | `pid[]`, `make_citations` | start each server's threads once, join |
| configuration tree | utils/conf.c | tree of `ConfNode`, a backup of it | set, get, remove, free, back up and restore |
| configuration loader | utils/conf-yaml-loader.c | recursion, key or value expected | puts parser events into the tree |
| YAML reader | yaml/reader.c | raw and decoded buffer, encoding | reads blocks, decodes and checks characters |
| YAML scanner | yaml/scanner.c | mark, queue of tokens, indents, possible simple keys | fetches tokens, inserts KEY and block starts behind |
| YAML parser and composer | yaml/parser.c, yaml/loader.c | stacks of states and marks, tag directives; nodes and anchors | tokens to events, events to a document |
| YAML queues and stacks | yaml/api.c, yaml/yaml_private.h | a block of memory and pointers into it | `ENQUEUE`, `DEQUEUE`, `QUEUE_INSERT`, `PUSH`, `POP`, growth |
| configuration of groups and servers | monitor.c:21-452, servers.c:89-264, main.c:60-260 | `g_monitorgroup`, `g_server`, `global_config` | read and check values |
| loggers | utils/logging.c, monitor.c:500-580 | per log a file handle, the date of the file and a spin lock; for all of them the one `struct tm` of `localtime` | rotate by date, write |
| file helpers | utils/utils.c | none | `recursive_make_dir`, `move_file`, `get_pre_path`, string helpers |
| library calls | utils/dlapi.c | none | open, resolve, call, close |
| data base, compression, encodings | utils/db.c, compress.c, encode_convert.c | none shared | not reachable from the daemon's loop |
| YAML dumper | yaml/dumper.c | anchors of the nodes, what was serialized | document to events; not called by the daemon |
| YAML emitter and writer | yaml/emitter.c, writer.c | | not called by the daemon |
| vendored code | archive/, ext/, include/ | | LZMA SDK, libarchive headers, queue.h |

How the parts interact.  The monitor thread of a group and its scheduling thread
share the group's queue; a scheduling thread and the upload threads of all
servers share the servers' queues and, through the copies, the reference count
of every node.  The threads of one server share its queue, its failure counter
and the start of its sleep.  All of them share the files on disk: the source,
the marker, one state file per server group (`<marker>-<group>-<first primary>`)
and one `<marker>-upload-k` file that says that the state files were all
created.  Main only starts and joins threads; the run signals are plain
volatile words.  The settings come up through a pipeline of calls, each asking
the one below for the next piece: loader, parser, scanner, reader, `fread`.

Hard behaviours.  Nodes are freed by one thread while others hold copies of
them; the copies decide, through an atomic counter, when that is allowed.  The
same file may be queued by the scan and by its event.  The state files are
created, tested and deleted one by one by different threads, and the process
can die between any two steps (`cron.sh stop` sends SIGTERM, for which no
handler is installed, main.c:284).  `cur_rc` is incremented by racing threads
without a lock.  No return value of a file operation is looked at.  PROJECT.json
lists every hazard with its line.

What makes each part correct:

- queue nodes: a node lives exactly as long as it or a copy of it is used, its
  count is the number of its copies, and each has one owner;
- scheduling and upload threads: one copy per server group at a time; a marker
  file says what it stands for, over every crash; no published file is lost or
  forgotten; whatever is published is consumed, and a stop comes to an end;
- monitor thread and watches: every directory and every marker that is there is
  watched and queued once the events are handled;
- finishing a file: at no moment is a file in neither of its two places;
- loggers: a line goes to the file its call asked for, of the day of the call
  unless another day's call crossed it, and no call keeps the lock;
- configuration tree and loader: a file is read back as it was written, lists and
  nodes agree, and what was made final stays (nothing in the daemon makes a value
  final: that is a promise of conf.c to its callers);
- server groups and names: what is accepted is what the text says, and a name
  means one server;
- start and stop: what was allocated is released once on every way out of main,
  and main comes to its end;
- the YAML pipeline: the reader hands on the characters of the file whatever the
  blocks it comes in, the tokens and events are bracketed, a text is loaded as it
  was written, every string is freed once on every path, and every call takes
  something, so that loading ends;
- the YAML dumper: the events of a document are that document again, and its
  strings are released once whichever call fails.

## 2. Plan

In this order, the most important behaviour first; all of it is done.

1. `Dispatch` - monitor, scheduling and upload threads with queues, reference
   counts and marker files, crash and restart, start and stop.
2. `DispatchProofs` - the memory of the dispatch core is sound for every value
   of the constants.
3. `Delivery` - the abstract service, and `Dispatch` shown to implement it.
4. `RunLog` - the loggers shared by all threads, their two calls of `localtime`,
   rotation at midnight, the signal handler that logs.
5. `WatchTree` - directory watches under concurrent changes of the tree.
6. `FinishMove` - finishing a file, one system call a step, by several
   scheduling threads.
7. `ServerGroups` and `Startup` - the readers of all settings, which establish
   what `Dispatch` assumes of `Sgl`, and the life of the process around the
   threads: start, failing start, joins, release.
8. `ConfTree` - configuration tree, loader and their first readers.
9. `YamlParser`, `YamlLoader` over any tokens, with the event grammar
   `EventStream` as their abstract specification; `YamlScanner`, and `YamlText`
   that puts scanner, parser and composer together; `YamlReader` below them, and
   `YamlDumper` behind them.
10. `YamlQueue` and `YamlStack` - queue and stacks as they lie in memory, and
    `YamlMemoryProofs`, that they implement the sequences the modules of 9 have
    in their place.
11. `FinishMoveProofs`, `RunLogProofs` - no file lost while it is finished, and
    the lock and the lines of the loggers, for every value of the constants.
12. The second part of `DispatchProofs` - what the marker files stand for over crashes, the
    refinement of `Delivery`, no file forgotten, and the bound of max-upload.
13. `YamlLoaderProofs` - the stacks and the strings of the
    parser, the refinement of `EventStream`, and the document of the composer,
    for any sequence of tokens.
14. `StartupProofs` - what an accepted configuration guarantees, the release of
    memory and the causes of death, for any configuration.
15. `WatchTreeProofs` - nothing below monitor-dir is overlooked, for any tree.
16. `ConfTreeProofs` - the forest of the configuration tree, what `ConfSet` set and
    what was made final, and unique names, for any file.

Left for later, none of it begun:

- `ServerHealth`: `cur_fst`, `cur_rc` and `get_server_available_state` with the
  clock, one access a step;
- a `strdup` that fails in `queue_node_add`, dlapi.c with a `dlsym` that fails;
- `Dispatch` with `WatchTree` in the place of its monitor thread and `FinishMove`
  in the place of `ScheMoveSrc`: the product is too large for TLC as it is;
- emitter.c behind `YamlDumper`;
- proofs: `ReaderSound` of `YamlReader`.

How the modules hang together: `ServerGroups` yields the groups `Dispatch` is
given, and is extended by `Startup`; `WatchTree` refines the monitor thread of
`Dispatch` to directories, `FinishMove` its single step `ScheMoveSrc`.
`YamlLoader` extends `YamlParser` with tokens that are free; `YamlText` instances
both above `YamlScanner`, which has characters that are free; `YamlReader` gives
the scanner its characters.  What `YamlText` loads is what the files of
`ConfTree` start from, and what it gives to the functions of `YamlDumper`.

## 3. Modules

| Module | Models | State | Actions |
|---|---|---|---|
| `Delivery` | nothing: the promise to the program that drops files | files that wait, who accepted them | `Publish`, `Accept`, `Consume` |
| `Dispatch` | monitor.c `sche_handle` and what it calls, servers.c `upload_handle`, encapsulate_queue.c nodes, start and stop in main.c | files on disk, one program counter per thread, queues, heap cells, retain counts, `cur_rc`, signals | one per access to shared state: `SchePop`, `ScheCreateFlag`, ..., `UploadReadRc`, `UploadWriteRc`, ..., `Crash`, `servers_exit` |
| `DispatchProofs` | the proofs about it, its files, `Delivery` and max-upload | | |
| `RunLog` | logging.c `log1`, `UPLOG_LOG` and `UPLOG_TXT` of monitor.c, `signal_func` | the `struct tm`; spin lock, date and handle per log; a stack of calls per thread (a handler lies on the call it interrupts) with the time each call took, the date of its line and the date of the file it asks for | `Localtime`, `Strftime` (each twice a call), `Lock`, `Rotate`, `Write`, `Unlock`, `Interrupt` |
| `WatchTree` | monitor.c `monitor_handle`, `add_upload_file`; encapsulate_queue.c `add_monitor_dir`, `del_monitor_dir`, look-ups | inodes and their paths, kernel watches and events, `wd_list`, stack of open directories | one per system call of the scans, one per event, and those of other processes (`Mkdir`, `RenameDir`, ...) |
| `FinishMove` | monitor.c `do_upload_file_finish_all`, `do_move_to`, `store_by_time`; utils.c `recursive_make_dir`, `move_file` | how much of the target path exists, sources, markers, blocks copied | one per system call |
| `ServerGroups` | monitor.c `get_upload_group_server_group_list`; utils.c `str_split_func`; servers.c `get_server_by_name` | the two texts, the groups built so far | splitting, primaries and backups of a group |
| `Startup` | main.c `main`, `global_cfg_init`, `getDBConfig`; servers.c and monitor.c: init, exit, `get_server_info`, `get_monitor_group_info`, start and join of threads | the settings, what is allocated and how often it was freed, threads, joins to come, run signals | one per function of the start, per monitor group read, per join; `signal_func`, a thread that ends |
| `ConfTree` | conf.c, `ConfYamlParse`, `getDBConfig`, `ConfNodeNameCheck` | allocated nodes with their lists, root and backup, frames of the loader | one per API call, one per parser event |
| `EventStream` | nothing: the grammar of events | the levels that are open, the event a call returned | one per type of event, and the failing call |
| `YamlParser` | parser.c and the deletes of api.c | stacks of states and marks, tag directives, the strings each call holds | one per state of the parser |
| `YamlLoader` | loader.c, `yaml_document_delete` | nodes, aliases, frames of the recursion | one per event composed |
| `YamlScanner` | scanner.c | mark, queue, indents, possible simple keys | one per token fetched |
| `YamlText` | the pipeline of the three | theirs | a token fetched, a token taken, a call of the parser |
| `YamlDumper` | dumper.c, as functions of a document and an emitter; `Read` is the reader it is held against | an emitter: anchors, events, calls that will still succeed, strings released | none: `Dump` is a function |
| `YamlReader` | reader.c, set-up and release of the parser in api.c and `ConfYamlLoadFile` | both buffers, encoding, offset, what is allocated | a block read, a character decoded, a call of the scanner |
| `TokenQueue` | nothing: a queue as a sequence | | `Enqueue`, `Dequeue`, `Insert` |
| `YamlQueue`, `YamlStack` | `ENQUEUE`, `DEQUEUE`, `QUEUE_INSERT`, `PUSH`, `POP` of yaml_private.h; `yaml_queue_extend`, `yaml_stack_extend` of api.c | slots of the block, positions of the pointers | one per macro |
| `ConfTreeProofs` | the proofs about `ConfTree` | | |
| `FinishMoveProofs`, `RunLogProofs` | the proofs about `FinishMove` and `RunLog` | | |
| `StartupProofs` | the proofs about `ServerGroups` and `Startup` | | |
| `WatchTreeProofs` | the proofs about `WatchTree` | | |
| `YamlLoaderProofs` | the proofs about `YamlParser`, `EventStream` and `YamlLoader` | | |
| `YamlMemoryProofs` | the proofs about `YamlQueue` and `YamlStack` | | |

Every `MC<module>` gives its module small constants.  Actions carry the names of
the functions they model where a function is one step; a function that is
several steps is the disjunction of them under its name (`sche_handle`,
`upload_handle`, `ConfYamlParse`).  Definitions marked "Mutant" are wrong
variants of the definition that follows them; no specification uses them.  They
are kept to show that a property notices the fault.

Refinement is stated three times: `ImplementsDelivery` of `Dispatch`
(`Promise == INSTANCE Delivery WITH ...`, a file waits while it is published and
its source is there), `EventsAreAStream` of `YamlLoader` (the events the parser
returns are a behaviour of `EventStream`: a call that returns an event makes the
move which that type of event announces and no other, and a call that fails makes
none), and `ImplementsTokenQueue` of
`YamlQueue` (the tokens from head to tail are the sequence).

## 4. Runs

Runs that pass:

| Run | Instance | Properties | Shows |
|---|---|---|---|
| `DispatchMemory` | two server groups, the second falling back on the primary of the first, a thread of each server, two nodes, two copies, failing file operations, max-upload 1 | `MemoryInv` `RetainExact` `NoDanglingCopy` `NothingLeaked` `OneCopyPerGroup` | reference counting is exact, nothing is used after it is freed, nothing leaks at exit, a group never has two copies of a node |
| `DispatchUpload` | one server with two threads, upload-find-act cut, finish-act move, two starts | `StateFileMeansUploaded` `SourceGoneMeansDelivered` `NoForgottenFile` `ImplementsDelivery` `PublishedIsConsumed` `ShutdownCompletes` | over crashes and restarts the marker files tell the truth, no file is forgotten, the daemon implements `Delivery`; a published file is consumed, a stopped process comes down |
| `RunLog` | two threads, two logs, a midnight, a signal, a log that does not open | `LineInItsFile` `LockMeansInside` `CallReturns` | a line goes to the file its call asked for, and to that of its day unless a call of another day overlaps it; every logging call ends but that of a handler whose thread holds the lock |
| `Watch` | three inodes, two directory names, two files, one rename or removal | `EveryFileQueued` `EveryDirWatched` `BecomesQuiet` | a tree that grows and shrinks is followed completely, and the thread comes to rest when the tree does |
| `FinishMove` | three threads, any acts, failing calls | `MoveSound` `AloneIsMoved` | no failing call and no kill loses a file, and what is moved has a directory to lie in; undisturbed, each act does what it is named for |
| `Startup` | a complete configuration, every setting of it written wrong, several groups that share servers, all texts of the bounds below, failing `malloc` and `pthread_create` | `PrimariesExact` `RegularBackups` `ReleasedOnce` `CrashesOnlyWhere` `StopEnds` | what an accepted configuration guarantees, that every block is freed once on every way out, the complete list of reasons for which the start may kill the process, an unknown backup among them, and that main returns |
| `ConfTree` | nineteen files, two calls of the API | `TreeSound` `SetIsSeen` `LoadedAsWritten` `NamesUnique` | the tree under its API; a file is read back as written, keys below address-groups with their `_` |
| `YamlLoader` | every sequence of up to six tokens over all types, memory and scanner that fail anywhere | `StacksSound` `StringsHeldOnce` `DocumentSound` `EventsAreAStream` `LoadingEnds` | the stacks match the state, every string has one owner, events are bracketed, the document's indices point to nodes, loading ends |
| `YamlText` | about nine thousand texts: short words over the characters of each construct, and 65 trees in sixteen styles | `TokensSound` `BlocksAreIndents` `LoadedAsWritten` `DumpedIsLoaded` `ScannerAdvances` | a key is inserted where its token still waits; blocks close in the order of the indents; a tree is loaded as it was written; what was loaded is dumped as the same document, nodes that are shared or lie within themselves included, and released once for every call that fails first; every call takes something |
| `YamlReader` | three thousand files in three encodings, input and memory that fail | `ReaderSound` `ReadingEnds` | the scanner gets the file as it was written, a file is refused only for what it holds, reading ends with all released |

Runs that end in a counterexample, where the program disagrees with what the
repository says of it (quoted in PROJECT.json, findings):

| Run | Property | What happens |
|---|---|---|
| `DispatchStaleK` | `FinishAllMeansUploaded` | an old `-upload-k` file finishes a new file of that name without upload |
| `FinishMoveRace` | `SourceBeforeMarker` | two threads make the directory of a day; one leaves its source behind |

Section 8 lists further disagreements of this kind.

## 5. Bounds, fairness and environment

Bounds.

- `Dispatch`: `MaxWrites` (how often a name is published), `MaxStarts` (starts of
  the process), `Nodes` and `Copies` (heap cells; `malloc` returns NULL exactly
  when they are used up, so that allocation failure is among the behaviours).
  One file, one group and two servers are enough for every race the code has:
  races are between the nodes and copies of a file and between threads of a
  server, and one run gives two of the former, the other two of the latter.
  `cur_rc` saturates at `attempts`, beyond which the code does not tell values
  apart.
- `RunLog`: `MaxDay` 1 gives one midnight, which two threads may see in either
  order; `MaxSignals` 1.  `MonthEnds` lets `strftime` read a `struct tm` whose month
  and day are of different days; the run leaves it out because of the liveness
  check, the safety properties hold with it (2.6 million states), and the theorems
  are for both.
- `WatchTree`: three inodes, paths of two components (`MaxDepth`), `MaxFiles`,
  `MaxChanges` (renames and removals together), `MaxWd`; `NewNames` are the names
  a directory is made with, a rename may give any of `DirNames`.  A third level
  of directories would only repeat the recursion.
- `FinishMove`: two blocks a file (a copy can be half done), three threads of
  which two have one file name, `Base` 2, so that up to three components are missing.
- `Startup`: `Cases` pairs a configuration with at most one resource that fails.
  Settings are read independently of each other, so that one wrong setting at a
  time reaches every refusal: a setting may be missing, a mapping, empty, or a text
  that a reader which looks at it refuses; texts of up to two server groups of up
  to two fields over known and unknown names, empty fields and "-".
- `ConfTree`: files with two levels of mappings and sequences, keys written
  twice, keys with `_`, files that end inside of each kind of collection;
  `MaxCalls` API calls, among which `ConfRemove` of a node that a file made is
  left out (`RemoveLoaded`, see section 8).  The index names "0", "1", ... are strings as in the
  code; a key with `_` is mapped to its mangled form by a table (`Dashed`).
- `YamlText`: texts of an anchored collection within itself and of nodes that are
  named three times are among the short ones; `DumpedIsLoaded` lets each call of
  `yaml_malloc` and `yaml_emitter_emit` be the first to fail, and dumps each document
  twice.
- `YamlLoader`: `MaxTokens` 6, which is enough to open, fill and leave each kind
  of collection inside of a document, and for two anchors and an alias.
- `YamlScanner`: `KeyLength` 6 stands for 1024, so that keys become too long within
  a short text; one letter of each class is enough for the tests of characters.
- `YamlReader`: `RawSize` 9 and `BufferSize` 27 for 16384 and 49152, under
  `SizeAssumption`, which the sizes of the code meet too; nine octets let the end
  of a block fall at any place of a character.

`CHECK_DEADLOCK FALSE` appears wherever the program really ends: the daemon
exits, the readers return, the producer stops at its bound.  That threads do not
wait for each other for ever is stated as liveness instead (`ShutdownCompletes`,
`StopEnds`, `CallReturns`, `BecomesQuiet`, `LoadingEnds`, `ReadingEnds`).
`YamlText` has its end as a step of its own and is checked for deadlock: no call
of the pipeline is ever without a step.
Heap cells and the values given to `ConfSet` are symmetric where a configuration
says `SYMMETRY`; never in a run with a liveness property.

Fairness.

- `Dispatch`: weak fairness of every thread, which the kernel's scheduler gives:
  no step of a thread waits for another but the joins.  Weak fairness of
  `WakeUp`: time passes.  Strong fairness of `UploadCallOk` is an assumption
  about the environment: a library that is asked again and again for a file
  accepts it at last.  Without it nothing is promised, nor could be.
- `RunLog`: weak fairness of every step of a thread and strong fairness of taking
  a spin lock: a waiting thread is not starved by the others.
- `WatchTree`: weak fairness of the monitor thread; none for the others, and
  `BecomesQuiet` speaks of behaviours in which they stop.
- `Startup`: weak fairness of main and of the threads' way to their end, which
  `ShutdownCompletes` of `Dispatch` justifies.  None of the signal.
- `YamlLoader`, `YamlReader`: one thread that goes on, weak fairness of its step.

Environment and abstractions.

- The producer writes the source first and moves the marker in as a whole, and
  does not write a name again while its source is still there.
- All groups of an instance of `Dispatch` watch one directory and share the two
  acts; which files belong to which directory is `WatchTree`'s subject.
- `ImplementsDelivery` is checked with one server group: with several the first
  upload deletes the source (section 8).
- The choice of a server reads all queue lengths in one step, and the two stores
  of the run signals are one step.  `WakeUp` may come at any time, which includes
  all values of `fsleep-time` and the lost sleep of servers.c:65.
- The counters `rr_queue_*` are left out: `cur_index` is computed from them and
  never used (monitor.c:1012, 1027).
- The value a thread read of `cur_rc` and the group of a free copy are reset when
  they are dead, to keep the state space small.
- Logging is not part of `Dispatch`: `ShutdownCompletes` is about a signal that
  arrives outside the loggers; `CallReturns` of `RunLog` names the other case.
- `WatchTree` leaves out events without a name (`IN_IGNORED`, `IN_DELETE_SELF`,
  skipped at monitor.c:744), deletions of plain files, hidden files, files of
  another suffix, and `up_subpath`.  `EveryFileQueued` and `EveryDirWatched` speak
  of behaviours in which no directory was renamed, and none was made at a path
  while the event of the removal of the one before was still queued (`Settled`);
  why, see section 8.
- `Startup`: allocations fail only where the code tests them, and stay failed from
  the first use on; a read past `rs_back` gives any server, NULL or the end of the
  process.  The handler of SIGINT is installed late; an earlier SIGINT ends the
  process as any other signal and is left out.  Without `log-dir-path` the lock of
  the loggers is never initialised, and the first line may hang.
- `RunLog`: `time(NULL)` is taken when a call begins.  `localtime` fills the struct in
  one step, `strftime` reads it in one that may see another call's date in part.
  The call of `localtime` at monitor.c:832, outside the loggers, is to them like one
  of another log.
- `ConfTree`: the order of API calls and loads is free, but no API call comes in
  the middle of a load or after the settings were read, since one thread does
  all three.
- YAML: the strings of the scanner (`STRING_EXTEND`, `JOIN`) are sequences that
  grow, also in `yaml_parser_scan_uri_escapes`, which calls no `STRING_EXTEND` before
  it writes an octet (scanner.c:2713): the texts of the run have fewer escapes than
  the room of a new string; its messages and their marks are left out, since nothing is scanned after
  an error.  `fread` returns less than it was asked for only at the end of the
  file, as the C library's does.  The pipeline from file to characters is
  `YamlReader`, that from characters to the document `YamlText`; a byte order mark
  at the start is eaten by the reader before the scanner sees it.  `YamlReader` lets
  the caller give up after any character, as it does when the scanner, the parser
  or the loader refuses the text.
- `YamlDumper`: `yaml_emitter_emit` takes an event or fails and has the event in either
  case; what the emitter makes of it is left out, and so are tags, styles and the
  directives of a document.
- `YamlScanner` was compared with the compiled scanner.c on some 24000 random
  texts, token by token, with no difference but that byte order mark.

## 6. Proofs

What TLAPS proves, for every value of the constants that meets the assumptions
named; the runs check the same formulas on small instances unless the last
column says otherwise.

| Module | Theorem | States | Run |
|---|---|---|---|
| `DispatchProofs` | `MemorySound` | `Spec => []MemoryInv` | `DispatchMemory` |
| | `TypeCorrect` | `Spec => []TypeOK` | in `MemoryInv` |
| | `RetainIsExact` | `retain_count` of a node is the number of its live copies | `DispatchMemory` |
| | `NoUseAfterFree` | no copy that is queued or in hand points to a freed node | `DispatchMemory` |
| | `OneCopyAtATime` | a server group has one copy of a node at most | `DispatchMemory` |
| | `OneOwner` | a node and a copy are in one queue or in the hands of one thread | in `MemoryInv` |
| | `ExitReleasesAll` | a process that is down holds no node and no copy | `DispatchMemory` |
| | `StateFilesVouch` | a state file that is missing beside the `-upload-k` file means that its group accepted the file (1, 2, 4) | `DispatchUpload` |
| | `NoSourceLost` | a published source that is gone was accepted by a server of some group (1, 2, 4) | none |
| | `SourceSafe` | ... by a server of every group (1, 2, 3, 4) | `DispatchUpload` |
| | `FinishedIsUploaded` | a file that is finished was accepted by every group (1, 2, 3, 4) | `DispatchStaleK`, without (1) |
| | `KeepsPromise` | `Dispatch` implements `Delivery` (1, 2, 3, 4) | `DispatchUpload` |
| | `NoFileForgotten` | a running daemon knows every published file whose source and marker are there (4, and nodes can be allocated) | `DispatchUpload` |
| | `FinishIsBounded` | a run finishes at most max-upload + 1 files and one more per group | none |
| `FinishMoveProofs` | `MovesAreSound` | no file is lost, and none is written where there is no directory | `FinishMove` |
| | `AloneMoves` | a thread that no other mover races with moves its file unless a call fails | `FinishMove` |
| `RunLogProofs` | `LockIsInside` | the lock is held exactly by the thread between lock and unlock | `RunLog` |
| | `LinesInTheirFiles` | every line goes to the file its call asked for, which is that of its day where no call of another day overlapped it | `RunLog` |
| `StartupProofs` | `AcceptedHasItsPrimaries` | an accepted configuration has for every group the primaries that its text names | `Startup` |
| | `RegularTextsAreSafe` | for texts of the regular form the indices stay inside the arrays, the reader dies of nothing but an unknown backup or of memory, and accepted backups are those named | `Startup` |
| | `NothingFreedTwice` | every list is freed once, after the threads were joined, and none is left at the end | `Startup` |
| | `DiesOnlyOf` | main dies of none but the listed causes | `Startup` |
| `ConfTreeProofs` | `ConfTreeSound` | the lists are a forest of the nodes that are allocated, and a removed node is in none (5) | `ConfTree` |
| | `ConfSetIsSeen` | a reader finds what `ConfSet` set, or the final value it would not replace (5) | `ConfTree` |
| | `ConfFinalStays` | no step hides or changes a final value while its node lives (5) | none |
| | `ConfNamesUnique` | the names of servers and monitor groups that were accepted are used once (5) | `ConfTree` |
| `YamlLoaderProofs` | `ParserStacks`, `StacksMatchState` | the stacks of the parser are as each call expects them, with any caller and under the composer | `YamlLoader` |
| | `StringsHaveOneOwner` | a string of a token is freed once or given to one event | `YamlLoader` |
| | `EventsOfParser`, `EventsForLoader` | the parser implements `EventStream`: each event it returns is the one of the move it makes, with any caller and under the composer | `YamlLoader` |
| | `DocumentIsSound` | no assert of the composer fails, and its document is linked as one tree | `YamlLoader` |
| `WatchTreeProofs` | `Watches` | whatever is not watched or queued yet has an event or a call that will come to it | none |
| | `DirsAreWatched` | once the events are handled every directory is watched under its path | `Watch` |
| | `FilesAreQueued` | once the events are handled every marker file was queued | `Watch` |
| `YamlMemoryProofs` | `QueueStaysSound` | the pointers stay in order and inside of the block, no token is taken from a slot that was never written | none |
| | `QueueIsSequence` | the queue in memory implements `TokenQueue` | none |
| | `StackIsSequence` | the stack in memory is the sequence of what was pushed and not popped | none |

Assumptions: `ConfigAssumption`, `BoundAssumption`, `NullAssumption` of `Dispatch`
(for `FinishIsBounded` also that the monitor groups are finitely many, as they
are read from a file), `FinishAssumption` of `FinishMove`, `LogAssumption` and
`NullAssumption` of `RunLog`, `TreeAssumption` and
`NoPathAssumption` of `WatchTree`, `CallAssumption`, `NullAssumption` and
`BoundsAssumption` of `ConfTree`, `TokensAssumption` of `YamlParser`, `CasesOK` of
`Startup` (a configuration consists of settings of the kinds its readers tell
apart) and that no server has the name of a delimiter; TLC evaluates them in the
runs.  The numbers in the table are conditions of theorems, which
the code does not meet in every configuration.  Without the first four the
theorems about files are false:

1. `NamesUsedOnce`: a name is published once (`MaxWrites` is at most 1).  The
   run `DispatchStaleK` violates `FinishAllMeansUploaded` without it.
2. `OneMonitor`: one monitor group watches the directory, since the `-upload-k`
   file carries no group name (section 8, first row).
3. `OneReceiver`: the monitor group has one server group, since the first upload
   deletes the source of the others (section 8).
4. `FilesWork`: creating and deleting a file succeeds (section 8).
5. `~RemoveLoaded`: `ConfRemove` is not called for a node that a file made; such a
   node has no parent to be unlinked from and stays in its list (section 8).  It is
   needed for `ConfTreeSound`; the other three have it from the common invariant.
   The files, the paths, the values and all bounds are free.

`NoFileForgotten` needs the fourth only, for any number of groups and any reuse
of names, and that `queue_node_new` finds memory at every step of the behaviour:
an event whose node cannot be allocated is dropped (section 8).
`YamlMemoryProofs` holds for every size of the first block, a parameter of its
theorems, and no run looks at `YamlQueue` and `YamlStack`.

`DispatchProofs`.  None of its theorems is inductive alone.  `RetainExact` needs that a
thread which releases a copy owns it (`CopyInOnePlace`); that needs that a copy
is pushed once, hence that the node it is made from is in one hand
(`NodeInOnePlace`); and `NoDanglingCopy` needs `RetainExact` at the moment of
the retain test, and that between the test and the release no copy is made,
which is what `NotServedYet` says: while a scheduling thread has a node in its
hands before the dispatch of group i, no copy of it exists for group i or a later
one.  `ControlOK` ties program counters to what a thread holds, `PhaseOK` the
phase of the process to queues and threads, so that `servers_exit` and
`monitor_group_exit` find every thread gone.  `MemoryInv` is the conjunction.

Its preservation is proved in lemmas named for what a step does to the memory,
which is the same for several actions: a node is added (`AddStep`), taken
(`SchePopStep`), put back (`SchePushStep`), dropped (`DropStep`), copied
(`CopyStep`); a copy is taken, put back, released (`UploadPopStep`,
`PushBackStep`, `ReleaseStep`); nothing happens to memory (`QuietStep`); the two
exits and the crash.  `MonitorStep`, `ScheStep`, `UploadStep` and `ProcessStep`
go through the actions one by one and `MemoryInductive` joins them.  The run
`DispatchMemory` checks `MemoryInv` on a small instance.

`DispatchProofs`, second part.  `FilesInv` adds to `MemoryInv` what the files on disk say,
in every phase, a dead process included: `Published` (a trace of a file, be it a
marker, a node, an event or an acceptance, means that it was published),
`FlagsOK` (as long as the source is there, the `-upload-k` file means that every
state file is there), `ScheOK` (which state files the scheduling thread between
two steps has made, and that a file it finishes has no source) and `UpOK` (an
upload thread that deletes the source has its acceptance behind it).
`StateFileMeansUploaded` is weaker: it allows a state file to be missing for a
group that accepted, and from that alone the deletion of the source would not
follow.  `SourcesStayGone`, which every step of an instance with `NamesUsedOnce`
respects, says that a source the daemon knows does not come back; with it
`SourceGoneMeansAccepted` is inductive, and with one receiver it is
`SourceGoneMeansDelivered`.  `KeepsPromise` maps `ProduceMarker` to `Publish`,
`UploadCallOk` to `Accept`, the deletion of a source to `Consume`, every other
step of every thread to a stutter; the map is a step of its own for each action.
`NothingForgotten` is the invariant behind `NoForgottenFile`: a file that waits
is noted by the monitor thread (in the events of the watch, or still ahead of
the scan) or there is a node of it that no thread drops before it is done.

In the same module, max-upload.  `FinishBound` does not know who may still raise the
count.  `Counted` does: while the run signal is set the count is at most
max-upload + 1, and once it is cleared the count and the number of threads
between `SchePop` and `ScheLimit` together stay below the bound, since nobody
joins them and each that counts leaves them.

`FinishMoveProofs`.  `TargetExists` needs to know of a thread that makes its
directory how far it is: `DirOK` bounds the component it is at by the one it
wants, and no directory ever disappears.  `NothingLost` needs `FileOK`: the
source is there until the rename or the removal, and the removal comes after a
copy of which every block arrived; where two files share a name the copy may be
another's, which is why `FileOK` and `NothingLost` ask for a name of one's own.
`AloneIsMoved` needs `AloneOK`: without another mover the component that
`mkdir` is tried at is the first that is missing, so that `mkdir` fails for lack
of a parent only where the recursion comes back to it.

`RunLogProofs`.  That a lock has one holder is not enough: two calls can be on
the stack of one thread, the handler's on top.  `OneInside` says that only one of
them is between lock and unlock of a log; with `LockMeansInside` it excludes
every other thread.  `LineInItsFile` has two halves.  That the open file is the
one the call asked for is `StampOK`: a thread that is about to write has opened
it, and no one rotates it while that thread is inside.  That it is the file of
the call's day, and the line has that date too, holds of calls that were not
crossed: `SameOK` says that two calls which are there together and took different
days have crossed each other, so that whoever fills the `struct tm` during a call
that is not crossed fills it with the day of that call (`AloneOK`).

`StartupProofs`.  The texts come first.  `str_split_func` computes by recursion what
`Fields` says by the places of the delimiters: `CutMoves` says how the next token
moves the last of the cuts, `SplitCuts` that after n tokens the fields are those
between the cuts met so far, and `SplitIsFields` that the two agree.  `ReaderOK`
then follows the reader from group to group: the groups it has made have the
fields of their texts (`PrimesRead`, `BacksRead`), and `wild` is only set by a
text that is not regular.  `PrimariesExact` alone speaks of the end and is not
inductive.

`StartInv` adds what is so at every place of main: where its loops are
(`PlacesOK`), that what is allocated was not freed, so that the exit functions,
which look at what is there, cannot free it again (`HeapOK`), and `ThreadsOK`.
While groups are started, `citations` holds exactly the servers of the groups
before, so that no thread is started twice and no handle is lost.  When they
are joined, every thread that was not joined is still in `joins`; and unless a
server is named twice or a thread could not be created, no thread is in `joins`
twice and each is there to be joined.  That this is so at the start of the joins
is `JoinsAre`, a statement about nested calls of `FlattenSeq`: what it holds is
what its parts hold, and nothing twice when no part does and the parts have
nothing in common (`FlattenHolds`).

`YamlLoaderProofs`.  `ParserInv` is `StacksSound` with what a call needs of the
stacks below the one it works on (`Placed`: each state that lies on the stack
may be returned to, at its bottom is the one for the end of the document, marks
are counted by the states that own one and grow towards the top) and
`StringsHeldOnce`.  A call is followed through the record it keeps of the tokens
and strings it has taken: `AtNode` before a node is parsed, `InCollection` inside
of one, and each way out, the refusals and the failing allocations included,
settles its strings (`Settled`).  There is a lemma for each state of
`yaml_parser_state_machine`.

In the same module, the refinement of `EventStream` maps the stack of states to
the levels that are open, and the event of the last call to itself: each state stands for one level or two (`Frames`), and
`FlattenSeq` joins them.  The lemmas say what a PUSH, a POP and the change of the
state do to the levels; `Waits` is the moment at which a node is awaited, and the
table `NodeEnds` says what each state it returns to makes of it.  For the
document, `LoaderInv` holds the composer against those levels: `Matches` pairs
each open call of load_sequence or load_mapping with the level the parser has open
for it, so that the type of an event is the one the innermost call awaits and no
assert fails; `Tree` says what the nodes are while calls are open: `Linked`
(children are nodes, mappings are even), `Framed` (calls are on nodes of their
kind, the outer ones on earlier nodes), `Parented` (a node behind the root has a
parent before it, or is open, or is the key that waits for its value, or is
returned to the call that will attach it) and `Single` (only one of these,
unless it is anchored).  `DocumentLinked` alone is not inductive: while a
collection is open its node is in no list of children yet.

`WatchTreeProofs`.  What `EveryDirWatched` and `EveryFileQueued` say holds only when the
monitor thread has come to rest.  `WatchInv` says what is so at every moment
before.  Its first part, `ShapeInv`, survives any change of the tree: the
directories form a tree (`TreeOK`), a descriptor is handed out once and an inode
with a watch has a node in `wd_list` (`WdOK`), and below every call of
`add_monitor_dir` waits one of `add_upload_file` for the same directory or one above
(`StackOK`).  The second part holds as long as nobody renamed a directory or made
one ahead of the event of a removal.  `PathsOK`: a descriptor resolves to the path
of its inode, and where a queued event says that a directory went there is none,
so that `del_monitor_dir` takes no watch but of what is gone.  `DirsOK`: a
directory without a watch has its event in the queue (`Announced`), or lies in a
directory that `add_monitor_dir` has still to read (`Enters`), or its parent has
no watch either.  `FilesOK`: a file that is not queued has its event in the queue
(`Told`), or on the way from monitor-dir to it there is a directory that will
still be scanned (`WillScan`): one that is not watched yet, one that is announced,
or one in which a call of `add_upload_file` has still to read the entry that leads
on.  Other processes can disturb each of these at any step of the two recursions,
and the proof goes through the steps one by one: an entry read moves what it
covers from the call that reads to the call it makes, and the call that returns
has read all that was there when it opened the directory, while what came
later, with the watch in place, has its event.  At rest there is no call and no event
left; of the directories without a watch one nearest to monitor-dir would have a
parent that has one, so there is none (`AllWatched`), and with all watched and
nothing queued in the kernel every file is in `queued`.

`ConfTreeProofs`.  A run looks at nineteen files; here a file is any sequence of
events.  `ListsSound` is not inductive: that no node is in two lists says nothing
about cycles, and that nothing is lost says nothing about what a step may free.
`Forest` says both: the lists have no node in common and none of the roots, a
node with a parent is in its list, and every set that has the roots and is closed
under lists has all nodes (`Reached`).  `ConfInv` joins it with the loader's frames
(`LoaderInv`: each works on allocated nodes, and while one is open nobody calls the
API), the accepted names (`NamesInv`), and what the last call left (`SeenIn`,
`GoneIn`).  A step has one of five effects on the forest (`Effect`): it stays, a
chain of new nodes is hung into one list, a node is cut off with all below it, a
root is made, root and backup change places; there is one lemma for each that the
forest survives it (`ForestSame`, `ForestExtends`, `ForestCuts`, `ForestRoots`), and one
for each operation and each event of the loader that it has one of them.  That
freeing takes all that is below, and nothing else, rests on `BelowIs`: the recursion
of `ConfNodeFree` ends in the least closed set, because each round adds a node
until none is missing.  That a reader still finds a node rests on the walk of
`ConfGetNode`, taken name by name: a node appended behind others is found only
where none of that name was before (`ExtendsFinds`), and a node cut off hides
nothing but what is below it (`CutsFinds`).  From these `FinalStep` shows for every
effect that a final node stays where its path leads, and `Final`, a part of
`Effect`, that its value stays.  `NamesUnique` needs of `ConfNodeNameCheck` that a
count below two means that there is one (`UsedOnceIs`), and that what is in a section
is two levels below the root, where the count looks.

Induction.  The theorems of the library that take a predicate as a parameter are
out of the provers' reach, but a fact about all n in Nat can be proved by its
least counterexample, which `LeastNatural` (from `WFMin` and the order of the
naturals) yields: `FlattenIs` proves in this way that the recursive function
inside `FlattenSeq` exists and what it computes, `SplitsExists` and `SplitCuts`
the same of `str_split_func`, `WalkExists` and `GrowsExists` of the loops of conf.c.

`YamlMemoryProofs`.  The invariant orders `start`, `head`, `tail` and `end`,
and says which slots were written; the refinement maps the slots from `head` to
`tail` to a sequence, and each macro, with the growth or the move it triggers, to
one operation on it.

## 7. What is only model-checked, and what is not modelled

Only model-checked:

- all liveness properties: TLAPS does neither fairness nor ENABLED;
- `LoadedAsWritten` of `ConfTree`, which compares the tree with what the file means;
- `YamlScanner`, `YamlText`, `YamlReader` and `YamlDumper`, whose subject are texts,
  documents and what recursive definitions compute of them.

Not modelled, beside the abstractions above:

- the typed getters, dumps and path helpers of conf.c;
- the clock of a sleeping server: `WakeUp` of `Dispatch` may come at any time;
- a `strdup` that fails; a node is allocated whole or not at all;
- dlapi.c, whose outcome is a free choice in `Dispatch`; when `dlsym` fails the
  library stays open (dlapi.c:71), which no model sees;
- an inotify queue that overflows, a marker that is read before it is complete;
- db.c, compress.c, encode_convert.c: sequential wrappers for the libraries that
  the daemon loads, not called by it;
- emitter.c and writer.c of yaml/, to which the dumper gives its events: the daemon
  writes no YAML;
- the vendored code under archive/, include/ and ext/, which the daemon does not
  call, and the build files;
- loss of power: files written are taken to survive the death of the process.

## 8. Disagreements without a run of their own

Modelling the program showed more places where it does not do what it seems
meant to do.  Each can be seen by changing the named run as described; the
property then fails.

| Run, changed | Property | What happens |
|---|---|---|
| `DispatchStaleK` with `Monitors = {m1, m2}`, `MaxWrites = 1` | `FinishAllMeansUploaded` | the `-upload-k` file carries no group name (monitor.c:821): a second group on the directory finishes a file without upload |
| `DispatchStaleK` with `IoErrors = TRUE`, `MaxWrites = 1` | `FinishAllMeansUploaded` | a state file that could not be created counts as uploaded (monitor.c:819) |
| `DispatchUpload` with `MaxWrites = 2`, `Monitors = {m1, m2}`, `IoErrors = TRUE` | `StateFileMeansUploaded` | the three together: the `-upload-k` file of one group vouches for the state files of the other |
| `DispatchUpload` with `IoErrors = TRUE` | `NoForgottenFile` | state files that could not be created count as uploaded (monitor.c:819), then the source can be neither moved nor its marker deleted (monitor.c:930, 933): the node is gone and the file stays |
| `DispatchUpload` with `Nodes = {n1}`, `Files = {f1, f2}` | `NoForgottenFile` | `queue_node_new` finds no memory, and the file is passed over until the next start (monitor.c:673, 762) |
| `DispatchUpload` with `finish_act = "keep"` | `KeptSourceStays` | the upload thread deletes the source whatever finish-act says (servers.c:322) |
| `DispatchUpload` with `Sgl <- TwoGroups` | `SourceGoneMeansDelivered` | the first of two targets deletes the source of the other (servers.c:302, 322) |
| `RunLog` | `SignalStops` | SIGINT inside a logger: the handler waits for the lock below it (main.c:274), the run signals stay set |
| `RunLog` | `DatesAgree` | a line lands in the file of another day: around midnight a call on another log fills the `struct tm` of `localtime` between the two dates of a call, which no common lock prevents (logging.c:85, 88; monitor.c:512, 513, 553, 554) |
| `Watch` | `ScanFindsWatch` | a directory that appears between the two scans ends the process (monitor.c:641) |
| `Watch` with `Settled` without `renamed = 0` | `EveryDirWatched`, `EveryFileQueued` | a directory renamed during the scan, or moved into a new one, loses its watch (encapsulate_queue.c:222): the late event of the old place removes the watch of the new |
| `Watch` with `MaxChanges = 2`, `Settled` without `~early` | `EveryDirWatched` | a directory removed and made anew before the event of its removal was handled is found by a scan; then its old node is still in `wd_list`, and a later removal event of the old directory's descriptor resolves through it and takes the watch of what is at that path now (monitor.c:780, encapsulate_queue.c:222) |
| `Startup` | `SameNumber` | numbers of primaries and backups are compared for groups only, arrays inside a group are overrun (monitor.c:145-147) |
| `Startup` with `CrashesOnlyWhere` without `UnknownBackup` | `CrashesOnlyWhere` | a backup that is not a server is reported through an array that was freed and set to NULL at monitor.c:135: the daemon dies at monitor.c:152 instead of refusing the configuration |
| `Startup` with `CrashesOnlyWhere` without `ServerTwice` | `CrashesOnlyWhere` | the threads of a server that two groups name are joined once for each (monitor.c:1163) |
| `Startup` with `CrashesOnlyWhere` without `"g_server"` | `CrashesOnlyWhere` | the list of servers could not be allocated, and `servers_exit` reads it (servers.c:259) |
| `Startup` with `CrashesOnlyWhere` without `SectionMissing` | `CrashesOnlyWhere` | a section that is not in the file is not reported but read (main.c, servers.c, monitor.c) |
| `ConfTree` with `RemoveLoaded = TRUE` | `TreeSound` | a removed node that came from a file stays in its list (conf.c:450) |
| `ConfTree` with `Docs <- MangledDoc` | `LoadedAsWritten` | a key with `_` written twice keeps its first value (conf-yaml-loader.c:133) |
| `ConfTree` with `Docs <- NoUserDoc` | `DbFieldsOwn` | a missing DBUser is replaced by the host (main.c:190) |

Seen while reading, and no property fails for them:

- `ConfNodeNameCheck` counts the values at depth two of all sections, so that a
  server and a monitor group of one name are refused (`Depth2` of `Startup`);
- after `logging_exit` a second SIGINT is logged to a file that is closed;
- a backup server whose name cannot be copied by `strdup` is dropped silently;
- with upload-find-act cut, a source written again before its old marker is gone
  counts as published by that marker; the environment of section 5 leaves it out;
- the grammar in parser.c:32-38 allows `[? : b]` and `[?]`, but
  `yaml_parser_parse_flow_sequence_entry_mapping_key` skips the token behind the
  `?`; and a `: b` without a key is refused in a block mapping.  `YamlParser` does
  what the code does;
- a byte order mark at the start of a later line moves the column by one;
- the assertion at scanner.c:1110 does not hold when a quoted scalar of two lines
  is the last item of a block sequence (`AssertHolds` of `YamlScanner`).
