------------------------------ MODULE Dispatch ------------------------------
(***************************************************************************)
(* The dispatch core of newiup: the monitor thread and the scheduling      *)
(* thread of every monitor group (monitor.c), the upload threads of every  *)
(* server (servers.c), the reference-counted queue nodes they exchange     *)
(* (utils/encapsulate_queue.c) and the marker files on disk that must      *)
(* survive a crash.                                                        *)
(*                                                                         *)
(* A file that is dropped into a monitored directory becomes a queue node  *)
(* of its monitor group.  The scheduling thread writes one state file per  *)
(* server group plus the "-upload-k" file, then queues a COPY of the node  *)
(* for one server of every group whose state file still exists and puts    *)
(* the node back in its own queue.  An upload thread hands the source to   *)
(* an analysis library; on success it deletes the source and the state     *)
(* file of the group, on failure it retries or declares the server down.   *)
(* A node is released only when no copy of it is left, which the atomic    *)
(* retain_count is there to tell.                                          *)
(*                                                                         *)
(* One step of the model is one access to shared state: a system call, a   *)
(* queue operation under its spin lock, or an atomic builtin.              *)
(***************************************************************************)
EXTENDS Integers, Sequences, FiniteSets

CONSTANTS
  Files,           \* the base names the producer writes
  Monitors,        \* enabled monitor groups; all watch the same directory
  Servers,         \* g_server
  Threads,         \* all upload threads
  ServerOf,        \* [Threads -> Servers]: the server a thread works for
  Sgl,             \* server_group_list of a group: a sequence of [prime, back]
  find_act,        \* upload-find-act: "keep", or "cut" for the three others
  finish_act,      \* finish-act: "keep", "delete", or "move" for the four moves
  max_upload_num,  \* max-upload
  retry_count,     \* attempts
  IoErrors,        \* may creating, removing or moving a file fail?
  Nodes, Copies,   \* bound: heap cells for original nodes and for copies
  MaxWrites,       \* bound: how often the producer writes one name
  MaxStarts,       \* bound: how often the process is started
  NoFile, NoMonitor, NoNode, NoCopy, NoServer  \* null values

(***************************************************************************)
(* What the configuration reader guarantees: every group has a server      *)
(* group, every server group a first primary, thread-num and the two acts  *)
(* are checked (monitor.c:350 refuses keep with keep).                     *)
(***************************************************************************)
ASSUME ConfigAssumption ==
  /\ ServerOf \in [Threads -> Servers]
  /\ \A m \in Monitors :
       /\ Sgl[m] \in Seq([prime : Seq(Servers), back : Seq(Servers \cup {NoServer})])
       /\ Sgl[m] # <<>>
       /\ \A i \in DOMAIN Sgl[m] : Sgl[m][i].prime # <<>>
  /\ find_act \in {"keep", "cut"}
  /\ finish_act \in {"keep", "delete", "move"}
  /\ ~(find_act = "keep" /\ finish_act = "keep")
  /\ max_upload_num \in Int
  /\ retry_count \in Int
  /\ IoErrors \in BOOLEAN

ASSUME BoundAssumption ==
  /\ IsFiniteSet(Copies)
  /\ MaxWrites \in Nat
  /\ MaxStarts \in Nat

ASSUME NullAssumption ==
  /\ NoFile \notin Files
  /\ NoMonitor \notin Monitors
  /\ NoNode \notin Nodes
  /\ NoCopy \notin Copies
  /\ NoServer \notin Servers

VARIABLES
  disk,          \* the names that exist in the monitored directory
  phase,         \* the process: "down", "run", "freed" (servers_exit done)
  starts,        \* how often it was started
  mrun, urun,    \* g_monitor_run_signal, g_upload_run_signal are NEWIUP_OK
  upload_count,  \* files finished since the start
  mpc,           \* monitor thread: "start", "scan", "run", "exit"
  unscanned,     \* names the start-up scan of a group still has to visit
  events,        \* inotify queue of a group: names created or moved in
  schq,          \* queue of a monitor group
  nfile, nmon,   \* original node: its file (NoFile when free) and group
  retain,        \* re_count_s of an original node
  spc, snode, si,\* scheduling thread: program counter, node, group index
  srvq,          \* queue of a server
  cnode, csg,    \* copy: its original (NoNode when free) and server group
  wpc, wcopy,    \* upload thread: program counter and copy in hand
  wrc,           \* upload thread: the cur_rc it read before incrementing it
  down, rc,      \* server: within its sleep after a failure; cur_rc
  written,       \* history: how often a name was written
  ready,         \* history: the marker was written after its source
  delivered      \* history: <<file, group, server>> the library accepted

memVars  == <<nfile, nmon, retain, cnode, csg>>
monVars  == <<mpc, unscanned, events>>
scheVars == <<spc, snode, si>>
upVars   == <<wpc, wcopy, wrc>>
srvVars  == <<down, rc>>
procVars == <<phase, starts, mrun, urun, upload_count>>
histVars == <<written, ready, delivered>>
vars == <<disk, schq, srvq, memVars, monVars, scheVars, upVars, srvVars,
          procVars, histVars>>

-----------------------------------------------------------------------------
(***************************************************************************)
(* Names on disk.  The source of a marker file is the marker itself when   *)
(* upload-find-act is keep, else the marker's name with its suffix cut,    *)
(* replaced or extended.  A state file is named after the marker, the      *)
(* monitor group and the FIRST PRIMARY of the server group; the "-upload-k"*)
(* file after the marker alone.                                            *)
(***************************************************************************)
Mon(f) == <<"mon", f>>
Src(f) == IF find_act = "keep" THEN Mon(f) ELSE <<"src", f>>
UploadK(f) == <<"upload-k", f>>
SgName(m, i) == Sgl[m][i].prime[1]
StateFile(f, m, s) == <<"flag", f, m, s>>

Names ==
  ({"mon", "src", "upload-k"} \X Files) \cup ({"flag"} \X Files \X Monitors \X Servers)

Groups(m) == DOMAIN Sgl[m]

\* What a queue holds, and that it holds it once.
InQ(q, x) == \E i \in 1..Len(q) : q[i] = x
NoRepeat(q) == \A i, j \in 1..Len(q) : q[i] = q[j] => i = j

\* fopen or remove may fail when IoErrors is TRUE; no caller looks at the result.
create_file(name) ==
  \/ disk' = disk \cup {name}
  \/ IoErrors /\ disk' = disk
delete_file(name) ==
  \/ disk' = disk \ {name}
  \/ IoErrors /\ disk' = disk

-----------------------------------------------------------------------------
(***************************************************************************)
(* Queue nodes (encapsulate_queue.c).  An original is allocated with a     *)
(* zero count; a copy shares its original's strings and its counter.  When *)
(* the heap has no cell left malloc returns NULL: no node is queued, no    *)
(* copy is made, and no caller notices.                                    *)
(***************************************************************************)
FreeNodes  == {n \in Nodes : nfile[n] = NoFile}
FreeCopies == {c \in Copies : cnode[c] = NoNode}
CopiesOf(n) == {c \in Copies : cnode[c] = n}

queue_node_add(m, f) ==
  \/ \E n \in FreeNodes :
       /\ nfile' = [nfile EXCEPT ![n] = f]
       /\ nmon' = [nmon EXCEPT ![n] = m]
       /\ retain' = [retain EXCEPT ![n] = 0]
       /\ schq' = [schq EXCEPT ![m] = Append(@, n)]
       /\ UNCHANGED <<cnode, csg>>
  \/ FreeNodes = {} /\ UNCHANGED <<memVars, schq>>

\* queue_node_free of an original: the cell and its strings are released.
free_original(n) ==
  /\ nfile' = [nfile EXCEPT ![n] = NoFile]
  /\ nmon' = [nmon EXCEPT ![n] = NoMonitor]
  /\ UNCHANGED <<retain, cnode, csg>>

\* Mutant: the decrement is forgotten.
free_copy_NoDecrement(c) ==
  /\ cnode' = [cnode EXCEPT ![c] = NoNode]
  /\ csg' = [csg EXCEPT ![c] = 1]
  /\ UNCHANGED <<nfile, nmon, retain>>

\* queue_node_free of a copy: the original's counter goes down.
free_copy(c) ==
  /\ retain' = [retain EXCEPT ![cnode[c]] = @ - 1]
  /\ cnode' = [cnode EXCEPT ![c] = NoNode]
  /\ csg' = [csg EXCEPT ![c] = 1]
  /\ UNCHANGED <<nfile, nmon>>

\* Mutant: the copy does not count as a reference.
copy_and_push_NoRetain(n, i, s) ==
  \/ \E c \in FreeCopies :
       /\ cnode' = [cnode EXCEPT ![c] = n]
       /\ csg' = [csg EXCEPT ![c] = i]
       /\ srvq' = [srvq EXCEPT ![s] = Append(@, c)]
       /\ UNCHANGED <<nfile, nmon, retain>>
  \/ FreeCopies = {} /\ UNCHANGED <<memVars, srvq>>

\* queue_node_copy, then queue_node_push to the queue of server s.
copy_and_push(n, i, s) ==
  \/ \E c \in FreeCopies :
       /\ cnode' = [cnode EXCEPT ![c] = n]
       /\ csg' = [csg EXCEPT ![c] = i]
       /\ retain' = [retain EXCEPT ![n] = @ + 1]
       /\ srvq' = [srvq EXCEPT ![s] = Append(@, c)]
       /\ UNCHANGED <<nfile, nmon>>
  \/ FreeCopies = {} /\ UNCHANGED <<memVars, srvq>>

-----------------------------------------------------------------------------
Init ==
  /\ disk = {}
  /\ phase = "down" /\ starts = 0
  /\ mrun = FALSE /\ urun = FALSE
  /\ upload_count = 0
  /\ mpc = [m \in Monitors |-> "exit"]
  /\ unscanned = [m \in Monitors |-> {}]
  /\ events = [m \in Monitors |-> <<>>]
  /\ schq = [m \in Monitors |-> <<>>]
  /\ nfile = [n \in Nodes |-> NoFile]
  /\ nmon = [n \in Nodes |-> NoMonitor]
  /\ retain = [n \in Nodes |-> 0]
  /\ spc = [m \in Monitors |-> "exit"]
  /\ snode = [m \in Monitors |-> NoNode]
  /\ si = [m \in Monitors |-> 1]
  /\ srvq = [s \in Servers |-> <<>>]
  /\ cnode = [c \in Copies |-> NoNode]
  /\ csg = [c \in Copies |-> 1]
  /\ wpc = [t \in Threads |-> "exit"]
  /\ wcopy = [t \in Threads |-> NoCopy]
  /\ wrc = [t \in Threads |-> 0]
  /\ down = [s \in Servers |-> FALSE]
  /\ rc = [s \in Servers |-> 0]
  /\ written = [f \in Files |-> 0]
  /\ ready = [f \in Files |-> FALSE]
  /\ delivered = {}

-----------------------------------------------------------------------------
(***************************************************************************)
(* The producer, external.  It writes the source first and then moves the  *)
(* marker in (with upload-find-act keep the marker IS the source), and     *)
(* does not write a name again while its source is still there.            *)
(***************************************************************************)
\* Mutant: the directory is scanned before the watch is added.
Watching_AfterScan == {m \in Monitors : phase = "run" /\ mpc[m] = "run"}

Watching == {m \in Monitors : phase = "run" /\ mpc[m] \in {"scan", "run"}}

MoveMarkerIn(f) ==
  /\ disk' = disk \cup {Mon(f)}
  /\ events' = [m \in Monitors |->
                  IF m \in Watching THEN Append(events[m], f) ELSE events[m]]
  /\ ready' = [ready EXCEPT ![f] = TRUE]
  /\ UNCHANGED <<schq, srvq, memVars, mpc, unscanned, scheVars, upVars, srvVars,
                 procVars>>

NewVersion(f) ==
  /\ Src(f) \notin disk
  /\ written[f] < MaxWrites
  /\ written' = [written EXCEPT ![f] = @ + 1]
  /\ delivered' = {d \in delivered : d[1] # f}

ProduceData(f) ==
  /\ find_act # "keep"
  /\ NewVersion(f)
  /\ disk' = disk \cup {Src(f)}
  /\ ready' = [ready EXCEPT ![f] = FALSE]
  /\ UNCHANGED <<schq, srvq, memVars, monVars, scheVars, upVars, srvVars, procVars>>

ProduceMarker(f) ==
  /\ find_act # "keep"
  /\ Src(f) \in disk
  /\ ~ready[f]
  /\ MoveMarkerIn(f)
  /\ UNCHANGED <<written, delivered>>

ProduceFile(f) ==
  /\ find_act = "keep"
  /\ NewVersion(f)
  /\ MoveMarkerIn(f)

-----------------------------------------------------------------------------
(***************************************************************************)
(* The monitor thread (monitor_handle).  The watch is added before the     *)
(* directory is scanned, so that a file that arrives meanwhile is seen by  *)
(* the scan, by the event, or by both.                                     *)
(***************************************************************************)
monFrame == UNCHANGED <<disk, srvq, scheVars, upVars, srvVars, procVars, histVars>>

MonitorWatch(m) ==
  /\ mpc[m] = "start"
  /\ mpc' = [mpc EXCEPT ![m] = "scan"]
  /\ unscanned' = [unscanned EXCEPT ![m] = Files]
  /\ UNCHANGED <<events, schq, memVars>>
  /\ monFrame

\* Both the scan and the event handler queue a name only while it is a file.
AddIfPresent(m, f) ==
  IF Mon(f) \in disk THEN queue_node_add(m, f) ELSE UNCHANGED <<memVars, schq>>

ScanFile(m, f) ==
  /\ mpc[m] = "scan"
  /\ f \in unscanned[m]
  /\ unscanned' = [unscanned EXCEPT ![m] = @ \ {f}]
  /\ AddIfPresent(m, f)
  /\ UNCHANGED <<mpc, events>>
  /\ monFrame

ScanEnd(m) ==
  /\ mpc[m] = "scan"
  /\ unscanned[m] = {}
  /\ mpc' = [mpc EXCEPT ![m] = "run"]
  /\ UNCHANGED <<unscanned, events, schq, memVars>>
  /\ monFrame

\* The signal is tested again after every event of one read.
MonitorEvent(m) ==
  /\ mpc[m] = "run"
  /\ events[m] # <<>>
  /\ events' = [events EXCEPT ![m] = Tail(@)]
  /\ AddIfPresent(m, Head(events[m]))
  /\ mpc' = IF mrun THEN mpc ELSE [mpc EXCEPT ![m] = "exit"]
  /\ UNCHANGED unscanned
  /\ monFrame

MonitorExit(m) ==
  /\ mpc[m] = "run"
  /\ ~mrun
  /\ mpc' = [mpc EXCEPT ![m] = "exit"]
  /\ UNCHANGED <<unscanned, events, schq, memVars>>
  /\ monFrame

-----------------------------------------------------------------------------
(***************************************************************************)
(* The scheduling thread of a group (sche_handle).  spc is the step it     *)
(* takes next, snode the node in hand, si the server group it is at.       *)
(***************************************************************************)
scheFrame == UNCHANGED <<monVars, upVars, srvVars, phase, starts, histVars>>
signals == <<mrun, urun, upload_count>>

Goto(m, pc) == spc' = [spc EXCEPT ![m] = pc]

\* Drop the node in hand: queue_node_free and the next turn of the loop.
DropNode(m) ==
  /\ free_original(snode[m])
  /\ snode' = [snode EXCEPT ![m] = NoNode]
  /\ Goto(m, "head")

\* Mutant: no retain test.
SchePop_NoRetainTest(m) ==
  /\ spc[m] = "head"
  /\ mrun
  /\ schq[m] # <<>>
  /\ schq' = [schq EXCEPT ![m] = Tail(@)]
  /\ snode' = [snode EXCEPT ![m] = Head(schq[m])]
  /\ Goto(m, "src")
  /\ UNCHANGED <<si, disk, srvq, memVars, signals>>
  /\ scheFrame

\* Mutant: the retained node is queued again without having been removed.
SchePop_NoRemove(m) ==
  /\ spc[m] = "head"
  /\ mrun
  /\ schq[m] # <<>>
  /\ LET n == Head(schq[m]) IN
       IF retain[n] # 0
       THEN /\ schq' = [schq EXCEPT ![m] = Append(@, n)]
            /\ UNCHANGED scheVars
       ELSE /\ schq' = [schq EXCEPT ![m] = Tail(@)]
            /\ snode' = [snode EXCEPT ![m] = n]
            /\ Goto(m, "src")
            /\ UNCHANGED si
  /\ UNCHANGED <<disk, srvq, memVars, signals>>
  /\ scheFrame

\* Pop; a node that still has copies goes back to the end of the queue.
SchePop(m) ==
  /\ spc[m] = "head"
  /\ mrun
  /\ schq[m] # <<>>
  /\ LET n == Head(schq[m]) IN
       IF retain[n] # 0
       THEN /\ schq' = [schq EXCEPT ![m] = Append(Tail(@), n)]
            /\ UNCHANGED scheVars
       ELSE /\ schq' = [schq EXCEPT ![m] = Tail(@)]
            /\ snode' = [snode EXCEPT ![m] = n]
            /\ Goto(m, "src")
            /\ UNCHANGED si
  /\ UNCHANGED <<disk, srvq, memVars, signals>>
  /\ scheFrame

\* The source is gone: drop the node.
ScheCheckSrc(m) ==
  /\ spc[m] = "src"
  /\ IF Src(nfile[snode[m]]) \in disk
     THEN Goto(m, "k") /\ UNCHANGED <<memVars, snode>>
     ELSE DropNode(m)
  /\ UNCHANGED <<disk, schq, srvq, si, signals>>
  /\ scheFrame

\* Mutant: the "-upload-k" file is created before the state files.
ScheCheckK_KFirst(m) ==
  /\ spc[m] = "k"
  /\ Goto(m, IF UploadK(nfile[snode[m]]) \in disk THEN "all" ELSE "flag")
  /\ create_file(UploadK(nfile[snode[m]]))
  /\ si' = [si EXCEPT ![m] = 1]
  /\ UNCHANGED <<schq, srvq, memVars, snode, signals>>
  /\ scheFrame

\* No "-upload-k" file: the state files have still to be created.
ScheCheckK(m) ==
  /\ spc[m] = "k"
  /\ Goto(m, IF UploadK(nfile[snode[m]]) \in disk THEN "all" ELSE "flag")
  /\ si' = [si EXCEPT ![m] = 1]
  /\ UNCHANGED <<disk, schq, srvq, memVars, snode, signals>>
  /\ scheFrame

\* create_upload_state_file: one state file per server group ...
ScheCreateFlag(m) ==
  /\ spc[m] = "flag"
  /\ create_file(StateFile(nfile[snode[m]], m, SgName(m, si[m])))
  /\ IF si[m] < Len(Sgl[m])
     THEN /\ si' = [si EXCEPT ![m] = @ + 1]
          /\ UNCHANGED spc
     ELSE /\ UNCHANGED si
          /\ Goto(m, "mk")
  /\ UNCHANGED <<schq, srvq, memVars, snode, signals>>
  /\ scheFrame

\* ... and the "-upload-k" file last, so that it vouches for the others.
ScheCreateK(m) ==
  /\ spc[m] = "mk"
  /\ create_file(UploadK(nfile[snode[m]]))
  /\ Goto(m, "group")
  /\ si' = [si EXCEPT ![m] = 1]
  /\ UNCHANGED <<schq, srvq, memVars, snode, signals>>
  /\ scheFrame

(***************************************************************************)
(* do_upload_state_file_check.  The files are looked at one by one, but    *)
(* only this thread creates them: one that was absent stays absent, so     *)
(* "none exists" is true when the last one is looked at.                   *)
(***************************************************************************)
NoStateFile(m, f) ==
  \A i \in Groups(m) : StateFile(f, m, SgName(m, i)) \notin disk

ScheCheckAll(m) ==
  /\ spc[m] = "all"
  /\ Goto(m, IF NoStateFile(m, nfile[snode[m]]) THEN "move" ELSE "group")
  /\ UNCHANGED <<disk, schq, srvq, memVars, snode, si, signals>>
  /\ scheFrame

(***************************************************************************)
(* do_upload_file_finish_all: the source by finish-act (do_move_to), the   *)
(* marker, the count of finished files, the "-upload-k" file, the node.    *)
(***************************************************************************)
do_move_to(f) == IF finish_act = "keep" THEN UNCHANGED disk ELSE delete_file(Src(f))

ScheMoveSrc(m) ==
  /\ spc[m] = "move"
  /\ do_move_to(nfile[snode[m]])
  /\ Goto(m, "delmon")
  /\ UNCHANGED <<schq, srvq, memVars, snode, si, signals>>
  /\ scheFrame

ScheDelMon(m) ==
  /\ spc[m] = "delmon"
  /\ delete_file(Mon(nfile[snode[m]]))
  /\ Goto(m, "limit")
  /\ UNCHANGED <<schq, srvq, memVars, snode, si, signals>>
  /\ scheFrame

\* do_upload_file_limit compares the count BEFORE the increment.
ScheLimit(m) ==
  /\ spc[m] = "limit"
  /\ upload_count' = IF max_upload_num # 0 THEN upload_count + 1 ELSE upload_count
  /\ IF max_upload_num # 0 /\ upload_count > max_upload_num
     THEN mrun' = FALSE /\ urun' = FALSE
     ELSE UNCHANGED <<mrun, urun>>
  /\ Goto(m, "delk")
  /\ UNCHANGED <<disk, schq, srvq, memVars, snode, si>>
  /\ scheFrame

ScheDelK(m) ==
  /\ spc[m] = "delk"
  /\ delete_file(UploadK(nfile[snode[m]]))
  /\ DropNode(m)
  /\ UNCHANGED <<schq, srvq, si, signals>>
  /\ scheFrame

\* The group loop: a group without a state file is skipped.
NextGroup(m) ==
  IF si[m] < Len(Sgl[m])
  THEN si' = [si EXCEPT ![m] = @ + 1] /\ Goto(m, "group")
  ELSE UNCHANGED si /\ Goto(m, "push")

ScheGroup(m) ==
  /\ spc[m] = "group"
  /\ IF StateFile(nfile[snode[m]], m, SgName(m, si[m])) \in disk
     THEN Goto(m, "pick") /\ UNCHANGED si
     ELSE NextGroup(m)
  /\ UNCHANGED <<disk, schq, srvq, memVars, snode, signals>>
  /\ scheFrame

(***************************************************************************)
(* upload_real_server_sche_rr: the first of the available servers with the *)
(* shortest queue.  The round-robin counter is advanced but its index is   *)
(* never used to choose, so it is left out.                                *)
(***************************************************************************)
Available(rs) == {i \in DOMAIN rs : rs[i] # NoServer /\ ~down[rs[i]]}
Chosen(rs) ==
  {rs[i] : i \in {i \in Available(rs) : \A j \in Available(rs) :
                    \/ Len(srvq[rs[i]]) < Len(srvq[rs[j]])
                    \/ Len(srvq[rs[i]]) = Len(srvq[rs[j]]) /\ i <= j}}

\* A backup is asked only when no primary is available.
Target(m, i) ==
  IF Chosen(Sgl[m][i].prime) # {} THEN Chosen(Sgl[m][i].prime) ELSE Chosen(Sgl[m][i].back)

ScheDispatch(m) ==
  /\ spc[m] = "pick"
  /\ \/ \E s \in Target(m, si[m]) : copy_and_push(snode[m], si[m], s)
     \/ Target(m, si[m]) = {} /\ UNCHANGED <<memVars, srvq>>
  /\ NextGroup(m)
  /\ UNCHANGED <<disk, schq, snode, signals>>
  /\ scheFrame

\* The node goes back to the queue of its group to wait for its copies.
SchePush(m) ==
  /\ spc[m] = "push"
  /\ schq' = [schq EXCEPT ![m] = Append(@, snode[m])]
  /\ snode' = [snode EXCEPT ![m] = NoNode]
  /\ Goto(m, "head")
  /\ UNCHANGED <<disk, srvq, memVars, si, signals>>
  /\ scheFrame

ScheExit(m) ==
  /\ spc[m] = "head"
  /\ ~mrun
  /\ Goto(m, "exit")
  /\ UNCHANGED <<disk, schq, srvq, memVars, snode, si, signals>>
  /\ scheFrame

-----------------------------------------------------------------------------
(***************************************************************************)
(* The upload threads (upload_handle).  The threads of one server share    *)
(* its queue, its sleep and its failure counter cur_rc, which is           *)
(* incremented without an atomic builtin: the read and the write are two   *)
(* steps here.                                                             *)
(***************************************************************************)
upFrame == UNCHANGED <<schq, monVars, scheVars, procVars, written, ready>>

WGoto(t, pc) == wpc' = [wpc EXCEPT ![t] = pc]
FileOf(t) == nfile[cnode[wcopy[t]]]
MonOf(t) == nmon[cnode[wcopy[t]]]

\* queue_node_free of the copy in hand, and the next turn of the loop.
ReleaseCopy(t) ==
  /\ free_copy(wcopy[t])
  /\ wcopy' = [wcopy EXCEPT ![t] = NoCopy]
  /\ WGoto(t, "head")

UploadPop(t) ==
  LET s == ServerOf[t] IN
  /\ wpc[t] = "head"
  /\ urun
  /\ srvq[s] # <<>>
  /\ wcopy' = [wcopy EXCEPT ![t] = Head(srvq[s])]
  /\ srvq' = [srvq EXCEPT ![s] = Tail(@)]
  /\ WGoto(t, "check")
  /\ UNCHANGED <<disk, memVars, wrc, srvVars, delivered>>
  /\ upFrame

\* do_upload_file_checking: the server sleeps, or the source is gone.
UploadCheck(t) ==
  /\ wpc[t] = "check"
  /\ IF ~down[ServerOf[t]] /\ Src(FileOf(t)) \in disk
     THEN WGoto(t, "call") /\ UNCHANGED <<memVars, wcopy>>
     ELSE ReleaseCopy(t)
  /\ UNCHANGED <<disk, srvq, wrc, srvVars, delivered>>
  /\ upFrame

(***************************************************************************)
(* do_upload_file calls the analysis library (external).  The library may  *)
(* accept the file only while the source exists; it may always fail.       *)
(***************************************************************************)
UploadCallOk(t) ==
  /\ wpc[t] = "call"
  /\ Src(FileOf(t)) \in disk
  /\ delivered' = delivered \cup {<<FileOf(t), MonOf(t), csg[wcopy[t]]>>}
  /\ WGoto(t, "delsrc")
  /\ UNCHANGED <<disk, srvq, memVars, wcopy, wrc, srvVars>>
  /\ upFrame

\* Mutant: a rejected file is deleted like an accepted one.
UploadCallFail_Deletes(t) ==
  /\ wpc[t] = "call"
  /\ WGoto(t, "delsrc")
  /\ UNCHANGED <<disk, srvq, memVars, wcopy, wrc, srvVars, delivered>>
  /\ upFrame

UploadCallFail(t) ==
  /\ wpc[t] = "call"
  /\ WGoto(t, "readrc")
  /\ UNCHANGED <<disk, srvq, memVars, wcopy, wrc, srvVars, delivered>>
  /\ upFrame

\* do_upload_file deletes the source whatever finish-act says.
UploadDelSrc(t) ==
  /\ wpc[t] = "delsrc"
  /\ delete_file(Src(FileOf(t)))
  /\ WGoto(t, "delflag")
  /\ UNCHANGED <<srvq, memVars, wcopy, wrc, srvVars, delivered>>
  /\ upFrame

do_upload_file_finish_single(t) ==
  /\ wpc[t] = "delflag"
  /\ delete_file(StateFile(FileOf(t), MonOf(t), SgName(MonOf(t), csg[wcopy[t]])))
  /\ WGoto(t, "resetrc")
  /\ UNCHANGED <<srvq, memVars, wcopy, wrc, srvVars, delivered>>
  /\ upFrame

UploadReadRc(t) ==
  /\ wpc[t] = "readrc"
  /\ wrc' = [wrc EXCEPT ![t] = rc[ServerOf[t]]]
  /\ WGoto(t, "writerc")
  /\ UNCHANGED <<disk, srvq, memVars, wcopy, srvVars, delivered>>
  /\ upFrame

\* Mutant: the copy that was pushed back is released as well.
UploadWriteRc_NoContinue(t) ==
  LET s == ServerOf[t] IN
  /\ wpc[t] = "writerc"
  /\ rc' = [rc EXCEPT ![s] = IF wrc[t] < retry_count THEN wrc[t] + 1 ELSE wrc[t]]
  /\ IF wrc[t] < retry_count
     THEN /\ srvq' = [srvq EXCEPT ![s] = Append(@, wcopy[t])]
          /\ WGoto(t, "sleep")
     ELSE WGoto(t, "sleep") /\ UNCHANGED srvq
  /\ wrc' = [wrc EXCEPT ![t] = 0]
  /\ UNCHANGED <<disk, memVars, wcopy, down, delivered>>
  /\ upFrame

(***************************************************************************)
(* Below the limit the copy goes back to the queue of the server.  From    *)
(* retry_count on, values of cur_rc are told apart by nothing, so the      *)
(* counter (which racing threads can drive up without bound) stops there.  *)
(***************************************************************************)
UploadWriteRc(t) ==
  LET s == ServerOf[t] IN
  /\ wpc[t] = "writerc"
  /\ rc' = [rc EXCEPT ![s] = IF wrc[t] < retry_count THEN wrc[t] + 1 ELSE wrc[t]]
  /\ IF wrc[t] < retry_count
     THEN /\ srvq' = [srvq EXCEPT ![s] = Append(@, wcopy[t])]
          /\ wcopy' = [wcopy EXCEPT ![t] = NoCopy]
          /\ WGoto(t, "head")
     ELSE WGoto(t, "sleep") /\ UNCHANGED <<srvq, wcopy>>
  /\ wrc' = [wrc EXCEPT ![t] = 0]
  /\ UNCHANGED <<disk, memVars, down, delivered>>
  /\ upFrame

UploadSleep(t) ==
  /\ wpc[t] = "sleep"
  /\ down' = [down EXCEPT ![ServerOf[t]] = TRUE]
  /\ WGoto(t, "resetrc")
  /\ UNCHANGED <<disk, srvq, memVars, wcopy, wrc, rc, delivered>>
  /\ upFrame

UploadResetRc(t) ==
  /\ wpc[t] = "resetrc"
  /\ rc' = [rc EXCEPT ![ServerOf[t]] = 0]
  /\ WGoto(t, "free")
  /\ UNCHANGED <<disk, srvq, memVars, wcopy, wrc, down, delivered>>
  /\ upFrame

UploadFree(t) ==
  /\ wpc[t] = "free"
  /\ ReleaseCopy(t)
  /\ UNCHANGED <<disk, srvq, wrc, srvVars, delivered>>
  /\ upFrame

UploadExit(t) ==
  /\ wpc[t] = "head"
  /\ ~urun
  /\ WGoto(t, "exit")
  /\ UNCHANGED <<disk, srvq, memVars, wcopy, wrc, srvVars, delivered>>
  /\ upFrame

\* The sleep of a server runs out, or a racing check resets cur_fst early.
WakeUp(s) ==
  /\ down[s]
  /\ down' = [down EXCEPT ![s] = FALSE]
  /\ UNCHANGED <<disk, srvq, memVars, upVars, rc, delivered>>
  /\ upFrame

-----------------------------------------------------------------------------
(***************************************************************************)
(* The process (main.c).  Main starts the threads and joins them all;      *)
(* SIGINT or the max-upload limit lets them leave their loops; then main   *)
(* releases the queues of the servers and after them those of the groups.  *)
(* Any other signal, such as the SIGTERM that cron.sh stop sends, kills    *)
(* the process where it is.                                                *)
(***************************************************************************)
newiup_pthread_start ==
  /\ phase = "down"
  /\ starts < MaxStarts
  /\ phase' = "run" /\ starts' = starts + 1
  /\ mrun' = TRUE /\ urun' = TRUE
  /\ upload_count' = 0
  /\ mpc' = [m \in Monitors |-> "start"]
  /\ unscanned' = [m \in Monitors |-> {}]
  /\ events' = [m \in Monitors |-> <<>>]
  /\ spc' = [m \in Monitors |-> "head"]
  /\ wpc' = [t \in Threads |-> "head"]
  /\ down' = [s \in Servers |-> FALSE]
  /\ rc' = [s \in Servers |-> 0]
  /\ UNCHANGED <<disk, schq, srvq, memVars, snode, si, wcopy, wrc, histVars>>

\* Mutant: only the monitor signal is cleared.
signal_func_OnlyMonitor ==
  /\ phase = "run"
  /\ mrun \/ urun
  /\ mrun' = FALSE
  /\ UNCHANGED <<disk, schq, srvq, memVars, monVars, scheVars, upVars, srvVars,
                 phase, starts, urun, upload_count, histVars>>

signal_func ==
  /\ phase = "run"
  /\ mrun \/ urun
  /\ mrun' = FALSE /\ urun' = FALSE
  /\ UNCHANGED <<disk, schq, srvq, memVars, monVars, scheVars, upVars, srvVars,
                 phase, starts, upload_count, histVars>>

Joined ==
  /\ \A m \in Monitors : mpc[m] = "exit" /\ spc[m] = "exit"
  /\ \A t \in Threads : wpc[t] = "exit"

\* Mutant: an if instead of the while over the queue.
QueuedCopies_HeadOnly ==
  {c \in Copies : \E s \in Servers : srvq[s] # <<>> /\ Head(srvq[s]) = c}

\* servers_exit frees every copy that is still queued.
QueuedCopies == {c \in Copies : \E s \in Servers : InQ(srvq[s], c)}

servers_exit ==
  /\ phase = "run"
  /\ Joined
  /\ phase' = "freed"
  /\ retain' = [n \in Nodes |-> retain[n] - Cardinality(CopiesOf(n) \cap QueuedCopies)]
  /\ cnode' = [c \in Copies |-> IF c \in QueuedCopies THEN NoNode ELSE cnode[c]]
  /\ csg' = [c \in Copies |-> 1]
  /\ srvq' = [s \in Servers |-> <<>>]
  /\ UNCHANGED <<disk, schq, nfile, nmon, monVars, scheVars, upVars, srvVars,
                 starts, mrun, urun, upload_count, histVars>>

\* monitor_group_exit frees every original that is still queued.
QueuedNodes == {n \in Nodes : \E m \in Monitors : InQ(schq[m], n)}

monitor_group_exit ==
  /\ phase = "freed"
  /\ phase' = "down"
  /\ nfile' = [n \in Nodes |-> IF n \in QueuedNodes THEN NoFile ELSE nfile[n]]
  /\ nmon' = [n \in Nodes |-> IF n \in QueuedNodes THEN NoMonitor ELSE nmon[n]]
  /\ schq' = [m \in Monitors |-> <<>>]
  /\ UNCHANGED <<disk, srvq, retain, cnode, csg, monVars, scheVars, upVars, srvVars,
                 starts, mrun, urun, upload_count, histVars>>

\* Everything but the disk is lost.
Crash ==
  /\ phase # "down"
  /\ starts < MaxStarts
  /\ phase' = "down" /\ mrun' = FALSE /\ urun' = FALSE
  /\ mpc' = [m \in Monitors |-> "exit"]
  /\ spc' = [m \in Monitors |-> "exit"]
  /\ wpc' = [t \in Threads |-> "exit"]
  /\ unscanned' = [m \in Monitors |-> {}]
  /\ events' = [m \in Monitors |-> <<>>]
  /\ schq' = [m \in Monitors |-> <<>>]
  /\ snode' = [m \in Monitors |-> NoNode]
  /\ si' = [m \in Monitors |-> 1]
  /\ nfile' = [n \in Nodes |-> NoFile]
  /\ nmon' = [n \in Nodes |-> NoMonitor]
  /\ retain' = [n \in Nodes |-> 0]
  /\ srvq' = [s \in Servers |-> <<>>]
  /\ cnode' = [c \in Copies |-> NoNode]
  /\ csg' = [c \in Copies |-> 1]
  /\ wcopy' = [t \in Threads |-> NoCopy]
  /\ wrc' = [t \in Threads |-> 0]
  /\ down' = [s \in Servers |-> FALSE]
  /\ rc' = [s \in Servers |-> 0]
  /\ UNCHANGED <<disk, starts, upload_count, histVars>>

-----------------------------------------------------------------------------
Produce(f) == ProduceData(f) \/ ProduceMarker(f) \/ ProduceFile(f)

monitor_handle(m) ==
  \/ MonitorWatch(m)
  \/ \E f \in Files : ScanFile(m, f)
  \/ ScanEnd(m)
  \/ MonitorEvent(m)
  \/ MonitorExit(m)

sche_handle(m) ==
  \/ SchePop(m) \/ ScheCheckSrc(m) \/ ScheCheckK(m)
  \/ ScheCreateFlag(m) \/ ScheCreateK(m) \/ ScheCheckAll(m)
  \/ ScheMoveSrc(m) \/ ScheDelMon(m) \/ ScheLimit(m) \/ ScheDelK(m)
  \/ ScheGroup(m) \/ ScheDispatch(m) \/ SchePush(m)
  \/ ScheExit(m)

upload_handle(t) ==
  \/ UploadPop(t) \/ UploadCheck(t)
  \/ UploadCallOk(t) \/ UploadCallFail(t)
  \/ UploadDelSrc(t) \/ do_upload_file_finish_single(t)
  \/ UploadReadRc(t) \/ UploadWriteRc(t) \/ UploadSleep(t) \/ UploadResetRc(t)
  \/ UploadFree(t)
  \/ UploadExit(t)

Process ==
  newiup_pthread_start \/ signal_func \/ servers_exit \/ monitor_group_exit \/ Crash

Next ==
  \/ \E f \in Files : Produce(f)
  \/ \E m \in Monitors : monitor_handle(m) \/ sche_handle(m)
  \/ \E t \in Threads : upload_handle(t)
  \/ \E s \in Servers : WakeUp(s)
  \/ Process

Spec == Init /\ [][Next]_vars

(***************************************************************************)
(* Fairness.  Every thread that can take a step takes one (the kernel      *)
(* schedules it; no thread waits for another except in pthread_join), a    *)
(* sleep runs out, and main goes on once its joins return.  The analysis   *)
(* library is assumed to return, and not to reject for ever a file that it *)
(* is handed again and again.                                              *)
(***************************************************************************)
Fairness ==
  /\ \A m \in Monitors : WF_vars(monitor_handle(m)) /\ WF_vars(sche_handle(m))
  /\ \A t \in Threads : WF_vars(upload_handle(t)) /\ SF_vars(UploadCallOk(t))
  /\ \A s \in Servers : WF_vars(WakeUp(s))
  /\ WF_vars(servers_exit \/ monitor_group_exit)

FairSpec == Spec /\ Fairness

-----------------------------------------------------------------------------
(***************************************************************************)
(* Properties.                                                             *)
(***************************************************************************)
ScheIdle == {"head", "exit"}
ScheFresh == {"src", "k", "flag", "mk", "all", "move", "delmon", "limit", "delk"}
ScheLoop == {"group", "pick"}
UploadIdle == {"head", "exit"}
UploadBusy == {"check", "call", "delsrc", "delflag", "readrc", "writerc", "sleep",
               "resetrc", "free"}

\* Type invariant: every variable of the daemon holds a value of its kind.
TypeOK ==
  /\ disk \in SUBSET Names
  /\ phase \in {"down", "run", "freed"}
  /\ starts \in Nat
  /\ mrun \in BOOLEAN /\ urun \in BOOLEAN
  /\ upload_count \in Nat
  /\ mpc \in [Monitors -> {"start", "scan", "run", "exit"}]
  /\ unscanned \in [Monitors -> SUBSET Files]
  /\ events \in [Monitors -> Seq(Files)]
  /\ schq \in [Monitors -> Seq(Nodes)]
  /\ nfile \in [Nodes -> Files \cup {NoFile}]
  /\ nmon \in [Nodes -> Monitors \cup {NoMonitor}]
  /\ retain \in [Nodes -> Int]
  /\ spc \in [Monitors -> ScheIdle \cup ScheFresh \cup ScheLoop \cup {"push"}]
  /\ snode \in [Monitors -> Nodes \cup {NoNode}]
  /\ si \in [Monitors -> Nat]
  /\ srvq \in [Servers -> Seq(Copies)]
  /\ cnode \in [Copies -> Nodes \cup {NoNode}]
  /\ csg \in [Copies -> Nat]
  /\ wpc \in [Threads -> UploadIdle \cup UploadBusy]
  /\ wcopy \in [Threads -> Copies \cup {NoCopy}]
  /\ wrc \in [Threads -> Int]
  /\ down \in [Servers -> BOOLEAN]
  /\ rc \in [Servers -> Int]
  /\ written \in [Files -> Nat]
  /\ ready \in [Files -> BOOLEAN]
  /\ delivered \in SUBSET (Files \X Monitors \X Nat)

(***************************************************************************)
(* The retain_count of a live original is the number of its live copies:   *)
(* no increment of queue_node_copy and no decrement of queue_node_free is  *)
(* lost or made twice, whatever the upload threads do meanwhile.           *)
(***************************************************************************)
RetainExact ==
  \A n \in Nodes : nfile[n] # NoFile => retain[n] = Cardinality(CopiesOf(n))

(***************************************************************************)
(* A live copy points at a live original.  A copy shares the strings and   *)
(* the counter of its original, so sche_handle must not release a node     *)
(* that an upload thread still works on, nor may the exit path.            *)
(***************************************************************************)
NoDanglingCopy ==
  \A c \in Copies : cnode[c] # NoNode => nfile[cnode[c]] # NoFile

(***************************************************************************)
(* One round of sche_handle gives each server group at most one copy of a  *)
(* node: the retain test keeps a node from being dispatched again while a  *)
(* copy is queued, being uploaded or waiting for a retry.                  *)
(***************************************************************************)
OneCopyPerGroup ==
  \A c, d \in Copies :
    cnode[c] # NoNode /\ cnode[c] = cnode[d] /\ csg[c] = csg[d] => c = d

(***************************************************************************)
(* A live original is in the hands of its scheduling thread or in the      *)
(* queue of its group, and there once: a node inserted twice would corrupt *)
(* the TAILQ, a node nowhere is leaked.                                    *)
(***************************************************************************)
NodeInOnePlace ==
  /\ \A n \in Nodes : nfile[n] # NoFile =>
       nmon[n] \in Monitors /\ (snode[nmon[n]] = n \/ InQ(schq[nmon[n]], n))
  /\ \A m \in Monitors : snode[m] # NoNode =>
       nfile[snode[m]] # NoFile /\ nmon[snode[m]] = m
  /\ \A m \in Monitors, n \in Nodes : InQ(schq[m], n) =>
       nfile[n] # NoFile /\ nmon[n] = m /\ snode[m] # n
  /\ \A m \in Monitors : NoRepeat(schq[m])

(***************************************************************************)
(* A live copy is in the hands of one upload thread or once in the queue   *)
(* of one server, also when it goes back to the queue after a failure.     *)
(***************************************************************************)
CopyInOnePlace ==
  /\ \A c \in Copies : cnode[c] # NoNode =>
       (\E t \in Threads : wcopy[t] = c) \/ (\E s \in Servers : InQ(srvq[s], c))
  /\ \A t \in Threads : wcopy[t] # NoCopy => cnode[wcopy[t]] # NoNode
  /\ \A t, u \in Threads : wcopy[t] # NoCopy /\ wcopy[t] = wcopy[u] => t = u
  /\ \A s \in Servers, c \in Copies : InQ(srvq[s], c) =>
       /\ cnode[c] # NoNode
       /\ \A t \in Threads : wcopy[t] # c
       /\ \A r \in Servers : InQ(srvq[r], c) => r = s
  /\ \A s \in Servers : NoRepeat(srvq[s])

(***************************************************************************)
(* What makes the memory invariants inductive: which program counters hold *)
(* a node or a copy, which groups of the node in hand have been served,    *)
(* and what is left when the threads have been joined.                     *)
(***************************************************************************)
ControlOK ==
  /\ \A m \in Monitors : si[m] \in Groups(m) /\ (snode[m] = NoNode <=> spc[m] \in ScheIdle)
  /\ \A t \in Threads : wcopy[t] = NoCopy <=> wpc[t] \in UploadIdle
  /\ \A c \in Copies : cnode[c] # NoNode => csg[c] \in Groups(nmon[cnode[c]])

NotServedYet ==
  \A m \in Monitors :
    /\ spc[m] \in ScheFresh => CopiesOf(snode[m]) = {}
    /\ spc[m] \in ScheLoop => \A c \in CopiesOf(snode[m]) : csg[c] < si[m]

PhaseOK ==
  /\ phase # "run" => Joined /\ \A c \in Copies : cnode[c] = NoNode
  /\ phase = "down" => \A n \in Nodes : nfile[n] = NoFile

(***************************************************************************)
(* A process that came down through newiup_exit released every node and    *)
(* every copy: the threads left nothing outside the queues that            *)
(* servers_exit and monitor_group_exit empty.                              *)
(***************************************************************************)
NothingLeaked == phase = "down" => FreeNodes = Nodes /\ FreeCopies = Copies

\* The inductive invariant: the memory of the dispatch core is sound.
MemoryInv ==
  /\ TypeOK /\ ControlOK
  /\ NodeInOnePlace /\ CopyInOnePlace
  /\ NoDanglingCopy /\ RetainExact
  /\ NotServedYet /\ OneCopyPerGroup
  /\ PhaseOK

(***************************************************************************)
(* do_upload_state_file_check says of a state file that does not exist     *)
(* "That has been uploaded".  While the "-upload-k" file vouches for the   *)
(* state files, a missing one means that a server of its group accepted    *)
(* the file, over any crash and restart.                                   *)
(***************************************************************************)
StateFileMeansUploaded ==
  \A f \in Files, m \in Monitors :
    Src(f) \in disk /\ UploadK(f) \in disk =>
      \A i \in Groups(m) :
        StateFile(f, m, SgName(m, i)) \in disk \/ <<f, m, i>> \in delivered

(***************************************************************************)
(* A published source that is gone was accepted by a server of every       *)
(* group that monitors it.                                                 *)
(***************************************************************************)
SourceGoneMeansDelivered ==
  \A f \in Files :
    ready[f] /\ Src(f) \notin disk =>
      \A m \in Monitors : \A i \in Groups(m) : <<f, m, i>> \in delivered

(***************************************************************************)
(* The dispatch core implements Delivery: whatever the threads, crashes    *)
(* and restarts do, to the producer a source stays until a server of every *)
(* group has accepted it, and nothing else ever happens to it.             *)
(***************************************************************************)
Promise == INSTANCE Delivery WITH
  Receivers <- UNION {{m} \X Groups(m) : m \in Monitors},
  waiting <- {f \in Files : ready[f] /\ Src(f) \in disk},
  accepted <- delivered

ImplementsDelivery == Promise!Spec

(***************************************************************************)
(* do_upload_file_finish_all runs for a file every group has uploaded      *)
(* ("the file upload sucess and Must first deal with the source file").    *)
(***************************************************************************)
FinishAllMeansUploaded ==
  \A m \in Monitors : spc[m] = "move" =>
    \A i \in Groups(m) : <<nfile[snode[m]], m, i>> \in delivered

(***************************************************************************)
(* finish-act keep: the daemon leaves the source where it is.  The code    *)
(* does not (README, section 8).                                           *)
(***************************************************************************)
KeptSourceStays ==
  [][finish_act = "keep" => \A f \in Files : Src(f) \in disk => Src(f) \in disk']_vars

(***************************************************************************)
(* A running daemon never forgets a published file: the group still has to *)
(* scan it, has its event, or has a node for it.                           *)
(***************************************************************************)
Known(m, f) ==
  \/ mpc[m] = "start"
  \/ f \in unscanned[m]
  \/ InQ(events[m], f)
  \/ \E n \in Nodes : nfile[n] = f /\ nmon[n] = m

NoForgottenFile ==
  \A f \in Files, m \in Monitors :
    /\ phase = "run" /\ mrun
    /\ ready[f] /\ Src(f) \in disk /\ Mon(f) \in disk
    => Known(m, f)

(***************************************************************************)
(* max-upload ends the process.  The count is compared before it is        *)
(* incremented and with ">", so one group finishes max_upload_num + 2      *)
(* files; every other group may finish one more, past its loop test.       *)
(***************************************************************************)
FinishBound ==
  max_upload_num > 0 =>
    upload_count <= max_upload_num + 1 + Cardinality(Monitors)

(***************************************************************************)
(* Every published file is eventually uploaded and its source consumed, as *)
(* long as the daemon is not stopped: also after failures, sleeps of the   *)
(* servers and a restart.                                                  *)
(***************************************************************************)
Serving == phase = "run" /\ mrun
PublishedIsConsumed ==
  \A f \in Files :
    Serving /\ ready[f] /\ Src(f) \in disk ~> ~Serving \/ Src(f) \notin disk

(***************************************************************************)
(* Once the run signals are cleared every thread leaves its loop, main     *)
(* joins them and the process exits.                                       *)
(***************************************************************************)
ShutdownCompletes == phase = "run" /\ ~mrun ~> phase = "down"

=============================================================================
