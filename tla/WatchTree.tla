------------------------------ MODULE WatchTree ------------------------------
(***************************************************************************)
(* How the monitor thread of one group follows a directory tree: the       *)
(* kernel's inotify watches and event queue (external), the wd_list of     *)
(* utils/encapsulate_queue.c, the two recursive scans add_monitor_dir and  *)
(* add_upload_file, and the event loop of monitor_handle (monitor.c).      *)
(*                                                                         *)
(* A directory is an inode that sits at a path; a rename moves the inode   *)
(* and everything below it.  The daemon sees paths: it stores them next to *)
(* the watch descriptor and resolves them again at every system call,      *)
(* while other processes create, rename and remove entries.  The recursion *)
(* is a stack of frames, one per open directory.                           *)
(***************************************************************************)
EXTENDS Naturals, Sequences, SequencesExt, FiniteSets

CONSTANTS
  Dirs,        \* inodes of directories
  Root,        \* the inode of monitor-dir
  DirNames,    \* names that directories may have
  FileNames,   \* names of marker files, all with the monitored suffix
  NewNames,    \* bound: the names directories are created with, not renamed to
  MaxFiles,    \* bound: marker files at a time
  MaxChanges,  \* bound: how often a directory is renamed or anything is removed
  MaxDepth,    \* bound: components below monitor-dir
  MaxWd,       \* bound: watch descriptors the kernel hands out
  NoPath       \* an inode without a name

ASSUME TreeAssumption ==
  /\ Root \in Dirs
  /\ DirNames \cap FileNames = {} /\ NewNames \subseteq DirNames
  /\ MaxChanges \in Nat /\ MaxFiles \in Nat
  /\ MaxDepth \in Nat /\ MaxWd \in Nat

Paths == SeqOf(DirNames, MaxDepth)
ASSUME NoPathAssumption == NoPath \notin Seq(DirNames \cup FileNames)

VARIABLES
  at,       \* where a directory is, NoPath when it does not exist
  files,    \* the marker files: <<directory, name>>
  watch,    \* kernel: watch descriptor of an inode, 0 for none
  nextwd,   \* kernel: the next descriptor; descriptors are not used again
  events,   \* kernel: the queue of the inotify instance
  wd_list,  \* g_monitorgroup[index].wd_list
  stack,    \* the calls of add_monitor_dir and add_upload_file, innermost first
  started,  \* monitor_handle has called add_monitor_dir for monitor-dir
  exited,   \* the process called exit(-1)
  queued,   \* history: files a queue node was made for
  renamed, removed, \* history: how often others did it
  early     \* history: a directory came back while its removal was still in the queue

treeVars == <<at, files>>
kernelVars == <<watch, nextwd, events>>
monVars == <<wd_list, stack, started, exited, queued>>
boundVars == <<renamed, removed, early>>
vars == <<treeVars, kernelVars, monVars, boundVars>>

-----------------------------------------------------------------------------
(***************************************************************************)
(* The tree.                                                               *)
(***************************************************************************)
Exists(d) == at[d] # NoPath
DirAt(p) == {d \in Dirs : at[d] = p}
Below(p) == {d \in Dirs : Exists(d) /\ IsPrefix(p, at[d])}
FileAt(p) == IF p = <<>> THEN {} ELSE {f \in files : at[f[1]] = Front(p) /\ f[2] = Last(p)}

\* What readdir finds in a directory, also in one that was renamed since opendir.
Entries(d) ==
  {f[2] : f \in {g \in files : g[1] = d}} \cup
  (IF Exists(d)
   THEN {Last(at[e]) : e \in {e \in Dirs : Exists(e) /\ at[e] # <<>> /\ Front(at[e]) = at[d]}}
   ELSE {})

\* The kernel reports a change in directory d when d has a watch.
Event(d, what, name, isdir) ==
  IF watch[d] = 0 THEN <<>>
  ELSE <<[wd |-> watch[d], what |-> what, name |-> name, isdir |-> isdir]>>

Frame(fn, p, d) == [fn |-> fn, path |-> p, pc |-> "enter", ino |-> d, seen |-> {}, must |-> {}]
Call(fn, p) == stack' = <<Frame(fn, p, Root)>> \o stack
Return == stack' = Tail(stack)
Exit == exited' = TRUE

Init ==
  /\ at = [d \in Dirs |-> IF d = Root THEN <<>> ELSE NoPath]
  /\ files = {}
  /\ watch = [d \in Dirs |-> 0]
  /\ nextwd = 1
  /\ events = <<>>
  /\ wd_list = <<>>
  /\ stack = <<>>
  /\ started = FALSE /\ exited = FALSE
  /\ queued = {}
  /\ renamed = 0 /\ removed = 0 /\ early = FALSE

-----------------------------------------------------------------------------
(***************************************************************************)
(* wd_list: the first match counts.                                        *)
(***************************************************************************)
First(S) == CHOOSE i \in S : \A j \in S : i <= j

\* Positions of the nodes with descriptor w, of the nodes with path p.
NodesOfWd(w) == {i \in 1..Len(wd_list) : wd_list[i].wd = w}
NodesOfPath(p) == {i \in 1..Len(wd_list) : wd_list[i].path = p}

-----------------------------------------------------------------------------
(***************************************************************************)
(* Other processes change the tree.                                        *)
(***************************************************************************)
\* The inodes nobody holds are alike: the file system takes any one of them.
Unused == {x \in Dirs : ~Exists(x) /\ \A i \in 1..Len(stack) : stack[i].ino # x}

\* An event in the queue says that the directory at this path is gone.
ToBeDeleted(p) ==
  \E k \in 1..Len(events) : \E i \in NodesOfWd(events[k].wd) :
    events[k].what = "del" /\ p = Append(wd_list[i].path, events[k].name)

Mkdir(d, e, name) ==
  /\ Exists(d) /\ Unused # {} /\ e = CHOOSE x \in Unused : TRUE
  /\ Len(at[d]) < MaxDepth /\ DirAt(Append(at[d], name)) = {}
  /\ at' = [at EXCEPT ![e] = Append(at[d], name)]
  /\ events' = events \o Event(d, "add", name, TRUE)
  /\ early' = (early \/ ToBeDeleted(Append(at[d], name)))
  /\ UNCHANGED <<files, watch, nextwd, monVars, renamed, removed>>

CreateFile(d, name) ==
  /\ Exists(d) /\ <<d, name>> \notin files /\ Cardinality(files) < MaxFiles
  /\ files' = files \cup {<<d, name>>}
  /\ events' = events \o Event(d, "add", name, FALSE)
  /\ UNCHANGED <<at, watch, nextwd, monVars, boundVars>>

\* rename of directory e to a free name in directory d.
RenameDir(d, e, name) ==
  LET old == at[e]
      new == Append(at[d], name)
      parent == CHOOSE p \in DirAt(Front(old)) : TRUE
  IN
  /\ renamed + removed < MaxChanges /\ renamed' = renamed + 1
  /\ e # Root /\ Exists(e) /\ Exists(d) /\ d \notin Below(old)
  /\ DirAt(new) = {}
  /\ \A x \in Below(old) : Len(at[x]) - Len(old) + Len(new) <= MaxDepth
  /\ at' = [x \in Dirs |->
              IF x \in Below(old) THEN new \o SubSeq(at[x], Len(old) + 1, Len(at[x])) ELSE at[x]]
  /\ events' = events \o Event(parent, "del", Last(old), TRUE) \o Event(d, "add", name, TRUE)
  /\ UNCHANGED <<files, watch, nextwd, monVars, removed, early>>

\* rmdir takes the watch of the directory with it.
Rmdir(e) ==
  LET parent == CHOOSE p \in DirAt(Front(at[e])) : TRUE IN
  /\ renamed + removed < MaxChanges /\ removed' = removed + 1
  /\ e # Root /\ Exists(e) /\ Entries(e) = {}
  /\ at' = [at EXCEPT ![e] = NoPath]
  /\ watch' = [watch EXCEPT ![e] = 0]
  /\ events' = events \o Event(parent, "del", Last(at[e]), TRUE)
  /\ UNCHANGED <<files, nextwd, monVars, renamed, early>>

\* The other threads of the daemon are done with a queued file.
ConsumeFile(f) ==
  /\ f \in files \cap queued
  /\ renamed + removed < MaxChanges /\ removed' = removed + 1
  /\ files' = files \ {f}
  /\ queued' = queued \ {f}
  /\ UNCHANGED <<at, kernelVars, wd_list, stack, started, exited, renamed, early>>

-----------------------------------------------------------------------------
(***************************************************************************)
(* One system call of the innermost recursive call, or its return.  A      *)
(* frame enters, opens its directory, and reads it entry by entry.         *)
(***************************************************************************)
Top == stack[1]
AtStep(fn, pc) == ~exited /\ stack # <<>> /\ Top.fn = fn /\ Top.pc = pc

\* Mutant: the result of inotify_add_watch is not tested.
AddWatch_NoTest ==
  /\ AtStep("add_monitor_dir", "enter")
  /\ IF DirAt(Top.path) = {}
     THEN /\ wd_list' = Append(wd_list, [wd |-> 0, path |-> Top.path])
          /\ UNCHANGED <<watch, nextwd>>
     ELSE \E d \in DirAt(Top.path) :
            /\ watch[d] # 0 \/ nextwd <= MaxWd
            /\ watch' = [watch EXCEPT ![d] = IF @ = 0 THEN nextwd ELSE @]
            /\ nextwd' = IF watch[d] = 0 THEN nextwd + 1 ELSE nextwd
            /\ wd_list' = Append(wd_list, [wd |-> watch'[d], path |-> Top.path])
  /\ stack' = [stack EXCEPT ![1].pc = "open"]
  /\ UNCHANGED <<exited, treeVars, events, started, queued, boundVars>>

\* add_monitor_dir: inotify_add_watch, which returns the descriptor an inode
\* already has, and the new node of wd_list.
AddWatch ==
  /\ AtStep("add_monitor_dir", "enter")
  /\ IF DirAt(Top.path) = {}
     THEN Exit /\ UNCHANGED <<watch, nextwd, wd_list, stack>>
     ELSE \E d \in DirAt(Top.path) :
            /\ watch[d] # 0 \/ nextwd <= MaxWd
            /\ watch' = [watch EXCEPT ![d] = IF @ = 0 THEN nextwd ELSE @]
            /\ nextwd' = IF watch[d] = 0 THEN nextwd + 1 ELSE nextwd
            /\ wd_list' = Append(wd_list, [wd |-> watch'[d], path |-> Top.path])
            /\ stack' = [stack EXCEPT ![1].pc = "open"]
            /\ UNCHANGED exited
  /\ UNCHANGED <<treeVars, events, started, queued, boundVars>>

\* add_upload_file: the directory must be in wd_list.
FindWd ==
  /\ AtStep("add_upload_file", "enter")
  /\ IF NodesOfPath(Top.path) = {}
     THEN Exit /\ UNCHANGED stack
     ELSE stack' = [stack EXCEPT ![1].pc = "open"] /\ UNCHANGED exited
  /\ UNCHANGED <<treeVars, kernelVars, wd_list, started, queued, boundVars>>

\* opendir: what is there now will be returned by readdir.
OpenDir ==
  /\ ~exited /\ stack # <<>> /\ Top.pc = "open"
  /\ IF DirAt(Top.path) = {}
     THEN Exit /\ UNCHANGED stack
     ELSE /\ \E d \in DirAt(Top.path) :
               stack' = [stack EXCEPT ![1].pc = "read", ![1].ino = d, ![1].must = Entries(d)]
          /\ UNCHANGED exited
  /\ UNCHANGED <<treeVars, kernelVars, wd_list, started, queued, boundVars>>

\* readdir returns an entry, which stat then finds to be a file, a directory
\* or nothing; what appeared since opendir may or may not be returned.
Seen(name) == [stack EXCEPT ![1].seen = @ \cup {name}]
ReadEntry(name) ==
  LET p == Append(Top.path, name) IN
  /\ ~exited /\ stack # <<>> /\ Top.pc = "read"
  /\ name \in Entries(Top.ino) \ Top.seen
  /\ IF DirAt(p) # {}
     THEN stack' = <<Frame(Top.fn, p, Root)>> \o Seen(name)
     ELSE stack' = Seen(name)
  /\ queued' = IF Top.fn = "add_upload_file" THEN queued \cup FileAt(p) ELSE queued
  /\ UNCHANGED <<treeVars, kernelVars, wd_list, started, exited, boundVars>>

EndDir ==
  /\ ~exited /\ stack # <<>> /\ Top.pc = "read"
  /\ Top.must \cap Entries(Top.ino) \subseteq Top.seen
  /\ Return
  /\ UNCHANGED <<treeVars, kernelVars, wd_list, started, exited, queued, boundVars>>

-----------------------------------------------------------------------------
(***************************************************************************)
(* monitor_handle.                                                         *)
(***************************************************************************)
\* Mutant: a new directory is watched, its files are not looked for.
ScanBoth_NoFiles(p) == stack' = <<Frame("add_monitor_dir", p, Root)>> \o stack

\* add_monitor_dir, then add_upload_file.
ScanBoth(p) ==
  stack' = <<Frame("add_monitor_dir", p, Root), Frame("add_upload_file", p, Root)>> \o stack

Start ==
  /\ ~started
  /\ started' = TRUE
  /\ ScanBoth(<<>>)
  /\ UNCHANGED <<treeVars, kernelVars, wd_list, exited, queued, boundVars>>

Loop == started /\ ~exited /\ stack = <<>> /\ events # <<>>

\* del_monitor_dir: the first node with this path and its watch.
del_monitor_dir(p) ==
  IF NodesOfPath(p) = {} THEN UNCHANGED <<wd_list, watch>>
  ELSE LET i == First(NodesOfPath(p)) IN
       /\ wd_list' = RemoveAt(wd_list, i)
       /\ watch' = [d \in Dirs |-> IF watch[d] = wd_list[i].wd THEN 0 ELSE watch[d]]

\* Mutant: IN_CREATE of a directory is not handled.
NewDirectory_Moved(e) == e.isdir /\ e.what = "moved"

NewDirectory(e) == e.isdir /\ e.what = "add"
OldDirectory(e) == e.isdir /\ e.what = "del"

\* Mutant: offset is not advanced before a continue.
NextEvent_Stuck == events' = IF Head(events).isdir THEN Tail(events) ELSE events

NextEvent == events' = Tail(events)

\* An event whose descriptor has no node names "(null)/<name>".
HandleEvent ==
  LET e == Head(events)
      known == NodesOfWd(e.wd) # {}
      p == IF known THEN Append(wd_list[First(NodesOfWd(e.wd))].path, e.name) ELSE <<>>
  IN
  /\ Loop
  /\ NextEvent
  /\ CASE known /\ FileAt(p) # {} /\ e.what = "add" ->
            queued' = queued \cup FileAt(p) /\ UNCHANGED <<stack, wd_list, watch, exited>>
       [] known /\ FileAt(p) = {} /\ NewDirectory(e) ->
            ScanBoth(p) /\ UNCHANGED <<queued, wd_list, watch, exited>>
       [] ~known /\ NewDirectory(e) ->
            Exit /\ UNCHANGED <<queued, stack, wd_list, watch>>
       [] known /\ OldDirectory(e) ->
            del_monitor_dir(p) /\ UNCHANGED <<queued, stack, exited>>
       [] OTHER -> UNCHANGED <<queued, stack, wd_list, watch, exited>>
  /\ UNCHANGED <<treeVars, nextwd, started, boundVars>>

monitor_handle ==
  \/ Start \/ AddWatch \/ FindWd \/ OpenDir \/ EndDir \/ HandleEvent
  \/ \E name \in DirNames \cup FileNames : ReadEntry(name)

Others ==
  \/ \E d, e \in Dirs, name \in NewNames : Mkdir(d, e, name)
  \/ \E d, e \in Dirs, name \in DirNames : RenameDir(d, e, name)
  \/ \E d \in Dirs, name \in FileNames : CreateFile(d, name)
  \/ \E e \in Dirs : Rmdir(e)
  \/ \E f \in files : ConsumeFile(f)

Next == monitor_handle \/ Others

Spec == Init /\ [][Next]_vars
FairSpec == Spec /\ WF_vars(monitor_handle)

-----------------------------------------------------------------------------
Events ==
  [wd : 1..MaxWd, what : {"add", "del"}, name : DirNames, isdir : {TRUE}]
    \cup [wd : 1..MaxWd, what : {"add"}, name : FileNames, isdir : {FALSE}]
Nodes == [wd : 1..MaxWd, path : Seq(DirNames)]
Frames ==
  [fn : {"add_monitor_dir", "add_upload_file"}, path : Seq(DirNames), pc : {"enter", "open", "read"},
   ino : Dirs, seen : SUBSET (DirNames \cup FileNames), must : SUBSET (DirNames \cup FileNames)]

\* Type invariant.  A path in wd_list may be longer than those in the tree: the
\* inode that the descriptor belongs to may have moved up since.
TypeOK ==
  /\ at \in [Dirs -> Paths \cup {NoPath}]
  /\ files \in SUBSET (Dirs \X FileNames)
  /\ watch \in [Dirs -> 0..MaxWd]
  /\ nextwd \in 1..(MaxWd + 1)
  /\ events \in Seq(Events) /\ wd_list \in Seq(Nodes) /\ stack \in Seq(Frames)
  /\ started \in BOOLEAN /\ exited \in BOOLEAN
  /\ queued \subseteq Dirs \X FileNames
  /\ renamed \in Nat /\ removed \in Nat /\ renamed + removed <= MaxChanges /\ early \in BOOLEAN

\* The monitor thread has dealt with everything the kernel told it.
Quiet == started /\ ~exited /\ stack = <<>> /\ events = <<>>

\* Nobody has moved a directory inside the tree, or made one anew before the
\* event of its removal was handled: a late event removes the descriptor of what
\* is at the path now (README, section 8).
Settled == Quiet /\ renamed = 0 /\ ~early

(***************************************************************************)
(* Every marker file below monitor-dir was queued once the events are      *)
(* handled, also a file that was put into a directory before the daemon    *)
(* had added a watch for it ("Need to add scan files", monitor.c:776).     *)
(***************************************************************************)
EveryFileQueued == Settled => files \subseteq queued

(***************************************************************************)
(* Every directory below monitor-dir is watched once the events are        *)
(* handled, and its descriptor resolves to the path it is at; the state    *)
(* keeps its types over any change of the tree, a rename included.         *)
(***************************************************************************)
EveryDirWatched ==
  /\ TypeOK
  /\ Settled => \A d \in Dirs : Exists(d) =>
       /\ watch[d] # 0
       /\ NodesOfWd(watch[d]) # {}
       /\ wd_list[First(NodesOfWd(watch[d]))].path = at[d]

(***************************************************************************)
(* add_upload_file enters no directory that add_monitor_dir has not        *)
(* entered into wd_list; the process exits when it does.  The code may     *)
(* (README, section 8).                                                    *)
(***************************************************************************)
ScanFindsWatch ==
  AtStep("add_upload_file", "enter") => NodesOfPath(Top.path) # {}

(***************************************************************************)
(* When others stop changing the tree, the recursion ends and the events   *)
(* run out: the monitor thread's own watches cause no further work.        *)
(***************************************************************************)
BecomesQuiet == <>[][monitor_handle]_vars => []<>(Quiet \/ exited)
=============================================================================
