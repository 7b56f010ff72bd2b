-------------------------------- MODULE Startup --------------------------------
(***************************************************************************)
(* The life of the process around its loops: main (main.c) reads the       *)
(* settings of servers and monitor groups, starts the threads, waits for   *)
(* them after SIGINT and releases what was allocated.  The texts with the  *)
(* servers of a group are read by ServerGroups.                            *)
(*                                                                         *)
(* A configuration is what the loader left in the tree.  A setting is      *)
(* "ok", "missing", "null" (a mapping was written where a value belongs),  *)
(* "bad" (another text, which a reader that looks at it refuses) or        *)
(* "empty".  Lists count from 1.                                           *)
(***************************************************************************)
EXTENDS ServerGroups

CONSTANTS
  Cases,    \* pairs of a configuration and of what fails for want of resources
  NoValue   \* the NULL value of a node of the tree

\* What the readers look up in the tree, of a server and of a monitor group; the
\* acts that get_type_process and get_end_process_id know.
Setting == {"ok", "missing", "null", "bad", "empty"}
Name == {NoValue} \cup STRING
ServerConf ==
  [name : {NoValue} \cup Servers, threads : Nat, analyzelib : Setting, addr : Setting, username : Setting, passwd : Setting,
   finish_flag : Setting, file_suffix : Setting, thread_num : Setting, attempts : Setting, fsleep_time : Setting]
Faulty == Setting \ {"ok"}
Written == {"ok", "missing", "null"}
get_type_process == {"keep", "replace", "add", "cut"}
get_end_process_id == {"same-move", "keep", "delete", "same-move-time", "diff-move", "diff-move-time"}
GroupConf ==
  [name : Name, enable : Faulty \cup {"yes", "no"}, monitor_dir : Setting, monitor_file_type : Setting,
   find_act : Faulty \cup get_type_process, upload_file_type : Setting,
   finish_act : Faulty \cup get_end_process_id, move_to : Setting,
   servers_primer : Written, primer : Seq(Tokens), servers_backup : Written, back : Seq(Tokens)]
ConfOK(c) == c.servers \in Seq(ServerConf) /\ c.groups \in Seq(GroupConf) /\ c.values \in Seq(Name)

ASSUME CasesOK == \A c \in Cases : ConfOK(c[1])

VARIABLES
  conf,       \* the configuration, see MCStartup
  step,       \* where main is
  k,          \* the child of the section, or the group, at hand
  num,        \* g_server_num and g_monitorgroup_num, by list
  heap,       \* allocated and not freed: lists and arrays of thread handles
  freed,      \* history: how often each was freed
  lists,      \* server_group_list of each monitor group that was read
  citations,  \* names of the servers whose threads were started (make_citations)
  thread,     \* the threads there are or were: "runs", "ended" or "joined"
  joins,      \* the calls of pthread_join to come
  handler,    \* signal_init was called
  stop        \* the run signals that are cleared: "monitor", "upload"

startVars == <<conf, step, k, num, heap, freed, lists, citations, thread, joins, handler, stop>>
readerVars == <<vars, environment>>
allVars == <<startVars, readerVars>>

StartInit ==
  /\ \E c \in Cases : conf = c[1] /\ fault = c[2]
  /\ known = {} /\ Init
  /\ step = "load" /\ k = 1
  /\ num = [servers |-> 0, groups |-> 0]
  /\ heap = {} /\ freed = [o \in {} |-> 0]
  /\ lists = <<>> /\ citations = {} /\ thread = [t \in {} |-> "runs"] /\ joins = <<>>
  /\ handler = FALSE /\ stop = {}

-----------------------------------------------------------------------------
\* free(o); of what is not allocated it is counted all the same.
Frees(objects) == [o \in DOMAIN freed \cup objects |->
                     (IF o \in DOMAIN freed THEN freed[o] ELSE 0) + IF o \in objects THEN 1 ELSE 0]
Handles == {o \in heap : o[1] = "pid"}

\* Mutant: the count stays.
servers_exit_KeepsCount ==
  IF num.servers > 0 /\ <<"g_server">> \notin heap
  THEN step' = "crash" /\ UNCHANGED <<heap, freed, num>>
  ELSE LET gone == Handles \cup (heap \cap {<<"g_server">>}) IN
       heap' = heap \ gone /\ freed' = Frees(gone) /\ UNCHANGED num

(***************************************************************************)
(* servers_exit: the handles of all servers, then g_server.  It is called  *)
(* with a count and no list when that could not be allocated: NULL is read.*)
(***************************************************************************)
servers_exit ==
  IF num.servers > 0 /\ <<"g_server">> \notin heap
  THEN step' = "crash" /\ UNCHANGED <<heap, freed, num>>
  ELSE LET gone == Handles \cup (heap \cap {<<"g_server">>}) IN
       /\ heap' = heap \ gone /\ freed' = Frees(gone)
       /\ num' = [num EXCEPT !.servers = 0]

Continue(next) == step' = next /\ UNCHANGED <<heap, freed, num>>
Fail == Continue("init_fail")

(***************************************************************************)
(* global_cfg_init and getDBConfig.  Without log-dir-path the loggers are  *)
(* used before logging_init: their lock is not initialised and their file  *)
(* would lie in "/".                                                       *)
(***************************************************************************)
LoadFile ==
  /\ step = "load"
  /\ step' = IF conf.file = "ok" THEN "global" ELSE "exit"
  /\ UNCHANGED <<conf, k, num, heap, freed, lists, citations, thread, joins, handler, stop, readerVars>>

global_cfg_init ==
  /\ step = "global"
  /\ \/ conf.global = "ok" /\ step' = "db"
     \/ conf.global = "bad" /\ step' = "init_fail"
     \/ conf.global = "unknown" /\ step' = "exit"
     \/ conf.global \in {"absent", "null"} /\ step' = "crash"
     \/ conf.global = "missing" /\ step' \in {"hang", "exit", "init_fail", "db"}
  /\ UNCHANGED <<conf, k, num, heap, freed, lists, citations, thread, joins, handler, stop, readerVars>>

getDBConfig ==
  /\ step = "db"
  /\ \/ conf.db = "ok" /\ step' = "servers"
     \/ conf.db = "missing" /\ step' = "init_fail"
     \/ conf.db = "absent" /\ step' = "crash"
  /\ UNCHANGED <<conf, k, num, heap, freed, lists, citations, thread, joins, handler, stop, readerVars>>

-----------------------------------------------------------------------------
(***************************************************************************)
(* ConfNodeNameCheck counts the values at depth two of the whole tree.     *)
(***************************************************************************)
Depth2 == [j \in DOMAIN conf.servers |-> conf.servers[j].name]
          \o [g \in DOMAIN conf.groups |-> conf.groups[g].name] \o conf.values

\* strcmp meets NULL before a second value that is equal.
ConfNodeNameCheck(name) ==
  LET vals == Depth2
      equal == {n \in DOMAIN vals : vals[n] = name}
      upto == {n \in DOMAIN vals : \A e, f \in equal : e < f => n <= f}
  IN IF name = NoValue \/ \E n \in upto : vals[n] = NoValue THEN "crash"
     ELSE IF Cardinality(equal) >= 2 THEN "fail" ELSE "ok"

\* The first of a list of verdicts that is not "ok".
Verdict(verdicts) ==
  LET other == {n \in DOMAIN verdicts : verdicts[n] # "ok"} IN
  IF other = {} THEN "ok" ELSE verdicts[CHOOSE n \in other : \A m \in other : n <= m]

\* What the reader makes of a setting: of a text that must be there; of one that
\* is looked into (a ':' in analyzelib, 1 to 15 for thread-num); of a number that
\* may be missing, as atoi reads it; of the name of an act, which NULL is not; and
\* of enable.
Text(how) == CASE how = "null" -> "crash" [] how = "missing" -> "fail" [] OTHER -> "ok"
Checked(how) == IF how \in {"bad", "empty"} THEN "fail" ELSE Text(how)
Number(how) == IF how = "null" THEN "crash" ELSE "ok"
Act(how, known_acts) == IF how \in known_acts THEN "ok" ELSE "fail"
Enable(how) == CASE how = "null" -> "crash" [] how \in {"bad", "empty"} -> "fail" [] OTHER -> "ok"

\* get_server_info, of one server; "debug" is only looked for.
get_server_info(j) ==
  LET s == conf.servers[j] IN
  Verdict(<<ConfNodeNameCheck(s.name), Checked(s.analyzelib), Text(s.addr), Text(s.username), Text(s.passwd),
            Text(s.finish_flag), Text(s.file_suffix), Checked(s.thread_num), Number(s.attempts), Number(s.fsleep_time),
            IF fault = "pid" THEN "fail" ELSE "ok">>)

Moves(g) == conf.groups[g].finish_act \notin {"delete", "keep"}
KeepKeep(g) == conf.groups[g].find_act = "keep" /\ conf.groups[g].finish_act = "keep"
MoveTo(g) ==
  LET m == conf.groups[g].move_to IN
  IF m = "missing" \/ (m = "empty" /\ Moves(g)) \/ KeepKeep(g) THEN "fail"
  ELSE IF m = "null" THEN "crash" ELSE "ok"

\* get_monitor_group_info, of one group, up to the texts with its servers.
get_monitor_group_info(g) ==
  LET m == conf.groups[g] IN
  Verdict(<<ConfNodeNameCheck(m.name), Enable(m.enable), Text(m.monitor_dir), Text(m.monitor_file_type),
            Act(m.find_act, get_type_process), Text(m.upload_file_type),
            Act(m.finish_act, get_end_process_id), MoveTo(g),
            IF m.servers_primer \in {"missing", "null"} \/ m.servers_backup = "missing" THEN "fail" ELSE "ok">>)

\* TAILQ_FOREACH over the children of a section that is not there reads NULL.
servers_init ==
  /\ step = "servers"
  /\ IF ~conf.hasServers THEN Continue("crash")
     ELSE IF conf.servers = <<>> THEN Fail
     ELSE /\ num' = [num EXCEPT !.servers = Len(conf.servers)]
          /\ IF fault = "g_server" THEN step' = "init_fail" /\ UNCHANGED <<heap, freed>>
             ELSE step' = "server" /\ heap' = heap \cup {<<"g_server">>} /\ UNCHANGED freed
  /\ k' = 1
  /\ UNCHANGED <<conf, lists, citations, thread, joins, handler, stop, readerVars>>

ReadServer ==
  LET verdict == get_server_info(k) IN
  /\ step = "server"
  /\ \/ /\ verdict = "ok"
        /\ heap' = heap \cup {<<"pid", k>>} /\ known' = known \cup {conf.servers[k].name}
        /\ step' = IF k = num.servers THEN "groups" ELSE "server"
        /\ k' = IF k = num.servers THEN 1 ELSE k + 1
        /\ UNCHANGED <<freed, num>>
     \/ verdict = "fail" /\ step' = "servers_exit" /\ UNCHANGED <<heap, freed, num, known, k>>
     \/ verdict = "crash" /\ Continue("crash") /\ UNCHANGED <<known, k>>
  /\ UNCHANGED <<conf, lists, citations, thread, joins, handler, stop, vars, fault>>

\* get_server_info failed: servers_init releases what it has.
ServersInitFails ==
  /\ step = "servers_exit"
  /\ step' = "init_fail" /\ servers_exit
  /\ UNCHANGED <<conf, k, lists, citations, thread, joins, handler, stop, readerVars>>

monitor_group_init ==
  /\ step = "groups"
  /\ IF ~conf.hasGroups THEN Continue("crash")
     ELSE IF conf.groups = <<>> THEN Fail
     ELSE /\ num' = [num EXCEPT !.groups = Len(conf.groups)]
          /\ IF fault = "g_monitorgroup" THEN step' = "init_fail" /\ UNCHANGED <<heap, freed>>
             ELSE step' = "group" /\ heap' = heap \cup {<<"g_monitorgroup">>} /\ UNCHANGED freed
  /\ UNCHANGED <<conf, k, lists, citations, thread, joins, handler, stop, readerVars>>

\* A servers-backup that is NULL splits like an empty one; one that is missing is
\* refused.
ReadGroup ==
  LET verdict == get_monitor_group_info(k)
      m == conf.groups[k]
  IN
  /\ step = "group" /\ pc = "idle"
  /\ \/ verdict = "ok" /\ Continue("text") /\ Call(m.primer, IF m.servers_backup = "null" THEN <<>> ELSE m.back)
     \/ verdict = "fail" /\ Continue("group_exit") /\ UNCHANGED vars
     \/ verdict = "crash" /\ Continue("crash") /\ UNCHANGED vars
  /\ UNCHANGED <<conf, k, lists, citations, thread, joins, handler, stop, environment>>

ReadText ==
  /\ step = "text"
  /\ get_upload_group_server_group_list
  /\ UNCHANGED <<startVars, environment>>

TextRead ==
  /\ step = "text"
  /\ \/ /\ pc = "done"
        /\ lists' = Append(lists, head)
        /\ step' = IF k = num.groups THEN "show" ELSE "group"
        /\ k' = IF k = num.groups THEN 1 ELSE k + 1
        /\ Taken
     \/ pc = "error" /\ step' = "group_exit" /\ UNCHANGED <<lists, k>> /\ Taken
     \/ pc = "crash" /\ step' = "crash" /\ UNCHANGED <<lists, k, vars>>
  /\ UNCHANGED <<conf, num, heap, freed, citations, thread, joins, handler, stop, environment>>

\* The lists are logged: this reads rs_back up to rs_count_back.
Overrun == \E g \in DOMAIN lists : \E n \in DOMAIN lists[g] : Len(lists[g][n].back) > lists[g][n].slots

show_upload_server_list ==
  /\ step = "show"
  /\ \/ step' = "affinity"
     \/ Overrun /\ step' = "crash"
  /\ UNCHANGED <<conf, k, num, heap, freed, lists, citations, thread, joins, handler, stop, readerVars>>

-----------------------------------------------------------------------------
\* The list of groups, if there is one; server_group_list is never freed.
FreeGroups(objects) ==
  /\ heap' = heap \ objects /\ freed' = Frees(objects)
  /\ num' = [num EXCEPT !.groups = IF objects = {} THEN @ ELSE 0]
monitor_group_exit == FreeGroups(heap \cap {<<"g_monitorgroup">>})

MonitorGroupInitFails ==
  /\ step = "group_exit"
  /\ step' = "init_fail" /\ monitor_group_exit
  /\ UNCHANGED <<conf, k, lists, citations, thread, joins, handler, stop, readerVars>>

SetAffinity ==
  /\ step = "affinity"
  /\ step' = IF conf.affinity = "bad" THEN "init_fail" ELSE "start"
  /\ handler' = (conf.affinity # "bad")
  /\ UNCHANGED <<conf, k, num, heap, freed, lists, citations, thread, joins, stop, readerVars>>

-----------------------------------------------------------------------------
IsEnabled(g) == conf.groups[g].enable # "no"
ThreadsOf(s) == {t \in {<<"upload", s, n>> : n \in 1..2} :
                   \E j \in DOMAIN conf.servers : conf.servers[j].name = s /\ t[3] <= conf.servers[j].threads}
\* The servers of a server group, its primaries first.
Names(h) == h.prime \o h.back
ServersOf(list) == (UNION {{Names(list[n])[j] : j \in DOMAIN Names(list[n])} : n \in DOMAIN list}) \ {NoServer}

\* Mutant: every mention of a server starts its threads again.
NewServers_Again(g) == ServersOf(lists[g])

\* make_citations: the servers whose threads are started for group g.
NewServers(g) == ServersOf(lists[g]) \ citations

(***************************************************************************)
(* monitor_handle_pthread_start, one group a step.  The result of          *)
(* pthread_create is not looked at: with fault "create" any of the calls   *)
(* may fail.  Started again, the handles of the first threads are lost,    *)
(* which is how a thread is forgotten.                                     *)
(***************************************************************************)
StartGroup ==
  LET fresh == {<<"monitor", k>>, <<"sche", k>>} \cup UNION {ThreadsOf(s) : s \in NewServers(k)}
      lost == {<<"lost">> \o t : t \in fresh \cap DOMAIN thread}
  IN
  /\ step = "start" /\ k <= num.groups
  /\ IF IsEnabled(k)
     THEN /\ \E made \in SUBSET fresh :
               /\ fault # "create" => made = fresh
               /\ thread' = [t \in DOMAIN thread \cup made \cup lost |-> IF t \in made \cup lost THEN "runs" ELSE thread[t]]
          /\ citations' = citations \cup ServersOf(lists[k])
     ELSE UNCHANGED <<thread, citations>>
  /\ k' = k + 1
  /\ UNCHANGED <<conf, step, num, heap, freed, lists, joins, handler, stop, readerVars>>

\* server_upload_handle_pthread_end: every mention of a server joins its threads.
JoinServers(names) ==
  FlattenSeq([n \in DOMAIN names |-> IF names[n] = NoServer THEN <<>> ELSE SetToSeq(ThreadsOf(names[n]))])

\* Mutant: threads of backups are not waited for.
JoinsOf_Primes(g) ==
  <<<<"monitor", g>>, <<"sche", g>>>>
  \o FlattenSeq([n \in DOMAIN lists[g] |-> JoinServers(lists[g][n].prime)])

JoinsOf(g) ==
  <<<<"monitor", g>>, <<"sche", g>>>>
  \o FlattenSeq([n \in DOMAIN lists[g] |-> JoinServers(Names(lists[g][n]))])

\* exit(2) when no group is enabled, else the joins of monitor_handle_pthread_end.
StartDone ==
  /\ step = "start" /\ k > num.groups
  /\ IF \A g \in DOMAIN lists : ~IsEnabled(g)
     THEN step' = "exit" /\ UNCHANGED joins
     ELSE /\ step' = "join"
          /\ joins' = FlattenSeq([g \in DOMAIN lists |-> IF IsEnabled(g) THEN JoinsOf(g) ELSE <<>>])
  /\ UNCHANGED <<conf, k, num, heap, freed, lists, citations, thread, handler, stop, readerVars>>

(***************************************************************************)
(* pthread_join.  A handle that was joined before, or was never filled, is *)
(* undefined: the call returns an error or reads what is not there.        *)
(***************************************************************************)
Join ==
  LET t == Head(joins)
      valid == {u \in DOMAIN thread : thread[u] # "joined"}
  IN
  /\ step = "join" /\ joins # <<>>
  /\ \/ /\ t \in valid /\ thread[t] = "ended"
        /\ thread' = [thread EXCEPT ![t] = "joined"] /\ joins' = Tail(joins) /\ UNCHANGED step
     \/ /\ t \notin valid
        /\ \/ joins' = Tail(joins) /\ UNCHANGED step
           \/ step' = "crash" /\ UNCHANGED joins
        /\ UNCHANGED thread
  /\ UNCHANGED <<conf, k, num, heap, freed, lists, citations, handler, stop, readerVars>>

Joined ==
  /\ step = "join" /\ joins = <<>>
  /\ step' = "init_fail"
  /\ UNCHANGED <<conf, k, num, heap, freed, lists, citations, thread, joins, handler, stop, readerVars>>

\* newiup_exit.
ExitServers ==
  /\ step = "init_fail"
  /\ servers_exit
  /\ (num.servers > 0 /\ <<"g_server">> \notin heap) \/ step' = "exit_groups"
  /\ UNCHANGED <<conf, k, lists, citations, thread, joins, handler, stop, readerVars>>

ExitGroups ==
  /\ step = "exit_groups"
  /\ monitor_group_exit /\ step' = "end"
  /\ UNCHANGED <<conf, k, lists, citations, thread, joins, handler, stop, readerVars>>

Main == \/ LoadFile \/ global_cfg_init \/ getDBConfig
        \/ servers_init \/ ReadServer \/ ServersInitFails
        \/ monitor_group_init \/ ReadGroup \/ ReadText \/ TextRead \/ show_upload_server_list \/ MonitorGroupInitFails
        \/ SetAffinity \/ StartGroup \/ StartDone \/ Join \/ Joined
        \/ ExitServers \/ ExitGroups

\* Mutant: the upload threads are not told.
Cleared_Monitor == {"monitor"}

Cleared == {"monitor", "upload"}

\* SIGINT, once the handler is installed.
signal_func ==
  /\ handler /\ stop = {} /\ step \in {"start", "join"}
  /\ stop' = Cleared
  /\ UNCHANGED <<conf, step, k, num, heap, freed, lists, citations, thread, joins, handler, readerVars>>

\* The loops of all threads end when they see the cleared signal (Dispatch, WatchTree).
ThreadEnds(t) ==
  /\ t \in DOMAIN thread /\ thread[t] = "runs"
  /\ (IF t[1] = "upload" THEN "upload" ELSE "monitor") \in stop
  /\ step \notin {"end", "exit", "crash"}
  /\ thread' = [thread EXCEPT ![t] = "ended"]
  /\ UNCHANGED <<conf, step, k, num, heap, freed, lists, citations, joins, handler, stop, readerVars>>

StartNext == Main \/ signal_func \/ \E t \in DOMAIN thread : ThreadEnds(t)

\* main runs, and so do the threads it waits for.
StartSpec == StartInit /\ [][StartNext]_allVars /\ WF_allVars(Main)
             /\ WF_allVars(\E t \in DOMAIN thread : ThreadEnds(t))

-----------------------------------------------------------------------------
Over == step \in {"end", "exit", "crash", "hang"}

(***************************************************************************)
(* Whatever was allocated before main failed, or before it stopped, is     *)
(* freed by the time it returns, by servers_init or monitor_group_init or  *)
(* newiup_exit, and by one of them only; and never before the threads that *)
(* use it have come to their end (servers.c:259, 266; monitor.c:456, 463). *)
(***************************************************************************)
ReleasedOnce ==
  /\ step = "end" => heap = {} /\ num.servers = 0
  /\ \A o \in DOMAIN freed : freed[o] <= 1
  /\ DOMAIN freed # {} => \A t \in DOMAIN thread : thread[t] # "runs"

(***************************************************************************)
(* The process dies in main only for one of these reasons: a section is    *)
(* missing, a mapping stands where a value belongs, servers-backup is not  *)
(* of the form the reader's indices need or names a server that is not     *)
(* known (the message about it reads NULL, monitor.c:152), one server is   *)
(* named twice in the groups that are started (its threads are joined      *)
(* twice, monitor.c:1166), a thread could not be created, or g_server or   *)
(* rs_back not be allocated.                                               *)
(* It waits for ever only when there is no log-dir-path.                   *)
(***************************************************************************)
SectionMissing == conf.global = "absent" \/ conf.db = "absent" \/ ~conf.hasServers \/ ~conf.hasGroups
MappingForValue ==
  \/ conf.global = "null" \/ Contains(conf.values, NoValue)
  \/ \E r \in ToSet(conf.servers) \cup ToSet(conf.groups) :
       r.name = NoValue \/ \E f \in DOMAIN r \ {"threads", "primer", "back", "servers_primer", "servers_backup"} : r[f] = "null"
ServerTwice ==
  \E g1, g2 \in {g \in DOMAIN lists : IsEnabled(g)} :
    \E n1 \in DOMAIN lists[g1], n2 \in DOMAIN lists[g2] :
      \E j1 \in DOMAIN Names(lists[g1][n1]), j2 \in DOMAIN Names(lists[g2][n2]) :
        /\ <<g1, n1, j1>> # <<g2, n2, j2>>
        /\ Names(lists[g1][n1])[j1] = Names(lists[g2][n2])[j2]
        /\ Names(lists[g1][n1])[j1] # NoServer

CrashesOnlyWhere ==
  /\ step = "crash" => \/ SectionMissing \/ MappingForValue
                       \/ wild \/ Overrun \/ ServerTwice
                       \/ pc = "crash" /\ UnknownBackup
                       \/ fault \in {"create", "g_server", "rs_back"}
  /\ step = "hang" => conf.global = "missing"

(***************************************************************************)
(* main comes to an end: at once when it cannot start, and after SIGINT    *)
(* otherwise - no handle that was never filled, and no server without a    *)
(* thread, makes it wait for ever.                                         *)
(***************************************************************************)
StopEnds ==
  /\ <>(Over \/ step = "join")
  /\ stop # {} ~> Over
=============================================================================
