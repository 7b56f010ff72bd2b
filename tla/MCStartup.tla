-------------------------------- MODULE MCStartup --------------------------------
(***************************************************************************)
(* Configurations for Startup: a complete one and those that differ from   *)
(* it in one setting, several groups on shared servers, failures of memory *)
(* and of threads, and texts of up to two server groups of up to two       *)
(* servers, with an unknown server (two names in one field), empty fields  *)
(* and "-".                                                                *)
(***************************************************************************)
EXTENDS Startup

MCServers == {"A", "B"}

Server(name, threads) ==
  [name |-> name, threads |-> threads, analyzelib |-> "ok", addr |-> "ok", username |-> "ok", passwd |-> "ok",
   finish_flag |-> "ok", file_suffix |-> "ok", thread_num |-> "ok", attempts |-> "missing", fsleep_time |-> "ok"]
Group(name, p, b) ==
  [name |-> name, enable |-> "yes", monitor_dir |-> "ok", monitor_file_type |-> "ok", find_act |-> "cut",
   upload_file_type |-> "ok", finish_act |-> "same-move", move_to |-> "ok",
   servers_primer |-> "ok", primer |-> p, servers_backup |-> "ok", back |-> b]

Complete ==
  [file |-> "ok", global |-> "ok", db |-> "ok", hasServers |-> TRUE, hasGroups |-> TRUE, affinity |-> "ok",
   servers |-> <<Server("A", 1), Server("B", 2)>>,
   groups |-> <<Group("M", <<"A">>, <<"B">>)>>,
   values |-> <<"10000">>]

\* One thing written differently.
Sections ==
  {[Complete EXCEPT !.file = "bad"], [Complete EXCEPT !.hasServers = FALSE], [Complete EXCEPT !.hasGroups = FALSE],
   [Complete EXCEPT !.servers = <<>>], [Complete EXCEPT !.groups = <<>>], [Complete EXCEPT !.affinity = "bad"],
   [Complete EXCEPT !.values = <<"A">>], [Complete EXCEPT !.values = <<"x", NoValue>>],
   [Complete EXCEPT !.servers[2].name = "A"], [Complete EXCEPT !.servers[2].name = NoValue],
   [Complete EXCEPT !.groups[1].name = "B"]}
  \cup {[Complete EXCEPT !.groups[1].servers_primer = how] : how \in {"missing", "null"}}
  \cup {[Complete EXCEPT !.groups[1].servers_backup = how] : how \in {"missing", "null"}}
  \cup {[Complete EXCEPT !.global = how] : how \in {"bad", "unknown", "absent", "null", "missing"}}
  \cup {[Complete EXCEPT !.db = how] : how \in {"missing", "absent"}}
ServerSettings == DOMAIN Server("A", 1) \ {"name", "threads"}
GroupSettings == {"enable", "monitor_dir", "monitor_file_type", "find_act", "upload_file_type", "finish_act", "move_to"}
OneSetting ==
  {[Complete EXCEPT !.servers[2][f] = how] : f \in ServerSettings, how \in {"missing", "null", "bad", "empty"}}
  \cup {[Complete EXCEPT !.groups[1][f] = how] : f \in GroupSettings, how \in {"missing", "null", "bad", "empty"}}
  \cup {[Complete EXCEPT !.groups[1].finish_act = act, !.groups[1].find_act = "keep", !.groups[1].move_to = to] :
          act \in get_end_process_id, to \in {"empty", "null", "ok"}}
  \cup {[Complete EXCEPT !.groups[1].find_act = act] : act \in get_type_process}

\* Several groups: with a server each, sharing one, some or all disabled.
TwoGroups(p, b, q) == [Complete EXCEPT !.groups = <<Group("M", p, b), Group("N", q, <<>>)>>]
Several ==
  {TwoGroups(<<"A">>, <<>>, <<"B">>), TwoGroups(<<"A">>, <<"B">>, <<"A">>), TwoGroups(<<"A">>, <<"-">>, <<"B", "|", "B">>),
   TwoGroups(<<"A">>, <<"A", "|", "B">>, <<"B">>), TwoGroups(<<"A">>, <<>>, <<>>),
   TwoGroups(<<"A">>, <<"A", ",", "B">>, <<"B">>), TwoGroups(<<"A", ",", "B">>, <<"A">>, <<"B">>)}
Disabled ==
  {[c EXCEPT !.groups[1].enable = "no"] : c \in Several}
  \cup {[Complete EXCEPT !.groups[1].enable = "no"]}

Faults == {"g_server", "pid", "g_monitorgroup", "head", "rs_prime", "rs_back", "create"}

GroupsOver(fields) == fields \cup {f \o <<",">> \o g : f, g \in fields}
TextsOver(fields) ==
  GroupsOver(fields) \cup {f \o <<"|">> \o g : f, g \in GroupsOver(fields)}
Texts ==
  {[Complete EXCEPT !.groups[1].primer = p, !.groups[1].back = b, !.groups[1].enable = "no"] :
     p \in TextsOver({<<"A">>}) \cup TextsOver({<<"B">>}) \cup GroupsOver({<<"A">>, <<"A", "B">>, <<>>}),
     b \in TextsOver({<<"A">>, <<"B">>}) \cup TextsOver({<<"A">>, <<"-">>}) \cup GroupsOver({<<"B">>, <<"A", "B">>, <<>>})}

MCCases ==
  ((Sections \cup OneSetting \cup Several \cup Disabled \cup Texts) \X {"none"})
  \cup {<<c, f>> : c \in {Complete, TwoGroups(<<"A">>, <<>>, <<"B">>)}, f \in Faults}
=============================================================================
