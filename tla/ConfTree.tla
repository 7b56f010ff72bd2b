------------------------------ MODULE ConfTree ------------------------------
(***************************************************************************)
(* The configuration: the tree of ConfNode (utils/conf.c), the loader that *)
(* fills it from the events of the YAML parser (utils/conf-yaml-loader.c), *)
(* and the first readers of it at start up (main.c: getDBConfig and the    *)
(* check of the names of servers and monitor groups).                      *)
(*                                                                         *)
(* A key is a string and a path the sequence of keys that strtok_r cuts    *)
(* out of "a.b.c".  The parser (libyaml) is external: a file is the        *)
(* sequence of the events it delivers.  The loader is one recursive        *)
(* function, so its calls are a stack of frames, one event a step.         *)
(***************************************************************************)
EXTENDS Naturals, Sequences, FiniteSets, Functions, SequencesExt, TLC

CONSTANTS
  Paths,        \* the paths given to ConfSet
  RemovePaths,  \* the paths given to ConfRemove
  RemoveLoaded, \* may ConfRemove be called for a node that a file made?
  Vals,         \* the values given to ConfSet
  Docs,         \* the files: [events |-> parser events, means |-> <<path, value>> pairs in file order]
  Dashed,       \* function: a key with '_' |-> the key with '-' in its place
  MaxNodes,     \* bound: nodes allocated in a behaviour
  MaxCalls,     \* bound: calls of ConfSet, ConfRemove, ConfCreateContextBackup
  MaxLoads,     \* bound: files loaded
  NoNode, NoVal \* NULL

ASSUME CallAssumption ==
  /\ RemoveLoaded \in BOOLEAN
  /\ Paths \subseteq Seq(STRING) /\ RemovePaths \subseteq Seq(STRING)
ASSUME NullAssumption == NoNode \notin 1..MaxNodes /\ NoVal \notin Vals
ASSUME BoundsAssumption == MaxNodes \in Nat \ {0} /\ MaxCalls \in Nat /\ MaxLoads \in Nat

VARIABLES
  tree,     \* the allocated nodes: id |-> ConfNode
  next,     \* the id the next ConfNodeNew returns
  root, root_backup,
  file,     \* the file being (or last) loaded
  input,    \* events the parser has not delivered yet
  stack,    \* frames of ConfYamlParse
  load,     \* "none", "busy", "ok" (0) or "bad" (-1): result of ConfYamlLoadFile
  last,     \* the last call of the API and what it returned (not in the code)
  calls, loads,   \* counters for the bounds
  db,       \* getDBConfig: its result ("none" before the call) and the values of the fields
  named     \* sections whose names were checked and accepted, or "bad"

vars == <<tree, next, root, root_backup, file, input, stack, load, last, calls, loads, db, named>>
loader == <<file, input, stack, load, loads>>
reader == <<db, named>>

Ids   == 1..MaxNodes
Keys  == {"KEY", "VAL"}
Nothing == [op |-> "none"]
Live  == DOMAIN tree

ConfNodeNew(name, val, parent, isseq) ==
  [name |-> name, val |-> val, allow_override |-> TRUE, parent |-> parent, head |-> <<>>, is_seq |-> isseq]

\* The memory t with the nodes that were made.
Allocate(made, t) ==
  [n \in DOMAIN made \cup DOMAIN t |-> IF n \in DOMAIN made THEN made[n] ELSE t[n]]

Init ==
  /\ tree = [n \in {1} |-> ConfNodeNew("", NoVal, NoNode, FALSE)]     \* main: ConfInit
  /\ next = 2 /\ root = 1 /\ root_backup = NoNode
  /\ file = Nothing /\ input = <<>> /\ stack = <<>> /\ load = "none"
  /\ last = Nothing /\ calls = 0 /\ loads = 0
  /\ db = [res |-> "none", val |-> <<>>] /\ named = {}

----------------------------------------------------------------------------
(* Looking up *)

\* The first child with that name: a later one of the same name is never found.
ConfNodeLookupChild(n, name) ==
  LET at == SelectInSeq(tree[n].head, LAMBDA c : tree[c].name = name)
  IN  IF at = 0 THEN NoNode ELSE tree[n].head[at]

\* The node found for every prefix of a path.
Walk(path) ==
  LET w[i \in 0..Len(path)] ==
        IF i = 0 THEN root
        ELSE LET above == w[i - 1]
             IN  IF above = NoNode THEN NoNode ELSE ConfNodeLookupChild(above, path[i])
  IN  w

ConfGetNode(path) == Walk(path)[Len(path)]

\* The value of a child, or what the caller's variable held before when there is none.
ConfGetChildValue(n, name, vptr) ==
  IF ConfNodeLookupChild(n, name) = NoNode THEN vptr ELSE tree[ConfNodeLookupChild(n, name)].val

ConfGet(path) == IF ConfGetNode(path) = NoNode THEN NoVal ELSE tree[ConfGetNode(path)].val

\* A node and everything below it.
Below(n) ==
  LET b[k \in 0..Cardinality(Live)] ==
        IF k = 0 THEN {n}
        ELSE LET above == b[k - 1]
             IN  above \cup UNION {Range(tree[m].head) : m \in above \cap Live}
  IN  b[Cardinality(Live)]

\* The tree without a node and what is below it, which is freed.
ConfNodeFree(t, n) == Restrict(t, DOMAIN t \ Below(n))

----------------------------------------------------------------------------
(* The API *)

Calm == stack = <<>> /\ root # NoNode /\ db.res = "none" /\ named = {}    \* one thread, before the configuration is read

Called(op, path, val, ret, node) ==
  last' = [op |-> op, path |-> path, val |-> val, ret |-> ret, node |-> node]

\* ConfSet of a path that exists: refused when an earlier call made it final.
SetExisting(path, val, allow) ==
  LET n == ConfGetNode(path) IN
  /\ n # NoNode
  /\ IF tree[n].allow_override
     THEN /\ tree' = [tree EXCEPT ![n].val = val, ![n].allow_override = allow]
          /\ Called("set", path, val, 1, n)
     ELSE /\ UNCHANGED tree
          /\ Called("set", path, val, 0, n)
  /\ UNCHANGED next

\* Mutant: the first node that is made gets the value.
SetMissing_First(path, val, allow) ==
  LET found == CHOOSE i \in 0..Len(path) - 1 :
                 Walk(path)[i] # NoNode /\ Walk(path)[i + 1] = NoNode
      id(i) == IF i = found THEN Walk(path)[found] ELSE next + i - found - 1
      new   == Len(path) - found
      made  == [n \in next..next + new - 1 |->
                  LET i == n - next + found + 1
                      m == ConfNodeNew(path[i], NoVal, id(i - 1), FALSE)
                  IN  LET v == IF i = found + 1 THEN [m EXCEPT !.val = val, !.allow_override = allow] ELSE m
                      IN  IF i = Len(path) THEN v ELSE [v EXCEPT !.head = <<id(i + 1)>>]]
  IN
  /\ ConfGetNode(path) = NoNode
  /\ next + new - 1 <= MaxNodes                      \* bound
  /\ tree' = Allocate(made, [tree EXCEPT ![id(found)].head = Append(@, next)])
  /\ next' = next + new
  /\ Called("set", path, val, 1, id(Len(path)))

\* ConfSet of a path that does not: the missing nodes are appended.
SetMissing(path, val, allow) ==
  LET found == CHOOSE i \in 0..Len(path) - 1 :
                 Walk(path)[i] # NoNode /\ Walk(path)[i + 1] = NoNode
      id(i) == IF i = found THEN Walk(path)[found] ELSE next + i - found - 1
      new   == Len(path) - found
      made  == [n \in next..next + new - 1 |->
                  LET i == n - next + found + 1
                      m == ConfNodeNew(path[i], NoVal, id(i - 1), FALSE)
                  IN  IF i = Len(path)
                      THEN [m EXCEPT !.val = val, !.allow_override = allow]
                      ELSE [m EXCEPT !.head = <<id(i + 1)>>]]
  IN
  /\ ConfGetNode(path) = NoNode
  /\ next + new - 1 <= MaxNodes                      \* bound
  /\ tree' = Allocate(made, [tree EXCEPT ![id(found)].head = Append(@, next)])
  /\ next' = next + new
  /\ Called("set", path, val, 1, id(Len(path)))

ConfSet(path, val, allow) ==
  /\ Calm /\ calls < MaxCalls
  /\ \/ SetExisting(path, val, allow)
     \/ SetMissing(path, val, allow)
  /\ calls' = calls + 1
  /\ UNCHANGED <<root, root_backup, loader, reader>>

\* Mutant: the node is freed where it is in the list.
ConfRemove_NoUnlink(path) ==
  LET n == ConfGetNode(path)
      p == tree[n].parent
      unlinked == IF TRUE THEN tree
                  ELSE [tree EXCEPT ![p].head = RemoveAt(@, SelectInSeq(@, LAMBDA c : c = n))]
  IN
  /\ Calm /\ calls < MaxCalls
  /\ n # NoNode /\ ~RemoveLoaded => p # NoNode
  /\ IF n = NoNode
     THEN UNCHANGED tree /\ Called("remove", path, NoVal, 0, NoNode)
     ELSE tree' = ConfNodeFree(unlinked, n) /\ Called("remove", path, NoVal, 1, n)
  /\ calls' = calls + 1
  /\ UNCHANGED <<next, root, root_backup, loader, reader>>

\* ConfRemove: the node leaves its parent's list only if it knows its parent.
ConfRemove(path) ==
  LET n == ConfGetNode(path)
      p == tree[n].parent
      unlinked == IF p = NoNode THEN tree
                  ELSE [tree EXCEPT ![p].head = RemoveAt(@, SelectInSeq(@, LAMBDA c : c = n))]
  IN
  /\ Calm /\ calls < MaxCalls
  /\ n # NoNode /\ ~RemoveLoaded => p # NoNode
  /\ IF n = NoNode
     THEN UNCHANGED tree /\ Called("remove", path, NoVal, 0, NoNode)
     ELSE tree' = ConfNodeFree(unlinked, n) /\ Called("remove", path, NoVal, 1, n)
  /\ calls' = calls + 1
  /\ UNCHANGED <<next, root, root_backup, loader, reader>>

\* A second tree is built and dropped while the first is kept aside.
ConfCreateContextBackup ==
  /\ Calm /\ root_backup = NoNode /\ next <= MaxNodes /\ calls < MaxCalls
  /\ root_backup' = root /\ root' = NoNode /\ last' = Nothing
  /\ calls' = calls + 1
  /\ UNCHANGED <<tree, next, loader, reader>>

ConfInit ==
  /\ root = NoNode /\ next <= MaxNodes
  /\ tree' = Allocate([n \in {next} |-> ConfNodeNew("", NoVal, NoNode, FALSE)], tree)
  /\ root' = next /\ next' = next + 1 /\ last' = Nothing
  /\ UNCHANGED <<root_backup, calls, loader, reader>>

\* Mutant: root is not set to NULL.
ConfDeInit_KeepsRoot ==
  /\ Calm /\ root_backup # NoNode
  /\ tree' = ConfNodeFree(tree, root)
  /\ root' = root /\ last' = Nothing
  /\ UNCHANGED <<next, root_backup, calls, loader, reader>>

ConfDeInit ==
  /\ Calm /\ root_backup # NoNode
  /\ tree' = ConfNodeFree(tree, root)
  /\ root' = NoNode /\ last' = Nothing
  /\ UNCHANGED <<next, root_backup, calls, loader, reader>>

ConfRestoreContextBackup ==
  /\ root = NoNode /\ root_backup # NoNode
  /\ root' = root_backup /\ root_backup' = NoNode /\ last' = Nothing
  /\ UNCHANGED <<tree, next, calls, loader, reader>>

----------------------------------------------------------------------------
(* The loader: cur is the running call of ConfYamlParse, event what it gets. *)

Mangle(key) == IF key \in DOMAIN Dashed THEN Dashed[key] ELSE key

\* The name of a new node: in two sections the keys stay as they are written.
NodeName(parent, key) == IF parent \in {"address-groups", "port-groups"} THEN key ELSE Mangle(key)

Frame(parent, inseq) == [parent |-> parent, node |-> parent, inseq |-> inseq, state |-> "KEY", seq_idx |-> 0]

cur == Last(stack)
event == Head(input)
Event(t) == load = "busy" /\ event.t = t
Running(call) == [stack EXCEPT ![Len(stack)] = call]

ConfYamlLoadFile ==
  /\ Calm /\ load # "busy" /\ loads < MaxLoads
  /\ file' \in Docs
  /\ input' = file'.events /\ stack' = <<Frame(root, FALSE)>>
  /\ load' = "busy" /\ loads' = loads + 1 /\ last' = Nothing
  /\ UNCHANGED <<tree, next, root, root_backup, calls, reader>>

\* Every step that takes an event: what it does to the tree and to the calls.
Advance == input' = Tail(input) /\ UNCHANGED <<file, loads, last, calls, root, root_backup, reader>>

Fails ==        \* -1 through every caller
  /\ load' = "bad" /\ stack' = <<>> /\ input' = <<>>
  /\ UNCHANGED <<tree, next, file, loads, last, calls, root, root_backup, reader>>

Returns ==      \* 0 to the caller; from the outermost call to main
  /\ stack' = Front(stack)
  /\ load' = IF Len(stack) = 1 THEN "ok" ELSE "busy"
  /\ UNCHANGED <<tree, next>> /\ Advance

\* A node of the loader is appended to n; its parent pointer stays NULL.
Appended(n, name, val, isseq) ==
  /\ next <= MaxNodes
  /\ next' = next + 1
  /\ tree' = Allocate([m \in {next} |-> ConfNodeNew(name, val, NoNode, isseq)],
                      [tree EXCEPT ![n].head = Append(@, next)])

ParserError == Event("error") /\ Fails

DocumentStart ==
  /\ Event("document")
  /\ IF event.yaml11
     THEN UNCHANGED <<tree, next, stack, load>> /\ Advance
     ELSE Fails

SequenceScalar ==
  /\ Event("scalar") /\ cur.inseq
  /\ Appended(cur.parent, ToString(cur.seq_idx), event.v, FALSE)
  /\ stack' = Running([cur EXCEPT !.seq_idx = @ + 1])
  /\ UNCHANGED load /\ Advance

\* An item of a sequence that is a mapping takes its first key as its value.
ItemValue(t) ==
  IF t[cur.parent].is_seq /\ t[cur.parent].val = NoVal
  THEN [t EXCEPT ![cur.parent].val = Mangle(event.v)] ELSE t

\* Mutant: a node that was found is inserted too.
KeyScalar_Insert ==
  LET n0 == ConfNodeLookupChild(cur.parent, event.v) IN
  /\ Event("scalar") /\ ~cur.inseq /\ cur.state = "KEY"
  /\ IF n0 # NoNode
     THEN /\ tree' = [ItemValue(tree) EXCEPT ![cur.parent].head = Append(@, n0)]
          /\ UNCHANGED next
          /\ stack' = Running([cur EXCEPT !.node = n0, !.state = "VAL"])
     ELSE /\ next <= MaxNodes /\ next' = next + 1
          /\ tree' = Allocate([m \in {next} |-> ConfNodeNew(NodeName(tree[cur.parent].name, event.v), NoVal, NoNode, FALSE)],
                              [ItemValue(tree) EXCEPT ![cur.parent].head = Append(@, next)])
          /\ stack' = Running([cur EXCEPT !.node = next, !.state = "VAL"])
  /\ UNCHANGED load /\ Advance

\* The key is looked up as it is written, and gets its name when it is new.
KeyScalar ==
  LET n0 == ConfNodeLookupChild(cur.parent, event.v) IN
  /\ Event("scalar") /\ ~cur.inseq /\ cur.state = "KEY"
  /\ IF n0 # NoNode
     THEN /\ tree' = ItemValue(tree)
          /\ UNCHANGED next
          /\ stack' = Running([cur EXCEPT !.node = n0, !.state = "VAL"])
     ELSE /\ next <= MaxNodes /\ next' = next + 1
          /\ tree' = Allocate([m \in {next} |-> ConfNodeNew(NodeName(tree[cur.parent].name, event.v), NoVal, NoNode, FALSE)],
                              [ItemValue(tree) EXCEPT ![cur.parent].head = Append(@, next)])
          /\ stack' = Running([cur EXCEPT !.node = next, !.state = "VAL"])
  /\ UNCHANGED load /\ Advance

ValueScalar ==
  /\ Event("scalar") /\ ~cur.inseq /\ cur.state = "VAL"
  /\ tree' = IF tree[cur.node].allow_override THEN [tree EXCEPT ![cur.node].val = event.v] ELSE tree
  /\ stack' = Running([cur EXCEPT !.state = "KEY"])
  /\ UNCHANGED <<next, load>> /\ Advance

\* Mutant: the state is not reset after a sequence.
SequenceStart_NoReset ==
  /\ Event("seqstart")
  /\ stack' = Append(stack, Frame(cur.node, TRUE))
  /\ UNCHANGED <<tree, next, load>> /\ Advance

SequenceStart ==
  /\ Event("seqstart")
  /\ stack' = Append(Running([cur EXCEPT !.state = "KEY"]), Frame(cur.node, TRUE))
  /\ UNCHANGED <<tree, next, load>> /\ Advance

MappingStart ==
  /\ Event("mapstart")
  /\ IF cur.inseq
     THEN /\ Appended(cur.node, ToString(cur.seq_idx), NoVal, TRUE)
          /\ stack' = Append(Running([cur EXCEPT !.seq_idx = @ + 1, !.state = "KEY"]), Frame(next, FALSE))
     ELSE /\ stack' = Append(Running([cur EXCEPT !.state = "KEY"]), Frame(cur.node, FALSE))
          /\ UNCHANGED <<tree, next>>
  /\ UNCHANGED load /\ Advance

CollectionEnd == (Event("seqend") \/ Event("mapend") \/ Event("streamend")) /\ Returns

ConfYamlParse ==
  \/ ParserError \/ DocumentStart \/ SequenceScalar \/ KeyScalar \/ ValueScalar
  \/ SequenceStart \/ MappingStart \/ CollectionEnd

----------------------------------------------------------------------------
(* The readers at start up, after a file was loaded *)

DbFields == <<"DBHost", "DBUser", "DBPassWord", "DBName">>

\* getDBConfig uses one variable val for all fields: a field that is not in
\* the section leaves the value of the field before it.
getDBConfig ==
  LET section == ConfGetNode(<<"DBServer">>)
      val[i \in 0..Len(DbFields)] ==
        IF i = 0 THEN NoVal ELSE ConfGetChildValue(section, DbFields[i], val[i - 1])
  IN
  /\ stack = <<>> /\ load = "ok" /\ root # NoNode /\ db.res = "none"
  /\ section # NoNode
  /\ db' = [res |-> IF \E i \in DOMAIN DbFields : val[i] = NoVal THEN "bad" ELSE "ok",
            val |-> [i \in DOMAIN DbFields |-> val[i]]]
  /\ last' = Nothing
  /\ UNCHANGED <<tree, next, root, root_backup, calls, loader, named>>

\* Mutant: the third use of a name is refused, not the second.
ConfNodeNameCheck_Three(name) ==
  LET second == UNION {Range(tree[c].head) : c \in Range(tree[root].head)}
  IN  Cardinality({c \in second : tree[c].val = name}) < 3

\* How many nodes two levels below the root have that value.
ConfNodeNameCheck(name) ==
  LET second == UNION {Range(tree[c].head) : c \in Range(tree[root].head)}
  IN  Cardinality({c \in second : tree[c].val = name}) < 2

\* get_server_info and get_monitor_group_info: the names of a section.
CheckNames(section) ==
  LET s == ConfGetNode(<<section>>) IN
  /\ stack = <<>> /\ load = "ok" /\ root # NoNode /\ named # {"bad"} /\ section \notin named
  /\ s # NoNode
  /\ named' = IF \A c \in Range(tree[s].head) : ConfNodeNameCheck(tree[c].val)
              THEN named \cup {section} ELSE {"bad"}
  /\ last' = Nothing
  /\ UNCHANGED <<tree, next, root, root_backup, calls, loader, db>>

----------------------------------------------------------------------------
Next ==
  \/ \E p \in Paths, v \in Vals, o \in BOOLEAN : ConfSet(p, v, o)
  \/ \E p \in RemovePaths : ConfRemove(p)
  \/ ConfCreateContextBackup \/ ConfInit \/ ConfDeInit \/ ConfRestoreContextBackup
  \/ ConfYamlLoadFile
  \/ ConfYamlParse
  \/ getDBConfig
  \/ \E s \in {"servers", "monitor-group"} : CheckNames(s)

Spec == Init /\ [][Next]_vars

----------------------------------------------------------------------------
(* Properties *)

\* The state keeps its shape: nodes are allocated ids, a frame works on live
\* nodes, counters keep their bounds.
TypeOK ==
  /\ next \in 1..MaxNodes + 1 /\ Live \subseteq 1..next - 1
  /\ \A n \in Live : /\ tree[n].allow_override \in BOOLEAN /\ tree[n].is_seq \in BOOLEAN
                     /\ tree[n].parent \in Live \cup {NoNode}
  /\ {root, root_backup} \ {NoNode} \subseteq Live
  /\ \A i \in DOMAIN stack : {stack[i].parent, stack[i].node} \subseteq Live /\ stack[i].state \in Keys
  /\ load \in {"none", "busy", "ok", "bad"} /\ (load = "busy" <=> stack # <<>>)
  /\ calls <= MaxCalls /\ loads <= MaxLoads

\* The lists form a forest whose roots are root and root_backup: every entry
\* of a list is an allocated node, no node is in two lists or twice in one,
\* and no allocated node is out of reach (conf.c frees a subtree node by node
\* and the loader appends nodes one by one, also when the file turns out bad).
ListsSound ==
  /\ \A n \in Live : Range(tree[n].head) \subseteq Live \ {root, root_backup} /\ IsInjective(tree[n].head)
  /\ \A m, n \in Live : m # n => Range(tree[m].head) \cap Range(tree[n].head) = {}
  /\ Live = UNION {Below(r) : r \in {root, root_backup} \ {NoNode}}
  /\ \A n \in Live : tree[n].parent # NoNode => n \in Range(tree[tree[n].parent].head)

\* A call of ConfSet that returns 1 has set the value a reader of that path
\* finds, and one that returns 0 found a final value (conf.c:131).
SetIsSeen ==
  last.op = "set" =>
    IF last.ret = 1 THEN ConfGet(last.path) = last.val
    ELSE ~tree[ConfGetNode(last.path)].allow_override

\* A value set with allow_override 0 stays what a reader of its path finds, as
\* long as its node lives: neither a later ConfSet nor a file that names the
\* same path, in a mapping or as an item of a sequence, hides or changes it.
FinalStays ==
  [][\A p \in Paths :
       LET n == ConfGetNode(p) IN
       (root # NoNode /\ root' = root /\ n # NoNode /\ n \in DOMAIN tree')
         => (~tree[n].allow_override =>
               /\ ConfGetNode(p)' = n
               /\ tree'[n].val = tree[n].val /\ ~tree'[n].allow_override)]_vars

\* A file loaded into the empty tree is read back as it was written: every
\* scalar is found under its keys, an item of a sequence under its position,
\* and a key written twice has its last value.
LoadedAsWritten ==
  (load = "ok" /\ loads = 1 /\ calls = 0 /\ root = 1) =>
    \A i \in DOMAIN file.means :
      (\A j \in DOMAIN file.means : j > i => file.means[j][1] # file.means[i][1])
        => ConfGet(file.means[i][1]) = file.means[i][2]

\* When the names of the servers and of the monitor groups were accepted no
\* two of them are equal, so that a server found by its name
\* (get_server_by_name) is the one that was meant.
NamesUnique ==
  named = {"servers", "monitor-group"} =>
    LET items == UNION {Range(tree[ConfGetNode(<<s>>)].head) : s \in named}
    IN  \A m, n \in items : tree[m].val = tree[n].val => m = n

\* A parameter that ConfRemove says it removed is in no list any more.
RemovedIsGone ==
  (last.op = "remove" /\ last.ret = 1) => \A n \in Live : last.node \notin Range(tree[n].head)

\* The tree keeps its shape: types, lists and what ConfRemove unlinked.
TreeSound == TypeOK /\ ListsSound /\ RemovedIsGone

\* A section DBServer that is accepted has the fields that are required: what
\* is used for one is the value written for it, never that of another field.
\* The code does not keep this (README, section 8).
DbFieldsOwn ==
  db.res = "ok" =>
    \A i \in DOMAIN DbFields : db.val[i] = ConfGet(<<"DBServer", DbFields[i]>>)

============================================================================
