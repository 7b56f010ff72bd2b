----------------------------- MODULE ServerGroups -----------------------------
(***************************************************************************)
(* How servers-primer and servers-backup become the server groups of a     *)
(* monitor group: get_upload_group_server_group_list (monitor.c) with      *)
(* str_split_func (utils/utils.c).  "|" separates the groups, "," the      *)
(* servers of a group, "-" stands for no backup.  A text is a sequence of  *)
(* tokens: a server's name is one token.                                   *)
(*                                                                         *)
(* Startup calls the reader for one monitor group after the other, and     *)
(* Dispatch takes the result as its constant Sgl; this module shows what   *)
(* the configuration reader guarantees about it.  Indices count from 1.    *)
(***************************************************************************)
EXTENDS Integers, Sequences, FiniteSets, SequencesExt

CONSTANTS
  Servers,      \* the names of servers
  NoServer      \* a NULL server pointer

ASSUME ServerNames == NoServer \notin Servers /\ Servers \cap {"|", ",", "-"} = {}

Tokens == Servers \cup {"|", ",", "-"}

VARIABLES
  known,         \* the names in g_server
  fault,         \* the allocation that fails, or "none"
  primer, back,  \* the two texts
  pc,            \* "idle", "split", "prime", "back", "done", "error" or "crash"
  i,             \* the group at hand
  spg, sbg,      \* split_primer_g and split_back_g
  head,          \* the groups: [prime, slots, back]
  wild           \* history: an array of this group is used past its end

vars == <<primer, back, pc, i, spg, sbg, head, wild>>
environment == <<known, fault>>

(***************************************************************************)
(* str_split_func: the fields between the delimiters; no field at all in   *)
(* an empty text.                                                          *)
(***************************************************************************)
\* Mutant: as many fields as delimiters.
str_split_func_NoLast(text, d) ==
  LET fields[n \in 0..Len(text)] ==
        IF n = 0 THEN << <<>> >>
        ELSE IF text[n] = d THEN Append(fields[n - 1], <<>>)
        ELSE [fields[n - 1] EXCEPT ![Len(fields[n - 1])] = Append(@, text[n])]
  IN IF text = <<>> THEN <<>> ELSE Front(fields[Len(text)])

str_split_func(text, d) ==
  LET fields[n \in 0..Len(text)] ==
        IF n = 0 THEN << <<>> >>
        ELSE IF text[n] = d THEN Append(fields[n - 1], <<>>)
        ELSE [fields[n - 1] EXCEPT ![Len(fields[n - 1])] = Append(@, text[n])]
  IN IF text = <<>> THEN <<>> ELSE fields[Len(text)]

\* get_server_by_name.
ServerOfField(field) == IF \E s \in known : field = <<s>> THEN field[1] ELSE NoServer

Init ==
  /\ primer = <<>> /\ back = <<>>
  /\ pc = "idle" /\ i = 1
  /\ spg = <<>> /\ sbg = <<>> /\ head = <<>>
  /\ wild = FALSE

\* The call, with the texts of one monitor group.
Call(p, b) ==
  /\ pc = "idle"
  /\ pc' = "split" /\ i' = 1
  /\ primer' = p /\ back' = b
  /\ spg' = <<>> /\ sbg' = <<>> /\ head' = <<>>
  /\ wild' = FALSE

\* The caller has taken the result.
Taken == pc' = "idle" /\ UNCHANGED <<primer, back, i, spg, sbg, head, wild>>

\* goto error: *count stays 0, which get_monitor_group_info refuses.
Error == pc' = "error" /\ UNCHANGED <<i, head>>

-----------------------------------------------------------------------------
\* Mutant: a different number of groups is accepted.
SameGroups_Any(p, b) == TRUE

SameGroups(p, b) == Len(b) = 0 \/ Len(p) = Len(b)

SplitGroups ==
  /\ pc = "split"
  /\ spg' = str_split_func(primer, "|")
  /\ sbg' = str_split_func(back, "|")
  /\ IF spg' = <<>> \/ ~SameGroups(spg', sbg') \/ fault = "head" THEN Error
     ELSE pc' = "prime" /\ UNCHANGED <<i, head>>
  /\ UNCHANGED <<primer, back, wild>>

\* The next group, or the end of the outer loop.
NextGroup ==
  /\ pc' = IF i = Len(spg) THEN "done" ELSE "prime"
  /\ i' = IF i = Len(spg) THEN i ELSE i + 1

\* Mutant: a name that is not found is taken as NULL.
FillPrime_NoTest ==
  LET sp == str_split_func(spg[i], ",") IN
  /\ pc = "prime"
  /\ IF sp = <<>> \/ fault = "rs_prime" THEN Error
     ELSE /\ head' = Append(head, [prime |-> [j \in 1..Len(sp) |-> ServerOfField(sp[j])],
                                   slots |-> 0, back |-> <<>>])
          /\ IF sbg = <<>> THEN NextGroup ELSE pc' = "back" /\ UNCHANGED i
  /\ UNCHANGED <<primer, back, spg, sbg, wild>>

FillPrime ==
  LET sp == str_split_func(spg[i], ",") IN
  /\ pc = "prime"
  /\ IF sp = <<>> \/ fault = "rs_prime" \/ \E j \in 1..Len(sp) : ServerOfField(sp[j]) = NoServer THEN Error
     ELSE /\ head' = Append(head, [prime |-> [j \in 1..Len(sp) |-> ServerOfField(sp[j])],
                                   slots |-> 0, back |-> <<>>])
          /\ IF sbg = <<>> THEN NextGroup ELSE pc' = "back" /\ UNCHANGED i
  /\ UNCHANGED <<primer, back, spg, sbg, wild>>

(***************************************************************************)
(* The backups of group i.  The array has a slot per PRIMARY, the loop     *)
(* runs over the primaries, rs_count_back is the number of backups, and    *)
(* the test for "-" looks at backup GROUP j.  A name that is not found is  *)
(* to be refused, but the message about it is made from the fields of the  *)
(* primaries, which were freed: it reads NULL.  When the array cannot be   *)
(* allocated, that is logged and the loop writes to NULL.                  *)
(***************************************************************************)
IsDash(j) == sbg[j] # <<>> /\ sbg[j][1] = "-"

\* Mutant: the first backup for every slot.
Slot_First(sb, j) == ServerOfField(sb[1])

\* What slot j becomes without reading past an array: a server, NULL, or not found.
Slot(sb, j) == IF IsDash(j) THEN NoServer ELSE ServerOfField(sb[j])

\* Past an array anything may be found.
Anything == known \cup {NoServer}

FillBack ==
  LET sb == str_split_func(sbg[i], ",")
      n == Len(head[i].prime)
      inside(j) == j <= Len(sbg) /\ (IsDash(j) \/ j <= Len(sb))
      past == \E j \in 1..n : ~inside(j)
      unknown == \E j \in 1..n : inside(j) /\ ~IsDash(j) /\ Slot(sb, j) = NoServer
  IN
  /\ pc = "back"
  /\ wild' = (wild \/ (sb # <<>> /\ (past \/ Len(sb) > n)))
  /\ \/ sb = <<>> /\ head' = head /\ NextGroup
     \/ /\ sb # <<>> /\ (fault = "rs_back" \/ past \/ unknown)
        /\ pc' = "crash" /\ UNCHANGED <<i, head>>
     \/ /\ sb # <<>> /\ fault # "rs_back" /\ ~unknown
        /\ \E f \in [1..Len(sb) -> Anything] :
             /\ \A j \in 1..Len(sb) : j <= n /\ inside(j) => f[j] = Slot(sb, j)
             /\ head' = [head EXCEPT ![i].slots = n, ![i].back = f]
        /\ NextGroup
  /\ UNCHANGED <<primer, back, spg, sbg>>

get_upload_group_server_group_list == SplitGroups \/ FillPrime \/ FillBack

-----------------------------------------------------------------------------
(***************************************************************************)
(* What the texts mean: the fields between the positions of a delimiter,   *)
(* none in an empty text.                                                  *)
(***************************************************************************)
InOrder(S) == [n \in 1..Cardinality(S) |-> CHOOSE m \in S : Cardinality({x \in S : x < m}) = n - 1]
Cuts(text, d) == {0, Len(text) + 1} \cup {k \in 1..Len(text) : text[k] = d}
Fields(text, d) ==
  LET cuts == InOrder(Cuts(text, d)) IN
  IF text = <<>> THEN <<>> ELSE [k \in 1..(Len(cuts) - 1) |-> SubSeq(text, cuts[k] + 1, cuts[k + 1] - 1)]
Named(servers) == [k \in 1..Len(servers) |-> <<servers[k]>>]

Groups(text) == Len(Fields(text, "|"))
Sizes(text) == [g \in 1..Groups(text) |-> Len(Fields(Fields(text, "|")[g], ","))]

\* Each group has as many backups as primaries, none of them "-", and no more
\* than there are groups: the texts for which the code's indices agree.
Regular ==
  /\ primer # <<>> /\ back # <<>> /\ ~Contains(back, "-")
  /\ Groups(primer) = Groups(back) /\ Sizes(primer) = Sizes(back)
  /\ \A g \in 1..Groups(primer) : Sizes(primer)[g] <= Groups(primer)

\* Type invariant: no NULL in rs_prime.
TypeOK ==
  /\ pc \in {"idle", "split", "prime", "back", "done", "error", "crash"}
  /\ i \in Nat \ {0}
  /\ spg \in Seq(Seq(Tokens)) /\ sbg \in Seq(Seq(Tokens))
  /\ head \in Seq([prime : Seq(Servers), slots : Nat, back : Seq(Servers \cup {NoServer})])
  /\ wild \in BOOLEAN

(***************************************************************************)
(* An accepted configuration has every group of servers-primer, every      *)
(* group has a primary, and its primaries are the servers named there: no  *)
(* NULL reaches rs_prime, which the scheduling thread does not test the    *)
(* first entry of (monitor.c:816).  Its servers-backup is empty or has a   *)
(* group for every group of servers-primer, so that rs_back never belongs  *)
(* to another group.                                                       *)
(***************************************************************************)
PrimariesExact ==
  /\ TypeOK
  /\ pc = "done" =>
       /\ Len(head) = Groups(primer)
       /\ \A g \in 1..Len(head) :
            /\ head[g].prime # <<>>
            /\ Named(head[g].prime) = Fields(Fields(primer, "|")[g], ",")
       /\ back = <<>> \/ Groups(back) = Groups(primer)

\* Among the backups of group i is a name that is no server's.
UnknownBackup == \E f \in ToSet(Fields(Fields(back, "|")[i], ",")) : \A s \in known : f # <<s>>

(***************************************************************************)
(* For regular texts the indices of the reader stay inside its arrays, it  *)
(* dies of nothing but a backup whose name is not known (monitor.c:152) or *)
(* of memory, and an accepted group has the backups that are named for it. *)
(***************************************************************************)
RegularBackups ==
  pc \in {"done", "crash"} \/ wild =>
    (Regular => /\ ~wild
                /\ pc = "crash" => fault = "rs_back" \/ UnknownBackup
                /\ pc = "done" => \A g \in 1..Len(head) :
                                    Named(head[g].back) = Fields(Fields(back, "|")[g], ","))

(***************************************************************************)
(* "If the standby servers, must have the same number with the primary     *)
(* server" (monitor.c:99): every accepted group that has backups has one   *)
(* per primary.  The code compares the groups only (README, section 8).    *)
(***************************************************************************)
SameNumber ==
  pc = "done" => \A g \in 1..Len(head) :
    head[g].slots > 0 => Len(head[g].back) = Len(head[g].prime)
=============================================================================
