------------------------------ MODULE FinishMove ------------------------------
(***************************************************************************)
(* The end of a file: do_upload_file_finish_all, do_move_to and            *)
(* store_by_time of monitor.c with recursive_make_dir and move_file of     *)
(* utils/utils.c.  Dispatch has these as single steps; here every system   *)
(* call is one, several scheduling threads finish their files at the same  *)
(* time, and they move them below one directory that may not exist yet.    *)
(*                                                                         *)
(* The target directories are one path: component k is a subdirectory of   *)
(* component k - 1.  move-to is component Base, its directory of the day   *)
(* is component Base + 1.  The process may be killed in every state: what  *)
(* must hold then are invariants.                                          *)
(***************************************************************************)
EXTENDS Naturals

CONSTANTS
  Threads,   \* scheduling threads; each finishes the file of its own name
  FinishActs, \* the finish-acts the groups of the threads may have
  NameOf,    \* the name of a thread's file without its directory
  Base,      \* the components of move-to
  Blocks,    \* bound: reads that copy a file
  IoErrors,  \* may reading, writing, renaming or removing fail?
  NoThread   \* a target that does not exist

Acts == {"same-move", "diff-move", "same-move-time", "diff-move-time", "delete", "keep"}
ASSUME FinishAssumption ==
  /\ FinishActs \subseteq Acts
  /\ Base \in Nat \ {0} /\ Blocks \in Nat
  /\ IoErrors \in BOOLEAN
  /\ NoThread \notin Threads

VARIABLES
  act,       \* finish-act of a thread's group
  depth,     \* components of the target path that exist
  src,       \* threads whose source is where it was monitored
  dst,       \* target files: <<component, name>> -> [of, blocks] they hold
  marker,    \* threads whose marker file exists
  pc,        \* a thread's next system call
  goal,      \* recursive_make_dir: the component asked for
  level,     \* recursive_make_dir: the component at hand
  copied,    \* move_file: blocks copied
  failed     \* history: a system call other than mkdir failed

vars == <<act, depth, src, dst, marker, pc, goal, level, copied, failed>>
dirVars == <<goal, level>>

Targets == (1..(Base + 1)) \X {NameOf[t] : t \in Threads}
Timed(t) == act[t] \in {"same-move-time", "diff-move-time"}
Copies(t) == act[t] \in {"diff-move", "diff-move-time"}

\* Where the file goes: into move-to, or into its directory of the day.
Component(t) == IF Timed(t) THEN Base + 1 ELSE Base
Target(t) == <<Component(t), NameOf[t]>>
Complete(t) == dst[Target(t)] = [of |-> t, blocks |-> Blocks]

Goto(t, l) == pc' = [pc EXCEPT ![t] = l]
Put(t, n) == dst' = [dst EXCEPT ![Target(t)] = [of |-> t, blocks |-> n]]

\* A system call may fail.
Fails(t) == IoErrors /\ failed' = failed \cup {t}

Init ==
  /\ act \in [Threads -> FinishActs]
  /\ depth \in 0..(Base + 1)
  /\ src = Threads /\ marker = Threads
  /\ dst = [x \in Targets |-> [of |-> NoThread, blocks |-> 0]]
  /\ pc = [t \in Threads |-> "act"]
  /\ goal = [t \in Threads |-> Base] /\ level = [t \in Threads |-> Base]
  /\ copied = [t \in Threads |-> 0]
  /\ failed = {}

-----------------------------------------------------------------------------
\* recursive_make_dir(path of component k).
MakeDir(t, k) ==
  /\ goal' = [goal EXCEPT ![t] = k]
  /\ level' = [level EXCEPT ![t] = k]
  /\ Goto(t, "stat")

\* What do_move_to does next, once the directory is there.
AfterDir(t) == IF Copies(t) THEN "open" ELSE "rename"

\* do_move_to: the branches on finish-act; is_dir(move_to) is tested for the
\* acts other than keep, delete and same-move-time.
ActKeep(t) ==
  /\ pc[t] = "act" /\ act[t] = "keep"
  /\ Goto(t, "marker")
  /\ UNCHANGED <<act, depth, src, dst, marker, dirVars, copied, failed>>

ActDelete(t) ==
  /\ pc[t] = "act" /\ act[t] = "delete"
  /\ \/ src' = src \ {t} /\ UNCHANGED failed
     \/ Fails(t) /\ UNCHANGED src
  /\ Goto(t, "marker")
  /\ UNCHANGED <<act, depth, dst, marker, dirVars, copied>>

\* Mutant: store_by_time does not make its directory.
ActMove_NoDateDir(t) ==
  /\ pc[t] = "act" /\ act[t] \notin {"keep", "delete"}
  /\ IF depth < Base THEN MakeDir(t, Base)
     ELSE Goto(t, AfterDir(t)) /\ UNCHANGED dirVars
  /\ UNCHANGED <<act, depth, src, dst, marker, copied, failed>>

ActMove(t) ==
  /\ pc[t] = "act" /\ act[t] \notin {"keep", "delete"}
  /\ IF act[t] = "same-move-time" THEN MakeDir(t, Base + 1)
     ELSE IF depth < Base THEN MakeDir(t, Base)
     ELSE IF Timed(t) THEN MakeDir(t, Base + 1)
     ELSE Goto(t, AfterDir(t)) /\ UNCHANGED dirVars
  /\ UNCHANGED <<act, depth, src, dst, marker, copied, failed>>

\* recursive_make_dir returned 0 for component level[t]: back in its caller,
\* which is an outer call of the recursion, do_move_to or store_by_time.
MadeDir(t) ==
  IF level[t] < goal[t]
  THEN level' = [level EXCEPT ![t] = @ + 1] /\ Goto(t, "again") /\ UNCHANGED goal
  ELSE IF Timed(t) /\ goal[t] = Base THEN MakeDir(t, Base + 1)
  ELSE Goto(t, AfterDir(t)) /\ UNCHANGED dirVars

\* It returned -1: the error goes all the way up, and no caller of do_move_to
\* looks at it.
MakeDirFailed(t) == Goto(t, "marker") /\ UNCHANGED dirVars

StatDir(t) ==
  /\ pc[t] = "stat"
  /\ IF level[t] <= depth THEN MadeDir(t) ELSE Goto(t, "mkdir") /\ UNCHANGED dirVars
  /\ UNCHANGED <<act, depth, src, dst, marker, copied, failed>>

\* Mutant: the parent directory is not tried.
Mkdir_NoParent(t) ==
  /\ pc[t] = "mkdir"
  /\ IF level[t] = depth + 1 THEN depth' = depth + 1 /\ MadeDir(t)
     ELSE UNCHANGED depth /\ MakeDirFailed(t)
  /\ UNCHANGED <<act, src, dst, marker, copied, failed>>

\* The first mkdir; when it fails, the parent is made.
Mkdir(t) ==
  /\ pc[t] = "mkdir"
  /\ IF level[t] = depth + 1
     THEN depth' = depth + 1 /\ MadeDir(t)
     ELSE /\ level' = [level EXCEPT ![t] = @ - 1]
          /\ Goto(t, IF level[t] > 1 THEN "stat" ELSE "marker")
          /\ UNCHANGED <<depth, goal>>
  /\ UNCHANGED <<act, src, dst, marker, copied, failed>>

\* The second mkdir; that the directory exists by now is a failure.
MkdirAgain(t) ==
  /\ pc[t] = "again"
  /\ IF level[t] = depth + 1 THEN depth' = depth + 1 /\ MadeDir(t)
     ELSE UNCHANGED depth /\ MakeDirFailed(t)
  /\ UNCHANGED <<act, src, dst, marker, copied, failed>>

-----------------------------------------------------------------------------
Rename(t) ==
  /\ pc[t] = "rename"
  /\ \/ src' = src \ {t} /\ Put(t, Blocks) /\ UNCHANGED failed
     \/ Fails(t) /\ UNCHANGED <<src, dst>>
  /\ Goto(t, "marker")
  /\ UNCHANGED <<act, depth, marker, dirVars, copied>>

\* move_file: open both files, which empties the target; copy; close; remove.
OpenFiles(t) ==
  /\ pc[t] = "open"
  /\ copied' = [copied EXCEPT ![t] = 0]
  /\ \/ Put(t, 0) /\ Goto(t, "copy") /\ UNCHANGED failed
     \/ Fails(t) /\ Goto(t, "marker") /\ UNCHANGED dst
  /\ UNCHANGED <<act, depth, src, marker, dirVars>>

\* Mutant: one read too many.
CopyBlock_OneMore(t) ==
  /\ pc[t] = "copy" /\ copied[t] <= Blocks
  /\ copied' = [copied EXCEPT ![t] = @ + 1]
  /\ Put(t, copied[t] + 1) /\ Goto(t, "copy")
  /\ UNCHANGED <<act, depth, src, marker, dirVars, failed>>

\* One read and its write; a file that somebody else truncated holds less.
CopyBlock(t) ==
  /\ pc[t] = "copy" /\ copied[t] < Blocks
  /\ \/ /\ copied' = [copied EXCEPT ![t] = @ + 1]
        /\ Put(t, copied[t] + 1) /\ Goto(t, "copy") /\ UNCHANGED failed
     \/ Fails(t) /\ Goto(t, "marker") /\ UNCHANGED <<copied, dst>>
  /\ UNCHANGED <<act, depth, src, marker, dirVars>>

\* Mutant: the source is removed before the last block is copied.
EndCopy_OneBlockEarly(t) ==
  /\ pc[t] = "copy" /\ copied[t] + 1 >= Blocks
  /\ Goto(t, "remove")
  /\ UNCHANGED <<act, depth, src, dst, marker, dirVars, copied, failed>>

EndCopy(t) ==
  /\ pc[t] = "copy" /\ copied[t] = Blocks
  /\ Goto(t, "remove")
  /\ UNCHANGED <<act, depth, src, dst, marker, dirVars, copied, failed>>

RemoveSource(t) ==
  /\ pc[t] = "remove"
  /\ \/ src' = src \ {t} /\ UNCHANGED failed
     \/ Fails(t) /\ UNCHANGED src
  /\ Goto(t, "marker")
  /\ UNCHANGED <<act, depth, dst, marker, dirVars, copied>>

\* do_upload_file_finish_all goes on, whatever do_move_to returned.
DeleteMarker(t) ==
  /\ pc[t] = "marker"
  /\ \/ marker' = marker \ {t} /\ UNCHANGED failed
     \/ Fails(t) /\ UNCHANGED marker
  /\ Goto(t, "done")
  /\ UNCHANGED <<act, depth, src, dst, dirVars, copied>>

-----------------------------------------------------------------------------
recursive_make_dir(t) == StatDir(t) \/ Mkdir(t) \/ MkdirAgain(t)
move_file(t) == OpenFiles(t) \/ CopyBlock(t) \/ EndCopy(t) \/ RemoveSource(t)
do_upload_file_finish_all(t) ==
  \/ ActKeep(t) \/ ActDelete(t) \/ ActMove(t)
  \/ recursive_make_dir(t) \/ Rename(t) \/ move_file(t)
  \/ DeleteMarker(t)

Next == \E t \in Threads : do_upload_file_finish_all(t)
Spec == Init /\ [][Next]_vars

-----------------------------------------------------------------------------
\* Type invariant.
TypeOK ==
  /\ act \in [Threads -> FinishActs]
  /\ depth \in 0..(Base + 1)
  /\ src \subseteq Threads /\ marker \subseteq Threads /\ failed \subseteq Threads
  /\ dst \in [Targets -> [of : Threads \cup {NoThread}, blocks : 0..Blocks]]
  /\ pc \in [Threads -> {"act", "stat", "mkdir", "again", "rename", "open", "copy",
                         "remove", "marker", "done"}]
  /\ goal \in [Threads -> {Base, Base + 1}]
  /\ level \in [Threads -> 0..(Base + 1)]
  /\ copied \in [Threads -> 0..Blocks]

(***************************************************************************)
(* A file that is to be moved exists in full at one of its two places at   *)
(* every moment, whatever fails and wherever the process is killed.  Files *)
(* of one name that are moved to one directory are another matter.         *)
(***************************************************************************)
NothingLost ==
  \A t \in Threads : act[t] # "delete" /\ (\A u \in Threads : NameOf[u] = NameOf[t] => u = t) =>
    t \in src \/ Complete(t)

(***************************************************************************)
(* A file is written only into a directory that exists.                    *)
(***************************************************************************)
TargetExists ==
  \A t \in Threads : pc[t] \in {"rename", "open", "copy"} => Component(t) <= depth

(***************************************************************************)
(* The two together with the types: what the moves keep at every moment.   *)
(***************************************************************************)
MoveSound == TypeOK /\ NothingLost /\ TargetExists

(***************************************************************************)
(* A thread that no other mover races with makes its directory, however    *)
(* many components of it are missing, and moves its file: only a failing   *)
(* system call leaves the source behind.                                   *)
(***************************************************************************)
Alone(t) == \A u \in Threads \ {t} : act[u] \in {"keep", "delete"}
AloneIsMoved ==
  \A t \in Threads :
    pc[t] = "done" /\ act[t] # "keep" /\ Alone(t) /\ t \notin failed => t \notin src

(***************************************************************************)
(* "the file upload sucess and Must first deal with the source file"       *)
(* (monitor.c:928): the marker goes after the source was moved.            *)
(***************************************************************************)
SourceBeforeMarker ==
  \A t \in Threads : t \notin marker /\ act[t] # "keep" /\ t \notin failed => t \notin src
=============================================================================
