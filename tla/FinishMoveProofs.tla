--------------------------- MODULE FinishMoveProofs ---------------------------
(***************************************************************************)
(* Proofs about FinishMove, for every number of threads, names, path       *)
(* components and blocks.                                                  *)
(***************************************************************************)
EXTENDS FinishMove, TLAPS

-----------------------------------------------------------------------------
(***************************************************************************)
(* The inductive invariant.  DirOK: a thread that makes directories is at  *)
(* one of the components it was asked for, and below none when it calls    *)
(* mkdir.  FileOK: the source goes only after its target is complete.      *)
(* AloneOK: without others, a thread that came to a component has all      *)
(* those before it to make, or has just made the one before it.            *)
(***************************************************************************)
Making(t) == pc[t] \in {"stat", "mkdir", "again"}

DirOK ==
  \A t \in Threads :
    /\ act[t] \in {"keep", "delete"} => pc[t] \in {"act", "marker", "done"}
    /\ Making(t) => level[t] <= goal[t]
    /\ pc[t] \in {"mkdir", "again"} => level[t] > 0

Own(t) == \A u \in Threads : NameOf[u] = NameOf[t] => u = t

FileOK ==
  \A t \in Threads :
    /\ act[t] # "delete" /\ pc[t] \notin {"marker", "done"} => t \in src
    /\ Own(t) /\ pc[t] = "copy" => dst[Target(t)] = [of |-> t, blocks |-> copied[t]]
    /\ Own(t) /\ pc[t] = "remove" => Complete(t)

AloneOK ==
  \A t \in Threads : Alone(t) =>
    /\ pc[t] = "stat" => (level[t] = goal[t] /\ level[t] > 0) \/ level[t] > depth
    /\ pc[t] = "mkdir" => level[t] > depth
    /\ pc[t] = "again" => level[t] = depth + 1
    /\ pc[t] \in {"marker", "done"} /\ act[t] # "keep" /\ t \notin failed => t \notin src

IInv == MoveSound /\ DirOK /\ FileOK /\ AloneOK

-----------------------------------------------------------------------------
LEMMA InitIInv == Init => IInv
<1> SUFFICES ASSUME Init PROVE IInv
  OBVIOUS
<1> USE FinishAssumption DEF Init
<1>1. TypeOK
  BY DEF TypeOK
<1>2. NothingLost /\ TargetExists /\ DirOK /\ FileOK /\ AloneOK
  BY DEF NothingLost, TargetExists, DirOK, FileOK, AloneOK, Making
<1> QED
  BY <1>1, <1>2 DEF IInv, MoveSound

\* Where the file of a thread goes is a target.
LEMMA TargetIsTarget ==
  ASSUME NEW t \in Threads
  PROVE Target(t) \in Targets
  BY FinishAssumption DEF Target, Targets, Component

\* A thread's own target is no other thread's.
LEMMA OwnTarget ==
  ASSUME NEW t \in Threads, NEW u \in Threads, Own(t), u # t
  PROVE Target(u) # Target(t)
  BY DEF Own, Target

(***************************************************************************)
(* Every step keeps the types.  The calls of recursive_make_dir change     *)
(* three variables and depth only.                                         *)
(***************************************************************************)
DirTypes ==
  /\ pc \in [Threads -> {"act", "stat", "mkdir", "again", "rename", "open", "copy",
                         "remove", "marker", "done"}]
  /\ goal \in [Threads -> {Base, Base + 1}]
  /\ level \in [Threads -> 0..(Base + 1)]

LEMMA MakeDirTypes ==
  ASSUME DirTypes, NEW t \in Threads, NEW k \in {Base, Base + 1}, MakeDir(t, k)
  PROVE  DirTypes'
  BY FinishAssumption DEF DirTypes, MakeDir, Goto

LEMMA GotoTypes ==
  ASSUME DirTypes, NEW t \in Threads, UNCHANGED dirVars,
         NEW l \in {"mkdir", "rename", "open", "marker"}, Goto(t, l)
  PROVE  DirTypes'
  BY DEF DirTypes, Goto, dirVars

LEMMA MadeDirTypes ==
  ASSUME DirTypes, NEW t \in Threads, level[t] <= goal[t], MadeDir(t)
  PROVE  DirTypes'
<1>1. CASE level[t] < goal[t]
  BY <1>1, FinishAssumption DEF MadeDir, DirTypes, Goto
<1>2. CASE level[t] = goal[t]
  <2>1. MakeDir(t, Base + 1) \/ (Goto(t, AfterDir(t)) /\ UNCHANGED dirVars)
    BY <1>2, FinishAssumption DEF MadeDir, DirTypes
  <2>2. AfterDir(t) \in {"rename", "open"}
    BY DEF AfterDir
  <2> QED
    BY <2>1, <2>2, MakeDirTypes, GotoTypes
<1> QED
  BY <1>1, <1>2, FinishAssumption DEF DirTypes

LEMMA TypeStep == IInv /\ Next => TypeOK'
<1> SUFFICES ASSUME IInv, NEW t \in Threads, do_upload_file_finish_all(t) PROVE TypeOK'
  BY DEF Next
<1>0. TypeOK /\ DirTypes
  BY DEF IInv, MoveSound, TypeOK, DirTypes
<1>9. ASSUME DirTypes', depth' \in 0..(Base + 1),
             UNCHANGED <<act, src, dst, marker, copied, failed>>
      PROVE  TypeOK'
  BY <1>0, <1>9 DEF TypeOK, DirTypes
<1>1. CASE ActKeep(t) \/ ActDelete(t)
  BY <1>0, <1>1 DEF ActKeep, ActDelete, Fails, TypeOK, Goto, dirVars
<1>2. CASE ActMove(t)
  <2>1. MakeDir(t, Base) \/ MakeDir(t, Base + 1) \/ (Goto(t, AfterDir(t)) /\ UNCHANGED dirVars)
    BY <1>2 DEF ActMove
  <2>2. AfterDir(t) \in {"rename", "open"}
    BY DEF AfterDir
  <2>3. DirTypes'
    BY <1>0, <2>1, <2>2, MakeDirTypes, GotoTypes
  <2> QED
    BY <1>0, <1>2, <1>9, <2>3 DEF ActMove, TypeOK
<1>3. CASE StatDir(t)
  <2>1. CASE level[t] <= depth
    <3>1. MadeDir(t) /\ level[t] <= goal[t]
      BY <1>3, <2>1 DEF StatDir, IInv, DirOK, Making
    <3> QED
      BY <1>0, <1>3, <1>9, <3>1, MadeDirTypes DEF StatDir, TypeOK
  <2>2. CASE ~(level[t] <= depth)
    BY <1>0, <1>3, <1>9, <2>2, GotoTypes DEF StatDir, TypeOK
  <2> QED
    BY <2>1, <2>2
<1>4. CASE Mkdir(t)
  <2>1. CASE level[t] = depth + 1
    <3>1. MadeDir(t) /\ level[t] <= goal[t] /\ depth' = level[t]
      BY <1>4, <2>1 DEF Mkdir, IInv, DirOK, Making
    <3>2. depth' \in 0..(Base + 1)
      BY <1>0, <3>1 DEF TypeOK
    <3> QED
      BY <1>0, <1>4, <1>9, <3>1, <3>2, MadeDirTypes DEF Mkdir
  <2>2. CASE level[t] # depth + 1
    <3>1. level[t] > 0
      BY <1>4 DEF Mkdir, IInv, DirOK
    <3>2. DirTypes'
      BY <1>0, <1>4, <2>2, <3>1, FinishAssumption DEF Mkdir, DirTypes, Goto
    <3> QED
      BY <1>0, <1>4, <1>9, <2>2, <3>2 DEF Mkdir, TypeOK
  <2> QED
    BY <2>1, <2>2
<1>5. CASE MkdirAgain(t)
  <2>1. CASE level[t] = depth + 1
    <3>1. MadeDir(t) /\ level[t] <= goal[t] /\ depth' = level[t]
      BY <1>5, <2>1 DEF MkdirAgain, IInv, DirOK, Making
    <3>2. depth' \in 0..(Base + 1)
      BY <1>0, <3>1 DEF TypeOK
    <3> QED
      BY <1>0, <1>5, <1>9, <3>1, <3>2, MadeDirTypes DEF MkdirAgain
  <2>2. CASE level[t] # depth + 1
    BY <1>0, <1>5, <1>9, <2>2, GotoTypes DEF MkdirAgain, MakeDirFailed, TypeOK
  <2> QED
    BY <2>1, <2>2
<1>6. CASE Rename(t) \/ OpenFiles(t) \/ CopyBlock(t)
  <2> USE <1>0, FinishAssumption DEF TypeOK, dirVars, Goto
  <2>1. UNCHANGED <<act, depth, marker, goal, level>> /\ src' \subseteq Threads /\ failed' \subseteq Threads
    BY <1>6 DEF Rename, OpenFiles, CopyBlock, Fails
  <2>2. pc' \in [Threads -> {"act", "stat", "mkdir", "again", "rename", "open", "copy", "remove", "marker", "done"}]
    BY <1>6 DEF Rename, OpenFiles, CopyBlock
  <2>3. copied' \in [Threads -> 0..Blocks]
    BY <1>6 DEF Rename, OpenFiles, CopyBlock
  <2>4. dst' = dst \/ \E n \in 0..Blocks : Put(t, n)
    BY <1>6 DEF Rename, OpenFiles, CopyBlock
  <2>5. dst' \in [Targets -> [of : Threads \cup {NoThread}, blocks : 0..Blocks]]
    BY <2>4, TargetIsTarget DEF Put
  <2> QED
    BY <2>1, <2>2, <2>3, <2>5
<1>7. CASE EndCopy(t) \/ RemoveSource(t) \/ DeleteMarker(t)
  BY <1>0, <1>7 DEF EndCopy, RemoveSource, DeleteMarker, Fails, TypeOK, Goto, dirVars
<1> QED
  BY <1>1, <1>2, <1>3, <1>4, <1>5, <1>6, <1>7
     DEF do_upload_file_finish_all, recursive_make_dir, move_file

(***************************************************************************)
(* Every step keeps what is known of the directories; no step removes one. *)
(***************************************************************************)
LEMMA DirStep == IInv /\ Next => DirOK' /\ TargetExists'
<1> SUFFICES ASSUME IInv, NEW t \in Threads, do_upload_file_finish_all(t)
             PROVE DirOK' /\ TargetExists'
  BY DEF Next
<1> USE FinishAssumption
    DEF IInv, MoveSound, TypeOK, DirOK, TargetExists, Making, Component, Timed, dirVars, Goto
<1>1. CASE ActKeep(t) \/ ActDelete(t)
  BY <1>1 DEF ActKeep, ActDelete
<1>2. CASE ActMove(t)
  BY <1>2 DEF ActMove, MakeDir, AfterDir, Copies
<1>3. CASE StatDir(t)
  BY <1>3 DEF StatDir, MadeDir, MakeDir, AfterDir, Copies
<1>4. CASE Mkdir(t)
  BY <1>4 DEF Mkdir, MadeDir, MakeDir, AfterDir, Copies
<1>5. CASE MkdirAgain(t)
  BY <1>5 DEF MkdirAgain, MadeDir, MakeDir, AfterDir, Copies, MakeDirFailed
<1>6. CASE Rename(t) \/ OpenFiles(t) \/ CopyBlock(t)
  BY <1>6 DEF Rename, OpenFiles, CopyBlock
<1>7. CASE EndCopy(t) \/ RemoveSource(t) \/ DeleteMarker(t)
  BY <1>7 DEF EndCopy, RemoveSource, DeleteMarker
<1> QED
  BY <1>1, <1>2, <1>3, <1>4, <1>5, <1>6, <1>7
     DEF do_upload_file_finish_all, recursive_make_dir, move_file
(***************************************************************************)
(* Every step keeps each source until its target is complete.  What        *)
(* another thread does touches neither the source of u nor, when the name  *)
(* is u's own, its target.                                                 *)
(***************************************************************************)
LEMMA OthersFile ==
  ASSUME TypeOK, NEW t \in Threads, NEW u \in Threads, t # u, do_upload_file_finish_all(t)
  PROVE  /\ act' = act /\ pc'[u] = pc[u] /\ copied'[u] = copied[u]
         /\ u \in src => u \in src'
         /\ Own(u) => dst'[Target(u)] = dst[Target(u)]
<1>1. act' = act /\ src \ {t} \subseteq src'
  BY DEF do_upload_file_finish_all, recursive_make_dir, move_file, ActKeep, ActDelete, ActMove,
         StatDir, Mkdir, MkdirAgain, Rename, OpenFiles, CopyBlock, EndCopy, RemoveSource, DeleteMarker
<1>2. \E l : pc' = [pc EXCEPT ![t] = l]
  BY DEF do_upload_file_finish_all, recursive_make_dir, move_file, ActKeep, ActDelete, ActMove,
         StatDir, Mkdir, MkdirAgain, Rename, OpenFiles, CopyBlock, EndCopy, RemoveSource, DeleteMarker,
         MadeDir, MakeDir, MakeDirFailed, Goto
<1>3. copied' = copied \/ \E n : copied' = [copied EXCEPT ![t] = n]
  BY DEF do_upload_file_finish_all, recursive_make_dir, move_file, ActKeep, ActDelete, ActMove,
         StatDir, Mkdir, MkdirAgain, Rename, OpenFiles, CopyBlock, EndCopy, RemoveSource, DeleteMarker
<1>4. dst' = dst \/ \E n : Put(t, n)
  BY DEF do_upload_file_finish_all, recursive_make_dir, move_file, ActKeep, ActDelete, ActMove,
         StatDir, Mkdir, MkdirAgain, Rename, OpenFiles, CopyBlock, EndCopy, RemoveSource, DeleteMarker
<1>5. Own(u) => dst'[Target(u)] = dst[Target(u)]
  BY <1>4, OwnTarget, TargetIsTarget DEF Put, TypeOK
<1> QED
  BY <1>1, <1>2, <1>3, <1>5 DEF TypeOK

LEMMA FileStep == IInv /\ Next => FileOK' /\ NothingLost'
<1> SUFFICES ASSUME IInv, NEW t \in Threads, do_upload_file_finish_all(t), NEW u \in Threads
             PROVE  /\ (act[u] # "delete" /\ pc[u] \notin {"marker", "done"} => u \in src)'
                    /\ (Own(u) /\ pc[u] = "copy" => dst[Target(u)] = [of |-> u, blocks |-> copied[u]])'
                    /\ (Own(u) /\ pc[u] = "remove" => Complete(u))'
                    /\ (act[u] # "delete" /\ Own(u) => u \in src \/ Complete(u))'
  BY DEF Next, FileOK, NothingLost, Own
<1>1. TypeOK
  BY DEF IInv, MoveSound
<1>2. /\ act[u] # "delete" /\ pc[u] \notin {"marker", "done"} => u \in src
      /\ Own(u) /\ pc[u] = "copy" => dst[Target(u)] = [of |-> u, blocks |-> copied[u]]
      /\ Own(u) /\ pc[u] = "remove" => Complete(u)
      /\ act[u] # "delete" /\ Own(u) => u \in src \/ Complete(u)
  BY DEF IInv, MoveSound, FileOK, NothingLost, Own
<1>3. act' = act
  BY DEF do_upload_file_finish_all, recursive_make_dir, move_file, ActKeep, ActDelete, ActMove,
         StatDir, Mkdir, MkdirAgain, Rename, OpenFiles, CopyBlock, EndCopy, RemoveSource, DeleteMarker
<1>4. Target(u)' = Target(u) /\ (Own(u) <=> Own(u)')
  BY <1>3 DEF Target, Component, Timed, Own
<1>5. CASE u # t
  BY <1>1, <1>2, <1>4, <1>5, OthersFile DEF Complete
<1>6. CASE u = t
  <2> USE <1>1, <1>6 DEF TypeOK, Goto
  <2>1. CASE ActKeep(t) \/ ActMove(t) \/ recursive_make_dir(t)
    <3>1. UNCHANGED <<src, dst, copied>> /\ pc[t] \notin {"marker", "done"} /\ pc'[t] \notin {"copy", "remove"}
      BY <2>1 DEF ActKeep, ActMove, recursive_make_dir, StatDir, Mkdir, MkdirAgain, MadeDir, MakeDir,
                  MakeDirFailed, AfterDir
    <3> QED
      BY <1>2, <1>3, <1>4, <3>1 DEF Complete
  <2>2. CASE ActDelete(t)
    BY <1>3, <2>2 DEF ActDelete
  <2>3. CASE Rename(t) \/ OpenFiles(t)
    BY <1>2, <1>3, <1>4, <2>3, TargetIsTarget DEF Rename, OpenFiles, Put, Complete
  <2>4. CASE CopyBlock(t)
    BY <1>2, <1>3, <1>4, <2>4, TargetIsTarget DEF CopyBlock, Put, Complete
  <2>5. CASE EndCopy(t)
    BY <1>2, <1>3, <1>4, <2>5 DEF EndCopy, Complete
  <2>6. CASE RemoveSource(t) \/ DeleteMarker(t)
    BY <1>2, <1>3, <1>4, <2>6 DEF RemoveSource, DeleteMarker, Complete
  <2> QED
    BY <2>1, <2>2, <2>3, <2>4, <2>5, <2>6 DEF do_upload_file_finish_all, move_file
<1> QED
  BY <1>5, <1>6

(***************************************************************************)
(* Every step keeps what is known of a thread that is alone: the others    *)
(* make no directory, so that depth is what its own calls left.            *)
(***************************************************************************)
LEMMA AloneStep == IInv /\ Next => AloneOK'
<1> SUFFICES ASSUME IInv, NEW t \in Threads, do_upload_file_finish_all(t),
                    NEW u \in Threads, Alone(u)'
             PROVE  /\ pc'[u] = "stat" => (level'[u] = goal'[u] /\ level'[u] > 0) \/ level'[u] > depth'
                    /\ pc'[u] = "mkdir" => level'[u] > depth'
                    /\ pc'[u] = "again" => level'[u] = depth' + 1
                    /\ pc'[u] \in {"marker", "done"} /\ act'[u] # "keep" /\ u \notin failed' => u \notin src'
  BY DEF Next, AloneOK
<1>1. act' = act
  BY DEF do_upload_file_finish_all, recursive_make_dir, move_file, ActKeep, ActDelete, ActMove,
         StatDir, Mkdir, MkdirAgain, Rename, OpenFiles, CopyBlock, EndCopy, RemoveSource, DeleteMarker
<1>2. Alone(u)
  BY <1>1 DEF Alone
<1>3. /\ TypeOK
      /\ pc[u] = "stat" => (level[u] = goal[u] /\ level[u] > 0) \/ level[u] > depth
      /\ pc[u] = "mkdir" => level[u] > depth
      /\ pc[u] = "again" => level[u] = depth + 1
      /\ pc[u] \in {"marker", "done"} /\ act[u] # "keep" /\ u \notin failed => u \notin src
      /\ Making(u) => level[u] <= goal[u]
  BY <1>2 DEF IInv, MoveSound, AloneOK, DirOK
<1>4. CASE u # t
  <2>1. act[t] \in {"keep", "delete"} /\ pc[t] \in {"act", "marker", "done"}
    BY <1>2, <1>4 DEF Alone, IInv, DirOK
  <2>2. ActKeep(t) \/ ActDelete(t) \/ DeleteMarker(t)
    BY <2>1 DEF do_upload_file_finish_all, recursive_make_dir, move_file, ActMove, StatDir, Mkdir,
                MkdirAgain, Rename, OpenFiles, CopyBlock, EndCopy, RemoveSource
  <2> QED
    BY <1>3, <1>4, <2>2 DEF ActKeep, ActDelete, DeleteMarker, Fails, Goto, TypeOK, dirVars
<1>5. CASE u = t
  <2> USE <1>1, <1>3, <1>5, FinishAssumption DEF TypeOK, Goto, dirVars
  <2>1. CASE ActKeep(t) \/ ActDelete(t)
    BY <2>1 DEF ActKeep, ActDelete, Fails
  <2>2. CASE ActMove(t)
    BY <2>2 DEF ActMove, MakeDir, AfterDir
  <2>3. CASE StatDir(t)
    BY <2>3 DEF StatDir, MadeDir, MakeDir, AfterDir, Making
  <2>4. CASE Mkdir(t)
    <3>1. CASE level[t] = depth + 1
      <4>1. MadeDir(t) /\ depth' = level[t] /\ level[t] <= goal[t] /\ UNCHANGED <<src, failed>>
        BY <2>4, <3>1 DEF Mkdir, Making
      <4>2. CASE level[t] < goal[t]
        BY <4>1, <4>2 DEF MadeDir
      <4>3. CASE level[t] = goal[t]
        BY <4>1, <4>3 DEF MadeDir, MakeDir, AfterDir
      <4> QED
        BY <4>1, <4>2, <4>3
    <3>2. CASE level[t] # depth + 1
      <4>1. level[t] > depth + 1 /\ level[t] > 1
        BY <2>4, <3>2 DEF Mkdir
      <4>2. level' = [level EXCEPT ![t] = @ - 1] /\ depth' = depth /\ pc'[t] = "stat"
        BY <2>4, <3>2, <4>1 DEF Mkdir
      <4> QED
        BY <4>1, <4>2
    <3> QED
      BY <3>1, <3>2
  <2>5. CASE MkdirAgain(t)
    BY <2>5 DEF MkdirAgain, MadeDir, MakeDir, AfterDir, Making
  <2>6. CASE Rename(t) \/ OpenFiles(t) \/ CopyBlock(t)
    BY <2>6 DEF Rename, OpenFiles, CopyBlock, Fails
  <2>7. CASE EndCopy(t) \/ RemoveSource(t) \/ DeleteMarker(t)
    BY <2>7 DEF EndCopy, RemoveSource, DeleteMarker, Fails
  <2> QED
    BY <2>1, <2>2, <2>3, <2>4, <2>5, <2>6, <2>7
       DEF do_upload_file_finish_all, recursive_make_dir, move_file
<1> QED
  BY <1>4, <1>5

LEMMA StepIInv == IInv /\ [Next]_vars => IInv'
<1> SUFFICES ASSUME IInv, [Next]_vars PROVE IInv'
  OBVIOUS
<1>1. CASE Next
  BY <1>1, TypeStep, DirStep, FileStep, AloneStep DEF IInv, MoveSound
<1>2. CASE UNCHANGED vars
  BY <1>2 DEF vars, dirVars, IInv, MoveSound, TypeOK, NothingLost, TargetExists, DirOK, FileOK, AloneOK,
              Making, Own, Alone, Complete, Target, Component, Timed
<1> QED
  BY <1>1, <1>2

LEMMA IInvHolds == Spec => []IInv
<1>1. Init => IInv
  BY InitIInv
<1>2. IInv /\ [Next]_vars => IInv'
  BY StepIInv
<1> QED
  BY <1>1, <1>2, PTL DEF Spec

-----------------------------------------------------------------------------
(***************************************************************************)
(* Wherever the process is killed and whatever system call fails, a file   *)
(* that is to be moved is complete at one of its two places, and a file is *)
(* written only into a directory that exists (do_upload_file_finish_all of *)
(* monitor.c, recursive_make_dir and move_file of utils/utils.c).          *)
(***************************************************************************)
THEOREM MovesAreSound == Spec => []MoveSound
<1>1. IInv => MoveSound
  BY DEF IInv
<1> QED
  BY <1>1, IInvHolds, PTL

(***************************************************************************)
(* A thread that no other mover races with makes all components of its     *)
(* directory that are missing, and moves its file, unless a system call    *)
(* fails.                                                                  *)
(***************************************************************************)
THEOREM AloneMoves == Spec => []AloneIsMoved
<1>1. IInv => AloneIsMoved
  BY DEF IInv, AloneOK, AloneIsMoved
<1> QED
  BY <1>1, IInvHolds, PTL
===============================================================================
