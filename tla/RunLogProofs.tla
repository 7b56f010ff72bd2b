----------------------------- MODULE RunLogProofs -----------------------------
(***************************************************************************)
(* Proofs about RunLog, for every number of threads, logs, days and        *)
(* signals.                                                                *)
(***************************************************************************)
EXTENDS RunLog, TLAPS

-----------------------------------------------------------------------------
(***************************************************************************)
(* The inductive invariant.  OneInside: of the calls of one thread, the    *)
(* handler's and the one below it, only one is between lock and unlock of  *)
(* a log.  StampOK: a call has the dates it needs where it is, and whoever *)
(* is about to write has opened the file it asked for, which stays open    *)
(* until it leaves.  EndOK: a thread that ended is in no call.             *)
(***************************************************************************)
OneInside ==
  \A t \in Threads : \A i, j \in 1..Len(stack[t]) :
    Inside(stack[t][i]) /\ Inside(stack[t][j]) /\ stack[t][i].log = stack[t][j].log => i = j

HasDates(f) ==
  /\ f.pc \in {"lock", "rotate", "write"} => f.stamp \in Dates
  /\ f.pc \in {"rotate", "write"} \/ (f.pc = "lock" /\ f.log # RunningLog) => f.asked \in Dates

StampOK ==
  \A t \in Threads : \A i \in 1..Len(stack[t]) :
    /\ HasDates(stack[t][i])
    /\ stack[t][i].pc = "write" => file[stack[t][i].log] = stack[t][i].asked

DateOK == \A l \in Logs : file[l] \in {NoDay, date[l]}

EndOK == \A t \in Threads : ended[t] => stack[t] = <<>>

(***************************************************************************)
(* The dates.  SameOK: calls that are there together and took different    *)
(* days have crossed each other.  AloneOK: in a thread that nobody crossed *)
(* the struct holds the day of the call when it is read, and what was read *)
(* is the date of that day.                                                *)
(***************************************************************************)
SameOK ==
  \A t, u \in Threads : \A i \in 1..Len(stack[t]), j \in 1..Len(stack[u]) :
    stack[t][i].time # stack[u][j].time => crossed[t]

OwnDates(f, b) ==
  /\ f.stamp \in {NoDay, <<f.time, f.time>>}
  /\ f.asked \in {NoDay, <<f.time, f.time>>}
  /\ f.pc = "strftime" => b = f.time

AloneOK ==
  \A t \in Threads : \A i \in 1..Len(stack[t]) : ~crossed[t] => OwnDates(stack[t][i], tm)

DatesOK == SameOK /\ AloneOK

IInv == LockMeansInside /\ OneInside /\ StampOK /\ DateOK /\ EndOK /\ DatesOK

LEMMA InitIInv == Init => IInv
<1> SUFFICES ASSUME Init PROVE IInv
  OBVIOUS
<1> USE LogAssumption, NullAssumption DEF Init
<1>1. TypeOK
  <2>1. 0 \in Days /\ <<0, 0>> \in Dates
    BY DEF Days, Dates
  <2>2. <<>> \in Seq(Frame)
    OBVIOUS
  <2> QED
    BY <2>1, <2>2 DEF TypeOK
<1>2. \A t \in Threads : Len(stack[t]) = 0
  OBVIOUS
<1>3. \A l \in Logs, t \in Threads : lock[l] = t <=> Holds(t, l)
  <2> SUFFICES ASSUME NEW l \in Logs, NEW t \in Threads PROVE lock[l] # t /\ ~Holds(t, l)
    OBVIOUS
  <2>1. lock[l] = NoThread
    OBVIOUS
  <2>2. ~Holds(t, l)
    BY <1>2 DEF Holds
  <2> QED
    BY <2>1, <2>2
<1>4. OneInside /\ StampOK /\ DateOK /\ EndOK /\ DatesOK
  BY <1>2 DEF OneInside, StampOK, DateOK, EndOK, DatesOK, SameOK, AloneOK
<1> QED
  BY <1>1, <1>3, <1>4 DEF IInv, LockMeansInside

-----------------------------------------------------------------------------
(***************************************************************************)
(* What a step does to the stacks: a call is pushed, the top call changes, *)
(* or it returns.                                                          *)
(***************************************************************************)
LEMMA PushStack ==
  ASSUME TypeOK, NEW t \in Threads, NEW f \in Frame, stack' = [stack EXCEPT ![t] = <<f>> \o @]
  PROVE  /\ stack' \in [Threads -> Seq(Frame)]
         /\ \A u \in Threads \ {t} : stack'[u] = stack[u]
         /\ stack'[t] # <<>>
         /\ \A i \in 1..Len(stack'[t]) :
              IF i = 1 THEN stack'[t][i] = f ELSE i - 1 \in 1..Len(stack[t]) /\ stack'[t][i] = stack[t][i - 1]
         /\ \A i \in 1..Len(stack[t]) : i + 1 \in 1..Len(stack'[t]) /\ stack'[t][i + 1] = stack[t][i]
<1>1. stack[t] \in Seq(Frame) /\ stack'[t] = <<f>> \o stack[t]
  BY DEF TypeOK
<1>2. <<f>> \o stack[t] \in Seq(Frame) /\ Len(<<f>> \o stack[t]) = Len(stack[t]) + 1
  BY <1>1
<1>3. (<<f>> \o stack[t])[1] = f /\ \A i \in 1..Len(stack[t]) : (<<f>> \o stack[t])[i + 1] = stack[t][i]
  BY <1>1
<1>4. stack' \in [Threads -> Seq(Frame)] /\ \A u \in Threads \ {t} : stack'[u] = stack[u]
  BY <1>1, <1>2 DEF TypeOK
<1>5. Len(stack[t]) \in Nat
  BY <1>1
<1>6. \A i \in 1..Len(stack[t]) + 1 : i # 1 => i - 1 \in 1..Len(stack[t]) /\ stack'[t][i] = stack[t][i - 1]
  <2> SUFFICES ASSUME NEW i \in 1..Len(stack[t]) + 1, i # 1
               PROVE  i - 1 \in 1..Len(stack[t]) /\ stack'[t][i] = stack[t][i - 1]
    OBVIOUS
  <2>1. i - 1 \in 1..Len(stack[t]) /\ (i - 1) + 1 = i
    BY <1>5
  <2> QED
    BY <1>1, <1>3, <2>1
<1> QED
  BY <1>1, <1>2, <1>3, <1>4, <1>5, <1>6

LEMMA TopStack ==
  ASSUME TypeOK, NEW t \in Threads, stack[t] # <<>>, NEW f \in Frame, stack' = [stack EXCEPT ![t][1] = f]
  PROVE  /\ stack' \in [Threads -> Seq(Frame)]
         /\ \A u \in Threads \ {t} : stack'[u] = stack[u]
         /\ Len(stack'[t]) = Len(stack[t]) /\ stack'[t] # <<>>
         /\ 1 \in 1..Len(stack[t])
         /\ \A i \in 1..Len(stack[t]) : stack'[t][i] = IF i = 1 THEN f ELSE stack[t][i]
<1>1. stack[t] \in Seq(Frame) /\ stack'[t] = [stack[t] EXCEPT ![1] = f]
  BY DEF TypeOK
<1>2. 1 \in 1..Len(stack[t])
  BY <1>1
<1>3. [stack[t] EXCEPT ![1] = f] \in Seq(Frame) /\ Len([stack[t] EXCEPT ![1] = f]) = Len(stack[t])
  BY <1>1, <1>2
<1>4. stack' \in [Threads -> Seq(Frame)] /\ \A u \in Threads \ {t} : stack'[u] = stack[u]
  BY <1>1, <1>3 DEF TypeOK
<1>5. \A i \in 1..Len(stack[t]) : stack'[t][i] = IF i = 1 THEN f ELSE stack[t][i]
  BY <1>1
<1> QED
  BY <1>1, <1>2, <1>3, <1>4, <1>5

LEMMA GotoStack ==
  ASSUME TypeOK, NEW t \in Threads, stack[t] # <<>>,
         NEW l \in {"localtime", "strftime", "write", "rotate", "clear"}, Goto(t, l)
  PROVE  \E f \in Frame : /\ stack' = [stack EXCEPT ![t][1] = f] /\ UNCHANGED crossed
                          /\ f.pc = l /\ f.log = Top(t).log /\ f.time = Top(t).time
                          /\ f.stamp = Top(t).stamp /\ f.asked = Top(t).asked
<1>1. stack[t] \in Seq(Frame) /\ Top(t) \in Frame
  BY DEF TypeOK, Top
<1>2. stack' = [stack EXCEPT ![t][1] = [Top(t) EXCEPT !.pc = l]]
  BY DEF Goto, Top
<1>3. [Top(t) EXCEPT !.pc = l] \in Frame
  BY <1>1 DEF Frame
<1>4. LET f == [Top(t) EXCEPT !.pc = l] IN
      f.pc = l /\ f.log = Top(t).log /\ f.time = Top(t).time /\ f.stamp = Top(t).stamp /\ f.asked = Top(t).asked
  BY <1>1 DEF Frame
<1> QED
  BY <1>2, <1>3, <1>4 DEF Goto

LEMMA ReturnStack ==
  ASSUME TypeOK, NEW t \in Threads, stack[t] # <<>>, Return(t)
  PROVE  /\ stack' \in [Threads -> Seq(Frame)]
         /\ \A u \in Threads \ {t} : stack'[u] = stack[u]
         /\ \A i \in 1..Len(stack'[t]) : i + 1 \in 1..Len(stack[t]) /\ stack'[t][i] = stack[t][i + 1]
         /\ \A i \in 1..Len(stack[t]) : i # 1 => i - 1 \in 1..Len(stack'[t]) /\ stack'[t][i - 1] = stack[t][i]
<1>1. stack[t] \in Seq(Frame) /\ stack'[t] = Tail(stack[t])
  BY DEF Return, TypeOK
<1>2. Tail(stack[t]) \in Seq(Frame) /\ Len(Tail(stack[t])) = Len(stack[t]) - 1 /\ Len(stack[t]) \in Nat
  BY <1>1
<1>3. \A i \in 1..Len(stack[t]) - 1 : Tail(stack[t])[i] = stack[t][i + 1]
  BY <1>1
<1>4. stack' \in [Threads -> Seq(Frame)] /\ \A u \in Threads \ {t} : stack'[u] = stack[u]
  BY <1>1, <1>2 DEF Return, TypeOK
<1>5. \A i \in 1..Len(stack[t]) : i # 1 => i - 1 \in 1..Len(stack'[t]) /\ stack'[t][i - 1] = stack[t][i]
  <2> SUFFICES ASSUME NEW i \in 1..Len(stack[t]), i # 1
               PROVE  i - 1 \in 1..Len(stack'[t]) /\ stack'[t][i - 1] = stack[t][i]
    OBVIOUS
  <2>1. i - 1 \in 1..Len(stack[t]) - 1 /\ (i - 1) + 1 = i
    BY <1>2
  <2> QED
    BY <1>1, <1>2, <1>3, <2>1
<1> QED
  BY <1>1, <1>2, <1>3, <1>4, <1>5
-----------------------------------------------------------------------------
(***************************************************************************)
(* A call that begins, and one that leaves while it is not inside, change  *)
(* nothing about who is inside.                                            *)
(***************************************************************************)
StackOK == OneInside /\ StampOK /\ EndOK
LockOK == \A l \in Logs, t \in Threads : lock[l] = t <=> Holds(t, l)

LEMMA PushKeeps ==
  ASSUME TypeOK, StackOK, LockOK, NEW t \in Threads, ~ended[t],
         NEW l \in Logs, NEW h \in BOOLEAN, Begin(t, l, h),
         UNCHANGED <<lock, file, ended>>
  PROVE  stack' \in [Threads -> Seq(Frame)] /\ StackOK' /\ LockOK'
<1> DEFINE f == NewCall(l, h)
<1>1. f \in Frame /\ ~Inside(f) /\ f.pc = "localtime"
  BY DEF NewCall, Frame, Inside, TypeOK
<1>11. stack' = [stack EXCEPT ![t] = <<f>> \o @] /\ HasDates(f)
  BY DEF Begin, HasDates, NewCall
<1>2. /\ stack' \in [Threads -> Seq(Frame)]
      /\ \A u \in Threads \ {t} : stack'[u] = stack[u]
      /\ stack'[t] # <<>>
      /\ \A i \in 1..Len(stack'[t]) :
           IF i = 1 THEN stack'[t][i] = f ELSE i - 1 \in 1..Len(stack[t]) /\ stack'[t][i] = stack[t][i - 1]
      /\ \A i \in 1..Len(stack[t]) : i + 1 \in 1..Len(stack'[t]) /\ stack'[t][i + 1] = stack[t][i]
  <2> HIDE DEF f
  <2> QED
    BY <1>1, <1>11, PushStack DEF f
<1> HIDE DEF f
<1>3. ASSUME NEW u \in Threads, NEW m \in Logs PROVE Holds(u, m)' <=> Holds(u, m)
  <2>1. CASE u # t
    BY <1>2, <2>1 DEF Holds
  <2>2. CASE u = t
    <3>1. ASSUME NEW i \in 1..Len(stack'[t]), stack'[t][i].log = m, Inside(stack'[t][i])
          PROVE  Holds(t, m)
      <4>1. i # 1
        BY <1>1, <1>2, <3>1
      <4>2. i - 1 \in 1..Len(stack[t]) /\ stack'[t][i] = stack[t][i - 1]
        BY <1>2, <4>1
      <4> QED
        BY <3>1, <4>2 DEF Holds
    <3>2. ASSUME NEW i \in 1..Len(stack[t]), stack[t][i].log = m, Inside(stack[t][i])
          PROVE  Holds(t, m)'
      <4>1. i + 1 \in 1..Len(stack'[t]) /\ stack'[t][i + 1] = stack[t][i]
        BY <1>2
      <4> QED
        BY <3>2, <4>1 DEF Holds, Inside
    <3> QED
      BY <2>2, <3>1, <3>2 DEF Holds, Inside
  <2> QED
    BY <2>1, <2>2
<1>4. OneInside'
  <2> SUFFICES ASSUME NEW u \in Threads, NEW i \in 1..Len(stack'[u]), NEW j \in 1..Len(stack'[u]),
                      Inside(stack'[u][i]), Inside(stack'[u][j]), stack'[u][i].log = stack'[u][j].log
               PROVE  i = j
    BY DEF OneInside, Inside
  <2>1. CASE u # t
    BY <1>2, <2>1 DEF StackOK, OneInside
  <2>2. CASE u = t
    <3>1. i # 1 /\ j # 1
      BY <1>1, <1>2, <2>2
    <3>2. /\ i - 1 \in 1..Len(stack[t]) /\ stack'[t][i] = stack[t][i - 1]
          /\ j - 1 \in 1..Len(stack[t]) /\ stack'[t][j] = stack[t][j - 1]
      BY <1>2, <2>2, <3>1
    <3>3. i - 1 = j - 1
      BY <2>2, <3>2 DEF StackOK, OneInside
    <3> QED
      BY <3>3
  <2> QED
    BY <2>1, <2>2
<1>5. StampOK'
  <2> SUFFICES ASSUME NEW u \in Threads, NEW i \in 1..Len(stack'[u])
               PROVE  /\ HasDates(stack'[u][i])
                      /\ stack'[u][i].pc = "write" => file'[stack'[u][i].log] = stack'[u][i].asked
    BY DEF StampOK, HasDates
  <2>1. CASE u # t
    BY <1>2, <2>1 DEF StackOK, StampOK
  <2>2. CASE u = t /\ i = 1
    BY <1>1, <1>11, <1>2, <2>2
  <2>3. CASE u = t /\ i # 1
    <3>1. i - 1 \in 1..Len(stack[t]) /\ stack'[t][i] = stack[t][i - 1]
      BY <1>2, <2>3
    <3> QED
      BY <2>3, <3>1 DEF StackOK, StampOK
  <2> QED
    BY <2>1, <2>2, <2>3
<1>6. EndOK'
  BY <1>2 DEF StackOK, EndOK
<1> QED
  BY <1>2, <1>3, <1>4, <1>5, <1>6 DEF StackOK, LockOK

LEMMA ReturnKeeps ==
  ASSUME TypeOK, StackOK, LockOK, NEW t \in Threads, stack[t] # <<>>, Return(t),
         UNCHANGED <<file, ended>>,
         IF Inside(Top(t)) THEN lock' = [lock EXCEPT ![Top(t).log] = NoThread] ELSE lock' = lock
  PROVE  stack' \in [Threads -> Seq(Frame)] /\ StackOK' /\ LockOK'
<1>1. /\ stack' \in [Threads -> Seq(Frame)]
      /\ \A u \in Threads \ {t} : stack'[u] = stack[u]
      /\ \A i \in 1..Len(stack'[t]) : i + 1 \in 1..Len(stack[t]) /\ stack'[t][i] = stack[t][i + 1]
      /\ \A i \in 1..Len(stack[t]) : i # 1 => i - 1 \in 1..Len(stack'[t]) /\ stack'[t][i - 1] = stack[t][i]
  BY ReturnStack
<1>2. stack[t] \in Seq(Frame) /\ 1 \in 1..Len(stack[t]) /\ Top(t) = stack[t][1] /\ Top(t) \in Frame
  BY DEF TypeOK, Top
<1>3. ASSUME NEW m \in Logs
      PROVE  Holds(t, m)' <=> Holds(t, m) /\ ~(Inside(Top(t)) /\ m = Top(t).log)
  <2>1. ASSUME NEW i \in 1..Len(stack'[t]), stack'[t][i].log = m, Inside(stack'[t][i])
        PROVE  Holds(t, m) /\ ~(Inside(Top(t)) /\ m = Top(t).log)
    <3>1. i + 1 \in 1..Len(stack[t]) /\ stack'[t][i] = stack[t][i + 1] /\ i + 1 # 1
      BY <1>1
    <3>2. Holds(t, m)
      BY <2>1, <3>1 DEF Holds, Inside
    <3>3. ~(Inside(Top(t)) /\ m = Top(t).log)
      BY <1>2, <2>1, <3>1 DEF StackOK, OneInside
    <3> QED
      BY <3>2, <3>3
  <2>2. ASSUME NEW i \in 1..Len(stack[t]), stack[t][i].log = m, Inside(stack[t][i]),
               ~(Inside(Top(t)) /\ m = Top(t).log)
        PROVE  Holds(t, m)'
    <3>1. i # 1
      BY <1>2, <2>2
    <3>2. i - 1 \in 1..Len(stack'[t]) /\ stack'[t][i - 1] = stack[t][i]
      BY <1>1, <3>1
    <3> QED
      BY <2>2, <3>2 DEF Holds, Inside
  <2> QED
    BY <2>1, <2>2 DEF Holds, Inside
<1>4. ASSUME NEW u \in Threads, NEW m \in Logs, u # t PROVE Holds(u, m)' <=> Holds(u, m)
  BY <1>1, <1>4 DEF Holds
<1>5. Inside(Top(t)) => Holds(t, Top(t).log) /\ Top(t).log \in Logs
  BY <1>2 DEF Holds, Inside, Frame
<1>6. LockOK'
  BY <1>3, <1>4, <1>5, NullAssumption DEF LockOK, TypeOK
<1>7. OneInside'
  <2> SUFFICES ASSUME NEW u \in Threads, NEW i \in 1..Len(stack'[u]), NEW j \in 1..Len(stack'[u]),
                      Inside(stack'[u][i]), Inside(stack'[u][j]), stack'[u][i].log = stack'[u][j].log
               PROVE  i = j
    BY DEF OneInside, Inside
  <2>1. CASE u # t
    BY <1>1, <2>1 DEF StackOK, OneInside
  <2>2. CASE u = t
    <3>1. /\ i + 1 \in 1..Len(stack[t]) /\ stack'[t][i] = stack[t][i + 1]
          /\ j + 1 \in 1..Len(stack[t]) /\ stack'[t][j] = stack[t][j + 1]
      BY <1>1, <2>2
    <3>2. i + 1 = j + 1
      BY <2>2, <3>1 DEF StackOK, OneInside
    <3> QED
      BY <3>2
  <2> QED
    BY <2>1, <2>2
<1>8. StampOK'
  <2> SUFFICES ASSUME NEW u \in Threads, NEW i \in 1..Len(stack'[u])
               PROVE  /\ HasDates(stack'[u][i])
                      /\ stack'[u][i].pc = "write" => file'[stack'[u][i].log] = stack'[u][i].asked
    BY DEF StampOK, HasDates
  <2>1. CASE u # t
    <3>1. stack'[u] = stack[u] /\ file' = file
      BY <1>1, <2>1
    <3> QED
      BY <3>1 DEF StackOK, StampOK
  <2>2. CASE u = t
    <3>1. i + 1 \in 1..Len(stack[t]) /\ stack'[t][i] = stack[t][i + 1]
      BY <1>1, <2>2
    <3> QED
      BY <2>2, <3>1 DEF StackOK, StampOK
  <2> QED
    BY <2>1, <2>2
<1>9. EndOK'
  BY <1>1 DEF StackOK, EndOK
<1> QED
  BY <1>1, <1>6, <1>7, <1>8, <1>9 DEF StackOK

(***************************************************************************)
(* The top call of t becomes f, which is inside or not: the lock follows.  *)
(* A call that enters finds the lock free, and whoever writes has its file *)
(* open.                                                                   *)
(***************************************************************************)
LEMMA TopKeeps ==
  ASSUME TypeOK, StackOK, LockOK, NEW t \in Threads, stack[t] # <<>>, UNCHANGED ended,
         NEW f \in Frame, stack' = [stack EXCEPT ![t][1] = f], f.log = Top(t).log,
         HasDates(f),
         f.pc = "write" => file'[f.log] = f.asked,
         \A m \in Logs : file'[m] = file[m] \/ (Inside(Top(t)) /\ m = Top(t).log),
         CASE Inside(f) /\ ~Inside(Top(t)) ->
                lock[f.log] = NoThread /\ lock' = [lock EXCEPT ![f.log] = t]
           [] ~Inside(f) /\ Inside(Top(t)) -> lock' = [lock EXCEPT ![f.log] = NoThread]
           [] OTHER -> lock' = lock
  PROVE  stack' \in [Threads -> Seq(Frame)] /\ StackOK' /\ LockOK'
<1>1. /\ stack' \in [Threads -> Seq(Frame)]
      /\ \A u \in Threads \ {t} : stack'[u] = stack[u]
      /\ Len(stack'[t]) = Len(stack[t]) /\ stack'[t] # <<>>
      /\ 1 \in 1..Len(stack[t])
      /\ \A i \in 1..Len(stack[t]) : stack'[t][i] = IF i = 1 THEN f ELSE stack[t][i]
  BY TopStack
<1>2. Top(t) = stack[t][1] /\ Top(t) \in Frame /\ f.log \in Logs
  <2>1. stack[t] \in Seq(Frame)
    BY DEF TypeOK
  <2>2. stack[t][1] \in Frame
    BY <1>1, <2>1
  <2>3. f.log \in Logs
    BY DEF Frame
  <2> QED
    BY <2>2, <2>3 DEF Top
<1>3. (CASE Inside(f) /\ ~Inside(Top(t)) ->
              lock[f.log] = NoThread /\ lock' = [lock EXCEPT ![f.log] = t]
         [] ~Inside(f) /\ Inside(Top(t)) -> lock' = [lock EXCEPT ![f.log] = NoThread]
         [] OTHER -> lock' = lock) <=>
      /\ Inside(f) /\ ~Inside(Top(t)) =>
           lock[f.log] = NoThread /\ lock' = [lock EXCEPT ![f.log] = t]
      /\ ~Inside(f) /\ Inside(Top(t)) => lock' = [lock EXCEPT ![f.log] = NoThread]
      /\ (Inside(f) <=> Inside(Top(t))) => lock' = lock
  OBVIOUS
<1>4. Inside(f) /\ ~Inside(Top(t)) => ~Holds(t, f.log)
  BY <1>2, <1>3, NullAssumption DEF LockOK
<1>5. OneInside'
  <2> SUFFICES ASSUME NEW u \in Threads, NEW i \in 1..Len(stack'[u]), NEW j \in 1..Len(stack'[u]),
                      Inside(stack'[u][i]), Inside(stack'[u][j]), stack'[u][i].log = stack'[u][j].log
               PROVE  i = j
    BY DEF OneInside, Inside
  <2>1. CASE u # t
    BY <1>1, <2>1 DEF StackOK, OneInside
  <2>2. CASE u = t
    <3>1. i \in 1..Len(stack[t]) /\ j \in 1..Len(stack[t])
      BY <1>1, <2>2
    <3>2. CASE i # 1 /\ j # 1
      BY <1>1, <2>2, <3>1, <3>2 DEF StackOK, OneInside
    <3>3. CASE i = 1 /\ j # 1
      BY <1>1, <1>2, <1>4, <2>2, <3>1, <3>3 DEF StackOK, OneInside, Holds, Inside
    <3>4. CASE i # 1 /\ j = 1
      BY <1>1, <1>2, <1>4, <2>2, <3>1, <3>4 DEF StackOK, OneInside, Holds, Inside
    <3> QED
      BY <3>2, <3>3, <3>4
  <2> QED
    BY <2>1, <2>2
<1>6. ASSUME NEW m \in Logs
      PROVE  Holds(t, m)' <=> IF m = f.log /\ (Inside(f) \/ Inside(Top(t))) THEN Inside(f) ELSE Holds(t, m)
  <2>1. CASE m # f.log \/ (~Inside(f) /\ ~Inside(Top(t)))
    BY <1>1, <1>2, <2>1 DEF Holds, Inside
  <2>2. CASE m = f.log /\ Inside(f)
    BY <1>1, <2>2 DEF Holds, Inside
  <2>3. CASE m = f.log /\ ~Inside(f) /\ Inside(Top(t))
    BY <1>1, <1>2, <2>3 DEF Holds, Inside, StackOK, OneInside
  <2> QED
    BY <2>1, <2>2, <2>3
<1>7. ASSUME NEW u \in Threads, NEW m \in Logs, u # t PROVE Holds(u, m)' <=> Holds(u, m)
  BY <1>1, <1>7 DEF Holds
<1>8. Inside(Top(t)) => Holds(t, f.log)
  BY <1>1, <1>2 DEF Holds, Inside
<1>9. LockOK'
  <2> SUFFICES ASSUME NEW m \in Logs, NEW u \in Threads PROVE lock'[m] = u <=> Holds(u, m)'
    BY DEF LockOK
  <2>1. CASE Inside(f) /\ ~Inside(Top(t))
    <3>1. lock[f.log] = NoThread /\ lock' = [lock EXCEPT ![f.log] = t]
      BY <1>3, <2>1
    <3>2. CASE m = f.log
      BY <1>2, <1>6, <1>7, <2>1, <3>1, <3>2, NullAssumption DEF LockOK, TypeOK
    <3>3. CASE m # f.log
      <4>1. Holds(u, m)' <=> Holds(u, m)
        BY <1>6, <1>7, <3>3
      <4> QED
        BY <3>1, <3>3, <4>1 DEF LockOK, TypeOK
    <3> QED
      BY <3>2, <3>3
  <2>2. CASE ~Inside(f) /\ Inside(Top(t))
    <3>1. lock' = [lock EXCEPT ![f.log] = NoThread]
      BY <1>3, <2>2
    <3>2. CASE m = f.log
      <4>1. lock'[m] = NoThread /\ NoThread # u
        BY <1>2, <3>1, <3>2, NullAssumption DEF TypeOK
      <4>2. lock[m] = t
        BY <1>2, <1>8, <2>2, <3>2 DEF LockOK
      <4>3. CASE u = t
        BY <1>6, <2>2, <3>2, <4>1, <4>3
      <4>4. CASE u # t
        <5>1. ~Holds(u, m)
          BY <4>2, <4>4 DEF LockOK
        <5> QED
          BY <1>7, <4>1, <4>4, <5>1
      <4> QED
        BY <4>3, <4>4
    <3>3. CASE m # f.log
      <4>1. Holds(u, m)' <=> Holds(u, m)
        BY <1>6, <1>7, <3>3
      <4> QED
        BY <3>1, <3>3, <4>1 DEF LockOK, TypeOK
    <3> QED
      BY <3>2, <3>3
  <2>3. CASE Inside(f) <=> Inside(Top(t))
    BY <1>2, <1>3, <1>6, <1>7, <1>8, <2>3 DEF LockOK, TypeOK
  <2> QED
    BY <2>1, <2>2, <2>3
<1>10. StampOK'
  <2> SUFFICES ASSUME NEW u \in Threads, NEW i \in 1..Len(stack'[u])
               PROVE  /\ HasDates(stack'[u][i])
                      /\ stack'[u][i].pc = "write" => file'[stack'[u][i].log] = stack'[u][i].asked
    BY DEF StampOK, HasDates
  <2>1. CASE u = t /\ i = 1
    BY <1>1, <2>1
  <2>2. CASE ~(u = t /\ i = 1)
    <3>1. i \in 1..Len(stack[u]) /\ stack'[u][i] = stack[u][i]
      BY <1>1, <2>2
    <3>2. stack[u][i] \in Frame
      BY <3>1 DEF TypeOK
    <3>3. stack[u][i].pc = "write" /\ stack[u][i].log = Top(t).log /\ Inside(Top(t)) => FALSE
      <4>1. SUFFICES ASSUME stack[u][i].pc = "write", stack[u][i].log = Top(t).log, Inside(Top(t))
                     PROVE FALSE
        OBVIOUS
      <4>2. Holds(u, f.log) /\ Holds(t, f.log)
        BY <1>8, <3>1, <4>1 DEF Holds, Inside
      <4>3. u = t
        BY <1>2, <4>2 DEF LockOK
      <4> QED
        BY <1>1, <1>2, <2>2, <3>1, <4>1, <4>3 DEF StackOK, OneInside, Inside
    <3> QED
      BY <3>1, <3>2, <3>3 DEF StackOK, StampOK, Frame
  <2> QED
    BY <2>1, <2>2
<1>11. EndOK'
  BY <1>1 DEF StackOK, EndOK
<1> QED
  BY <1>1, <1>5, <1>9, <1>10, <1>11 DEF StackOK
-----------------------------------------------------------------------------
(***************************************************************************)
(* The dates, by what happens to the stack of a thread.  A call that       *)
(* begins crosses those of another day and is crossed by them.             *)
(***************************************************************************)
LEMMA BeginDates ==
  ASSUME TypeOK, DatesOK, NEW t \in Threads, NEW l \in Logs, NEW h \in BOOLEAN, Begin(t, l, h),
         UNCHANGED tm
  PROVE  DatesOK' /\ crossed' \in [Threads -> BOOLEAN]
<1> DEFINE f == NewCall(l, h)
<1>1. f \in Frame /\ f.time = day /\ OwnDates(f, tm)
  BY DEF NewCall, Frame, OwnDates, TypeOK
<1>2. stack' = [stack EXCEPT ![t] = <<f>> \o @]
  BY DEF Begin
<1> HIDE DEF f
<1>3. /\ stack' \in [Threads -> Seq(Frame)]
      /\ \A u \in Threads \ {t} : stack'[u] = stack[u]
      /\ \A i \in 1..Len(stack'[t]) :
           IF i = 1 THEN stack'[t][i] = f ELSE i - 1 \in 1..Len(stack[t]) /\ stack'[t][i] = stack[t][i - 1]
  BY <1>1, <1>2, PushStack
<1>4. \A u \in Threads : crossed'[u] <=> \/ crossed[u] \/ OfAnotherDay(u)
                                         \/ u = t /\ \E v \in Threads : OfAnotherDay(v)
  BY DEF Begin
<1>5. crossed' \in [Threads -> BOOLEAN]
  BY DEF Begin, TypeOK, OfAnotherDay
<1>6. ASSUME NEW u \in Threads, NEW i \in 1..Len(stack'[u])
      PROVE  \/ u = t /\ i = 1 /\ stack'[u][i] = f
             \/ \E m \in 1..Len(stack[u]) : stack'[u][i] = stack[u][m]
  <2>1. CASE u # t
    BY <1>3, <2>1
  <2>2. CASE u = t
    BY <1>3, <2>2
  <2> QED
    BY <2>1, <2>2
<1>7. SameOK'
  <2> SUFFICES ASSUME NEW u \in Threads, NEW v \in Threads, NEW i \in 1..Len(stack'[u]), NEW j \in 1..Len(stack'[v]),
                      stack'[u][i].time # stack'[v][j].time
               PROVE  crossed'[u]
    BY DEF SameOK
  <2>1. CASE stack'[u][i] = f /\ u = t
    <3>1. PICK m \in 1..Len(stack[v]) : stack'[v][j] = stack[v][m]
      BY <1>6, <2>1
    <3>2. OfAnotherDay(v)
      BY <1>1, <2>1, <3>1 DEF OfAnotherDay
    <3> QED
      BY <1>4, <2>1, <3>2
  <2>2. CASE \E m \in 1..Len(stack[u]) : stack'[u][i] = stack[u][m]
    <3>1. PICK m \in 1..Len(stack[u]) : stack'[u][i] = stack[u][m]
      BY <2>2
    <3>2. CASE stack'[v][j] = f
      <4>1. OfAnotherDay(u)
        BY <1>1, <3>1, <3>2 DEF OfAnotherDay
      <4> QED
        BY <1>4, <4>1
    <3>3. CASE \E n \in 1..Len(stack[v]) : stack'[v][j] = stack[v][n]
      BY <1>4, <3>1, <3>3 DEF DatesOK, SameOK
    <3> QED
      BY <1>6, <3>2, <3>3
  <2> QED
    BY <1>6, <2>1, <2>2
<1>8. AloneOK'
  <2> SUFFICES ASSUME NEW u \in Threads, NEW i \in 1..Len(stack'[u]), ~crossed'[u]
               PROVE  OwnDates(stack'[u][i], tm)
    BY DEF AloneOK, OwnDates
  <2>1. ~crossed[u]
    BY <1>4
  <2> QED
    BY <1>1, <1>6, <2>1 DEF DatesOK, AloneOK
<1> QED
  BY <1>5, <1>7, <1>8 DEF DatesOK

(***************************************************************************)
(* The top call goes on, and may fill the struct with its own day: whoever *)
(* reads it and was not crossed took the same day.                         *)
(***************************************************************************)
LEMMA TopDates ==
  ASSUME TypeOK, DatesOK, NEW t \in Threads, stack[t] # <<>>, NEW f \in Frame,
         stack' = [stack EXCEPT ![t][1] = f], f.time = Top(t).time, UNCHANGED crossed,
         tm' = tm \/ tm' = Top(t).time,
         ~crossed[t] => OwnDates(f, tm')
  PROVE  DatesOK'
<1>1. /\ \A u \in Threads \ {t} : stack'[u] = stack[u]
      /\ Len(stack'[t]) = Len(stack[t]) /\ 1 \in 1..Len(stack[t])
      /\ \A i \in 1..Len(stack[t]) : stack'[t][i] = IF i = 1 THEN f ELSE stack[t][i]
  BY TopStack
<1>2. Top(t) = stack[t][1]
  BY DEF Top
<1>3. ASSUME NEW u \in Threads, NEW i \in 1..Len(stack'[u])
      PROVE  i \in 1..Len(stack[u]) /\ stack'[u][i].time = stack[u][i].time
  BY <1>1, <1>2
<1>4. SameOK'
  BY <1>3 DEF DatesOK, SameOK
<1>5. AloneOK'
  <2> SUFFICES ASSUME NEW u \in Threads, NEW i \in 1..Len(stack'[u]), ~crossed[u]
               PROVE  OwnDates(stack'[u][i], tm')
    BY DEF AloneOK, OwnDates
  <2>1. CASE u = t /\ i = 1
    BY <1>1, <2>1
  <2>2. CASE ~(u = t /\ i = 1)
    <3>1. i \in 1..Len(stack[u]) /\ stack'[u][i] = stack[u][i]
      BY <1>1, <2>2
    <3>2. stack[u][i].time = Top(t).time
      BY <1>1, <1>2, <3>1 DEF DatesOK, SameOK
    <3> QED
      BY <3>1, <3>2 DEF DatesOK, AloneOK, OwnDates
  <2> QED
    BY <2>1, <2>2
<1> QED
  BY <1>4, <1>5 DEF DatesOK

LEMMA ReturnDates ==
  ASSUME TypeOK, DatesOK, NEW t \in Threads, stack[t] # <<>>, Return(t), UNCHANGED tm
  PROVE  DatesOK' /\ crossed' \in [Threads -> BOOLEAN]
<1>1. /\ \A u \in Threads \ {t} : stack'[u] = stack[u]
      /\ \A i \in 1..Len(stack'[t]) : i + 1 \in 1..Len(stack[t]) /\ stack'[t][i] = stack[t][i + 1]
  BY ReturnStack
<1>2. crossed' = [crossed EXCEPT ![t] = crossed[t] /\ Len(stack[t]) > 1]
  BY DEF Return
<1>3. crossed' \in [Threads -> BOOLEAN]
  BY <1>2 DEF TypeOK
<1>4. \A u \in Threads : stack'[u] # <<>> => (crossed'[u] <=> crossed[u])
  <2>1. stack[t] \in Seq(Frame) /\ stack'[t] = Tail(stack[t])
    BY DEF Return, TypeOK
  <2>2. stack'[t] # <<>> => Len(stack[t]) > 1
    BY <2>1
  <2> QED
    BY <1>2, <2>2 DEF TypeOK
<1>5. ASSUME NEW u \in Threads, NEW i \in 1..Len(stack'[u])
      PROVE  (crossed'[u] <=> crossed[u]) /\ \E m \in 1..Len(stack[u]) : stack'[u][i] = stack[u][m]
  <2>1. stack'[u] # <<>>
    OBVIOUS
  <2>2. CASE u # t
    BY <1>1, <1>4, <2>1, <2>2
  <2>3. CASE u = t
    BY <1>1, <1>4, <2>1, <2>3
  <2> QED
    BY <2>2, <2>3
<1>6. SameOK'
  <2> SUFFICES ASSUME NEW u \in Threads, NEW v \in Threads, NEW i \in 1..Len(stack'[u]), NEW j \in 1..Len(stack'[v]),
                      stack'[u][i].time # stack'[v][j].time
               PROVE  crossed'[u]
    BY DEF SameOK
  <2>1. PICK m \in 1..Len(stack[u]) : stack'[u][i] = stack[u][m]
    BY <1>5
  <2>2. PICK n \in 1..Len(stack[v]) : stack'[v][j] = stack[v][n]
    BY <1>5
  <2>3. crossed[u]
    BY <2>1, <2>2 DEF DatesOK, SameOK
  <2> QED
    BY <1>5, <2>3
<1>7. AloneOK'
  BY <1>5 DEF DatesOK, AloneOK, OwnDates
<1> QED
  BY <1>3, <1>6, <1>7 DEF DatesOK

-----------------------------------------------------------------------------
(***************************************************************************)
(* Every step keeps the invariant, one step per action.                    *)
(***************************************************************************)
LEMMA TopIs ==
  ASSUME TypeOK, StackOK, NEW t \in Threads, stack[t] # <<>>
  PROVE  /\ Top(t) \in Frame /\ Top(t).log \in Logs /\ Top(t).time \in Days
         /\ Top(t) = stack[t][1] /\ 1 \in 1..Len(stack[t])
         /\ HasDates(Top(t))
         /\ Top(t).pc = "write" => file[Top(t).log] = Top(t).asked
<1>1. stack[t] \in Seq(Frame)
  BY DEF TypeOK
<1>2. stack[t][1] \in Frame /\ 1 \in 1..Len(stack[t])
  BY <1>1
<1>3. stack[t][1].log \in Logs /\ stack[t][1].time \in Days
  BY <1>2 DEF Frame
<1> QED
  BY <1>2, <1>3 DEF Top, StackOK, StampOK

LEMMA StepIInv == IInv /\ [Next]_vars => IInv'
<1> SUFFICES ASSUME IInv, [Next]_vars PROVE IInv'
  OBVIOUS
<1>0. TypeOK /\ StackOK /\ LockOK /\ DateOK /\ DatesOK
  BY DEF IInv, LockMeansInside, StackOK, LockOK
<1>00. ASSUME TypeOK', StackOK', LockOK', DateOK', DatesOK' PROVE IInv'
  BY <1>00 DEF IInv, LockMeansInside, StackOK, LockOK
<1>000. ASSUME stack' \in [Threads -> Seq(Frame)], StackOK', LockOK', DatesOK', crossed' \in [Threads -> BOOLEAN],
               lock' \in [Logs -> Threads \cup {NoThread}], sent' \in Nat, running' \in BOOLEAN, tm' \in Days,
               UNCHANGED <<day, date, file, ended, exited>>
        PROVE  IInv'
  BY <1>0, <1>00, <1>000 DEF TypeOK, DateOK
<1>1. ASSUME Midnight PROVE IInv'
  <2>1. day' \in Days /\ UNCHANGED <<tm, lock, date, file, stack, ended, running, sent, exited, crossed>>
    BY <1>0, <1>1, LogAssumption DEF Midnight, TypeOK, Days
  <2>2. TypeOK' /\ DateOK'
    BY <1>0, <2>1 DEF TypeOK, DateOK
  <2>3. StackOK' /\ LockOK'
    BY <1>0, <2>1 DEF StackOK, LockOK, OneInside, StampOK, HasDates, EndOK, Holds, Inside
  <2>4. DatesOK'
    BY <1>0, <2>1 DEF DatesOK, SameOK, AloneOK, OwnDates
  <2> QED
    BY <1>00, <2>2, <2>3, <2>4
<1>2. ASSUME NEW t \in Threads, NEW l \in Logs, Call(t, l) PROVE IInv'
  <2>1. UNCHANGED <<day, tm, lock, date, file, ended, running, sent, exited>> /\ Begin(t, l, FALSE) /\ ~ended[t]
    BY <1>2 DEF Call
  <2>2. stack' \in [Threads -> Seq(Frame)] /\ StackOK' /\ LockOK'
    BY <1>0, <2>1, PushKeeps
  <2>3. DatesOK' /\ crossed' \in [Threads -> BOOLEAN]
    BY <1>0, <2>1, BeginDates
  <2> QED
    BY <1>0, <1>000, <2>1, <2>2, <2>3 DEF TypeOK
<1>3. ASSUME NEW t \in Threads, Localtime(t) PROVE IInv'
  <2>1. /\ stack[t] # <<>> /\ Top(t).pc = "localtime" /\ tm' = Top(t).time /\ Goto(t, "strftime")
        /\ UNCHANGED <<day, lock, date, file, ended, running, sent, exited>>
    BY <1>3 DEF Localtime, At, Top
  <2>2. Top(t) \in Frame /\ Top(t).log \in Logs /\ Top(t).time \in Days /\ Top(t) = stack[t][1] /\ 1 \in 1..Len(stack[t])
    BY <1>0, <2>1, TopIs
  <2>3. PICK f \in Frame : /\ stack' = [stack EXCEPT ![t][1] = f] /\ UNCHANGED crossed
                           /\ f.pc = "strftime" /\ f.log = Top(t).log /\ f.time = Top(t).time
                           /\ f.stamp = Top(t).stamp /\ f.asked = Top(t).asked
    BY <1>0, <2>1, GotoStack
  <2>4. (Inside(f) <=> Inside(Top(t))) /\ HasDates(f)
    BY <2>1, <2>3 DEF Inside, HasDates
  <2>5. stack' \in [Threads -> Seq(Frame)] /\ StackOK' /\ LockOK'
    BY <1>0, <2>1, <2>3, <2>4, TopKeeps
  <2>6. ~crossed[t] => OwnDates(f, tm')
    BY <1>0, <2>1, <2>2, <2>3 DEF DatesOK, AloneOK, OwnDates
  <2>7. DatesOK'
    BY <1>0, <2>1, <2>3, <2>6, TopDates
  <2> QED
    BY <1>0, <1>000, <2>1, <2>2, <2>3, <2>5, <2>7 DEF TypeOK
<1>4. ASSUME NEW t \in Threads, Strftime(t) PROVE IInv'
  <2>1. /\ stack[t] # <<>> /\ Top(t).pc = "strftime" /\ ~exited
        /\ UNCHANGED <<day, tm, lock, date, file, ended, running, sent, exited>>
    BY <1>4 DEF Strftime, At, Top
  <2>2. Top(t) \in Frame /\ Top(t).log \in Logs /\ Top(t).time \in Days /\ Top(t) = stack[t][1] /\ 1 \in 1..Len(stack[t])
    BY <1>0, <2>1, TopIs
  <2>3. PICK n \in {tm} \cup Refilled :
          Change(t, IF Top(t).stamp = NoDay
                    THEN [Top(t) EXCEPT !.stamp = <<tm, n>>, !.pc = IF Top(t).log = RunningLog THEN "lock" ELSE "localtime"]
                    ELSE [Top(t) EXCEPT !.asked = <<tm, n>>, !.pc = IF Top(t).log = RunningLog THEN "rotate" ELSE "lock"])
    BY <1>4 DEF Strftime
  <2>4. n = tm \/ \E u \in Threads : stack[u] # <<>> /\ n = Top(u).time
    BY <2>3 DEF Refilled, At
  <2>5. n \in Days /\ tm \in Days
    <3>1. tm \in Days
      BY <1>0 DEF TypeOK
    <3>2. \A u \in Threads : stack[u] # <<>> => Top(u).time \in Days
      BY <1>0, TopIs
    <3> QED
      BY <2>4, <3>1, <3>2
  <2>6. ~crossed[t] => <<tm, n>> = <<Top(t).time, Top(t).time>>
    <3> SUFFICES ASSUME ~crossed[t] PROVE tm = Top(t).time /\ n = Top(t).time
      OBVIOUS
    <3>1. tm = Top(t).time
      BY <1>0, <2>1, <2>2 DEF DatesOK, AloneOK, OwnDates
    <3>2. ASSUME NEW u \in Threads, stack[u] # <<>> PROVE Top(u).time = Top(t).time
      <4>1. Top(u) = stack[u][1] /\ 1 \in 1..Len(stack[u])
        BY <1>0, <3>2, TopIs
      <4> QED
        BY <1>0, <2>2, <4>1 DEF DatesOK, SameOK
    <3> QED
      BY <2>4, <3>1, <3>2
  <2>7. PICK f \in Frame : /\ stack' = [stack EXCEPT ![t][1] = f] /\ UNCHANGED crossed
                           /\ f.log = Top(t).log /\ f.time = Top(t).time
                           /\ \/ /\ Top(t).stamp = NoDay
                                 /\ f.stamp = <<tm, n>> /\ f.asked = Top(t).asked
                                 /\ f.pc = IF Top(t).log = RunningLog THEN "lock" ELSE "localtime"
                              \/ /\ Top(t).stamp # NoDay
                                 /\ f.stamp = Top(t).stamp /\ f.asked = <<tm, n>>
                                 /\ f.pc = IF Top(t).log = RunningLog THEN "rotate" ELSE "lock"
    <3> DEFINE d == <<tm, n>>
               g == [Top(t) EXCEPT !.stamp = d, !.pc = IF Top(t).log = RunningLog THEN "lock" ELSE "localtime"]
               h == [Top(t) EXCEPT !.asked = d, !.pc = IF Top(t).log = RunningLog THEN "rotate" ELSE "lock"]
    <3>1. d \in Dates
      BY <2>5 DEF Dates
    <3> HIDE DEF d
    <3>2. g \in Frame /\ h \in Frame
      BY <2>2, <3>1 DEF Frame
    <3>3. /\ g.log = Top(t).log /\ g.time = Top(t).time /\ g.stamp = d /\ g.asked = Top(t).asked
          /\ g.pc = IF Top(t).log = RunningLog THEN "lock" ELSE "localtime"
          /\ h.log = Top(t).log /\ h.time = Top(t).time /\ h.stamp = Top(t).stamp /\ h.asked = d
          /\ h.pc = IF Top(t).log = RunningLog THEN "rotate" ELSE "lock"
      BY <2>2 DEF Frame
    <3>4. stack' = [stack EXCEPT ![t][1] = IF Top(t).stamp = NoDay THEN g ELSE h] /\ UNCHANGED crossed
      BY <2>3 DEF Change, d
    <3> HIDE DEF g, h
    <3> QED
      BY <3>2, <3>3, <3>4 DEF d
  <2>8. (Inside(f) <=> Inside(Top(t))) /\ HasDates(f) /\ f.pc # "write" /\ f.pc # "strftime"
    <3>1. <<tm, n>> \in Dates /\ Top(t).stamp \in Dates \cup {NoDay}
      BY <2>2, <2>5 DEF Dates, Frame
    <3>2. <<tm, n>> # NoDay
      BY <2>5, NullAssumption DEF Days
    <3> QED
      BY <2>1, <2>7, <3>1, <3>2 DEF Inside, HasDates
  <2>9. stack' \in [Threads -> Seq(Frame)] /\ StackOK' /\ LockOK'
    BY <1>0, <2>1, <2>7, <2>8, TopKeeps
  <2>10. ~crossed[t] => OwnDates(f, tm)
    BY <1>0, <2>1, <2>2, <2>6, <2>7, <2>8 DEF DatesOK, AloneOK, OwnDates
  <2>11. DatesOK'
    BY <1>0, <2>1, <2>7, <2>10, TopDates
  <2> QED
    BY <1>0, <1>000, <2>1, <2>7, <2>9, <2>11 DEF TypeOK
<1>5. ASSUME NEW t \in Threads, Lock(t) PROVE IInv'
  <2> DEFINE next == IF Top(t).log = RunningLog THEN "localtime" ELSE "rotate"
  <2>1. /\ stack[t] # <<>> /\ Top(t).pc = "lock" /\ lock[Top(t).log] = NoThread
        /\ lock' = [lock EXCEPT ![Top(t).log] = t] /\ Goto(t, next)
        /\ UNCHANGED <<day, tm, date, file, ended, running, sent, exited>>
    BY <1>5 DEF Lock, At, Top
  <2>2. /\ Top(t) \in Frame /\ Top(t).log \in Logs /\ Top(t).time \in Days
        /\ Top(t) = stack[t][1] /\ 1 \in 1..Len(stack[t]) /\ HasDates(Top(t))
    BY <1>0, <2>1, TopIs
  <2>3. PICK f \in Frame : /\ stack' = [stack EXCEPT ![t][1] = f] /\ UNCHANGED crossed
                           /\ f.pc = next /\ f.log = Top(t).log /\ f.time = Top(t).time
                           /\ f.stamp = Top(t).stamp /\ f.asked = Top(t).asked
    BY <1>0, <2>1, GotoStack
  <2>4. f.stamp # NoDay
    BY <2>1, <2>2, <2>3, NullAssumption DEF HasDates, Dates, Days
  <2>5. Inside(f) /\ ~Inside(Top(t)) /\ HasDates(f) /\ f.pc # "write" /\ f.pc # "strftime"
    BY <2>1, <2>2, <2>3, <2>4 DEF Inside, HasDates
  <2>6. stack' \in [Threads -> Seq(Frame)] /\ StackOK' /\ LockOK'
    BY <1>0, <2>1, <2>3, <2>5, TopKeeps
  <2>7. ~crossed[t] => OwnDates(f, tm)
    BY <1>0, <2>2, <2>3, <2>5 DEF DatesOK, AloneOK, OwnDates
  <2>8. DatesOK'
    BY <1>0, <2>1, <2>3, <2>7, TopDates
  <2> QED
    BY <1>0, <1>000, <2>1, <2>2, <2>3, <2>6, <2>8 DEF TypeOK
<1>6. ASSUME NEW t \in Threads, Rotate(t) PROVE IInv'
  <2> DEFINE l == Top(t).log
             asked == Top(t).asked
  <2>1. /\ stack[t] # <<>> /\ Top(t).pc = "rotate" /\ ~exited
        /\ UNCHANGED <<day, tm, lock, ended, running, sent>>
    BY <1>6 DEF Rotate, At, Top
  <2>2. /\ Top(t) \in Frame /\ l \in Logs /\ Top(t) = stack[t][1] /\ 1 \in 1..Len(stack[t])
        /\ HasDates(Top(t)) /\ Inside(Top(t)) /\ asked \in Dates
    BY <1>0, <2>1, TopIs DEF HasDates, Inside
  <2>3. CASE Goto(t, "write") /\ UNCHANGED exited
    <3>1. PICK f \in Frame : /\ stack' = [stack EXCEPT ![t][1] = f] /\ UNCHANGED crossed
                             /\ f.pc = "write" /\ f.log = Top(t).log /\ f.time = Top(t).time
                             /\ f.stamp = Top(t).stamp /\ f.asked = Top(t).asked
      BY <1>0, <2>1, <2>3, GotoStack
    <3>2. Inside(f) /\ HasDates(f)
      BY <2>1, <2>2, <3>1 DEF Inside, HasDates
    <3>3. \/ file' = [file EXCEPT ![l] = asked] /\ date' = [date EXCEPT ![l] = asked]
          \/ file' = file /\ date' = date /\ file[l] # NoDay /\ date[l] = asked
      BY <1>6, <2>1, <2>3 DEF Rotate
    <3>4. file' \in [Logs -> Dates \cup {NoDay}] /\ date' \in [Logs -> Dates] /\ DateOK'
          /\ file'[l] = asked /\ \A m \in Logs : file'[m] = file[m] \/ m = l
      BY <1>0, <2>2, <3>3 DEF TypeOK, DateOK
    <3>5. stack' \in [Threads -> Seq(Frame)] /\ StackOK' /\ LockOK'
      BY <1>0, <2>1, <2>2, <3>1, <3>2, <3>4, TopKeeps
    <3>6. ~crossed[t] => OwnDates(f, tm)
      BY <1>0, <2>2, <3>1 DEF DatesOK, AloneOK, OwnDates
    <3>7. DatesOK'
      BY <1>0, <2>1, <3>1, <3>6, TopDates
    <3> QED
      BY <1>0, <1>00, <2>1, <2>3, <3>1, <3>4, <3>5, <3>7 DEF TypeOK
  <2>4. CASE /\ file' = [file EXCEPT ![l] = NoDay] /\ date' = [date EXCEPT ![l] = asked]
             /\ exited' = TRUE /\ UNCHANGED <<stack, crossed>>
    <3>1. file' \in [Logs -> Dates \cup {NoDay}] /\ date' \in [Logs -> Dates] /\ DateOK'
      BY <1>0, <2>2, <2>4 DEF TypeOK, DateOK
    <3>2. ASSUME NEW u \in Threads, NEW i \in 1..Len(stack[u]), stack[u][i].pc = "write"
          PROVE  stack[u][i].log # l
      <4>1. SUFFICES ASSUME stack[u][i].log = l PROVE FALSE
        OBVIOUS
      <4>2. Holds(u, l) /\ Holds(t, l)
        BY <2>2, <3>2, <4>1 DEF Holds, Inside
      <4>3. u = t
        BY <1>0, <2>2, <4>2 DEF LockOK
      <4>4. i = 1
        BY <1>0, <2>2, <3>2, <4>1, <4>3 DEF StackOK, OneInside, Inside
      <4> QED
        BY <2>1, <2>2, <3>2, <4>3, <4>4
    <3>3. StampOK'
      <4> SUFFICES ASSUME NEW u \in Threads, NEW i \in 1..Len(stack[u])
                   PROVE  /\ HasDates(stack[u][i])
                          /\ stack[u][i].pc = "write" => file'[stack[u][i].log] = stack[u][i].asked
        BY <2>4 DEF StampOK, HasDates
      <4>1. stack[u][i] \in Frame
        BY <1>0 DEF TypeOK
      <4>2. stack[u][i].log \in Logs
        BY <4>1 DEF Frame
      <4> QED
        BY <1>0, <2>4, <3>2, <4>2 DEF StackOK, StampOK, TypeOK
    <3>4. TypeOK'
      BY <1>0, <2>1, <2>4, <3>1 DEF TypeOK
    <3>5. StackOK' /\ LockOK'
      BY <1>0, <2>1, <2>4, <3>3 DEF StackOK, OneInside, EndOK, LockOK, Holds, Inside
    <3>6. DatesOK'
      BY <1>0, <2>1, <2>4 DEF DatesOK, SameOK, AloneOK, OwnDates
    <3> QED
      BY <1>00, <3>1, <3>4, <3>5, <3>6
  <2> QED
    BY <1>6, <2>3, <2>4 DEF Rotate
<1>7. ASSUME NEW t \in Threads, Write(t) PROVE IInv'
  <2>1. /\ stack[t] # <<>> /\ Top(t).pc = "write"
        /\ stack' = [stack EXCEPT ![t][1] = [Top(t) EXCEPT !.pc = "unlock", !.stamp = NoDay, !.asked = NoDay]]
        /\ UNCHANGED <<crossed, day, tm, lock, date, file, ended, running, sent, exited>>
    BY <1>7 DEF Write, At, Top, Change
  <2>2. Top(t) \in Frame /\ Top(t) = stack[t][1]
    BY <1>0, <2>1, TopIs
  <2>3. PICK f \in Frame : /\ stack' = [stack EXCEPT ![t][1] = f]
                           /\ f.pc = "unlock" /\ f.log = Top(t).log /\ f.time = Top(t).time
                           /\ f.stamp = NoDay /\ f.asked = NoDay
    <3> DEFINE g == [Top(t) EXCEPT !.pc = "unlock", !.stamp = NoDay, !.asked = NoDay]
    <3>1. g \in Frame
      BY <2>2 DEF Frame
    <3>2. g.pc = "unlock" /\ g.log = Top(t).log /\ g.time = Top(t).time /\ g.stamp = NoDay /\ g.asked = NoDay
      BY <2>2 DEF Frame
    <3> QED
      BY <2>1, <3>1, <3>2
  <2>4. Inside(f) /\ Inside(Top(t)) /\ HasDates(f) /\ OwnDates(f, tm)
    BY <2>1, <2>3 DEF Inside, HasDates, OwnDates
  <2>5. stack' \in [Threads -> Seq(Frame)] /\ StackOK' /\ LockOK'
    BY <1>0, <2>1, <2>3, <2>4, TopKeeps
  <2>6. DatesOK'
    BY <1>0, <2>1, <2>3, <2>4, TopDates
  <2> QED
    BY <1>0, <1>000, <2>1, <2>5, <2>6 DEF TypeOK
<1>8. ASSUME NEW t \in Threads, Unlock(t) PROVE IInv'
  <2>1. /\ stack[t] # <<>> /\ Top(t).pc = "unlock"
        /\ UNCHANGED <<day, tm, date, file, ended, running, sent, exited>>
        /\ lock' = [lock EXCEPT ![Top(t).log] = NoThread]
    BY <1>8 DEF Unlock, At, Top
  <2>2. Top(t) \in Frame /\ Top(t).log \in Logs /\ Top(t) = stack[t][1] /\ 1 \in 1..Len(stack[t]) /\ Inside(Top(t))
    BY <1>0, <2>1, TopIs DEF Inside
  <2>3. CASE Goto(t, "clear")
    <3>1. PICK f \in Frame : /\ stack' = [stack EXCEPT ![t][1] = f] /\ UNCHANGED crossed
                             /\ f.pc = "clear" /\ f.log = Top(t).log /\ f.time = Top(t).time
                             /\ f.stamp = Top(t).stamp /\ f.asked = Top(t).asked
      BY <1>0, <2>1, <2>3, GotoStack
    <3>2. ~Inside(f) /\ HasDates(f)
      BY <3>1 DEF Inside, HasDates
    <3>3. stack' \in [Threads -> Seq(Frame)] /\ StackOK' /\ LockOK'
      BY <1>0, <2>1, <2>2, <3>1, <3>2, TopKeeps
    <3>4. ~crossed[t] => OwnDates(f, tm)
      BY <1>0, <2>2, <3>1 DEF DatesOK, AloneOK, OwnDates
    <3>5. DatesOK'
      BY <1>0, <2>1, <3>1, <3>4, TopDates
    <3> QED
      BY <1>0, <1>000, <2>1, <2>2, <3>1, <3>3, <3>5 DEF TypeOK
  <2>4. CASE Return(t)
    <3>1. stack' \in [Threads -> Seq(Frame)] /\ StackOK' /\ LockOK'
      BY <1>0, <2>1, <2>2, <2>4, ReturnKeeps
    <3>2. DatesOK' /\ crossed' \in [Threads -> BOOLEAN]
      BY <1>0, <2>1, <2>4, ReturnDates
    <3> QED
      BY <1>0, <1>000, <2>1, <2>2, <3>1, <3>2 DEF TypeOK
  <2> QED
    BY <1>8, <2>3, <2>4 DEF Unlock
<1>9. ASSUME NEW t \in Threads, Interrupt(t) PROVE IInv'
  <2>1. /\ UNCHANGED <<day, tm, lock, date, file, ended, running, exited>> /\ Begin(t, RunningLog, TRUE)
        /\ ~ended[t] /\ sent' = sent + 1 /\ RunningLog \in Logs
    BY <1>9, LogAssumption DEF Interrupt
  <2>2. stack' \in [Threads -> Seq(Frame)] /\ StackOK' /\ LockOK'
    BY <1>0, <2>1, PushKeeps
  <2>3. DatesOK' /\ crossed' \in [Threads -> BOOLEAN]
    BY <1>0, <2>1, BeginDates
  <2> QED
    BY <1>0, <1>000, <2>1, <2>2, <2>3 DEF TypeOK
<1>10. ASSUME NEW t \in Threads, ClearSignals(t) PROVE IInv'
  <2>1. /\ stack[t] # <<>> /\ ~Inside(Top(t)) /\ Return(t) /\ running' = FALSE
        /\ UNCHANGED <<day, tm, lock, date, file, ended, sent, exited>>
    BY <1>10 DEF ClearSignals, At, Top, Inside
  <2>2. stack' \in [Threads -> Seq(Frame)] /\ StackOK' /\ LockOK'
    BY <1>0, <2>1, ReturnKeeps
  <2>3. DatesOK' /\ crossed' \in [Threads -> BOOLEAN]
    BY <1>0, <2>1, ReturnDates
  <2> QED
    BY <1>0, <1>000, <2>1, <2>2, <2>3 DEF TypeOK
<1>11. ASSUME NEW t \in Threads, EndThread(t) PROVE IInv'
  <2>1. /\ UNCHANGED <<day, tm, lock, date, file, stack, running, sent, exited, crossed>>
        /\ stack[t] = <<>> /\ ended' = [ended EXCEPT ![t] = TRUE]
    BY <1>11 DEF EndThread
  <2>2. ended' \in [Threads -> BOOLEAN] /\ EndOK'
    BY <1>0, <2>1 DEF TypeOK, StackOK, EndOK
  <2>3. TypeOK' /\ DateOK'
    BY <1>0, <2>1, <2>2 DEF TypeOK, DateOK
  <2>4. StackOK' /\ LockOK'
    BY <1>0, <2>1, <2>2 DEF StackOK, LockOK, OneInside, StampOK, HasDates, Holds, Inside
  <2>5. DatesOK'
    BY <1>0, <2>1 DEF DatesOK, SameOK, AloneOK, OwnDates
  <2> QED
    BY <1>00, <2>3, <2>4, <2>5
<1>12. ASSUME log_exit PROVE IInv'
  <2>1. UNCHANGED <<day, tm, lock, date, stack, ended, running, sent, crossed>>
        /\ exited' = TRUE /\ file' = [l \in Logs |-> NoDay]
    BY <1>12 DEF log_exit
  <2>2. \A t \in Threads : Len(stack[t]) = 0
    BY <1>0, <1>12 DEF log_exit, StackOK, EndOK
  <2>3. StampOK'
    BY <2>1, <2>2 DEF StampOK
  <2>4. file' \in [Logs -> Dates \cup {NoDay}] /\ DateOK'
    BY <2>1 DEF DateOK
  <2>5. TypeOK'
    BY <1>0, <2>1, <2>4 DEF TypeOK
  <2>6. StackOK' /\ LockOK'
    BY <1>0, <2>1, <2>3 DEF StackOK, LockOK, OneInside, EndOK, Holds, Inside
  <2>7. DatesOK'
    BY <1>0, <2>1 DEF DatesOK, SameOK, AloneOK, OwnDates
  <2> QED
    BY <1>00, <2>4, <2>5, <2>6, <2>7
<1>13. CASE UNCHANGED vars
  <2>1. TypeOK' /\ DateOK'
    BY <1>0, <1>13 DEF vars, TypeOK, DateOK
  <2>2. StackOK' /\ LockOK'
    BY <1>0, <1>13 DEF vars, StackOK, LockOK, OneInside, StampOK, HasDates, EndOK, Holds, Inside
  <2>3. DatesOK'
    BY <1>0, <1>13 DEF vars, DatesOK, SameOK, AloneOK, OwnDates
  <2> QED
    BY <1>00, <2>1, <2>2, <2>3
<1> QED
  BY <1>1, <1>2, <1>3, <1>4, <1>5, <1>6, <1>7, <1>8, <1>9, <1>10, <1>11, <1>12, <1>13 DEF Next, log1, UPLOG, Step

LEMMA IInvHolds == Spec => []IInv
<1>1. Init => IInv
  BY InitIInv
<1>2. IInv /\ [Next]_vars => IInv'
  BY StepIInv
<1> QED
  BY <1>1, <1>2, PTL DEF Spec

-----------------------------------------------------------------------------
(***************************************************************************)
(* The lock of a log is held exactly by the thread that has a call between *)
(* lock and unlock, a signal handler on top of it or not (log1, UPLOG_LOG, *)
(* UPLOG_TXT), and the state keeps its types.                              *)
(***************************************************************************)
THEOREM LockIsInside == Spec => []LockMeansInside
<1>1. IInv => LockMeansInside
  BY DEF IInv
<1> QED
  BY <1>1, IInvHolds, PTL

(***************************************************************************)
(* A line goes to the file of the date its call asked for, however the     *)
(* threads that wait around midnight take turns; and unless a call that    *)
(* took another day overlapped it, file and line carry the date at which   *)
(* it was made, although every thread has its time converted in one struct *)
(* (log1, UPLOG_LOG, UPLOG_TXT).                                           *)
(***************************************************************************)
THEOREM LinesInTheirFiles == Spec => []LineInItsFile
<1>1. ASSUME IInv, NEW t \in Threads, NEW i \in 1..Len(stack[t]), stack[t][i].pc = "write"
      PROVE  /\ file[stack[t][i].log] = stack[t][i].asked
             /\ ~crossed[t] => /\ stack[t][i].asked = <<stack[t][i].time, stack[t][i].time>>
                               /\ stack[t][i].stamp = stack[t][i].asked
  <2>1. stack[t][i].stamp \in Dates /\ stack[t][i].asked \in Dates /\ file[stack[t][i].log] = stack[t][i].asked
    BY <1>1 DEF IInv, StampOK, HasDates
  <2>2. NoDay \notin Dates
    BY NullAssumption DEF Dates, Days
  <2> QED
    BY <1>1, <2>1, <2>2 DEF IInv, DatesOK, AloneOK, OwnDates
<1>2. IInv => LineInItsFile
  BY <1>1 DEF LineInItsFile
<1> QED
  BY <1>2, IInvHolds, PTL
===============================================================================
