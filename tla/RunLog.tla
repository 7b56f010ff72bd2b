------------------------------- MODULE RunLog -------------------------------
(***************************************************************************)
(* The loggers: log1 of utils/logging.c (the running log) and UPLOG_LOG,   *)
(* UPLOG_TXT of monitor.c (two logs per monitor group).  Every log has a   *)
(* spin lock, the date of its file and a handle; a line that carries       *)
(* another date closes the file and opens the one of that date.            *)
(*                                                                         *)
(* A call takes the time once and has it converted twice, for the line and *)
(* for the name of the file.  localtime leaves the result in one struct tm *)
(* that the whole process shares, and strftime reads it from there: no     *)
(* lock keeps a call on another log, or one that waits for the lock, from  *)
(* converting its own time in between.  log1 takes the lock between its    *)
(* two conversions, the loggers of monitor.c after both.                   *)
(*                                                                         *)
(* SIGINT is handled on top of whatever a thread is doing, and the handler *)
(* (main.c signal_func) logs a line before it clears the run signals.      *)
(***************************************************************************)
EXTENDS Naturals, Sequences

CONSTANTS
  Threads,     \* every thread of the process, main included
  Logs,        \* running log and the logs of the groups
  RunningLog,  \* the one log1 writes to
  OpenFails,   \* may fopen fail?
  MonthEnds,   \* does a month end at midnight?
  MaxDay,      \* bound: the last day
  MaxSignals,  \* bound: how many SIGINT are sent
  NoThread, NoDay  \* null values

ASSUME LogAssumption ==
  /\ RunningLog \in Logs
  /\ OpenFails \in BOOLEAN /\ MonthEnds \in BOOLEAN
  /\ MaxDay \in Nat
  /\ MaxSignals \in Nat

ASSUME NullAssumption ==
  /\ NoThread \notin Threads
  /\ NoDay \notin Nat \cup (Nat \X Nat)

VARIABLES
  day,      \* the date, as time(NULL) gives it
  tm,       \* the struct tm of localtime: the day it was filled with last
  lock,     \* spin lock of a log: its holder or NoThread
  date,     \* _logdata.date
  file,     \* _logdata.fd: the date of the open file, or NoDay
  stack,    \* calls of a thread: the handler's on top of the interrupted one
  ended,    \* the thread left its loop
  running,  \* the run signals are NEWIUP_OK
  sent,     \* SIGINTs delivered
  exited,   \* the process called exit or left main
  crossed   \* history: a call that took another day overlapped one of the thread

vars == <<day, tm, lock, date, file, stack, ended, running, sent, exited, crossed>>

Days == 0..MaxDay
\* A date that strftime wrote: the day its month is of, and the day its day is of.
\* They differ when the struct was filled anew while strftime read it.
Dates == Days \X Days
Frame == [log : Logs, time : Days,
          pc : {"localtime", "strftime", "lock", "rotate", "write", "unlock", "clear"},
          stamp : Dates \cup {NoDay},  \* the date of the line
          asked : Dates \cup {NoDay},  \* date2, the date of the file
          handler : BOOLEAN]

Init ==
  /\ day = 0 /\ tm = 0
  /\ lock = [l \in Logs |-> NoThread]
  /\ date = [l \in Logs |-> <<0, 0>>]
  /\ file = [l \in Logs |-> NoDay]
  /\ stack = [t \in Threads |-> <<>>]
  /\ ended = [t \in Threads |-> FALSE]
  /\ running = TRUE
  /\ sent = 0
  /\ exited = FALSE
  /\ crossed = [t \in Threads |-> FALSE]

-----------------------------------------------------------------------------
\* A call has taken the time.
NewCall(l, h) == [log |-> l, time |-> day, pc |-> "localtime",
                  stamp |-> NoDay, asked |-> NoDay, handler |-> h]
OfAnotherDay(t) == \E i \in 1..Len(stack[t]) : stack[t][i].time # day
Begin(t, l, h) ==
  /\ stack' = [stack EXCEPT ![t] = <<NewCall(l, h)>> \o @]
  /\ crossed' = [u \in Threads |-> \/ crossed[u] \/ OfAnotherDay(u)
                                   \/ u = t /\ \E v \in Threads : OfAnotherDay(v)]
Change(t, f) == stack' = [stack EXCEPT ![t][1] = f] /\ UNCHANGED crossed
Goto(t, pc) == stack' = [stack EXCEPT ![t][1].pc = pc] /\ UNCHANGED crossed
Return(t) ==
  /\ stack' = [stack EXCEPT ![t] = Tail(@)]
  /\ crossed' = [crossed EXCEPT ![t] = @ /\ Len(stack[t]) > 1]

\* The top call of a running thread is at pc.
At(t, pc) == ~exited /\ stack[t] # <<>> /\ stack[t][1].pc = pc
Top(t) == stack[t][1]
InHandler(t) == stack[t] # <<>> /\ Top(t).handler

Midnight ==
  /\ day < MaxDay
  /\ day' = day + 1
  /\ UNCHANGED <<tm, lock, date, file, stack, ended, running, sent, exited, crossed>>

\* A thread in its loop calls log1, UPLOG_LOG or UPLOG_TXT.
Call(t, l) ==
  /\ ~exited /\ ~ended[t] /\ stack[t] = <<>>
  /\ Begin(t, l, FALSE)
  /\ UNCHANGED <<day, tm, lock, date, file, ended, running, sent, exited>>

\* Mutant: the second conversion takes the time again.
Localtime_Now(t) ==
  /\ At(t, "localtime")
  /\ tm' = IF Top(t).stamp = NoDay THEN Top(t).time ELSE day
  /\ Goto(t, "strftime")
  /\ UNCHANGED <<day, lock, date, file, ended, running, sent, exited>>

\* localtime fills the struct with the time of the call.  monitor.c:832 does so
\* too, outside the loggers; to a logger it is like a call on another log.
Localtime(t) ==
  /\ At(t, "localtime")
  /\ tm' = Top(t).time
  /\ Goto(t, "strftime")
  /\ UNCHANGED <<day, lock, date, file, ended, running, sent, exited>>

\* The days the struct may be filled with while another thread reads it, which
\* makes a third date only where the months differ too.
Refilled == IF MonthEnds THEN {Top(u).time : u \in {v \in Threads : At(v, "localtime")}} ELSE {}

\* The date of the line, then that of the file.
Strftime(t) ==
  LET f == Top(t) IN
  /\ At(t, "strftime")
  /\ \E d \in {<<tm, n>> : n \in {tm} \cup Refilled} :
       Change(t, IF f.stamp = NoDay
                 THEN [f EXCEPT !.stamp = d, !.pc = IF f.log = RunningLog THEN "lock" ELSE "localtime"]
                 ELSE [f EXCEPT !.asked = d, !.pc = IF f.log = RunningLog THEN "rotate" ELSE "lock"])
  /\ UNCHANGED <<day, tm, lock, date, file, ended, running, sent, exited>>

Lock(t) ==
  /\ At(t, "lock")
  /\ lock[Top(t).log] = NoThread
  /\ lock' = [lock EXCEPT ![Top(t).log] = t]
  /\ Goto(t, IF Top(t).log = RunningLog THEN "localtime" ELSE "rotate")
  /\ UNCHANGED <<day, tm, date, file, ended, running, sent, exited>>

\* Mutant: a file is only replaced by a newer one.
Rotate_OnlyForward(t) ==
  LET l == Top(t).log
      asked == Top(t).asked
  IN
  /\ At(t, "rotate")
  /\ date' = [date EXCEPT ![l] = asked]
  /\ file' = [file EXCEPT ![l] = IF @ = NoDay \/ date[l][2] < asked[2] THEN asked ELSE @]
  /\ Goto(t, "write")
  /\ UNCHANGED <<exited, day, tm, lock, ended, running, sent>>

\* Another date, or no file yet: close, open.  The process gives up with the
\* lock held when the file cannot be opened.
Rotate(t) ==
  LET l == Top(t).log
      asked == Top(t).asked
  IN
  /\ At(t, "rotate")
  /\ IF file[l] = NoDay \/ date[l] # asked
     THEN /\ date' = [date EXCEPT ![l] = asked]
          /\ \/ file' = [file EXCEPT ![l] = asked] /\ Goto(t, "write") /\ UNCHANGED exited
             \/ /\ OpenFails
                /\ file' = [file EXCEPT ![l] = NoDay]
                /\ exited' = TRUE
                /\ UNCHANGED <<stack, crossed>>
     ELSE Goto(t, "write") /\ UNCHANGED <<date, file, exited>>
  /\ UNCHANGED <<day, tm, lock, ended, running, sent>>

\* fprintf: the line is in the file, and its dates are not needed any more.
Write(t) ==
  /\ At(t, "write")
  /\ Change(t, [Top(t) EXCEPT !.pc = "unlock", !.stamp = NoDay, !.asked = NoDay])
  /\ UNCHANGED <<day, tm, lock, date, file, ended, running, sent, exited>>

\* Mutant: the lock is kept.
Unlock_Forgotten(t) ==
  /\ At(t, "unlock")
  /\ IF Top(t).handler THEN Goto(t, "clear") ELSE Return(t)
  /\ UNCHANGED <<lock, day, tm, date, file, ended, running, sent, exited>>

Unlock(t) ==
  /\ At(t, "unlock")
  /\ lock' = [lock EXCEPT ![Top(t).log] = NoThread]
  /\ IF Top(t).handler THEN Goto(t, "clear") ELSE Return(t)
  /\ UNCHANGED <<day, tm, date, file, ended, running, sent, exited>>

-----------------------------------------------------------------------------
\* SIGINT: any thread may have to run signal_func, wherever it is.  The signal
\* is blocked in a thread that runs the handler.
Interrupt(t) ==
  /\ ~exited /\ ~ended[t]
  /\ sent < MaxSignals
  /\ ~InHandler(t)
  /\ sent' = sent + 1
  /\ Begin(t, RunningLog, TRUE)
  /\ UNCHANGED <<day, tm, lock, date, file, ended, running, exited>>

\* The rest of signal_func.
ClearSignals(t) ==
  /\ At(t, "clear")
  /\ running' = FALSE
  /\ Return(t)
  /\ UNCHANGED <<day, tm, lock, date, file, ended, sent, exited>>

EndThread(t) ==
  /\ ~exited /\ ~running /\ ~ended[t] /\ stack[t] = <<>>
  /\ ended' = [ended EXCEPT ![t] = TRUE]
  /\ UNCHANGED <<day, tm, lock, date, file, stack, running, sent, exited, crossed>>

\* newiup_exit: the threads are joined, then every log is closed.
log_exit ==
  /\ ~exited /\ \A t \in Threads : ended[t]
  /\ exited' = TRUE
  /\ file' = [l \in Logs |-> NoDay]
  /\ UNCHANGED <<day, tm, lock, date, stack, ended, running, sent, crossed>>

Step(t) == Localtime(t) \/ Strftime(t) \/ Lock(t) \/ Rotate(t) \/ Write(t) \/ Unlock(t)

\* The running log; the logs of a group, UPLOG_LOG and UPLOG_TXT.
log1(t) == stack[t] # <<>> /\ Top(t).log = RunningLog /\ Step(t)
UPLOG(t) == stack[t] # <<>> /\ Top(t).log # RunningLog /\ Step(t)

Next ==
  \/ Midnight
  \/ \E t \in Threads :
       \/ \E l \in Logs : Call(t, l)
       \/ log1(t) \/ UPLOG(t) \/ Interrupt(t) \/ ClearSignals(t) \/ EndThread(t)
  \/ log_exit

Spec == Init /\ [][Next]_vars

\* A thread goes on, and a thread that spins on a lock that is free again and
\* again gets it.  A running thread need not end its loop otherwise.
Fairness ==
  \A t \in Threads : WF_vars(Step(t) \/ ClearSignals(t)) /\ SF_vars(Lock(t))
FairSpec == Spec /\ Fairness

-----------------------------------------------------------------------------
\* Type invariant.
TypeOK ==
  /\ day \in Days /\ tm \in Days
  /\ lock \in [Logs -> Threads \cup {NoThread}]
  /\ date \in [Logs -> Dates]
  /\ file \in [Logs -> Dates \cup {NoDay}]
  /\ stack \in [Threads -> Seq(Frame)]
  /\ ended \in [Threads -> BOOLEAN]
  /\ running \in BOOLEAN
  /\ sent \in Nat
  /\ exited \in BOOLEAN
  /\ crossed \in [Threads -> BOOLEAN]

(***************************************************************************)
(* Whoever writes a line writes it to the file of the date its own call    *)
(* asked for, although the two dates may be older than what other threads  *)
(* have opened meanwhile.  And unless a call that took another day         *)
(* overlapped it, that file and the line both carry the date at which it   *)
(* was made.  With such a call, around midnight, they need not             *)
(* (DatesAgree; README, section 8).                                        *)
(***************************************************************************)
LineInItsFile ==
  \A t \in Threads : \A i \in 1..Len(stack[t]) :
    LET f == stack[t][i] IN
    f.pc = "write" =>
      /\ file[f.log] = f.asked
      /\ ~crossed[t] => f.asked = <<f.time, f.time>> /\ f.stamp = f.asked

(***************************************************************************)
(* Every line lies in the file of the date it is stamped with.  The code   *)
(* does not keep this around midnight: log1 and the loggers of monitor.c   *)
(* call localtime twice, on a struct tm that all threads share             *)
(* (logging.c:85, 88; monitor.c:512, 513, 553, 554).                       *)
(***************************************************************************)
DatesAgree ==
  \A t \in Threads : stack[t] # <<>> /\ Top(t).pc = "write" => file[Top(t).log] = Top(t).stamp

(***************************************************************************)
(* The lock of a log is held exactly by the thread that has a call between *)
(* pthread_spin_lock and pthread_spin_unlock, also when the signal handler *)
(* has pushed a second call on top of it.                                  *)
(***************************************************************************)
Inside(f) ==
  \/ f.pc \in {"rotate", "write", "unlock"}
  \/ f.log = RunningLog /\ f.pc \in {"localtime", "strftime"} /\ f.stamp # NoDay
Holds(t, l) == \E i \in 1..Len(stack[t]) :
                 stack[t][i].log = l /\ Inside(stack[t][i])
LockMeansInside ==
  /\ TypeOK
  /\ \A l \in Logs, t \in Threads : lock[l] = t <=> Holds(t, l)

(***************************************************************************)
(* Every call of a logger returns, the handler's too, or the process exits *)
(* because a log file could not be opened; the only other end is a handler *)
(* that spins on the lock its own thread holds below it.                   *)
(***************************************************************************)
SelfLocked == \E t \in Threads :
  InHandler(t) /\ Top(t).pc = "lock" /\ lock[RunningLog] = t
CallReturns == \A t \in Threads : stack[t] # <<>> ~> stack[t] = <<>> \/ exited \/ SelfLocked

(***************************************************************************)
(* After SIGINT the run signals are cleared, which the threads' loops rely *)
(* on to leave ("To speed up the exit thread", monitor.c:786).  The code   *)
(* does not: the handler may be SelfLocked (README, section 8).            *)
(***************************************************************************)
SignalStops == sent > 0 ~> ~running \/ exited
=============================================================================
