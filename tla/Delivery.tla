------------------------------ MODULE Delivery ------------------------------
(***************************************************************************)
(* What the dispatch core promises to the program that drops files into a  *)
(* monitored directory, in two variables: the published files whose source *)
(* is still there, and who accepted them.  A source disappears only after  *)
(* a server of every server group of every monitor group accepted it, over *)
(* any crash, restart, retry or allocation failure of the daemon; a file   *)
(* may be accepted more than once.                                         *)
(***************************************************************************)
CONSTANTS
  Files,       \* the base names
  Receivers    \* <<monitor group, server group>>: who has to accept a file

VARIABLES
  waiting,     \* published files whose source has not been consumed
  accepted     \* <<file, monitor group, server group>>

vars == <<waiting, accepted>>

AcceptedByAll(f) == \A r \in Receivers : <<f, r[1], r[2]>> \in accepted

Init == waiting = {} /\ accepted = {}

\* The producer starts a new version of a name: what became of the old one is past.
Forget(f) ==
  /\ f \notin waiting
  /\ accepted' = {a \in accepted : a[1] # f}
  /\ UNCHANGED waiting

Publish(f) ==
  /\ f \notin waiting
  /\ waiting' = waiting \cup {f}
  /\ UNCHANGED accepted

\* A file published in one step (upload-find-act keep).
Replace(f) ==
  /\ f \notin waiting
  /\ waiting' = waiting \cup {f}
  /\ accepted' = {a \in accepted : a[1] # f}

Accept(f, r) ==
  /\ f \in waiting
  /\ accepted' = accepted \cup {<<f, r[1], r[2]>>}
  /\ UNCHANGED waiting

Consume(f) ==
  /\ f \in waiting
  /\ AcceptedByAll(f)
  /\ waiting' = waiting \ {f}
  /\ UNCHANGED accepted

Next ==
  \E f \in Files :
    \/ Forget(f) \/ Publish(f) \/ Replace(f) \/ Consume(f)
    \/ \E r \in Receivers : Accept(f, r)

Spec == Init /\ [][Next]_vars

=============================================================================
