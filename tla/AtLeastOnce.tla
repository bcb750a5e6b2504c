----------------------------- MODULE AtLeastOnce -----------------------------
(***************************************************************************)
(* What the queues promise of a set of jobs: one that is settled as done   *)
(* was carried out at least once, unless it had nothing to do.  It may be  *)
(* carried out again, even after it is settled, but never before it is     *)
(* accepted.                                                               *)
(***************************************************************************)
CONSTANT Jobs

VARIABLES
  state,     \* of each job: "absent", "accepted", "done" or "failed"
  idle,      \* the accepted jobs that have nothing to do
  done       \* the jobs that were carried out

Init ==
  /\ state = [j \in Jobs |-> "absent"]
  /\ idle = {}
  /\ done = {}

Accept(j) ==
  /\ state[j] = "absent"
  /\ state' = [state EXCEPT ![j] = "accepted"]
  /\ idle' \in {idle, idle \cup {j}}
  /\ UNCHANGED done

\* Some of the accepted jobs have nothing to do any more.
Excuse ==
  /\ \E S \in SUBSET {j \in Jobs : state[j] = "accepted"} : idle' = idle \cup S
  /\ UNCHANGED <<state, done>>

CarryOut(j) ==
  /\ state[j] # "absent"
  /\ done' = done \cup {j}
  /\ UNCHANGED <<state, idle>>

Settle(j) ==
  /\ state[j] = "accepted"
  /\ \/ j \in done \cup idle /\ state' = [state EXCEPT ![j] = "done"]
     \/ state' = [state EXCEPT ![j] = "failed"]
  /\ UNCHANGED <<idle, done>>

\* The last attempt is carried out, and fails because its answer is lost.
CarryOutAndFail(j) ==
  /\ state[j] = "accepted"
  /\ done' = done \cup {j}
  /\ state' = [state EXCEPT ![j] = "failed"]
  /\ UNCHANGED idle

Next ==
  \/ Excuse
  \/ \E j \in Jobs : Accept(j) \/ CarryOut(j) \/ Settle(j) \/ CarryOutAndFail(j)

Spec == Init /\ [][Next]_<<state, idle, done>>
=============================================================================
