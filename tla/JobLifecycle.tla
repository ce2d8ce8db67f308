---------------------------- MODULE JobLifecycle ----------------------------
(***************************************************************************)
(* What the coordinator promises about the jobs of one board, without the  *)
(* board server, the runner connection or the mailbox in between.          *)
(*                                                                         *)
(* A job is created pending, is dispatched at most once, when the board    *)
(* has a free slot and no pending job has an earlier start time, and is    *)
(* completed at most once, with a completion code that never changes.      *)
(***************************************************************************)
EXTENDS Naturals

CONSTANTS
  Jobs,        \* the jobs that users may create for the board
  StartTimes   \* values of the "start" column, in whole seconds (naturals)

VARIABLES
  status,      \* status[j]: "absent", "pending", "dispatched" or "completed"
  code,        \* code[j]: the completion code, "nil" until completed
  start        \* start[j]: the start time of a job that exists

vars == <<status, code, start>>

\* The completion codes the coordinator ever assigns (job.ex, schema "jobs").
Codes == {"server_crashed", "runner_timeout", "finished", "failed"}

TypeOK ==
  /\ status \in [Jobs -> {"absent", "pending", "dispatched", "completed"}]
  /\ code \in [Jobs -> Codes \cup {"nil"}]
  /\ start \in [Jobs -> Nat]

Init ==
  /\ status = [j \in Jobs |-> "absent"]
  /\ code = [j \in Jobs |-> "nil"]
  /\ start = [j \in Jobs |-> 0]

-----------------------------------------------------------------------------

\* A user creates job j; its start time may tie with another job's, or be
\* earlier than that of a job created before it.
Create(j) ==
  /\ status[j] = "absent"
  /\ status' = [status EXCEPT ![j] = "pending"]
  /\ \E t \in StartTimes : start' = [start EXCEPT ![j] = t]
  /\ UNCHANGED code

\* j is pending and no pending job starts before it.
Earliest(j) ==
  /\ status[j] = "pending"
  /\ \A k \in Jobs : status[k] = "pending" => start[j] <= start[k]

\* The board's slot is free and the earliest pending job takes it.
Dispatch(j) ==
  /\ \A k \in Jobs : status[k] # "dispatched"
  /\ Earliest(j)
  /\ status' = [status EXCEPT ![j] = "dispatched"]
  /\ UNCHANGED <<code, start>>

\* The dispatched job ends with completion code c.
Complete(j, c) ==
  /\ status[j] = "dispatched"
  /\ status' = [status EXCEPT ![j] = "completed"]
  /\ code' = [code EXCEPT ![j] = c]
  /\ UNCHANGED start

\* The dispatched job j ends and the slot goes to k in the same step, as the
\* handler of a state update does.
Handover(j, c, k) ==
  /\ status[j] = "dispatched"
  /\ Earliest(k)
  /\ status' = [status EXCEPT ![j] = "completed", ![k] = "dispatched"]
  /\ code' = [code EXCEPT ![j] = c]
  /\ UNCHANGED start

Next ==
  \/ \E j \in Jobs : Create(j) \/ Dispatch(j)
  \/ \E j \in Jobs, c \in Codes : Complete(j, c)
  \/ \E j, k \in Jobs, c \in Codes : Handover(j, c, k)

Spec == Init /\ [][Next]_vars

=============================================================================
