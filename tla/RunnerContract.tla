--------------------------- MODULE RunnerContract ---------------------------
(***************************************************************************)
(* What every runner promises the coordinator (connector::Runner with the  *)
(* job states of the runner API): it works for one job at a time, reports  *)
(* the stages of a job in the order of its life, and reports a job         *)
(* finished only once it has let go of it.  It may report a failure, lose  *)
(* a job or never report at all.  NspawnRunner and NetbootRunner implement *)
(* it; Treadmill composes it with the board server.                        *)
(***************************************************************************)
CONSTANTS
  Jobs,  \* jobs the coordinator may send
  Nil    \* no job

VARIABLES
  posted,  \* posted[j]: the states reported for j
  slot     \* the job the runner works for, or Nil

contract == <<posted, slot>>

Stages == {"allocating", "booting", "ready", "stopping", "finished"}

\* What must have been reported before s, and what must not.
Needs(s) ==
  CASE s = "ready"    -> {"booting"}
    [] s = "stopping" -> {"booting", "ready"}
    [] s = "finished" -> {"booting", "ready", "stopping"}
    [] OTHER          -> {}
Bars(s) ==
  CASE s = "allocating" -> Stages
    [] s = "booting"    -> Stages \ {"allocating"}
    [] s = "ready"      -> {"ready", "stopping", "finished"}
    [] s = "stopping"   -> {"stopping", "finished"}
    [] OTHER            -> {"finished"}

Report(j, s) ==
  /\ Needs(s) \subseteq posted[j]
  /\ Bars(s) \cap posted[j] = {}
  /\ posted' = [posted EXCEPT ![j] = @ \cup {s}]

ContractInit ==
  /\ posted = [j \in Jobs |-> {}]
  /\ slot = Nil

\* start_job finds no other job; a runner that allocates says so.
Take(j) ==
  /\ slot = Nil
  /\ posted[j] \subseteq {"failed"}
  /\ slot' = j
  /\ UNCHANGED posted \/ Report(j, "allocating")

Progress(j) ==
  /\ slot = j
  /\ \E s \in {"booting", "ready", "stopping"} : Report(j, s)
  /\ UNCHANGED slot

\* stop_job is through, start_job failed, or a panic lost the job.
Release(j) ==
  /\ slot = j
  /\ slot' = Nil
  /\ UNCHANGED posted

Finish(j) ==
  /\ slot # j
  /\ Report(j, "finished")
  /\ UNCHANGED slot

\* A call is refused, or its job given up.
Fail(j) ==
  /\ posted' = [posted EXCEPT ![j] = @ \cup {"failed"}]
  /\ slot' = slot \/ (slot = j /\ slot' = Nil)

ContractNext ==
  \E j \in Jobs : Take(j) \/ Progress(j) \/ Release(j) \/ Finish(j) \/ Fail(j)

ContractSpec == ContractInit /\ [][ContractNext]_contract

=============================================================================
