------------------------ MODULE NetbootRunnerProofs ------------------------
(***************************************************************************)
(* Type correctness of NetbootRunner, its invariants and that it keeps the *)
(* contract of all runners, for every set of jobs and any number of stop   *)
(* messages.                                                               *)
(***************************************************************************)
EXTENDS NetbootRunner, TLAPS

\* The steps of Next for a job, in three groups.
ConnectorStep(j) ==
  receive_start_job(j) \/ receive_stop_job(j) \/ start_job(j) \/ stop_job(j) \/ connector_panics(j)
ConsoleStep(j) == streamer_panics(j) \/ streamer_ends(j)
PuppetStep(j) ==
  \/ puppet_connects(j) \/ puppet_asks(j) \/ puppet_receives(j) \/ puppet_closes(j)
  \/ control_request(j) \/ control_answers(j) \/ control_panics(j) \/ control_ends(j)

-----------------------------------------------------------------------------
(* Type correctness.                                                       *)

\* Every step keeps the types.
LEMMA TypeStep == ASSUME TypeOK, [Next]_vars PROVE TypeOK'
<1> USE NilAssumption, BoundsAssumption DEF TypeOK, inputs, puppet, Post, At, Return, Stages, HoldStages, Serving
<1>1. ASSUME NEW j \in Jobs, ConnectorStep(j) PROVE TypeOK'
  <2>1. CASE receive_start_job(j) \/ receive_stop_job(j)
    BY <2>1 DEF receive_start_job, receive_stop_job
  <2>2. CASE start_refused(j) \/ allocate(j) \/ scripts(j) \/ open_console(j) \/ ready(j)
    BY <2>2 DEF start_refused, allocate, scripts, open_console, ready
  <2>3. CASE stop_refused(j) \/ stop_accepted(j) \/ join_control(j) \/ join_streamer(j) \/ finish(j)
    BY <2>3 DEF stop_refused, stop_accepted, join_control, join_streamer, finish
  <2>4. CASE connector_panics(j)
    BY <2>4 DEF connector_panics
  <2> QED BY <1>1, <2>1, <2>2, <2>3, <2>4 DEF ConnectorStep, start_job, stop_job
<1>2. ASSUME NEW j \in Jobs, ConsoleStep(j) PROVE TypeOK'
  BY <1>2 DEF ConsoleStep, streamer_panics, streamer_ends
<1>3. ASSUME NEW j \in Jobs, PuppetStep(j) PROVE TypeOK'
  <2>1. CASE control_answers(j)
    BY <2>1 DEF control_answers, Rest
  <2>2. CASE ~control_answers(j)
    BY <1>3, <2>2 DEF PuppetStep, Rest, puppet_connects, puppet_asks, puppet_receives, puppet_closes,
                      control_request, control_panics, control_ends
  <2> QED BY <2>1, <2>2
<1>4. CASE UNCHANGED vars
  BY <1>4 DEF vars
<1> QED BY <1>1, <1>2, <1>3, <1>4 DEF Next, ConnectorStep, ConsoleStep, PuppetStep

\* Every variable of the netboot runner keeps its type.
THEOREM TypeCorrect == Spec => []TypeOK
<1>1. Init => TypeOK
  BY BoundsAssumption DEF Init, TypeOK, Stages, HoldStages, Serving
<1> QED BY <1>1, TypeStep, PTL DEF Spec

-----------------------------------------------------------------------------
(* The inductive invariant.                                                *)

\* A call has a job, and what holds the mutex has taken the job out of it.
MutexMatches ==
  /\ stage # "idle" => job # Nil
  /\ Locked => current_job = Nil

\* Before start_job has taken the mutex nothing exists for a job.
FreshJob(j) ==
  j \notin told \/ At(j, "start")
    => /\ control[j] = "none" /\ streamer[j] = "none"
       /\ reports[j] \subseteq {"failed"}
       /\ current_job # j
       /\ job = j => stage \in {"idle", "start", "stop"}

\* What job j has reported so far, and what it has not.
Reported(j, done, open) == done \subseteq reports[j] /\ open \cap reports[j] = {}

\* What the job has reported and acquired when its call is at a stage.
JobStage(j) ==
  /\ At(j, "start") => j \in told
  /\ At(j, "scripts") => reports[j] \subseteq {"failed"} /\ streamer[j] = "none"
  /\ At(j, "console") => streamer[j] = "none"
  /\ At(j, "console") \/ At(j, "ready") => Reported(j, {"booting"}, {"ready", "stopping", "finished"})
  /\ current_job = j => Reported(j, {"booting", "ready"}, {"stopping", "finished"})
  /\ At(j, "join_control") \/ At(j, "join_streamer") \/ At(j, "finish")
       => Reported(j, {"booting", "ready", "stopping"}, {"finished"})
  /\ At(j, "join_streamer") \/ At(j, "finish") => control[j] = "ended"
  /\ At(j, "finish") => streamer[j] \in {"none", "ended"} /\ (streamer[j] = "ended" => j \notin proxies)

Fresh      == \A j \in Jobs : FreshJob(j)
StageFacts == \A j \in Jobs : JobStage(j)

IInv ==
  /\ TypeOK
  /\ MutexMatches
  /\ Fresh
  /\ StageFacts
  /\ OneJobRuns
  /\ FinishedIsReleased
  /\ AnswersMatch

\* A step of the connector's call keeps the invariant.
LEMMA ConnectorInv == ASSUME IInv, TypeOK', NEW j \in Jobs, ConnectorStep(j) PROVE IInv'
<1> USE NilAssumption DEF IInv, TypeOK, MutexMatches, Fresh, FreshJob, StageFacts, JobStage, Reported, OneJobRuns,
          FinishedIsReleased, AnswersMatch, inputs, puppet, Post, At, Return, Slot, Locked, Stages, HoldStages, Serving
<1>1. CASE receive_start_job(j)
  BY <1>1 DEF receive_start_job
<1>2. CASE receive_stop_job(j)
  BY <1>2 DEF receive_stop_job
<1>3. CASE start_refused(j)
  BY <1>3 DEF start_refused
<1>4. CASE allocate(j)
  BY <1>4 DEF allocate
<1>5. CASE scripts(j)
  BY <1>5 DEF scripts
<1>6. CASE open_console(j)
  BY <1>6 DEF open_console
<1>7. CASE ready(j)
  BY <1>7 DEF ready
<1>8. CASE stop_refused(j)
  BY <1>8 DEF stop_refused
<1>9. CASE stop_accepted(j)
  BY <1>9 DEF stop_accepted
<1>10. CASE join_control(j)
  BY <1>10 DEF join_control
<1>11. CASE join_streamer(j)
  BY <1>11 DEF join_streamer
<1>12. CASE finish(j)
  BY <1>12 DEF finish
<1>13. CASE connector_panics(j)
  BY <1>13 DEF connector_panics
<1> QED BY <1>1, <1>2, <1>3, <1>4, <1>5, <1>6, <1>7, <1>8, <1>9, <1>10, <1>11, <1>12, <1>13
        DEF ConnectorStep, start_job, stop_job

\* A step of the console streamer keeps the invariant.
LEMMA ConsoleInv == ASSUME IInv, TypeOK', NEW j \in Jobs, ConsoleStep(j) PROVE IInv'
<1> USE NilAssumption DEF IInv, TypeOK, MutexMatches, Fresh, FreshJob, StageFacts, JobStage, Reported, OneJobRuns,
          FinishedIsReleased, AnswersMatch, inputs, puppet, At, Slot, Locked
<1>1. CASE streamer_panics(j)
  BY <1>1 DEF streamer_panics
<1>2. CASE streamer_ends(j)
  BY <1>2 DEF streamer_ends
<1> QED BY <1>1, <1>2 DEF ConsoleStep

\* A step of the puppet or of the control socket task keeps the invariant: the
\* task runs for the job the runner works for, so when it gets the mutex the
\* job is in it.
LEMMA PuppetInv == ASSUME IInv, TypeOK', NEW j \in Jobs, PuppetStep(j) PROVE IInv'
<1> USE NilAssumption DEF IInv, TypeOK, MutexMatches, Fresh, FreshJob, StageFacts, JobStage, Reported, OneJobRuns,
          FinishedIsReleased, AnswersMatch, At, Slot, Locked, Serving, Rest, inputs
<1>1. CASE puppet_connects(j)
  BY <1>1 DEF puppet_connects
<1>2. CASE puppet_asks(j) \/ puppet_receives(j) \/ puppet_closes(j)
  BY <1>2 DEF puppet_asks, puppet_receives, puppet_closes
<1>3. CASE control_request(j)
  BY <1>3 DEF control_request
<1>4. CASE control_answers(j)
  <2>1. current_job = j
    BY <1>4 DEF control_answers
  <2> QED BY <1>4, <2>1 DEF control_answers
<1>5. CASE control_panics(j) \/ control_ends(j)
  BY <1>5 DEF control_panics, control_ends
<1> QED BY <1>1, <1>2, <1>3, <1>4, <1>5 DEF PuppetStep

LEMMA Invariant == Spec => []IInv
<1>1. Init => IInv
  BY NilAssumption, BoundsAssumption
     DEF Init, IInv, TypeOK, MutexMatches, Fresh, FreshJob, StageFacts, JobStage, Reported, OneJobRuns,
         FinishedIsReleased, AnswersMatch, At, Slot, Locked, Stages, HoldStages, Serving
<1>2. IInv /\ [Next]_vars => IInv'
  <2> SUFFICES ASSUME IInv, [Next]_vars PROVE IInv'
    OBVIOUS
  <2>1. TypeOK'
    BY TypeStep DEF IInv
  <2>2. CASE UNCHANGED vars
    BY <2>2 DEF vars, IInv, TypeOK, MutexMatches, Fresh, FreshJob, StageFacts, JobStage, Reported, OneJobRuns,
                FinishedIsReleased, AnswersMatch, At, Slot, Locked
  <2> QED
    BY <2>1, <2>2, ConnectorInv, ConsoleInv, PuppetInv DEF Next, ConnectorStep, ConsoleStep, PuppetStep
<1> QED BY <1>1, <1>2, PTL DEF Spec

\* What serves or reads for a job belongs to the job the runner works for.
THEOREM OneJobRunsHolds == Spec => []OneJobRuns
BY Invariant, PTL DEF IInv

\* A finished job has no control socket, no streamer and, with a console, no
\* proxy left.
THEOREM FinishedIsReleasedHolds == Spec => []FinishedIsReleased
BY Invariant, PTL DEF IInv

\* A puppet never learns of a job that does not exist.
THEOREM AnswersMatchHolds == Spec => []AnswersMatch
BY Invariant, PTL DEF IInv

-----------------------------------------------------------------------------
(* The contract of all runners.                                            *)

\* The stages of a call are the steps of the contract.
LEMMA ContractConnector ==
  ASSUME IInv, NEW j \in Jobs, ConnectorStep(j)
  PROVE  [Runner!ContractNext]_(Runner!contract)
<1> USE NilAssumption DEF IInv, TypeOK, MutexMatches, Fresh, FreshJob, StageFacts, JobStage, Reported,
          inputs, Post, At, Return, Slot, Locked, HoldStages, Runner!contract, Runner!ContractNext
<1>1. CASE receive_start_job(j) \/ receive_stop_job(j) \/ open_console(j)
  BY <1>1 DEF receive_start_job, receive_stop_job, open_console
<1>2. CASE start_refused(j) \/ stop_refused(j)
  <2>1. Runner!Fail(j)
    BY <1>2 DEF start_refused, stop_refused, Runner!Fail
  <2> QED BY <2>1
<1>3. CASE allocate(j)
  <2>1. Runner!Take(j)
    BY <1>3 DEF allocate, Runner!Take
  <2> QED BY <2>1
<1>4. CASE scripts(j) \/ ready(j) \/ stop_accepted(j)
  <2> USE DEF Runner!Report, Runner!Needs, Runner!Bars, Runner!Stages
  <2>1. CASE scripts(j)
    <3>1. Slot = j /\ Slot' = j
      BY <2>1 DEF scripts
    <3>2. Runner!Report(j, "booting")
      BY <2>1 DEF scripts
    <3> QED BY <3>1, <3>2 DEF Runner!Progress
  <2>2. CASE ready(j)
    <3>1. Slot = j /\ Slot' = j
      BY <2>2 DEF ready
    <3>2. Runner!Report(j, "ready")
      BY <2>2 DEF ready
    <3> QED BY <3>1, <3>2 DEF Runner!Progress
  <2>3. CASE stop_accepted(j)
    <3>1. Slot = j /\ Slot' = j
      BY <2>3 DEF stop_accepted
    <3>2. Runner!Report(j, "stopping")
      BY <2>3 DEF stop_accepted
    <3> QED BY <3>1, <3>2 DEF Runner!Progress
  <2> QED BY <1>4, <2>1, <2>2, <2>3
<1>5. CASE join_control(j) \/ join_streamer(j)
  <2>1. Slot' = Slot \/ Runner!Release(j)
    BY <1>5 DEF join_control, join_streamer, Runner!Release
  <2>2. UNCHANGED reports
    BY <1>5 DEF join_control, join_streamer
  <2> QED BY <2>1, <2>2
<1>6. CASE finish(j)
  <2>1. Runner!Finish(j)
    BY <1>6 DEF finish, Runner!Finish, Runner!Report, Runner!Needs, Runner!Bars, Runner!Stages
  <2> QED BY <2>1
<1>7. CASE connector_panics(j)
  <2>1. Slot' = Nil /\ UNCHANGED reports
    BY <1>7 DEF connector_panics
  <2>2. Slot \in Jobs \cup {Nil}
    OBVIOUS
  <2> QED BY <2>1, <2>2 DEF Runner!Release
<1> QED BY <1>1, <1>2, <1>3, <1>4, <1>5, <1>6, <1>7 DEF ConnectorStep, start_job, stop_job

\* The netboot runner keeps the contract of all runners.
THEOREM Contract == Spec => ImplementsRunner
<1>1. Init => Runner!ContractInit
  BY DEF Init, Runner!ContractInit, Slot, Locked, HoldStages
<1>2. IInv /\ [Next]_vars => [Runner!ContractNext]_(Runner!contract)
  <2> SUFFICES ASSUME IInv, [Next]_vars PROVE [Runner!ContractNext]_(Runner!contract)
    OBVIOUS
  <2>1. ASSUME NEW j \in Jobs, ConsoleStep(j) \/ PuppetStep(j)
        PROVE  UNCHANGED <<reports, Slot>>
    BY <2>1 DEF ConsoleStep, PuppetStep, streamer_panics, streamer_ends, puppet_connects, puppet_asks,
       puppet_receives, puppet_closes, control_request, control_answers, control_panics, control_ends, Rest,
       Slot, Locked, inputs
  <2>2. CASE UNCHANGED vars
    BY <2>2 DEF vars, Slot, Locked, Runner!contract
  <2> QED
    BY <2>1, <2>2, ContractConnector DEF Next, ConnectorStep, ConsoleStep, PuppetStep, Runner!contract
<1> QED BY <1>1, <1>2, Invariant, PTL DEF Spec, ImplementsRunner, Runner!ContractSpec

=============================================================================
