------------------------ MODULE NspawnRunnerProofs ------------------------
(***************************************************************************)
(* Type correctness of NspawnRunner, that one job runs at a time, that a   *)
(* finished job has returned its resources, and that NspawnRunner keeps    *)
(* the contract of all runners, for every set of jobs and any number of    *)
(* stop messages.                                                          *)
(***************************************************************************)
EXTENDS NspawnRunner, TLAPS

Stages == {"idle"} \cup StartStages \cup StopStages

\* The stages in which a call holds the current_job mutex.
HoldStages ==
  {"allocate", "spawn", "ready", "terminate", "wait", "join_control", "join_streamer", "umount"}

\* The steps of Next, one definition per group of callers.
ConnectorStep(j) == receive_start_job(j) \/ receive_stop_job(j) \/ start_job(j) \/ connector_panics(j)
StopStep(j, f)   == stop_job(j, f) \/ (f \in Fds /\ stop_panics(j, f))
PipeStep(j, fd)  == child_writes(j, fd) \/ streamer_data(j, fd) \/ streamer_zero_bytes(j, fd)
TaskStep(j) ==
  \/ child_closes(j) \/ child_exits(j) \/ streamer_panics(j) \/ streamer_ends(j)
  \/ puppet_asks(j) \/ puppet_receives(j)
  \/ control_request(j) \/ control_answers(j) \/ control_panics(j) \/ control_ends(j)

\* Next is one of these steps.
LEMMA NextCases ==
  ASSUME Next
  PROVE  \E j \in Jobs : \/ ConnectorStep(j)
                         \/ \E f \in Callers : StopStep(j, f)
                         \/ \E fd \in Fds : PipeStep(j, fd)
                         \/ TaskStep(j)
BY Zenon DEF Next, ConnectorStep, StopStep, PipeStep, TaskStep, Callers

-----------------------------------------------------------------------------
(* Type correctness.                                                       *)

\* Moving one call to a stage keeps the type of pc.
LEMMA GotoType ==
  ASSUME NEW j \in Jobs, NEW f \in Callers, NEW stage \in Stages,
         pc \in [Jobs -> [Callers -> Stages]], Goto(j, f, stage)
  PROVE  /\ pc' \in [Jobs -> [Callers -> Stages]]
         /\ pc'[j][f] = stage
         /\ \A k \in Jobs : \A g \in Callers : k # j \/ g # f => pc'[k][g] = pc[k][g]
BY DEF Goto

\* Posting a state keeps the type of the history.
LEMMA PostType ==
  ASSUME NEW j \in Jobs, NEW s \in Reports, reports \in [Jobs -> SUBSET Reports], Post(j, s)
  PROVE  reports' \in [Jobs -> SUBSET Reports]
BY DEF Post

\* The constants, as far as the proofs need them spelled out.
LEMMA CallerFacts ==
  /\ "connector" \in Callers /\ "stdout" \in Callers /\ "stderr" \in Callers
  /\ Fds \subseteq Callers /\ "connector" \notin Fds
BY DEF Callers, Fds

\* stop_job is called by the connector or by the end of a pipe.
LEMMA CallerIs == \A f \in Callers : f = "connector" \/ f \in Fds
BY DEF Callers, Fds

\* A step of the connector keeps the types.
LEMMA ConnectorType == ASSUME TypeOK, NEW j \in Jobs, ConnectorStep(j) PROVE TypeOK'
<1> USE CallerFacts DEF TypeOK, inputs, tasks, outside, console, Stages, StartStages, StopStages, Reports
<1>1. CASE receive_start_job(j) \/ start_refused(j) \/ start_accepted(j)
  <2>1. pc' \in [Jobs -> [Callers -> Stages]]
    BY <1>1, GotoType DEF receive_start_job, start_refused, start_accepted
  <2>2. reports' \in [Jobs -> SUBSET Reports]
    BY <1>1, PostType DEF receive_start_job, start_refused, start_accepted
  <2>3. lock' \in (Jobs \X Callers) \cup {Nil}
    BY <1>1 DEF receive_start_job, start_refused, start_accepted
  <2> QED BY <1>1, <2>1, <2>2, <2>3 DEF receive_start_job, start_refused, start_accepted
<1>2. CASE receive_stop_job(j)
  <2>1. pc' \in [Jobs -> [Callers -> Stages]] BY <1>2, GotoType DEF receive_stop_job
  <2>2. stops' \in 0..MaxStops BY <1>2, BoundsAssumption DEF receive_stop_job
  <2> QED BY <1>2, <2>1, <2>2 DEF receive_stop_job
<1>3. CASE allocate_fails(j) \/ spawn_fails(j) \/ ready(j)
  <2>1. pc' \in [Jobs -> [Callers -> Stages]] BY <1>3, GotoType DEF allocate_fails, spawn_fails, ready
  <2>2. reports' \in [Jobs -> SUBSET Reports] BY <1>3, PostType DEF allocate_fails, spawn_fails, ready
  <2> QED BY <1>3, <2>1, <2>2 DEF allocate_fails, spawn_fails, ready
<1>4. CASE allocate(j)
  <2>1. pc' \in [Jobs -> [Callers -> Stages]] BY <1>4, GotoType DEF allocate
  <2>2. reports' \in [Jobs -> SUBSET Reports] BY <1>4, PostType DEF allocate
  <2> QED BY <1>4, <2>1, <2>2 DEF allocate
<1>5. CASE spawn(j)
  <2>1. pc' \in [Jobs -> [Callers -> Stages]] BY <1>5, GotoType DEF spawn
  <2> QED BY <1>5, <2>1 DEF spawn
<1>6. CASE connector_panics(j)
  BY <1>6 DEF connector_panics
<1> QED BY <1>1, <1>2, <1>3, <1>4, <1>5, <1>6 DEF ConnectorStep, start_job

\* A step of a stop_job call keeps the types.
LEMMA StopType == ASSUME TypeOK, NEW j \in Jobs, NEW f \in Callers, StopStep(j, f) PROVE TypeOK'
<1> USE CallerFacts DEF TypeOK, inputs, tasks, outside, console, Stages, StartStages, StopStages, Reports
<1>1. CASE stop_refused(j, f)
  <2>1. pc' \in [Jobs -> [Callers -> Stages]] BY <1>1, GotoType DEF stop_refused
  <2>2. reports' \in [Jobs -> SUBSET Reports] BY <1>1, PostType DEF stop_refused
  <2> QED BY <1>1, <2>1, <2>2 DEF stop_refused
<1>2. CASE stop_accepted(j, f)
  <2>1. pc' \in [Jobs -> [Callers -> Stages]] BY <1>2, GotoType DEF stop_accepted
  <2>2. reports' \in [Jobs -> SUBSET Reports] BY <1>2, PostType DEF stop_accepted
  <2>3. lock' \in (Jobs \X Callers) \cup {Nil} BY <1>2 DEF stop_accepted
  <2>4. current_job' \in Jobs \cup {Nil} BY <1>2 DEF stop_accepted
  <2> QED BY <1>2, <2>1, <2>2, <2>3, <2>4 DEF stop_accepted
<1>3. CASE terminate(j, f)
  <2>1. pc' \in [Jobs -> [Callers -> Stages]] BY <1>3, GotoType DEF terminate
  <2> QED BY <1>3, <2>1 DEF terminate
<1>4. CASE wait(j, f)
  <2>1. pc' \in [Jobs -> [Callers -> Stages]] BY <1>4, GotoType DEF wait
  <2>2. child' \in [Jobs -> {"none", "running", "closing", "exited"}] BY <1>4 DEF wait
  <2>3. closing' \in [Jobs -> SUBSET {"control", "streamer"}] BY <1>4 DEF wait
  <2> QED BY <1>4, <2>1, <2>2, <2>3 DEF wait
<1>5. CASE join_control(j, f)
  <2>1. pc' \in [Jobs -> [Callers -> Stages]] BY <1>5, GotoType DEF join_control
  <2> QED BY <1>5, <2>1 DEF join_control
<1>6. CASE join_streamer(j, f) \/ umount(j, f)
  <2>1. pc' \in [Jobs -> [Callers -> Stages]] BY <1>6, GotoType DEF join_streamer, umount
  <2> QED BY <1>6, <2>1 DEF join_streamer, umount
<1>7. CASE umount_fails(j, f) \/ finish(j, f)
  <2>1. pc' \in [Jobs -> [Callers -> Stages]] BY <1>7, GotoType DEF umount_fails, finish
  <2>2. reports' \in [Jobs -> SUBSET Reports] BY <1>7, PostType DEF umount_fails, finish
  <2> QED BY <1>7, <2>1, <2>2 DEF umount_fails, finish
<1>8. CASE stop_panics(j, f)
  <2>1. pc' \in [Jobs -> [Callers -> Stages]] BY <1>8, GotoType DEF stop_panics
  <2>2. closing' \in [Jobs -> SUBSET {"control", "streamer"}] BY <1>8 DEF stop_panics
  <2>3. lock' \in (Jobs \X Callers) \cup {Nil} BY <1>8 DEF stop_panics
  <2>4. current_job' \in Jobs \cup {Nil} /\ lost' \subseteq Jobs BY <1>8 DEF stop_panics
  <2> QED BY <1>8, <2>1, <2>2, <2>3, <2>4 DEF stop_panics
<1> QED BY <1>1, <1>2, <1>3, <1>4, <1>5, <1>6, <1>7, <1>8 DEF StopStep, stop_job

\* A step of the container's output or of the streamer keeps the types.
LEMMA PipeType == ASSUME TypeOK, NEW j \in Jobs, NEW fd \in Fds, PipeStep(j, fd) PROVE TypeOK'
<1> USE CallerFacts DEF TypeOK, inputs, tasks, outside, console, Stages, StartStages, StopStages
<1>1. CASE child_writes(j, fd) \/ streamer_data(j, fd)
  <2>1. unread' \in [Jobs -> SUBSET Fds] BY <1>1 DEF child_writes, streamer_data
  <2> QED BY <1>1, <2>1 DEF child_writes, streamer_data
<1>2. CASE streamer_zero_bytes(j, fd)
  <2>1. pc' \in [Jobs -> [Callers -> Stages]] BY <1>2, GotoType DEF streamer_zero_bytes
  <2> QED BY <1>2, <2>1 DEF streamer_zero_bytes
<1> QED BY <1>1, <1>2 DEF PipeStep

\* A step of the container, the puppet or a background task keeps the types.
LEMMA TaskType == ASSUME TypeOK, NEW j \in Jobs, TaskStep(j) PROVE TypeOK'
<1> USE DEF TypeOK, inputs, tasks, outside, Rest
<1>1. CASE child_closes(j) \/ child_exits(j) \/ streamer_panics(j) \/ streamer_ends(j)
  BY <1>1 DEF child_closes, child_exits, streamer_panics, streamer_ends
<1>2. CASE puppet_asks(j) \/ puppet_receives(j) \/ control_request(j)
  BY <1>2 DEF puppet_asks, puppet_receives, control_request
<1>3. CASE control_answers(j) \/ control_panics(j) \/ control_ends(j)
  BY <1>3 DEF control_answers, control_panics, control_ends
<1> QED BY <1>1, <1>2, <1>3 DEF TaskStep

\* The initial state has the types.
LEMMA TypeInit == Init => TypeOK
BY BoundsAssumption DEF Init, TypeOK, StartStages, StopStages

\* A step, stuttering included, keeps the types.
LEMMA TypeNext == TypeOK /\ [Next]_vars => TypeOK'
<1> SUFFICES ASSUME TypeOK, [Next]_vars PROVE TypeOK'
  OBVIOUS
<1>1. CASE UNCHANGED vars BY <1>1 DEF TypeOK, vars
<1>2. CASE Next
  BY <1>2, NextCases, ConnectorType, StopType, PipeType, TaskType, Zenon
<1> QED BY <1>1, <1>2

\* Every variable of the runner keeps its type, for any set of jobs
\* (start_job, stop_job and the tasks they spawn).
THEOREM TypeCorrect == Spec => []TypeOK
BY TypeInit, TypeNext, PTL DEF Spec

-----------------------------------------------------------------------------
(* The invariant.                                                          *)

\* A task or process of job j that has not been told to end.
Busy(j) ==
  \/ Alive(j)
  \/ streamer[j] = "running"
  \/ control[j] \in {"open", "asked"} /\ "control" \notin closing[j]

\* The mutex is held by exactly the call whose stage says so.
LockMatches == \A j \in Jobs : \A f \in Callers : pc[j][f] \in HoldStages <=> lock = <<j, f>>

\* While a call holds the mutex, the job is out of it: start_job puts it in
\* last, stop_job takes it out first.
HeldIsFree == lock # Nil => current_job = Nil

\* Until start_job spawns it, a job has no process and no task, and nobody
\* stops it.
Fresh ==
  \A j \in Jobs :
    j \notin told \/ pc[j]["connector"] \in {"start_lock", "allocate", "spawn"}
      => /\ child[j] = "none" /\ streamer[j] = "none" /\ current_job # j
         /\ pc[j]["connector"] # "spawn" => control[j] = "none"
         /\ \A fd \in Fds : pc[j][fd] = "idle"

\* No call for a job before its start_job message.
ToldFirst == \A j \in Jobs \ told : pc[j]["connector"] \in {"idle", "stop_lock"}

\* A pipe that has not reported end-of-file has not spawned a stop_job.
SpawnedOnce ==
  \A j \in Jobs : \A fd \in Fds : streamer[j] = "running" /\ fd \notin eof[j] => pc[j][fd] = "idle"

\* What stop_job has achieved at each of its stages.
StageFacts ==
  \A j \in Jobs : \A f \in Callers :
    /\ pc[j][f] \in {"join_control", "join_streamer", "umount"} => ~Alive(j) /\ "control" \in closing[j]
    /\ pc[j][f] \in {"join_streamer", "umount"} => control[j] = "ended"
    /\ pc[j][f] = "umount" => streamer[j] = "ended" /\ j \notin proxies

\* What runs belongs to the job in the mutex or to the call that holds it.
Owned == \A j \in Jobs \ lost : Busy(j) => current_job = j \/ \E f \in Callers : lock = <<j, f>>

Released(j) ==
  /\ ~Alive(j) /\ j \notin mounted \cup proxies /\ j # current_job
  /\ streamer[j] = "ended" /\ control[j] = "ended"

\* From the release of the mutex on, a finished job has nothing left.
FinishFacts ==
  \A j \in Jobs :
    "finished" \in reports[j] \/ (\E f \in Callers : pc[j][f] = "finish")
      => Released(j) /\ pc[j]["connector"] # "ready"

IInv ==
  /\ TypeOK
  /\ LockMatches
  /\ HeldIsFree
  /\ Fresh
  /\ ToldFirst
  /\ SpawnedOnce
  /\ StageFacts
  /\ Owned
  /\ FinishFacts

\* The initial state satisfies the invariant.
LEMMA IInvInit == Init => IInv
<1> SUFFICES ASSUME Init PROVE IInv
  OBVIOUS
<1>1. TypeOK BY TypeInit
<1> QED BY <1>1, NilAssumption, CallerFacts DEF Init, IInv, LockMatches, HoldStages, HeldIsFree, Fresh, ToldFirst,
     SpawnedOnce, StageFacts, Owned, FinishFacts, Busy, Alive, Callers, Fds

\* A step of the connector keeps the invariant.
LEMMA ConnectorInv == ASSUME IInv, NEW j \in Jobs, ConnectorStep(j), Next PROVE IInv'
<1>0. TypeOK' BY TypeNext DEF IInv
<1>t. /\ pc \in [Jobs -> [Callers -> Stages]] /\ reports \in [Jobs -> SUBSET Reports]
      /\ child \in [Jobs -> {"none", "running", "closing", "exited"}]
      /\ eof \in [Jobs -> SUBSET Fds]
      /\ streamer \in [Jobs -> {"none", "running", "panicked", "ended"}]
      /\ control \in [Jobs -> {"none", "open", "asked", "panicked", "ended"}]
      /\ closing \in [Jobs -> SUBSET {"control", "streamer"}]
  BY DEF IInv, TypeOK, Stages
<1>a. LockMatches BY DEF IInv
<1>b. HeldIsFree BY DEF IInv
<1>c. Fresh BY DEF IInv
<1>d. ToldFirst BY DEF IInv
<1>e. StageFacts BY DEF IInv
<1>f. Owned BY DEF IInv
<1>g. FinishFacts BY DEF IInv
<1>h. SpawnedOnce BY DEF IInv
<1>1. CASE receive_start_job(j)
  <2>1. /\ pc'[j]["connector"] = "start_lock"
        /\ \A k \in Jobs : \A g \in Callers : k # j \/ g # "connector" => pc'[k][g] = pc[k][g]
    BY <1>1, <1>t, GotoType, CallerFacts DEF receive_start_job, Stages, StartStages, StopStages
  <2>2. /\ j \notin told
        /\ pc[j]["connector"] = "idle"
        /\ told' = told \cup {j}
        /\ UNCHANGED <<eof, lock, current_job, mounted, proxies, lost, child, streamer, control, closing>>
        /\ \A k \in Jobs : "finished" \in reports'[k] <=> "finished" \in reports[k]
    BY <1>1, <1>t DEF receive_start_job, inputs, tasks, outside, console, Post, ConnectorIdle
  <2>3. LockMatches'
    BY <2>1, <2>2, <1>a, CallerFacts, NilAssumption DEF LockMatches, HoldStages
  <2>4. HeldIsFree'
    BY <2>1, <2>2, <1>b, CallerFacts, NilAssumption DEF HeldIsFree
  <2>5. Fresh'
    BY <2>1, <2>2, <1>c, <1>d, <1>a, CallerFacts, NilAssumption
    DEF Fresh, ToldFirst, LockMatches, HoldStages
  <2>6. ToldFirst'
    BY <2>1, <2>2, <1>d, CallerFacts, NilAssumption DEF ToldFirst
  <2>7. SpawnedOnce'
    BY <2>1, <2>2, <1>h, <1>c, CallerFacts, NilAssumption DEF SpawnedOnce, Fresh
  <2>8. StageFacts'
    BY <2>1, <2>2, <1>e, <1>a, <1>c, CallerFacts, NilAssumption
    DEF StageFacts, Alive, LockMatches, Fresh, HoldStages
  <2>9. Owned'
    BY <2>1, <2>2, <1>f, <1>b, <1>a, <1>e, <1>c, CallerFacts, NilAssumption
    DEF Owned, Busy, Alive, HeldIsFree, LockMatches, StageFacts, Fresh, HoldStages
  <2>10. FinishFacts'
    BY <2>1, <2>2, <1>g, <1>b, <1>c, <1>a, <1>e, CallerFacts, NilAssumption
    DEF FinishFacts, Released, Alive, HeldIsFree, Fresh, LockMatches, StageFacts, HoldStages
  <2> QED BY <2>3, <2>4, <2>5, <2>6, <2>7, <2>8, <2>9, <2>10, <1>0 DEF IInv
<1>2. CASE receive_stop_job(j)
  <2>1. /\ pc'[j]["connector"] = "stop_lock"
        /\ \A k \in Jobs : \A g \in Callers : k # j \/ g # "connector" => pc'[k][g] = pc[k][g]
    BY <1>2, <1>t, GotoType, CallerFacts DEF receive_stop_job, Stages, StartStages, StopStages
  <2>2. /\ pc[j]["connector"] = "idle"
        /\ UNCHANGED <<told, eof, lock, current_job, mounted, proxies, lost, child, streamer, control, closing>>
        /\ \A k \in Jobs : "finished" \in reports'[k] <=> "finished" \in reports[k]
    BY <1>2, <1>t DEF receive_stop_job, inputs, tasks, outside, console, Post, ConnectorIdle
  <2>3. LockMatches'
    BY <2>1, <2>2, <1>a, CallerFacts, NilAssumption DEF LockMatches, HoldStages
  <2>4. HeldIsFree'
    BY <2>1, <2>2, <1>b, CallerFacts, NilAssumption DEF HeldIsFree
  <2>5. Fresh'
    BY <2>1, <2>2, <1>c, <1>d, <1>a, CallerFacts, NilAssumption
    DEF Fresh, ToldFirst, LockMatches, HoldStages
  <2>6. ToldFirst'
    BY <2>1, <2>2, <1>d, CallerFacts, NilAssumption DEF ToldFirst
  <2>7. SpawnedOnce'
    BY <2>1, <2>2, <1>h, <1>c, CallerFacts, NilAssumption DEF SpawnedOnce, Fresh
  <2>8. StageFacts'
    BY <2>1, <2>2, <1>e, <1>a, <1>c, CallerFacts, NilAssumption
    DEF StageFacts, Alive, LockMatches, Fresh, HoldStages
  <2>9. Owned'
    BY <2>1, <2>2, <1>f, <1>b, <1>a, <1>e, <1>c, CallerFacts, NilAssumption
    DEF Owned, Busy, Alive, HeldIsFree, LockMatches, StageFacts, Fresh, HoldStages
  <2>10. FinishFacts'
    BY <2>1, <2>2, <1>g, <1>b, <1>c, <1>a, <1>e, CallerFacts, NilAssumption
    DEF FinishFacts, Released, Alive, HeldIsFree, Fresh, LockMatches, StageFacts, HoldStages
  <2> QED BY <2>3, <2>4, <2>5, <2>6, <2>7, <2>8, <2>9, <2>10, <1>0 DEF IInv
<1>3. CASE start_refused(j)
  <2>1. /\ pc'[j]["connector"] = "idle"
        /\ \A k \in Jobs : \A g \in Callers : k # j \/ g # "connector" => pc'[k][g] = pc[k][g]
    BY <1>3, <1>t, GotoType, CallerFacts DEF start_refused, Stages, StartStages, StopStages
  <2>2. /\ pc[j]["connector"] = "start_lock"
        /\ lock = Nil
        /\ UNCHANGED <<told, eof, lock, current_job, mounted, proxies, lost, child, streamer, control, closing>>
        /\ \A k \in Jobs : "finished" \in reports'[k] <=> "finished" \in reports[k]
    BY <1>3, <1>t DEF start_refused, inputs, tasks, outside, console, Post
  <2>3. LockMatches'
    BY <2>1, <2>2, <1>a, CallerFacts, NilAssumption DEF LockMatches, HoldStages
  <2>4. HeldIsFree'
    BY <2>1, <2>2, <1>b, CallerFacts, NilAssumption DEF HeldIsFree
  <2>5. Fresh'
    BY <2>1, <2>2, <1>c, <1>d, <1>a, CallerFacts, NilAssumption
    DEF Fresh, ToldFirst, LockMatches, HoldStages
  <2>6. ToldFirst'
    BY <2>1, <2>2, <1>d, CallerFacts, NilAssumption DEF ToldFirst
  <2>7. SpawnedOnce'
    BY <2>1, <2>2, <1>h, <1>c, CallerFacts, NilAssumption DEF SpawnedOnce, Fresh
  <2>8. StageFacts'
    BY <2>1, <2>2, <1>e, <1>a, <1>c, CallerFacts, NilAssumption
    DEF StageFacts, Alive, LockMatches, Fresh, HoldStages
  <2>9. Owned'
    BY <2>1, <2>2, <1>f, <1>b, <1>a, <1>e, <1>c, CallerFacts, NilAssumption
    DEF Owned, Busy, Alive, HeldIsFree, LockMatches, StageFacts, Fresh, HoldStages
  <2>10. FinishFacts'
    BY <2>1, <2>2, <1>g, <1>b, <1>c, <1>a, <1>e, CallerFacts, NilAssumption
    DEF FinishFacts, Released, Alive, HeldIsFree, Fresh, LockMatches, StageFacts, HoldStages
  <2> QED BY <2>3, <2>4, <2>5, <2>6, <2>7, <2>8, <2>9, <2>10, <1>0 DEF IInv
<1>4. CASE start_accepted(j)
  <2>1. /\ pc'[j]["connector"] = "allocate"
        /\ \A k \in Jobs : \A g \in Callers : k # j \/ g # "connector" => pc'[k][g] = pc[k][g]
    BY <1>4, <1>t, GotoType, CallerFacts DEF start_accepted, Stages, StartStages, StopStages
  <2>2. /\ pc[j]["connector"] = "start_lock"
        /\ lock = Nil
        /\ current_job = Nil
        /\ lock' = <<j, "connector">>
        /\ UNCHANGED <<told, eof, current_job, mounted, proxies, lost, child, streamer, control, closing>>
        /\ \A k \in Jobs : "finished" \in reports'[k] <=> "finished" \in reports[k]
    BY <1>4, <1>t DEF start_accepted, inputs, tasks, outside, console, Post
  <2>3. LockMatches'
    BY <2>1, <2>2, <1>a, CallerFacts, NilAssumption DEF LockMatches, HoldStages
  <2>4. HeldIsFree'
    BY <2>1, <2>2, <1>b, CallerFacts, NilAssumption DEF HeldIsFree
  <2>5. Fresh'
    BY <2>1, <2>2, <1>c, <1>d, <1>a, CallerFacts, NilAssumption
    DEF Fresh, ToldFirst, LockMatches, HoldStages
  <2>6. ToldFirst'
    BY <2>1, <2>2, <1>d, CallerFacts, NilAssumption DEF ToldFirst
  <2>7. SpawnedOnce'
    BY <2>1, <2>2, <1>h, <1>c, CallerFacts, NilAssumption DEF SpawnedOnce, Fresh
  <2>8. StageFacts'
    BY <2>1, <2>2, <1>e, <1>a, <1>c, CallerFacts, NilAssumption
    DEF StageFacts, Alive, LockMatches, Fresh, HoldStages
  <2>9. Owned'
    BY <2>1, <2>2, <1>f, <1>b, <1>a, <1>e, <1>c, CallerFacts, NilAssumption
    DEF Owned, Busy, Alive, HeldIsFree, LockMatches, StageFacts, Fresh, HoldStages
  <2>10. FinishFacts'
    BY <2>1, <2>2, <1>g, <1>b, <1>c, <1>a, <1>e, CallerFacts, NilAssumption
    DEF FinishFacts, Released, Alive, HeldIsFree, Fresh, LockMatches, StageFacts, HoldStages
  <2> QED BY <2>3, <2>4, <2>5, <2>6, <2>7, <2>8, <2>9, <2>10, <1>0 DEF IInv
<1>5. CASE allocate_fails(j)
  <2>1. /\ pc'[j]["connector"] = "idle"
        /\ \A k \in Jobs : \A g \in Callers : k # j \/ g # "connector" => pc'[k][g] = pc[k][g]
    BY <1>5, <1>t, GotoType, CallerFacts DEF allocate_fails, Stages, StartStages, StopStages
  <2>2. /\ pc[j]["connector"] = "allocate"
        /\ lock' = Nil
        /\ UNCHANGED <<told, eof, current_job, mounted, proxies, lost, child, streamer, control, closing>>
        /\ \A k \in Jobs : "finished" \in reports'[k] <=> "finished" \in reports[k]
    BY <1>5, <1>t DEF allocate_fails, inputs, tasks, outside, console, Post
  <2>3. LockMatches'
    BY <2>1, <2>2, <1>a, CallerFacts, NilAssumption DEF LockMatches, HoldStages
  <2>4. HeldIsFree'
    BY <2>1, <2>2, <1>b, CallerFacts, NilAssumption DEF HeldIsFree
  <2>5. Fresh'
    BY <2>1, <2>2, <1>c, <1>d, <1>a, CallerFacts, NilAssumption
    DEF Fresh, ToldFirst, LockMatches, HoldStages
  <2>6. ToldFirst'
    BY <2>1, <2>2, <1>d, CallerFacts, NilAssumption DEF ToldFirst
  <2>7. SpawnedOnce'
    BY <2>1, <2>2, <1>h, <1>c, CallerFacts, NilAssumption DEF SpawnedOnce, Fresh
  <2>8. StageFacts'
    BY <2>1, <2>2, <1>e, <1>a, <1>c, CallerFacts, NilAssumption
    DEF StageFacts, Alive, LockMatches, Fresh, HoldStages
  <2>9. Owned'
    BY <2>1, <2>2, <1>f, <1>b, <1>a, <1>e, <1>c, CallerFacts, NilAssumption
    DEF Owned, Busy, Alive, HeldIsFree, LockMatches, StageFacts, Fresh, HoldStages
  <2>10. FinishFacts'
    BY <2>1, <2>2, <1>g, <1>b, <1>c, <1>a, <1>e, CallerFacts, NilAssumption
    DEF FinishFacts, Released, Alive, HeldIsFree, Fresh, LockMatches, StageFacts, HoldStages
  <2> QED BY <2>3, <2>4, <2>5, <2>6, <2>7, <2>8, <2>9, <2>10, <1>0 DEF IInv
<1>6. CASE allocate(j)
  <2>1. /\ pc'[j]["connector"] = "spawn"
        /\ \A k \in Jobs : \A g \in Callers : k # j \/ g # "connector" => pc'[k][g] = pc[k][g]
    BY <1>6, <1>t, GotoType, CallerFacts DEF allocate, Stages, StartStages, StopStages
  <2>2. /\ pc[j]["connector"] = "allocate"
        /\ mounted' = mounted \cup {j}
        /\ proxies' \subseteq proxies \cup {j}
        /\ control'[j] = "open" /\ \A k \in Jobs : k # j => control'[k] = control[k]
        /\ UNCHANGED <<told, eof, lock, current_job, lost, child, streamer, closing>>
        /\ \A k \in Jobs : "finished" \in reports'[k] <=> "finished" \in reports[k]
    BY <1>6, <1>t DEF allocate, inputs, tasks, outside, console, Post
  <2>3. LockMatches'
    BY <2>1, <2>2, <1>a, CallerFacts, NilAssumption DEF LockMatches, HoldStages
  <2>4. HeldIsFree'
    BY <2>1, <2>2, <1>b, CallerFacts, NilAssumption DEF HeldIsFree
  <2>5. Fresh'
    BY <2>1, <2>2, <1>c, <1>d, <1>a, CallerFacts, NilAssumption
    DEF Fresh, ToldFirst, LockMatches, HoldStages
  <2>6. ToldFirst'
    BY <2>1, <2>2, <1>d, CallerFacts, NilAssumption DEF ToldFirst
  <2>7. SpawnedOnce'
    BY <2>1, <2>2, <1>h, <1>c, CallerFacts, NilAssumption DEF SpawnedOnce, Fresh
  <2>8. StageFacts'
    BY <2>1, <2>2, <1>e, <1>a, <1>c, CallerFacts, NilAssumption
    DEF StageFacts, Alive, LockMatches, Fresh, HoldStages
  <2>9. Owned'
    BY <2>1, <2>2, <1>f, <1>b, <1>a, <1>e, <1>c, CallerFacts, NilAssumption
    DEF Owned, Busy, Alive, HeldIsFree, LockMatches, StageFacts, Fresh, HoldStages
  <2>10. FinishFacts'
    BY <2>1, <2>2, <1>g, <1>b, <1>c, <1>a, <1>e, CallerFacts, NilAssumption
    DEF FinishFacts, Released, Alive, HeldIsFree, Fresh, LockMatches, StageFacts, HoldStages
  <2> QED BY <2>3, <2>4, <2>5, <2>6, <2>7, <2>8, <2>9, <2>10, <1>0 DEF IInv
<1>7. CASE spawn_fails(j)
  <2>1. /\ pc'[j]["connector"] = "idle"
        /\ \A k \in Jobs : \A g \in Callers : k # j \/ g # "connector" => pc'[k][g] = pc[k][g]
    BY <1>7, <1>t, GotoType, CallerFacts DEF spawn_fails, Stages, StartStages, StopStages
  <2>2. /\ pc[j]["connector"] = "spawn"
        /\ lock' = Nil
        /\ closing'[j] = closing[j] \cup {"control"} /\ \A k \in Jobs : k # j => closing'[k] = closing[k]
        /\ UNCHANGED <<told, eof, current_job, mounted, proxies, lost, child, streamer, control>>
        /\ \A k \in Jobs : "finished" \in reports'[k] <=> "finished" \in reports[k]
    BY <1>7, <1>t DEF spawn_fails, inputs, tasks, outside, console, Post
  <2>3. LockMatches'
    BY <2>1, <2>2, <1>a, CallerFacts, NilAssumption DEF LockMatches, HoldStages
  <2>4. HeldIsFree'
    BY <2>1, <2>2, <1>b, CallerFacts, NilAssumption DEF HeldIsFree
  <2>5. Fresh'
    BY <2>1, <2>2, <1>c, <1>d, <1>a, CallerFacts, NilAssumption
    DEF Fresh, ToldFirst, LockMatches, HoldStages
  <2>6. ToldFirst'
    BY <2>1, <2>2, <1>d, CallerFacts, NilAssumption DEF ToldFirst
  <2>7. SpawnedOnce'
    BY <2>1, <2>2, <1>h, <1>c, CallerFacts, NilAssumption DEF SpawnedOnce, Fresh
  <2>8. StageFacts'
    BY <2>1, <2>2, <1>e, <1>a, <1>c, CallerFacts, NilAssumption
    DEF StageFacts, Alive, LockMatches, Fresh, HoldStages
  <2>9. Owned'
    BY <2>1, <2>2, <1>f, <1>b, <1>a, <1>e, <1>c, CallerFacts, NilAssumption
    DEF Owned, Busy, Alive, HeldIsFree, LockMatches, StageFacts, Fresh, HoldStages
  <2>10. FinishFacts'
    BY <2>1, <2>2, <1>g, <1>b, <1>c, <1>a, <1>e, CallerFacts, NilAssumption
    DEF FinishFacts, Released, Alive, HeldIsFree, Fresh, LockMatches, StageFacts, HoldStages
  <2> QED BY <2>3, <2>4, <2>5, <2>6, <2>7, <2>8, <2>9, <2>10, <1>0 DEF IInv
<1>8. CASE spawn(j)
  <2>1. /\ pc'[j]["connector"] = "ready"
        /\ \A k \in Jobs : \A g \in Callers : k # j \/ g # "connector" => pc'[k][g] = pc[k][g]
    BY <1>8, <1>t, GotoType, CallerFacts DEF spawn, Stages, StartStages, StopStages
  <2>2. /\ pc[j]["connector"] = "spawn"
        /\ child'[j] = "running" /\ \A k \in Jobs : k # j => child'[k] = child[k]
        /\ streamer'[j] = "running" /\ \A k \in Jobs : k # j => streamer'[k] = streamer[k]
        /\ UNCHANGED <<told, eof, lock, current_job, mounted, proxies, lost, control, closing>>
        /\ \A k \in Jobs : "finished" \in reports'[k] <=> "finished" \in reports[k]
    BY <1>8, <1>t DEF spawn, inputs, tasks, outside, console, Post
  <2>3. LockMatches'
    BY <2>1, <2>2, <1>a, CallerFacts, NilAssumption DEF LockMatches, HoldStages
  <2>4. HeldIsFree'
    BY <2>1, <2>2, <1>b, CallerFacts, NilAssumption DEF HeldIsFree
  <2>5. Fresh'
    BY <2>1, <2>2, <1>c, <1>d, <1>a, CallerFacts, NilAssumption
    DEF Fresh, ToldFirst, LockMatches, HoldStages
  <2>6. ToldFirst'
    BY <2>1, <2>2, <1>d, CallerFacts, NilAssumption DEF ToldFirst
  <2>7. SpawnedOnce'
    BY <2>1, <2>2, <1>h, <1>c, CallerFacts, NilAssumption DEF SpawnedOnce, Fresh
  <2>8. StageFacts'
    BY <2>1, <2>2, <1>e, <1>a, <1>c, CallerFacts, NilAssumption
    DEF StageFacts, Alive, LockMatches, Fresh, HoldStages
  <2>9. Owned'
    BY <2>1, <2>2, <1>f, <1>b, <1>a, <1>e, <1>c, CallerFacts, NilAssumption
    DEF Owned, Busy, Alive, HeldIsFree, LockMatches, StageFacts, Fresh, HoldStages
  <2>10. FinishFacts'
    BY <2>1, <2>2, <1>g, <1>b, <1>c, <1>a, <1>e, CallerFacts, NilAssumption
    DEF FinishFacts, Released, Alive, HeldIsFree, Fresh, LockMatches, StageFacts, HoldStages
  <2> QED BY <2>3, <2>4, <2>5, <2>6, <2>7, <2>8, <2>9, <2>10, <1>0 DEF IInv
<1>9. CASE ready(j)
  <2>1. /\ pc'[j]["connector"] = "idle"
        /\ \A k \in Jobs : \A g \in Callers : k # j \/ g # "connector" => pc'[k][g] = pc[k][g]
    BY <1>9, <1>t, GotoType, CallerFacts DEF ready, Stages, StartStages, StopStages
  <2>2. /\ pc[j]["connector"] = "ready"
        /\ lock' = Nil
        /\ current_job' = j
        /\ UNCHANGED <<told, eof, mounted, proxies, lost, child, streamer, control, closing>>
        /\ \A k \in Jobs : "finished" \in reports'[k] <=> "finished" \in reports[k]
    BY <1>9, <1>t DEF ready, inputs, tasks, outside, console, Post
  <2>3. LockMatches'
    BY <2>1, <2>2, <1>a, CallerFacts, NilAssumption DEF LockMatches, HoldStages
  <2>4. HeldIsFree'
    BY <2>1, <2>2, <1>b, CallerFacts, NilAssumption DEF HeldIsFree
  <2>5. Fresh'
    BY <2>1, <2>2, <1>c, <1>d, <1>a, CallerFacts, NilAssumption
    DEF Fresh, ToldFirst, LockMatches, HoldStages
  <2>6. ToldFirst'
    BY <2>1, <2>2, <1>d, CallerFacts, NilAssumption DEF ToldFirst
  <2>7. SpawnedOnce'
    BY <2>1, <2>2, <1>h, <1>c, CallerFacts, NilAssumption DEF SpawnedOnce, Fresh
  <2>8. StageFacts'
    BY <2>1, <2>2, <1>e, <1>a, <1>c, CallerFacts, NilAssumption
    DEF StageFacts, Alive, LockMatches, Fresh, HoldStages
  <2>9. Owned'
    BY <2>1, <2>2, <1>f, <1>b, <1>a, <1>e, <1>c, CallerFacts, NilAssumption
    DEF Owned, Busy, Alive, HeldIsFree, LockMatches, StageFacts, Fresh, HoldStages
  <2>10. FinishFacts'
    BY <2>1, <2>2, <1>g, <1>b, <1>c, <1>a, <1>e, CallerFacts, NilAssumption
    DEF FinishFacts, Released, Alive, HeldIsFree, Fresh, LockMatches, StageFacts, HoldStages
  <2> QED BY <2>3, <2>4, <2>5, <2>6, <2>7, <2>8, <2>9, <2>10, <1>0 DEF IInv
<1>10. CASE connector_panics(j)
  <2>1. /\ \A k \in Jobs : \A g \in Callers : pc'[k][g] = "idle"
        /\ lock' = Nil /\ current_job' = Nil /\ told' = told /\ reports' = reports /\ child' = child
        /\ \A k \in Jobs : streamer'[k] = (IF streamer[k] = "none" THEN "none" ELSE "ended")
        /\ \A k \in Jobs : control'[k] = (IF control[k] = "none" THEN "none" ELSE "ended")
        /\ proxies' = {}
        /\ mounted' \subseteq mounted \cup {j}
        /\ pc[j]["connector"] # "allocate" => mounted' = mounted
        /\ lost' = lost \cup {k \in Jobs : Alive(k)}
    BY <1>10, <1>t DEF connector_panics, inputs
  <2>2. LockMatches' BY <2>1, NilAssumption DEF LockMatches, HoldStages
  <2>3. HeldIsFree' BY <2>1 DEF HeldIsFree
  <2>4. Fresh' BY <2>1, <1>c, <1>d, CallerFacts, NilAssumption DEF Fresh, ToldFirst
  <2>5. ToldFirst' BY <2>1, CallerFacts DEF ToldFirst
  <2>9. SpawnedOnce' BY <2>1, CallerFacts DEF SpawnedOnce
  <2>6. StageFacts' BY <2>1 DEF StageFacts
  <2>7. Owned' BY <2>1 DEF Owned, Busy, Alive
  <2>8. FinishFacts'
    BY <2>1, <1>c, <1>g, CallerFacts, NilAssumption DEF FinishFacts, Released, Alive, Fresh
  <2> QED BY <2>2, <2>3, <2>4, <2>5, <2>6, <2>7, <2>8, <2>9, <1>0 DEF IInv
<1> QED BY <1>1, <1>2, <1>3, <1>4, <1>5, <1>6, <1>7, <1>8, <1>9, <1>10 DEF ConnectorStep, start_job

\* A step of a stop_job call keeps the invariant.
LEMMA StopInv == ASSUME IInv, NEW j \in Jobs, NEW f \in Callers, StopStep(j, f), Next PROVE IInv'
<1>0. TypeOK' BY TypeNext DEF IInv
<1>t. /\ pc \in [Jobs -> [Callers -> Stages]] /\ reports \in [Jobs -> SUBSET Reports]
      /\ child \in [Jobs -> {"none", "running", "closing", "exited"}]
      /\ eof \in [Jobs -> SUBSET Fds]
      /\ streamer \in [Jobs -> {"none", "running", "panicked", "ended"}]
      /\ control \in [Jobs -> {"none", "open", "asked", "panicked", "ended"}]
      /\ closing \in [Jobs -> SUBSET {"control", "streamer"}]
  BY DEF IInv, TypeOK, Stages
<1>a. LockMatches BY DEF IInv
<1>b. HeldIsFree BY DEF IInv
<1>c. Fresh BY DEF IInv
<1>d. ToldFirst BY DEF IInv
<1>e. StageFacts BY DEF IInv
<1>f. Owned BY DEF IInv
<1>g. FinishFacts BY DEF IInv
<1>h. SpawnedOnce BY DEF IInv
<1>1. CASE stop_refused(j, f)
  <2>1. /\ pc'[j][f] = "idle"
        /\ \A k \in Jobs : \A g \in Callers : k # j \/ g # f => pc'[k][g] = pc[k][g]
    BY <1>1, <1>t, GotoType, CallerFacts DEF stop_refused, Stages, StartStages, StopStages
  <2>2. /\ pc[j][f] = "stop_lock"
        /\ lock = Nil
        /\ current_job # j
        /\ UNCHANGED <<told, eof, lock, current_job, mounted, proxies, lost, child, streamer, control, closing>>
        /\ \A k \in Jobs : "finished" \in reports'[k] <=> "finished" \in reports[k]
    BY <1>1, <1>t DEF stop_refused, inputs, tasks, outside, console, Post
  <2>3. LockMatches'
    BY <2>1, <2>2, <1>a, CallerFacts, CallerIs, NilAssumption DEF LockMatches, HoldStages
  <2>4. HeldIsFree'
    BY <2>1, <2>2, <1>b, CallerFacts, NilAssumption DEF HeldIsFree
  <2>5. Fresh'
    BY <2>1, <2>2, <1>c, <1>d, <1>a, CallerFacts, CallerIs, NilAssumption
    DEF Fresh, ToldFirst, LockMatches, HoldStages
  <2>6. ToldFirst'
    BY <2>1, <2>2, <1>d, CallerFacts, NilAssumption DEF ToldFirst
  <2>7. SpawnedOnce'
    BY <2>1, <2>2, <1>h, <1>c, CallerFacts, NilAssumption DEF SpawnedOnce, Fresh
  <2>8. StageFacts'
    BY <2>1, <2>2, <1>e, <1>a, <1>c, CallerFacts, NilAssumption
    DEF StageFacts, Alive, LockMatches, Fresh, HoldStages
  <2>9. Owned'
    BY <2>1, <2>2, <1>f, <1>b, <1>a, <1>e, <1>c, CallerFacts, NilAssumption
    DEF Owned, Busy, Alive, HeldIsFree, LockMatches, StageFacts, Fresh, HoldStages
  <2>10. FinishFacts'
    BY <2>1, <2>2, <1>g, <1>b, <1>c, <1>a, <1>e, CallerFacts, NilAssumption
    DEF FinishFacts, Released, Alive, HeldIsFree, Fresh, LockMatches, StageFacts, HoldStages
  <2> QED BY <2>3, <2>4, <2>5, <2>6, <2>7, <2>8, <2>9, <2>10, <1>0 DEF IInv
<1>2. CASE stop_accepted(j, f)
  <2>1. /\ pc'[j][f] = "terminate"
        /\ \A k \in Jobs : \A g \in Callers : k # j \/ g # f => pc'[k][g] = pc[k][g]
    BY <1>2, <1>t, GotoType, CallerFacts DEF stop_accepted, Stages, StartStages, StopStages
  <2>2. /\ pc[j][f] = "stop_lock"
        /\ lock = Nil
        /\ current_job = j
        /\ lock' = <<j, f>>
        /\ current_job' = Nil
        /\ UNCHANGED <<told, eof, mounted, proxies, lost, child, streamer, control, closing>>
        /\ \A k \in Jobs : "finished" \in reports'[k] <=> "finished" \in reports[k]
    BY <1>2, <1>t DEF stop_accepted, inputs, tasks, outside, console, Post
  <2>3. LockMatches'
    BY <2>1, <2>2, <1>a, CallerFacts, CallerIs, NilAssumption DEF LockMatches, HoldStages
  <2>4. HeldIsFree'
    BY <2>1, <2>2, <1>b, CallerFacts, NilAssumption DEF HeldIsFree
  <2>5. Fresh'
    BY <2>1, <2>2, <1>c, <1>d, <1>a, CallerFacts, CallerIs, NilAssumption
    DEF Fresh, ToldFirst, LockMatches, HoldStages
  <2>6. ToldFirst'
    BY <2>1, <2>2, <1>c, <1>d, CallerFacts, NilAssumption DEF ToldFirst, Fresh
  <2>7. SpawnedOnce'
    BY <2>1, <2>2, <1>h, <1>c, CallerFacts, NilAssumption DEF SpawnedOnce, Fresh
  <2>8. StageFacts'
    BY <2>1, <2>2, <1>e, <1>a, <1>c, CallerFacts, NilAssumption
    DEF StageFacts, Alive, LockMatches, Fresh, HoldStages
  <2>9. Owned'
    BY <2>1, <2>2, <1>f, <1>b, <1>a, <1>e, <1>c, CallerFacts, NilAssumption
    DEF Owned, Busy, Alive, HeldIsFree, LockMatches, StageFacts, Fresh, HoldStages
  <2>10. FinishFacts'
    BY <2>1, <2>2, <1>g, <1>b, <1>c, <1>a, <1>e, CallerFacts, NilAssumption
    DEF FinishFacts, Released, Alive, HeldIsFree, Fresh, LockMatches, StageFacts, HoldStages
  <2> QED BY <2>3, <2>4, <2>5, <2>6, <2>7, <2>8, <2>9, <2>10, <1>0 DEF IInv
<1>3. CASE terminate(j, f)
  <2>1. /\ pc'[j][f] = "wait"
        /\ \A k \in Jobs : \A g \in Callers : k # j \/ g # f => pc'[k][g] = pc[k][g]
    BY <1>3, <1>t, GotoType, CallerFacts DEF terminate, Stages, StartStages, StopStages
  <2>2. /\ pc[j][f] = "terminate"
        /\ UNCHANGED <<told, eof, lock, current_job, mounted, proxies, lost, child, streamer, control, closing>>
        /\ \A k \in Jobs : "finished" \in reports'[k] <=> "finished" \in reports[k]
    BY <1>3, <1>t DEF terminate, inputs, tasks, outside, console, Post
  <2>3. LockMatches'
    BY <2>1, <2>2, <1>a, CallerFacts, CallerIs, NilAssumption DEF LockMatches, HoldStages
  <2>4. HeldIsFree'
    BY <2>1, <2>2, <1>b, CallerFacts, NilAssumption DEF HeldIsFree
  <2>5. Fresh'
    BY <2>1, <2>2, <1>c, <1>d, <1>a, CallerFacts, CallerIs, NilAssumption
    DEF Fresh, ToldFirst, LockMatches, HoldStages
  <2>6. ToldFirst'
    BY <2>1, <2>2, <1>d, CallerFacts, NilAssumption DEF ToldFirst
  <2>7. SpawnedOnce'
    BY <2>1, <2>2, <1>h, <1>c, CallerFacts, NilAssumption DEF SpawnedOnce, Fresh
  <2>8. StageFacts'
    BY <2>1, <2>2, <1>e, <1>a, <1>c, CallerFacts, NilAssumption
    DEF StageFacts, Alive, LockMatches, Fresh, HoldStages
  <2>9. Owned'
    BY <2>1, <2>2, <1>f, <1>b, <1>a, <1>e, <1>c, CallerFacts, NilAssumption
    DEF Owned, Busy, Alive, HeldIsFree, LockMatches, StageFacts, Fresh, HoldStages
  <2>10. FinishFacts'
    BY <2>1, <2>2, <1>g, <1>b, <1>c, <1>a, <1>e, CallerFacts, NilAssumption
    DEF FinishFacts, Released, Alive, HeldIsFree, Fresh, LockMatches, StageFacts, HoldStages
  <2> QED BY <2>3, <2>4, <2>5, <2>6, <2>7, <2>8, <2>9, <2>10, <1>0 DEF IInv
<1>4. CASE wait(j, f)
  <2>1. /\ pc'[j][f] = "join_control"
        /\ \A k \in Jobs : \A g \in Callers : k # j \/ g # f => pc'[k][g] = pc[k][g]
    BY <1>4, <1>t, GotoType, CallerFacts DEF wait, Stages, StartStages, StopStages
  <2>2. /\ pc[j][f] = "wait"
        /\ child'[j] = "exited" /\ \A k \in Jobs : k # j => child'[k] = child[k]
        /\ closing'[j] = closing[j] \cup {"control"} /\ \A k \in Jobs : k # j => closing'[k] = closing[k]
        /\ UNCHANGED <<told, eof, lock, current_job, mounted, proxies, lost, streamer, control>>
        /\ \A k \in Jobs : "finished" \in reports'[k] <=> "finished" \in reports[k]
    BY <1>4, <1>t DEF wait, inputs, tasks, outside, console, Post
  <2>3. LockMatches'
    BY <2>1, <2>2, <1>a, CallerFacts, CallerIs, NilAssumption DEF LockMatches, HoldStages
  <2>4. HeldIsFree'
    BY <2>1, <2>2, <1>b, CallerFacts, NilAssumption DEF HeldIsFree
  <2>5. Fresh'
    BY <2>1, <2>2, <1>c, <1>d, <1>a, CallerFacts, CallerIs, NilAssumption
    DEF Fresh, ToldFirst, LockMatches, HoldStages
  <2>6. ToldFirst'
    BY <2>1, <2>2, <1>d, CallerFacts, NilAssumption DEF ToldFirst
  <2>7. SpawnedOnce'
    BY <2>1, <2>2, <1>h, <1>c, CallerFacts, NilAssumption DEF SpawnedOnce, Fresh
  <2>8. StageFacts'
    BY <2>1, <2>2, <1>e, <1>a, <1>c, CallerFacts, NilAssumption
    DEF StageFacts, Alive, LockMatches, Fresh, HoldStages
  <2>9. Owned'
    BY <2>1, <2>2, <1>f, <1>b, <1>a, <1>e, <1>c, CallerFacts, NilAssumption
    DEF Owned, Busy, Alive, HeldIsFree, LockMatches, StageFacts, Fresh, HoldStages
  <2>10. FinishFacts'
    BY <2>1, <2>2, <1>g, <1>b, <1>c, <1>a, <1>e, CallerFacts, NilAssumption
    DEF FinishFacts, Released, Alive, HeldIsFree, Fresh, LockMatches, StageFacts, HoldStages
  <2> QED BY <2>3, <2>4, <2>5, <2>6, <2>7, <2>8, <2>9, <2>10, <1>0 DEF IInv
<1>5. CASE join_control(j, f)
  <2>1. /\ pc'[j][f] = "join_streamer"
        /\ \A k \in Jobs : \A g \in Callers : k # j \/ g # f => pc'[k][g] = pc[k][g]
    BY <1>5, <1>t, GotoType, CallerFacts DEF join_control, Stages, StartStages, StopStages
  <2>2. /\ pc[j][f] = "join_control"
        /\ control[j] = "ended"
        /\ closing'[j] = closing[j] \cup {"streamer"} /\ \A k \in Jobs : k # j => closing'[k] = closing[k]
        /\ UNCHANGED <<told, eof, lock, current_job, mounted, proxies, lost, child, streamer, control>>
        /\ \A k \in Jobs : "finished" \in reports'[k] <=> "finished" \in reports[k]
    BY <1>5, <1>t DEF join_control, inputs, tasks, outside, console, Post
  <2>3. LockMatches'
    BY <2>1, <2>2, <1>a, CallerFacts, CallerIs, NilAssumption DEF LockMatches, HoldStages
  <2>4. HeldIsFree'
    BY <2>1, <2>2, <1>b, CallerFacts, NilAssumption DEF HeldIsFree
  <2>5. Fresh'
    BY <2>1, <2>2, <1>c, <1>d, <1>a, CallerFacts, CallerIs, NilAssumption
    DEF Fresh, ToldFirst, LockMatches, HoldStages
  <2>6. ToldFirst'
    BY <2>1, <2>2, <1>d, CallerFacts, NilAssumption DEF ToldFirst
  <2>7. SpawnedOnce'
    BY <2>1, <2>2, <1>h, <1>c, CallerFacts, NilAssumption DEF SpawnedOnce, Fresh
  <2>8. StageFacts'
    BY <2>1, <2>2, <1>e, <1>a, <1>c, CallerFacts, NilAssumption
    DEF StageFacts, Alive, LockMatches, Fresh, HoldStages
  <2>9. Owned'
    BY <2>1, <2>2, <1>f, <1>b, <1>a, <1>e, <1>c, CallerFacts, NilAssumption
    DEF Owned, Busy, Alive, HeldIsFree, LockMatches, StageFacts, Fresh, HoldStages
  <2>10. FinishFacts'
    BY <2>1, <2>2, <1>g, <1>b, <1>c, <1>a, <1>e, CallerFacts, NilAssumption
    DEF FinishFacts, Released, Alive, HeldIsFree, Fresh, LockMatches, StageFacts, HoldStages
  <2> QED BY <2>3, <2>4, <2>5, <2>6, <2>7, <2>8, <2>9, <2>10, <1>0 DEF IInv
<1>6. CASE join_streamer(j, f)
  <2>1. /\ pc'[j][f] = "umount"
        /\ \A k \in Jobs : \A g \in Callers : k # j \/ g # f => pc'[k][g] = pc[k][g]
    BY <1>6, <1>t, GotoType, CallerFacts DEF join_streamer, Stages, StartStages, StopStages
  <2>2. /\ pc[j][f] = "join_streamer"
        /\ streamer[j] = "ended"
        /\ proxies' = proxies \ {j}
        /\ UNCHANGED <<told, eof, lock, current_job, mounted, lost, child, streamer, control, closing>>
        /\ \A k \in Jobs : "finished" \in reports'[k] <=> "finished" \in reports[k]
    BY <1>6, <1>t DEF join_streamer, inputs, tasks, outside, console, Post
  <2>3. LockMatches'
    BY <2>1, <2>2, <1>a, CallerFacts, CallerIs, NilAssumption DEF LockMatches, HoldStages
  <2>4. HeldIsFree'
    BY <2>1, <2>2, <1>b, CallerFacts, NilAssumption DEF HeldIsFree
  <2>5. Fresh'
    BY <2>1, <2>2, <1>c, <1>d, <1>a, CallerFacts, CallerIs, NilAssumption
    DEF Fresh, ToldFirst, LockMatches, HoldStages
  <2>6. ToldFirst'
    BY <2>1, <2>2, <1>d, CallerFacts, NilAssumption DEF ToldFirst
  <2>7. SpawnedOnce'
    BY <2>1, <2>2, <1>h, <1>c, CallerFacts, NilAssumption DEF SpawnedOnce, Fresh
  <2>8. StageFacts'
    BY <2>1, <2>2, <1>e, <1>a, <1>c, CallerFacts, NilAssumption
    DEF StageFacts, Alive, LockMatches, Fresh, HoldStages
  <2>9. Owned'
    BY <2>1, <2>2, <1>f, <1>b, <1>a, <1>e, <1>c, CallerFacts, NilAssumption
    DEF Owned, Busy, Alive, HeldIsFree, LockMatches, StageFacts, Fresh, HoldStages
  <2>10. FinishFacts'
    BY <2>1, <2>2, <1>g, <1>b, <1>c, <1>a, <1>e, CallerFacts, NilAssumption
    DEF FinishFacts, Released, Alive, HeldIsFree, Fresh, LockMatches, StageFacts, HoldStages
  <2> QED BY <2>3, <2>4, <2>5, <2>6, <2>7, <2>8, <2>9, <2>10, <1>0 DEF IInv
<1>7. CASE umount_fails(j, f)
  <2>1. /\ pc'[j][f] = "idle"
        /\ \A k \in Jobs : \A g \in Callers : k # j \/ g # f => pc'[k][g] = pc[k][g]
    BY <1>7, <1>t, GotoType, CallerFacts DEF umount_fails, Stages, StartStages, StopStages
  <2>2. /\ pc[j][f] = "umount"
        /\ lock' = Nil
        /\ UNCHANGED <<told, eof, current_job, mounted, proxies, lost, child, streamer, control, closing>>
        /\ \A k \in Jobs : "finished" \in reports'[k] <=> "finished" \in reports[k]
    BY <1>7, <1>t DEF umount_fails, inputs, tasks, outside, console, Post
  <2>3. LockMatches'
    BY <2>1, <2>2, <1>a, CallerFacts, CallerIs, NilAssumption DEF LockMatches, HoldStages
  <2>4. HeldIsFree'
    BY <2>1, <2>2, <1>b, CallerFacts, NilAssumption DEF HeldIsFree
  <2>5. Fresh'
    BY <2>1, <2>2, <1>c, <1>d, <1>a, CallerFacts, CallerIs, NilAssumption
    DEF Fresh, ToldFirst, LockMatches, HoldStages
  <2>6. ToldFirst'
    BY <2>1, <2>2, <1>d, CallerFacts, NilAssumption DEF ToldFirst
  <2>7. SpawnedOnce'
    BY <2>1, <2>2, <1>h, <1>c, CallerFacts, NilAssumption DEF SpawnedOnce, Fresh
  <2>8. StageFacts'
    BY <2>1, <2>2, <1>e, <1>a, <1>c, CallerFacts, NilAssumption
    DEF StageFacts, Alive, LockMatches, Fresh, HoldStages
  <2>9. Owned'
    BY <2>1, <2>2, <1>f, <1>b, <1>a, <1>e, <1>c, CallerFacts, NilAssumption
    DEF Owned, Busy, Alive, HeldIsFree, LockMatches, StageFacts, Fresh, HoldStages
  <2>10. FinishFacts'
    BY <2>1, <2>2, <1>g, <1>b, <1>c, <1>a, <1>e, CallerFacts, NilAssumption
    DEF FinishFacts, Released, Alive, HeldIsFree, Fresh, LockMatches, StageFacts, HoldStages
  <2> QED BY <2>3, <2>4, <2>5, <2>6, <2>7, <2>8, <2>9, <2>10, <1>0 DEF IInv
<1>8. CASE umount(j, f)
  <2>1. /\ pc'[j][f] = "finish"
        /\ \A k \in Jobs : \A g \in Callers : k # j \/ g # f => pc'[k][g] = pc[k][g]
    BY <1>8, <1>t, GotoType, CallerFacts DEF umount, Stages, StartStages, StopStages
  <2>2. /\ pc[j][f] = "umount"
        /\ lock' = Nil
        /\ mounted' = mounted \ {j}
        /\ UNCHANGED <<told, eof, current_job, proxies, lost, child, streamer, control, closing>>
        /\ \A k \in Jobs : "finished" \in reports'[k] <=> "finished" \in reports[k]
    BY <1>8, <1>t DEF umount, inputs, tasks, outside, console, Post
  <2>3. LockMatches'
    BY <2>1, <2>2, <1>a, CallerFacts, CallerIs, NilAssumption DEF LockMatches, HoldStages
  <2>4. HeldIsFree'
    BY <2>1, <2>2, <1>b, CallerFacts, NilAssumption DEF HeldIsFree
  <2>5. Fresh'
    BY <2>1, <2>2, <1>c, <1>d, <1>a, CallerFacts, CallerIs, NilAssumption
    DEF Fresh, ToldFirst, LockMatches, HoldStages
  <2>6. ToldFirst'
    BY <2>1, <2>2, <1>d, CallerFacts, NilAssumption DEF ToldFirst
  <2>7. SpawnedOnce'
    BY <2>1, <2>2, <1>h, <1>c, CallerFacts, NilAssumption DEF SpawnedOnce, Fresh
  <2>8. StageFacts'
    BY <2>1, <2>2, <1>e, <1>a, <1>c, CallerFacts, NilAssumption
    DEF StageFacts, Alive, LockMatches, Fresh, HoldStages
  <2>9. Owned'
    BY <2>1, <2>2, <1>f, <1>b, <1>a, <1>e, <1>c, CallerFacts, NilAssumption
    DEF Owned, Busy, Alive, HeldIsFree, LockMatches, StageFacts, Fresh, HoldStages
  <2>10. FinishFacts'
    BY <2>1, <2>2, <1>g, <1>b, <1>c, <1>a, <1>e, CallerFacts, NilAssumption
    DEF FinishFacts, Released, Alive, HeldIsFree, Fresh, LockMatches, StageFacts, HoldStages
  <2> QED BY <2>3, <2>4, <2>5, <2>6, <2>7, <2>8, <2>9, <2>10, <1>0 DEF IInv
<1>9. CASE finish(j, f)
  <2>1. /\ pc'[j][f] = "idle"
        /\ \A k \in Jobs : \A g \in Callers : k # j \/ g # f => pc'[k][g] = pc[k][g]
    BY <1>9, <1>t, GotoType, CallerFacts DEF finish, Stages, StartStages, StopStages
  <2>2. /\ pc[j][f] = "finish"
        /\ UNCHANGED <<told, eof, lock, current_job, mounted, proxies, lost, child, streamer, control, closing>>
        /\ \A k \in Jobs : k # j => ("finished" \in reports'[k] <=> "finished" \in reports[k])
    BY <1>9, <1>t DEF finish, inputs, tasks, outside, console, Post
  <2>3. LockMatches'
    BY <2>1, <2>2, <1>a, CallerFacts, CallerIs, NilAssumption DEF LockMatches, HoldStages
  <2>4. HeldIsFree'
    BY <2>1, <2>2, <1>b, CallerFacts, NilAssumption DEF HeldIsFree
  <2>5. Fresh'
    BY <2>1, <2>2, <1>c, <1>d, <1>a, CallerFacts, CallerIs, NilAssumption
    DEF Fresh, ToldFirst, LockMatches, HoldStages
  <2>6. ToldFirst'
    BY <2>1, <2>2, <1>d, CallerFacts, NilAssumption DEF ToldFirst
  <2>7. SpawnedOnce'
    BY <2>1, <2>2, <1>h, <1>c, CallerFacts, NilAssumption DEF SpawnedOnce, Fresh
  <2>8. StageFacts'
    BY <2>1, <2>2, <1>e, <1>a, <1>c, CallerFacts, NilAssumption
    DEF StageFacts, Alive, LockMatches, Fresh, HoldStages
  <2>9. Owned'
    BY <2>1, <2>2, <1>f, <1>b, <1>a, <1>e, <1>c, CallerFacts, NilAssumption
    DEF Owned, Busy, Alive, HeldIsFree, LockMatches, StageFacts, Fresh, HoldStages
  <2>10. FinishFacts'
    BY <2>1, <2>2, <1>g, <1>b, <1>c, <1>a, <1>e, CallerFacts, NilAssumption
    DEF FinishFacts, Released, Alive, HeldIsFree, Fresh, LockMatches, StageFacts, HoldStages
  <2> QED BY <2>3, <2>4, <2>5, <2>6, <2>7, <2>8, <2>9, <2>10, <1>0 DEF IInv
<1>10. CASE stop_panics(j, f)
  <2>1. /\ pc'[j][f] = "idle"
        /\ \A k \in Jobs : \A g \in Callers : k # j \/ g # f => pc'[k][g] = pc[k][g]
    BY <1>10, <1>t, GotoType, CallerFacts DEF stop_panics, Stages, StartStages, StopStages
  <2>2. /\ f \in Fds
        /\ current_job' # current_job => current_job = j /\ lock = Nil /\ pc[j][f] = "stop_lock"
        /\ lost' = lost \cup {j} \/ (UNCHANGED <<current_job, closing>> /\ pc[j][f] = "stop_lock" /\ lock = Nil)
        /\ lock' = IF lock = <<j, f>> THEN Nil ELSE lock
        /\ current_job' \in {current_job, Nil}
        /\ lost' \in {lost, lost \cup {j}}
        /\ closing'[j] \in {closing[j], {"control", "streamer"}} /\ \A k \in Jobs : k # j => closing'[k] = closing[k]
        /\ UNCHANGED <<told, eof, mounted, proxies, child, streamer, control>>
        /\ \A k \in Jobs : "finished" \in reports'[k] <=> "finished" \in reports[k]
    BY <1>10, <1>t DEF stop_panics, inputs, tasks, outside, console, Post, MayPanic, FindsPanic, StopStages
  <2>3. LockMatches'
    <3>1. SUFFICES ASSUME NEW k \in Jobs, NEW g \in Callers
                   PROVE  (pc[k][g] \in HoldStages <=> lock = <<k, g>>)'
      BY DEF LockMatches
    <3>2. pc[k][g] \in HoldStages <=> lock = <<k, g>> BY <1>a DEF LockMatches
    <3>3. <<k, g>> # Nil BY NilAssumption
    <3>4. CASE k = j /\ g = f
      BY <3>3, <3>4, <2>1, <2>2 DEF HoldStages
    <3>5. CASE k # j \/ g # f
      <4>1. pc'[k][g] = pc[k][g] BY <3>5, <2>1
      <4>2. <<k, g>> # <<j, f>> BY <3>5
      <4>3. lock' = <<k, g>> <=> lock = <<k, g>> BY <4>2, <3>3, <2>2
      <4> QED BY <4>1, <4>3, <3>2 DEF HoldStages
    <3> QED BY <3>4, <3>5
  <2>4. HeldIsFree'
    BY <2>1, <2>2, <1>b, CallerFacts, NilAssumption DEF HeldIsFree
  <2>5. Fresh'
    BY <2>1, <2>2, <1>c, <1>d, <1>a, CallerFacts, CallerIs, NilAssumption
    DEF Fresh, ToldFirst, LockMatches, HoldStages
  <2>6. ToldFirst'
    BY <2>1, <2>2, <1>d, CallerFacts, NilAssumption DEF ToldFirst
  <2>7. SpawnedOnce'
    BY <2>1, <2>2, <1>h, <1>c, CallerFacts, NilAssumption DEF SpawnedOnce, Fresh
  <2>8. StageFacts'
    BY <2>1, <2>2, <1>e, <1>a, <1>c, CallerFacts, NilAssumption
    DEF StageFacts, Alive, LockMatches, Fresh, HoldStages
  <2>9. Owned'
    BY <2>1, <2>2, <1>f, <1>b, <1>a, <1>e, <1>c, CallerFacts, NilAssumption
    DEF Owned, Busy, Alive, HeldIsFree, LockMatches, StageFacts, Fresh, HoldStages
  <2>10. FinishFacts'
    BY <2>1, <2>2, <1>g, <1>b, <1>c, <1>a, <1>e, CallerFacts, NilAssumption
    DEF FinishFacts, Released, Alive, HeldIsFree, Fresh, LockMatches, StageFacts, HoldStages
  <2> QED BY <2>3, <2>4, <2>5, <2>6, <2>7, <2>8, <2>9, <2>10, <1>0 DEF IInv
<1> QED BY <1>1, <1>2, <1>3, <1>4, <1>5, <1>6, <1>7, <1>8, <1>9, <1>10 DEF StopStep, stop_job

\* A step of the container's output or of the streamer keeps the invariant.
LEMMA PipeInv == ASSUME IInv, NEW j \in Jobs, NEW fd \in Fds, PipeStep(j, fd), Next PROVE IInv'
<1>0. TypeOK' BY TypeNext DEF IInv
<1>t. /\ pc \in [Jobs -> [Callers -> Stages]] /\ reports \in [Jobs -> SUBSET Reports]
      /\ child \in [Jobs -> {"none", "running", "closing", "exited"}]
      /\ eof \in [Jobs -> SUBSET Fds]
      /\ streamer \in [Jobs -> {"none", "running", "panicked", "ended"}]
      /\ control \in [Jobs -> {"none", "open", "asked", "panicked", "ended"}]
      /\ closing \in [Jobs -> SUBSET {"control", "streamer"}]
  BY DEF IInv, TypeOK, Stages
<1>a. LockMatches BY DEF IInv
<1>b. HeldIsFree BY DEF IInv
<1>c. Fresh BY DEF IInv
<1>d. ToldFirst BY DEF IInv
<1>e. StageFacts BY DEF IInv
<1>f. Owned BY DEF IInv
<1>g. FinishFacts BY DEF IInv
<1>h. SpawnedOnce BY DEF IInv
<1>1. CASE child_writes(j, fd) \/ streamer_data(j, fd)
  <2>1. UNCHANGED <<told, pc, lock, current_job, child, eof, streamer, control, closing, mounted, proxies, reports, lost>>
    BY <1>1 DEF child_writes, streamer_data, inputs, tasks
  <2> QED
    BY <2>1, <1>0, <1>a, <1>b, <1>c, <1>d, <1>e, <1>f, <1>g, <1>h
    DEF IInv, LockMatches, HeldIsFree, Fresh, ToldFirst, SpawnedOnce, StageFacts, Owned, FinishFacts, Released, Busy, Alive
<1>2. CASE streamer_zero_bytes(j, fd)
  <2>1. /\ UNCHANGED <<told, lock, current_job, child, streamer, control, closing, mounted, proxies, reports, lost>>
        /\ streamer[j] = "running" /\ fd \notin eof[j]
        /\ eof'[j] = eof[j] \cup {fd} /\ \A k \in Jobs : k # j => eof'[k] = eof[k]
        /\ UNCHANGED pc \/ Goto(j, fd, "stop_lock")
    BY <1>2, <1>t DEF streamer_zero_bytes, inputs, outside
  <2>2. CASE UNCHANGED pc
    BY <2>1, <2>2, <1>0, <1>a, <1>b, <1>c, <1>d, <1>e, <1>f, <1>g, <1>h
    DEF IInv, LockMatches, HeldIsFree, Fresh, ToldFirst, SpawnedOnce, StageFacts, Owned, FinishFacts, Released, Busy, Alive
  <2>3. CASE Goto(j, fd, "stop_lock")
    <3>1. /\ pc'[j][fd] = "stop_lock"
          /\ \A k \in Jobs : \A g \in Callers : k # j \/ g # fd => pc'[k][g] = pc[k][g]
      BY <2>3, <1>t, GotoType, CallerFacts DEF Stages, StopStages
    <3>2. LockMatches' BY <3>1, <2>1, <1>a, <1>h, CallerFacts DEF SpawnedOnce, LockMatches, HoldStages
    <3>3. HeldIsFree' BY <2>1, <1>b DEF HeldIsFree
    <3>4. Fresh' BY <3>1, <2>1, <1>c, CallerFacts DEF Fresh
    <3>5. ToldFirst' BY <3>1, <2>1, <1>d, CallerFacts DEF ToldFirst
    <3>9. SpawnedOnce' BY <3>1, <2>1, <1>h, CallerFacts DEF SpawnedOnce
    <3>6. StageFacts' BY <3>1, <2>1, <1>e DEF StageFacts, Alive
    <3>7. Owned' BY <2>1, <1>f DEF Owned, Busy, Alive
    <3>8. FinishFacts' BY <3>1, <2>1, <1>g, CallerFacts DEF FinishFacts, Released, Alive
    <3> QED BY <3>2, <3>3, <3>4, <3>5, <3>6, <3>7, <3>8, <3>9, <1>0 DEF IInv
  <2> QED BY <2>1, <2>2, <2>3
<1> QED BY <1>1, <1>2 DEF PipeStep

\* A step of the container, the puppet or a background task keeps the invariant.
LEMMA TaskInv == ASSUME IInv, NEW j \in Jobs, TaskStep(j), Next PROVE IInv'
<1>0. TypeOK' BY TypeNext DEF IInv
<1> USE CallerFacts, NilAssumption DEF IInv, TypeOK, inputs, tasks, outside, console, Stages, StartStages, StopStages, Reports, Post, Rest
<1>1. CASE child_closes(j)
  <2>1. LockMatches' BY <1>1 DEF child_closes, LockMatches, HoldStages
  <2>2. HeldIsFree' BY <1>1 DEF child_closes, HeldIsFree
  <2>3. Fresh' BY <1>1 DEF child_closes, Fresh
  <2>4. ToldFirst' BY <1>1 DEF child_closes, ToldFirst
  <2>5. SpawnedOnce' BY <1>1 DEF child_closes, SpawnedOnce
  <2>6. StageFacts' BY <1>1 DEF child_closes, StageFacts, Alive
  <2>7. Owned' BY <1>1 DEF child_closes, Owned, Busy, Alive
  <2>8. FinishFacts' BY <1>1 DEF child_closes, FinishFacts, Released, Alive
  <2> QED BY <2>1, <2>2, <2>3, <2>4, <2>5, <2>6, <2>7, <2>8, <1>0 DEF IInv
<1>2. CASE child_exits(j)
  <2>1. LockMatches' BY <1>2 DEF child_exits, LockMatches, HoldStages
  <2>2. HeldIsFree' BY <1>2 DEF child_exits, HeldIsFree
  <2>3. Fresh' BY <1>2 DEF child_exits, Fresh
  <2>4. ToldFirst' BY <1>2 DEF child_exits, ToldFirst
  <2>5. SpawnedOnce' BY <1>2 DEF child_exits, SpawnedOnce
  <2>6. StageFacts' BY <1>2 DEF child_exits, StageFacts, Alive
  <2>7. Owned' BY <1>2 DEF child_exits, Owned, Busy, Alive
  <2>8. FinishFacts' BY <1>2 DEF child_exits, FinishFacts, Released, Alive
  <2> QED BY <2>1, <2>2, <2>3, <2>4, <2>5, <2>6, <2>7, <2>8, <1>0 DEF IInv
<1>3. CASE streamer_ends(j)
  <2>1. LockMatches' BY <1>3 DEF streamer_ends, LockMatches, HoldStages
  <2>2. HeldIsFree' BY <1>3 DEF streamer_ends, HeldIsFree
  <2>3. Fresh' BY <1>3 DEF streamer_ends, Fresh
  <2>4. ToldFirst' BY <1>3 DEF streamer_ends, ToldFirst
  <2>5. SpawnedOnce' BY <1>3 DEF streamer_ends, SpawnedOnce
  <2>6. StageFacts' BY <1>3 DEF streamer_ends, StageFacts, Alive
  <2>7. Owned' BY <1>3 DEF streamer_ends, Owned, Busy, Alive
  <2>8. FinishFacts' BY <1>3 DEF streamer_ends, FinishFacts, Released, Alive
  <2> QED BY <2>1, <2>2, <2>3, <2>4, <2>5, <2>6, <2>7, <2>8, <1>0 DEF IInv
<1>4. CASE puppet_asks(j)
  <2>1. LockMatches' BY <1>4 DEF puppet_asks, LockMatches, HoldStages
  <2>2. HeldIsFree' BY <1>4 DEF puppet_asks, HeldIsFree
  <2>3. Fresh' BY <1>4 DEF puppet_asks, Fresh
  <2>4. ToldFirst' BY <1>4 DEF puppet_asks, ToldFirst
  <2>5. SpawnedOnce' BY <1>4 DEF puppet_asks, SpawnedOnce
  <2>6. StageFacts' BY <1>4 DEF puppet_asks, StageFacts, Alive
  <2>7. Owned' BY <1>4 DEF puppet_asks, Owned, Busy, Alive
  <2>8. FinishFacts' BY <1>4 DEF puppet_asks, FinishFacts, Released, Alive
  <2> QED BY <2>1, <2>2, <2>3, <2>4, <2>5, <2>6, <2>7, <2>8, <1>0 DEF IInv
<1>5. CASE puppet_receives(j)
  <2>1. LockMatches' BY <1>5 DEF puppet_receives, LockMatches, HoldStages
  <2>2. HeldIsFree' BY <1>5 DEF puppet_receives, HeldIsFree
  <2>3. Fresh' BY <1>5 DEF puppet_receives, Fresh
  <2>4. ToldFirst' BY <1>5 DEF puppet_receives, ToldFirst
  <2>5. SpawnedOnce' BY <1>5 DEF puppet_receives, SpawnedOnce
  <2>6. StageFacts' BY <1>5 DEF puppet_receives, StageFacts, Alive
  <2>7. Owned' BY <1>5 DEF puppet_receives, Owned, Busy, Alive
  <2>8. FinishFacts' BY <1>5 DEF puppet_receives, FinishFacts, Released, Alive
  <2> QED BY <2>1, <2>2, <2>3, <2>4, <2>5, <2>6, <2>7, <2>8, <1>0 DEF IInv
<1>6. CASE control_request(j)
  <2>1. LockMatches' BY <1>6 DEF control_request, LockMatches, HoldStages
  <2>2. HeldIsFree' BY <1>6 DEF control_request, HeldIsFree
  <2>3. Fresh' BY <1>6 DEF control_request, Fresh
  <2>4. ToldFirst' BY <1>6 DEF control_request, ToldFirst
  <2>5. SpawnedOnce' BY <1>6 DEF control_request, SpawnedOnce
  <2>6. StageFacts' BY <1>6 DEF control_request, StageFacts, Alive
  <2>7. Owned' BY <1>6 DEF control_request, Owned, Busy, Alive
  <2>8. FinishFacts' BY <1>6 DEF control_request, FinishFacts, Released, Alive
  <2> QED BY <2>1, <2>2, <2>3, <2>4, <2>5, <2>6, <2>7, <2>8, <1>0 DEF IInv
<1>7. CASE control_answers(j)
  <2>1. LockMatches' BY <1>7 DEF control_answers, LockMatches, HoldStages
  <2>2. HeldIsFree' BY <1>7 DEF control_answers, HeldIsFree
  <2>3. Fresh' BY <1>7 DEF control_answers, Fresh
  <2>4. ToldFirst' BY <1>7 DEF control_answers, ToldFirst
  <2>5. SpawnedOnce' BY <1>7 DEF control_answers, SpawnedOnce
  <2>6. StageFacts' BY <1>7 DEF control_answers, StageFacts, Alive
  <2>7. Owned' BY <1>7 DEF control_answers, Owned, Busy, Alive
  <2>8. FinishFacts' BY <1>7 DEF control_answers, FinishFacts, Released, Alive
  <2> QED BY <2>1, <2>2, <2>3, <2>4, <2>5, <2>6, <2>7, <2>8, <1>0 DEF IInv
<1>8. CASE control_panics(j)
  <2>1. LockMatches' BY <1>8 DEF control_panics, LockMatches, HoldStages
  <2>2. HeldIsFree' BY <1>8 DEF control_panics, HeldIsFree
  <2>3. Fresh' BY <1>8 DEF control_panics, Fresh
  <2>4. ToldFirst' BY <1>8 DEF control_panics, ToldFirst
  <2>5. SpawnedOnce' BY <1>8 DEF control_panics, SpawnedOnce
  <2>6. StageFacts' BY <1>8 DEF control_panics, StageFacts, Alive
  <2>7. Owned' BY <1>8 DEF control_panics, Owned, Busy, Alive
  <2>8. FinishFacts' BY <1>8 DEF control_panics, FinishFacts, Released, Alive
  <2> QED BY <2>1, <2>2, <2>3, <2>4, <2>5, <2>6, <2>7, <2>8, <1>0 DEF IInv
<1>9. CASE control_ends(j)
  <2>1. LockMatches' BY <1>9 DEF control_ends, LockMatches, HoldStages
  <2>2. HeldIsFree' BY <1>9 DEF control_ends, HeldIsFree
  <2>3. Fresh' BY <1>9 DEF control_ends, Fresh
  <2>4. ToldFirst' BY <1>9 DEF control_ends, ToldFirst
  <2>5. SpawnedOnce' BY <1>9 DEF control_ends, SpawnedOnce
  <2>6. StageFacts' BY <1>9 DEF control_ends, StageFacts, Alive
  <2>7. Owned' BY <1>9 DEF control_ends, Owned, Busy, Alive
  <2>8. FinishFacts' BY <1>9 DEF control_ends, FinishFacts, Released, Alive
  <2> QED BY <2>1, <2>2, <2>3, <2>4, <2>5, <2>6, <2>7, <2>8, <1>0 DEF IInv
<1>10. CASE streamer_panics(j)
  <2>1. LockMatches' BY <1>10 DEF streamer_panics, LockMatches, HoldStages
  <2>2. HeldIsFree' BY <1>10 DEF streamer_panics, HeldIsFree
  <2>3. Fresh' BY <1>10 DEF streamer_panics, Fresh
  <2>4. ToldFirst' BY <1>10 DEF streamer_panics, ToldFirst
  <2>5. SpawnedOnce' BY <1>10 DEF streamer_panics, SpawnedOnce
  <2>6. StageFacts' BY <1>10 DEF streamer_panics, StageFacts, Alive
  <2>7. Owned' BY <1>10 DEF streamer_panics, Owned, Busy, Alive
  <2>8. FinishFacts' BY <1>10 DEF streamer_panics, FinishFacts, Released, Alive
  <2> QED BY <2>1, <2>2, <2>3, <2>4, <2>5, <2>6, <2>7, <2>8, <1>0 DEF IInv
<1> QED BY <1>1, <1>2, <1>3, <1>4, <1>5, <1>6, <1>7, <1>8, <1>9, <1>10 DEF TaskStep

\* A step, stuttering included, keeps the invariant.
LEMMA IInvNext == IInv /\ [Next]_vars => IInv'
<1> SUFFICES ASSUME IInv, [Next]_vars PROVE IInv'
  OBVIOUS
<1>1. CASE UNCHANGED vars
  <2>1. TypeOK' BY TypeNext DEF IInv
  <2> QED
    BY <1>1, <2>1
    DEF vars, IInv, LockMatches, HeldIsFree, Fresh, ToldFirst, SpawnedOnce, StageFacts, Owned,
       FinishFacts, Released, Busy, Alive
<1>2. CASE Next
  BY <1>2, NextCases, ConnectorInv, StopInv, PipeInv, TaskInv, Zenon
<1> QED BY <1>1, <1>2

\* The invariant holds in every reachable state.
THEOREM Invariant == Spec => []IInv
BY IInvInit, IInvNext, PTL DEF Spec

\* A job that no panic lost and that has a container, a streamer or an open
\* control socket is the job in the mutex or the job of the call that holds
\* it, and no other job is either: start_job puts the job in before it drops
\* its guard, and stop_job keeps its guard until nothing runs.
THEOREM OneJobRunsHolds == Spec => []OneJobRuns
<1>1. IInv => OneJobRuns
  <2> SUFFICES ASSUME IInv, NEW j \in Jobs \ lost, Busy(j)
               PROVE  Held \cup ({current_job} \ {Nil}) = {j}
    BY DEF OneJobRuns, Busy
  <2>1. current_job = j \/ \E f \in Callers : lock = <<j, f>> BY DEF IInv, Owned
  <2>2. CASE current_job = j
    <3>1. lock = Nil BY <2>2, NilAssumption DEF IInv, HeldIsFree
    <3> QED BY <2>2, <3>1, NilAssumption DEF Held
  <2>3. CASE \E f \in Callers : lock = <<j, f>>
    <3>1. PICK f \in Callers : lock = <<j, f>> BY <2>3
    <3>2. lock # Nil BY <3>1, NilAssumption
    <3>3. Held = {j} BY <3>1, <3>2 DEF Held
    <3> QED BY <3>2, <3>3 DEF IInv, HeldIsFree
  <2> QED BY <2>1, <2>2, <2>3
<1> QED BY <1>1, Invariant, PTL

\* When stop_job reports a job finished, it has no container, task, mount or
\* proxy left and is out of the mutex.
THEOREM FinishedIsReleasedHolds == Spec => []FinishedIsReleased
<1>1. IInv => FinishedIsReleased
  BY DEF IInv, FinishFacts, Released, FinishedIsReleased
<1> QED BY <1>1, Invariant, PTL

-----------------------------------------------------------------------------
(* The contract of all runners; unmounting, and what a puppet is told.     *)

\* The stages of stop_job from the take of the job on.
EndStages == StopStages \ {"stop_lock"}

\* What job j has reported so far, and what it has not.
Reported(j, done, open) == done \subseteq reports[j] /\ open \cap reports[j] = {}

\* What a job has reported while a call is at a stage or the job is in the mutex.
StageReports(j) ==
  /\ j \notin told \/ pc[j]["connector"] = "start_lock" => reports[j] \subseteq {"failed"}
  /\ pc[j]["connector"] = "allocate" => Reported(j, {}, {"booting", "ready", "stopping", "finished"})
  /\ pc[j]["connector"] \in {"spawn", "ready"} => Reported(j, {"booting"}, {"ready", "stopping", "finished"})
  /\ current_job = j => Reported(j, {"booting", "ready"}, {"stopping", "finished"})
  /\ \A f \in Callers : pc[j][f] \in EndStages => Reported(j, {"booting", "ready", "stopping"}, {"finished"})

ReportsMatch == \A j \in Jobs : StageReports(j)

\* One call at most takes the job out of the mutex.
OneStop == \A j \in Jobs : \A f, g \in Callers : pc[j][f] \in EndStages /\ pc[j][g] \in EndStages => f = g

\* The end of a pipe only stops.
PipesStop == \A j \in Jobs : \A fd \in Fds : pc[j][fd] \notin StartStages

\* A job that is started, runs or is being stopped has its root file system.
Mounted ==
  \A j \in Jobs :
    \/ pc[j]["connector"] \in {"spawn", "ready"}
    \/ current_job = j
    \/ \E f \in Callers : pc[j][f] \in EndStages \ {"finish"}
    => j \in mounted

Contracted ==
  /\ ReportsMatch
  /\ OneStop
  /\ PipesStop
  /\ Mounted
  /\ UnmountedIsUnused
  /\ AnswersMatch

\* A step of the connector keeps this part of the invariant.
LEMMA ConnectorContracted ==
  ASSUME IInv, Contracted, NEW j \in Jobs, ConnectorStep(j)
  PROVE  Contracted'
<1> USE CallerFacts, CallerIs, NilAssumption DEF Fds, IInv, TypeOK, Contracted, inputs, tasks, outside, console, Goto, Post,
        Reported, StopStages, StartStages, Reports, EndStages, HoldStages, ReportsMatch, StageReports, OneStop, PipesStop, Mounted,
        UnmountedIsUnused, Alive, AnswersMatch, Rest
<1>1. CASE receive_start_job(j)
  BY <1>1 DEF receive_start_job, ToldFirst, Fresh
<1>2. CASE receive_stop_job(j)
  BY <1>2 DEF receive_stop_job, ConnectorIdle
<1>3. CASE start_refused(j)
  BY <1>3 DEF start_refused
<1>4. CASE start_accepted(j)
  BY <1>4 DEF start_accepted, HeldIsFree, Fresh, ToldFirst
<1>5. CASE allocate_fails(j)
  BY <1>5 DEF allocate_fails, Fresh, ToldFirst
<1>6. CASE allocate(j)
  <2>1. ReportsMatch' BY <1>6 DEF allocate, Fresh, ToldFirst
  <2>2. OneStop' /\ PipesStop' BY <1>6 DEF allocate
  <2>3. Mounted' BY <1>6 DEF allocate
  <2>4. UnmountedIsUnused' /\ AnswersMatch' BY <1>6 DEF allocate
  <2> QED BY <2>1, <2>2, <2>3, <2>4
<1>7. CASE spawn_fails(j)
  BY <1>7 DEF spawn_fails, Fresh
<1>8. CASE spawn(j)
  BY <1>8 DEF spawn, Fresh
<1>9. CASE ready(j)
  BY <1>9 DEF ready, HeldIsFree, LockMatches
<1>10. CASE connector_panics(j)
  BY <1>10 DEF connector_panics
<1> QED BY <1>1, <1>2, <1>3, <1>4, <1>5, <1>6, <1>7, <1>8, <1>9, <1>10 DEF ConnectorStep, start_job

\* A step of a stop_job call keeps it.
LEMMA StopContracted ==
  ASSUME IInv, Contracted, NEW j \in Jobs, NEW f \in Callers, StopStep(j, f)
  PROVE  Contracted'
<1> USE CallerFacts, CallerIs, NilAssumption DEF Fds, IInv, TypeOK, Contracted, inputs, tasks, outside, console, Goto, Post,
        Reported, StopStages, StartStages, Reports, EndStages, HoldStages, ReportsMatch, StageReports, OneStop, PipesStop, Mounted,
        UnmountedIsUnused, Alive, AnswersMatch, Rest
<1>1. CASE stop_refused(j, f)
  BY <1>1 DEF stop_refused, Fresh
<1>2. CASE stop_accepted(j, f)
  BY <1>2 DEF stop_accepted, Fresh
<1>3. CASE terminate(j, f)
  BY <1>3 DEF terminate
<1>4. CASE wait(j, f)
  BY <1>4 DEF wait
<1>5. CASE join_control(j, f)
  BY <1>5 DEF join_control
<1>6. CASE join_streamer(j, f)
  BY <1>6 DEF join_streamer
<1>7. CASE umount_fails(j, f)
  BY <1>7 DEF umount_fails, Fresh, ToldFirst
<1>8. CASE umount(j, f)
  BY <1>8 DEF umount, StageFacts
<1>9. CASE finish(j, f)
  BY <1>9 DEF finish, Fresh, ToldFirst
<1>10. CASE stop_panics(j, f)
  BY <1>10 DEF stop_panics
<1> QED BY <1>1, <1>2, <1>3, <1>4, <1>5, <1>6, <1>7, <1>8, <1>9, <1>10 DEF StopStep, stop_job

\* The end of a pipe moves no call but its own, and that to its start.
LEMMA PipeMoves ==
  ASSUME IInv, NEW j \in Jobs, NEW fd \in Fds, streamer_zero_bytes(j, fd)
  PROVE  \A k \in Jobs : \A g \in Callers : pc'[k][g] \in {pc[k][g], "stop_lock"}
<1>1. UNCHANGED pc \/ Goto(j, fd, "stop_lock")
  BY DEF streamer_zero_bytes
<1>2. fd \in Callers
  BY CallerFacts
<1>3. "stop_lock" \in Stages
  BY DEF Stages, StopStages
<1>4. pc \in [Jobs -> [Callers -> Stages]]
  BY DEF IInv, TypeOK, Stages
<1> QED BY <1>1, <1>2, <1>3, <1>4, GotoType

\* A step of the container's output or of the streamer keeps it.
LEMMA PipeContracted ==
  ASSUME IInv, Contracted, NEW j \in Jobs, NEW fd \in Fds, PipeStep(j, fd)
  PROVE  Contracted'
<1> USE CallerFacts, CallerIs, NilAssumption DEF Fds, IInv, TypeOK, Contracted, inputs, tasks, outside, console, Goto, Post,
        Reported, StopStages, StartStages, Reports, EndStages, HoldStages, ReportsMatch, StageReports, OneStop, PipesStop, Mounted,
        UnmountedIsUnused, Alive, AnswersMatch, Rest
<1>1. CASE child_writes(j, fd)
  BY <1>1 DEF child_writes
<1>2. CASE streamer_data(j, fd)
  BY <1>2 DEF streamer_data
<1>3. CASE streamer_zero_bytes(j, fd)
  <2>1. \A k \in Jobs : \A g \in Callers : pc'[k][g] \in {pc[k][g], "stop_lock"}
    BY <1>3, PipeMoves DEF Fds
  <2>2. UNCHANGED <<told, mounted, current_job, reports>>
    BY <1>3 DEF streamer_zero_bytes
  <2>3. ReportsMatch' BY <2>1, <2>2
  <2>4. OneStop' /\ PipesStop' BY <2>1
  <2>5. Mounted' BY <2>1, <2>2
  <2>6. UnmountedIsUnused' /\ AnswersMatch' BY <1>3 DEF streamer_zero_bytes
  <2> QED BY <2>3, <2>4, <2>5, <2>6
<1> QED BY <1>1, <1>2, <1>3 DEF PipeStep

\* A step of the container, the puppet or a background task keeps it.
LEMMA TaskContracted ==
  ASSUME IInv, Contracted, NEW j \in Jobs, TaskStep(j)
  PROVE  Contracted'
<1> USE CallerFacts, CallerIs, NilAssumption DEF Fds, IInv, TypeOK, Contracted, inputs, tasks, outside, console, Goto, Post,
        Reported, StopStages, StartStages, Reports, EndStages, HoldStages, ReportsMatch, StageReports, OneStop, PipesStop, Mounted,
        UnmountedIsUnused, Alive, AnswersMatch, Rest
<1>1. CASE child_closes(j)
  BY <1>1 DEF child_closes
<1>2. CASE child_exits(j)
  BY <1>2 DEF child_exits
<1>3. CASE streamer_panics(j)
  BY <1>3 DEF streamer_panics
<1>4. CASE streamer_ends(j)
  BY <1>4 DEF streamer_ends
<1>5. CASE puppet_asks(j)
  BY <1>5 DEF puppet_asks
<1>6. CASE puppet_receives(j)
  BY <1>6 DEF puppet_receives
<1>7. CASE control_request(j)
  BY <1>7 DEF control_request
<1>8. CASE control_answers(j)
  BY <1>8 DEF control_answers, Owned, Busy
<1>9. CASE control_panics(j)
  BY <1>9 DEF control_panics
<1>10. CASE control_ends(j)
  BY <1>10 DEF control_ends
<1> QED BY <1>1, <1>2, <1>3, <1>4, <1>5, <1>6, <1>7, <1>8, <1>9, <1>10 DEF TaskStep

\* Both parts of the invariant hold in every reachable state.
LEMMA ContractInvariant == Spec => [](IInv /\ Contracted)
<1>1. Init => Contracted
  BY CallerFacts, NilAssumption
     DEF Init, Contracted, ReportsMatch, StageReports, Reported, OneStop, PipesStop, Mounted, UnmountedIsUnused, AnswersMatch,
         EndStages, StopStages, StartStages
<1>2. IInv /\ Contracted /\ [Next]_vars => Contracted'
  <2> SUFFICES ASSUME IInv, Contracted, [Next]_vars PROVE Contracted'
    OBVIOUS
  <2>1. CASE UNCHANGED vars
    BY <2>1 DEF vars, Contracted, ReportsMatch, StageReports, Reported, OneStop, PipesStop, Mounted, UnmountedIsUnused,
                Alive, AnswersMatch
  <2>2. CASE Next
    BY <2>2, NextCases, ConnectorContracted, StopContracted, PipeContracted, TaskContracted, Zenon
  <2> QED BY <2>1, <2>2
<1> QED BY <1>1, <1>2, Invariant, PTL DEF Spec

\* The root file system of a job that ran is unmounted only after container,
\* streamer and control socket task are gone, in whatever order calls and
\* panics come.
THEOREM UnmountedIsUnusedHolds == Spec => []UnmountedIsUnused
BY ContractInvariant, PTL DEF Contracted

\* A puppet that can still receive an answer is answered with its job's data:
\* when the control socket task gets the mutex, the job is in it.
THEOREM AnswersMatchHolds == Spec => []AnswersMatch
BY ContractInvariant, PTL DEF Contracted

-----------------------------------------------------------------------------
(* The contract of all runners.                                            *)

\* A call of the connector does what the contract allows.
LEMMA ConnectorKeeps ==
  ASSUME IInv, Contracted, NEW j \in Jobs, ConnectorStep(j)
  PROVE  [Runner!ContractNext]_(Runner!contract)
<1> USE CallerFacts, NilAssumption DEF IInv, TypeOK, Contracted, ReportsMatch, StageReports, Reported, inputs, tasks,
        outside, Post, Slot, Runner!contract, Runner!ContractNext
<1>1. CASE receive_start_job(j) \/ receive_stop_job(j) \/ spawn(j)
  BY <1>1 DEF receive_start_job, receive_stop_job, spawn
<1>2. CASE start_refused(j)
  <2>1. Runner!Fail(j) BY <1>2 DEF start_refused, Runner!Fail
  <2> QED BY <2>1
<1>3. CASE start_accepted(j)
  <2>1. lock' = <<j, "connector">> /\ lock' # Nil
    BY <1>3 DEF start_accepted
  <2>2. Slot = Nil /\ Slot' = j
    BY <1>3, <2>1 DEF start_accepted
  <2>3. Runner!Report(j, "allocating") /\ reports[j] \subseteq {"failed"}
    BY <1>3 DEF start_accepted, Runner!Report, Runner!Needs, Runner!Bars, Runner!Stages
  <2> QED BY <2>2, <2>3 DEF Runner!Take
<1>4. CASE allocate_fails(j) \/ spawn_fails(j)
  <2>1. lock = <<j, "connector">> /\ lock # Nil
    BY <1>4 DEF allocate_fails, spawn_fails, LockMatches, HoldStages
  <2>2. Slot = j /\ Slot' = Nil
    BY <1>4, <2>1 DEF allocate_fails, spawn_fails, HeldIsFree
  <2>3. reports' = [reports EXCEPT ![j] = @ \cup {"failed"}]
    BY <1>4 DEF allocate_fails, spawn_fails
  <2> QED BY <2>2, <2>3 DEF Runner!Fail
<1>5. CASE allocate(j)
  <2>1. lock = <<j, "connector">> /\ lock # Nil
    BY <1>5 DEF allocate, LockMatches, HoldStages
  <2>2. Slot = j /\ Slot' = Slot
    BY <1>5, <2>1 DEF allocate
  <2>3. Runner!Report(j, "booting")
    BY <1>5 DEF allocate, Runner!Report, Runner!Needs, Runner!Bars, Runner!Stages
  <2> QED BY <2>2, <2>3 DEF Runner!Progress
<1>6. CASE ready(j)
  <2>1. lock = <<j, "connector">> /\ lock # Nil
    BY <1>6 DEF ready, LockMatches, HoldStages
  <2>2. Slot = j /\ Slot' = j
    BY <1>6, <2>1 DEF ready
  <2>3. Runner!Report(j, "ready")
    BY <1>6 DEF ready, Runner!Report, Runner!Needs, Runner!Bars, Runner!Stages
  <2> QED BY <2>2, <2>3 DEF Runner!Progress
<1>7. CASE connector_panics(j)
  <2>1. Slot' = Nil /\ UNCHANGED reports
    BY <1>7 DEF connector_panics
  <2>2. Slot \in Jobs \cup {Nil}
    BY DEF Callers, Fds
  <2> QED BY <2>1, <2>2 DEF Runner!Release
<1> QED BY <1>1, <1>2, <1>3, <1>4, <1>5, <1>6, <1>7 DEF ConnectorStep, start_job

\* So does a call of stop_job, whoever made it.
LEMMA StopKeeps ==
  ASSUME IInv, Contracted, NEW j \in Jobs, NEW f \in Callers, StopStep(j, f)
  PROVE  [Runner!ContractNext]_(Runner!contract)
<1> USE CallerFacts, NilAssumption DEF IInv, TypeOK, Contracted, ReportsMatch, StageReports, Reported, inputs, tasks,
        outside, Post, Slot, Runner!contract, Runner!ContractNext, EndStages, StopStages
<1>1. CASE terminate(j, f) \/ wait(j, f) \/ join_control(j, f) \/ join_streamer(j, f)
  BY <1>1 DEF terminate, wait, join_control, join_streamer
<1>2. CASE stop_refused(j, f)
  <2>1. Runner!Fail(j) BY <1>2 DEF stop_refused, Runner!Fail
  <2> QED BY <2>1
<1>3. CASE stop_accepted(j, f)
  <2>1. lock' = <<j, f>> /\ lock' # Nil
    BY <1>3 DEF stop_accepted
  <2>2. Slot = j /\ Slot' = j
    BY <1>3, <2>1 DEF stop_accepted
  <2>3. Runner!Report(j, "stopping")
    BY <1>3 DEF stop_accepted, Runner!Report, Runner!Needs, Runner!Bars, Runner!Stages
  <2> QED BY <2>2, <2>3 DEF Runner!Progress
<1>4. CASE umount_fails(j, f) \/ umount(j, f)
  <2>1. lock = <<j, f>> /\ lock # Nil
    BY <1>4 DEF umount_fails, umount, LockMatches, HoldStages
  <2>2. Slot = j /\ Slot' = Nil
    BY <1>4, <2>1 DEF umount_fails, umount, HeldIsFree
  <2>3. reports' = reports \/ reports' = [reports EXCEPT ![j] = @ \cup {"failed"}]
    BY <1>4 DEF umount_fails, umount
  <2> QED BY <2>2, <2>3 DEF Runner!Fail, Runner!Release
<1>5. CASE finish(j, f)
  <2>1. pc[j][f] = "finish" /\ Reported(j, {"booting", "ready", "stopping"}, {"finished"})
    BY <1>5 DEF finish
  <2>2. \A g \in Callers : lock # <<j, g>>
    <3> SUFFICES ASSUME NEW g \in Callers, lock = <<j, g>> PROVE FALSE
      OBVIOUS
    <3>1. pc[j][g] \in HoldStages
      BY DEF LockMatches
    <3>2. pc[j][g] \notin EndStages
      BY <2>1, <3>1 DEF OneStop, HoldStages
    <3>3. g = "connector" /\ pc[j][g] \in {"allocate", "spawn", "ready"}
      BY <3>1, <3>2, CallerIs DEF HoldStages, PipesStop, StartStages
    <3> QED BY <2>1, <3>3
  <2>3. current_job # j
    BY <2>1
  <2>4. Slot # j
    BY <2>2, <2>3
  <2>5. Runner!Report(j, "finished") /\ Slot' = Slot
    BY <1>5, <2>1 DEF finish, Runner!Report, Runner!Needs, Runner!Bars, Runner!Stages
  <2> QED BY <2>4, <2>5 DEF Runner!Finish
<1>6. CASE stop_panics(j, f)
  <2>1. UNCHANGED reports
    BY <1>6 DEF stop_panics
  <2>2. CASE lock = <<j, f>>
    <3>1. Slot = j /\ Slot' = Nil
      BY <1>6, <2>2 DEF stop_panics, HeldIsFree, LockMatches, HoldStages
    <3> QED BY <2>1, <3>1 DEF Runner!Release
  <2>3. CASE lock # <<j, f>>
    <3>1. UNCHANGED <<lock, current_job>> \/ (lock = Nil /\ lock' = Nil /\ current_job = j /\ current_job' = Nil)
      BY <1>6, <2>3 DEF stop_panics, MayPanic, FindsPanic, LockMatches, HoldStages
    <3> QED BY <2>1, <3>1 DEF Runner!Release
  <2> QED BY <2>2, <2>3
<1> QED BY <1>1, <1>2, <1>3, <1>4, <1>5, <1>6 DEF StopStep, stop_job

\* NspawnRunner implements RunnerContract: it takes a job only while it has
\* none, posts a job's states in the order of its life, and posts "finished"
\* only after the job has left the mutex and its guard.
THEOREM Contract == Spec => ImplementsRunner
<1>1. Init => Runner!ContractInit
  BY DEF Init, Runner!ContractInit, Slot
<1>2. IInv /\ Contracted /\ [Next]_vars => [Runner!ContractNext]_(Runner!contract)
  <2> SUFFICES ASSUME IInv, Contracted, [Next]_vars PROVE [Runner!ContractNext]_(Runner!contract)
    OBVIOUS
  <2>1. ASSUME NEW j \in Jobs, TaskStep(j) \/ \E fd \in Fds : PipeStep(j, fd)
        PROVE  UNCHANGED <<reports, lock, current_job>>
    BY <2>1 DEF TaskStep, PipeStep, child_closes, child_exits, streamer_panics, streamer_ends, puppet_asks,
       puppet_receives, control_request, control_answers, control_panics, control_ends, child_writes, streamer_data,
       streamer_zero_bytes, Rest
  <2>2. CASE UNCHANGED <<reports, lock, current_job>>
    BY <2>2 DEF Slot, Runner!contract
  <2>3. CASE UNCHANGED vars
    BY <2>2, <2>3 DEF vars
  <2>4. CASE Next
    BY <2>1, <2>2, <2>4, NextCases, ConnectorKeeps, StopKeeps, Zenon
  <2> QED BY <2>3, <2>4
<1> QED BY <1>1, <1>2, ContractInvariant, PTL DEF Spec, ImplementsRunner, Runner!ContractSpec

=============================================================================
