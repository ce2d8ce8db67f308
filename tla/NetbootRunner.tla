--------------------------- MODULE NetbootRunner ---------------------------
(***************************************************************************)
(* The runner that boots jobs on a machine of its own over the network     *)
(* (netboot-runner), with its control socket over TCP                      *)
(* (tcp-control-socket).  Only the connector calls start_job and stop_job, *)
(* so one call runs at a time; the mutex around current_job is contended   *)
(* by that call and the control socket task alone.                         *)
(*                                                                         *)
(* A panic of the call is a panic of the connector: it ends the process,   *)
(* which is started again empty.  The target machine survives it, and      *)
(* survives its job: stop_job runs no stop script.                         *)
(***************************************************************************)
EXTENDS Naturals

CONSTANTS
  Jobs,     \* jobs the coordinator may send
  Nil,      \* no job
  MaxStops  \* bound: stop_job messages

ASSUME NilAssumption == Nil \notin Jobs
ASSUME BoundsAssumption == MaxStops \in Nat

VARIABLES
  told,         \* jobs whose start_job message has arrived
  stops,        \* stop_job messages that have arrived
  job, stage,   \* the connector's call: its job, or Nil, and where it is
  current_job,  \* the job in the mutex, or Nil
  control,      \* control[j]: the control socket task
  link,         \* link[j]: the puppet's TCP stream
  request,      \* request[j]: the puppet's request, or the answer it has not read
  streamer,     \* streamer[j]: the task that reads the serial console
  proxies,      \* jobs whose rendezvous proxy tasks run
  booted,       \* jobs whose start script ran: a puppet may connect
  reports       \* history: the states posted for each job

inputs == <<told, stops>>
puppet == <<control, link, request>>
vars == <<told, stops, job, stage, current_job, control, link, request, streamer, proxies, booted, reports>>

HoldStages == {"scripts", "console", "ready", "join_control", "join_streamer"}
Stages     == {"idle", "start", "stop", "finish"} \cup HoldStages
Serving    == {"listening", "serving", "handling"}

TypeOK ==
  /\ told \subseteq Jobs
  /\ stops \in 0..MaxStops
  /\ job \in Jobs \cup {Nil}
  /\ stage \in Stages
  /\ current_job \in Jobs \cup {Nil}
  /\ control \in [Jobs -> Serving \cup {"none", "panicked", "ended"}]
  /\ link \in [Jobs -> {"none", "up", "closed"}]
  /\ request \in [Jobs -> {"none", "sent", "found", "notfound"}]
  /\ streamer \in [Jobs -> {"none", "running", "panicked", "ended"}]
  /\ proxies \subseteq Jobs
  /\ booted \subseteq Jobs
  /\ reports \in [Jobs -> SUBSET {"booting", "ready", "stopping", "finished", "failed"}]

Init ==
  /\ told = {}
  /\ stops = 0
  /\ job = Nil
  /\ stage = "idle"
  /\ current_job = Nil
  /\ control = [j \in Jobs |-> "none"]
  /\ link = [j \in Jobs |-> "none"]
  /\ request = [j \in Jobs |-> "none"]
  /\ streamer = [j \in Jobs |-> "none"]
  /\ proxies = {}
  /\ booted = {}
  /\ reports = [j \in Jobs |-> {}]

Post(j, s) == reports' = [reports EXCEPT ![j] = @ \cup {s}]
At(j, s) == job = j /\ stage = s
Return == job' = Nil /\ stage' = "idle"

\* The call holds the current_job mutex.
Locked == stage \in HoldStages

-----------------------------------------------------------------------------
(* The connector awaits each call before it reads the next SSE event.      *)

receive_start_job(j) ==
  /\ stage = "idle"
  /\ j \notin told
  /\ told' = told \cup {j}
  /\ job' = j
  /\ stage' = "start"
  /\ UNCHANGED <<stops, current_job, puppet, streamer, proxies, booted, reports>>

receive_stop_job(j) ==
  /\ stage = "idle"
  /\ stops < MaxStops
  /\ stops' = stops + 1
  /\ job' = j
  /\ stage' = "stop"
  /\ UNCHANGED <<told, current_job, puppet, streamer, proxies, booted, reports>>

-----------------------------------------------------------------------------
(* start_job.  A definition whose name ends in "_Mutant..." is a wrong     *)
(* version of the next one; only the mutation checks listed in             *)
(* PROJECT.json use it.                                                    *)

\* Another job is running, or the environment is unknown.
start_refused(j) ==
  /\ At(j, "start")
  /\ Post(j, "failed")
  /\ Return
  /\ UNCHANGED <<inputs, current_job, puppet, streamer, proxies, booted>>

\* The control socket and, when the environment has an address to connect to
\* and the message names servers, rendezvous proxies.
allocate(j) ==
  /\ At(j, "start")
  /\ current_job = Nil
  /\ control' = [control EXCEPT ![j] = "listening"]
  /\ proxies' \in {proxies, proxies \cup {j}}
  /\ stage' = "scripts"
  /\ UNCHANGED <<inputs, job, current_job, link, request, streamer, booted, reports>>

\* init_script, start_script.
scripts(j) ==
  /\ At(j, "scripts")
  /\ booted' = booted \cup {j}
  /\ Post(j, "booting")
  /\ stage' = "console"
  /\ UNCHANGED <<inputs, job, current_job, puppet, streamer, proxies>>

\* The board may have no serial console, or opening it may fail.
open_console(j) ==
  /\ At(j, "console")
  /\ streamer' \in {streamer, [streamer EXCEPT ![j] = "running"]}
  /\ stage' = "ready"
  /\ UNCHANGED <<inputs, job, current_job, puppet, proxies, booted, reports>>

\* After public_addr of each proxy, which gives up after five seconds.
ready(j) ==
  /\ At(j, "ready")
  /\ Post(j, "ready")
  /\ current_job' = j
  /\ Return
  /\ UNCHANGED <<inputs, puppet, streamer, proxies, booted>>

-----------------------------------------------------------------------------
(* stop_job.                                                               *)

stop_refused(j) ==
  /\ At(j, "stop")
  /\ current_job # j
  /\ Post(j, "failed")
  /\ Return
  /\ UNCHANGED <<inputs, current_job, puppet, streamer, proxies, booted>>

\* Does not report that it stops.
stop_accepted_MutantSilent(j) ==
  /\ At(j, "stop")
  /\ current_job = j
  /\ current_job' = Nil
  /\ stage' = "join_control"
  /\ UNCHANGED <<inputs, job, puppet, streamer, proxies, booted, reports>>

\* Takes the job and sends Shutdown to the control socket task.
stop_accepted(j) ==
  /\ At(j, "stop")
  /\ current_job = j
  /\ current_job' = Nil
  /\ Post(j, "stopping")
  /\ stage' = "join_control"
  /\ UNCHANGED <<inputs, job, puppet, streamer, proxies, booted>>

join_control_MutantDetached(j) ==
  /\ At(j, "join_control")
  /\ streamer[j] # "panicked"
  /\ stage' = IF streamer[j] = "none" THEN "finish" ELSE "join_streamer"
  /\ UNCHANGED <<inputs, job, current_job, puppet, streamer, proxies, booted, reports>>

\* The control socket task has ended.  The proxies are shut down after the
\* streamer, in the branch of a board that has one.
join_control(j) ==
  /\ At(j, "join_control")
  /\ control[j] = "ended"
  /\ streamer[j] # "panicked"
  /\ stage' = IF streamer[j] = "none" THEN "finish" ELSE "join_streamer"
  /\ UNCHANGED <<inputs, job, current_job, puppet, streamer, proxies, booted, reports>>

join_streamer(j) ==
  /\ At(j, "join_streamer")
  /\ streamer[j] = "ended"
  /\ proxies' = proxies \ {j}
  /\ stage' = "finish"
  /\ UNCHANGED <<inputs, job, current_job, puppet, streamer, booted, reports>>

\* The guard was dropped.
finish(j) ==
  /\ At(j, "finish")
  /\ Post(j, "finished")
  /\ Return
  /\ UNCHANGED <<inputs, current_job, puppet, streamer, proxies, booted>>

-----------------------------------------------------------------------------
(* Panics of the connector.                                                *)

\* stop_job unwraps what it learns when it shuts down the control socket and
\* the streamer, whose tasks may have panicked.
FindsPanic(j) ==
  \/ At(j, "join_control") /\ control[j] = "panicked"
  \/ At(j, "join_control") /\ control[j] = "ended" /\ streamer[j] = "panicked"
  \/ At(j, "join_streamer") /\ streamer[j] = "panicked"

\* A call also panics where it posts, where it binds the control socket, where
\* it runs a script, and where it shuts down a proxy whose listener has quit.
MayPanic(j) ==
  \/ job = j /\ stage \in {"start", "scripts", "ready", "stop", "finish"}
  \/ At(j, "join_streamer") /\ streamer[j] = "ended" /\ j \in proxies
  \/ FindsPanic(j)

\* The scripts may have started the target.
connector_panics(j) ==
  /\ MayPanic(j)
  /\ booted' \in {booted} \cup (IF stage = "scripts" THEN {booted \cup {j}} ELSE {})
  /\ Return
  /\ current_job' = Nil
  /\ control' = [k \in Jobs |-> IF control[k] = "none" THEN "none" ELSE "ended"]
  /\ streamer' = [k \in Jobs |-> IF streamer[k] = "none" THEN "none" ELSE "ended"]
  /\ link' = [k \in Jobs |-> "none"]
  /\ request' = [k \in Jobs |-> "none"]
  /\ proxies' = {}
  /\ UNCHANGED <<inputs, reports>>

-----------------------------------------------------------------------------
(* The console streamer.  Data it reads is posted and changes nothing here. *)

\* Reading failed, or send_job_console_log, which unwraps.
streamer_panics(j) ==
  /\ streamer[j] = "running"
  /\ streamer' = [streamer EXCEPT ![j] = "panicked"]
  /\ UNCHANGED <<inputs, job, stage, current_job, puppet, proxies, booted, reports>>

streamer_ends(j) ==
  /\ streamer[j] = "running"
  /\ At(j, "join_streamer")
  /\ streamer' = [streamer EXCEPT ![j] = "ended"]
  /\ UNCHANGED <<inputs, job, stage, current_job, puppet, proxies, booted, reports>>

-----------------------------------------------------------------------------
(* The puppet on the target and the control socket task.                   *)

Rest == <<inputs, job, stage, current_job, streamer, proxies, booted, reports>>

\* The task accepts a puppet of this job's target, or one that outlived its own
\* job and finds this job's listener at the same address.
puppet_connects(j) ==
  /\ booted # {}
  /\ control[j] = "listening"
  /\ link' = [link EXCEPT ![j] = "up"]
  /\ control' = [control EXCEPT ![j] = "serving"]
  /\ UNCHANGED <<request, Rest>>

\* SSHKeys or NetworkConfig.
puppet_asks(j) ==
  /\ link[j] = "up"
  /\ request[j] = "none"
  /\ request' = [request EXCEPT ![j] = "sent"]
  /\ UNCHANGED <<control, link, Rest>>

puppet_receives(j) ==
  /\ link[j] = "up"
  /\ request[j] \in {"found", "notfound"}
  /\ request' = [request EXCEPT ![j] = "none"]
  /\ UNCHANGED <<control, link, Rest>>

\* The puppet ends, or the target goes down.
puppet_closes(j) ==
  /\ link[j] = "up"
  /\ link' = [link EXCEPT ![j] = "closed"]
  /\ UNCHANGED <<control, request, Rest>>

control_request(j) ==
  /\ control[j] = "serving"
  /\ request[j] = "sent"
  /\ control' = [control EXCEPT ![j] = "handling"]
  /\ UNCHANGED <<link, request, Rest>>

\* ssh_keys or network_config, once the mutex is free.  To a puppet that has
\* gone, sending succeeds or finds a broken pipe, and the task accepts again.
control_answers(j) ==
  /\ control[j] = "handling"
  /\ ~Locked
  /\ IF link[j] = "up"
     THEN /\ request' = [request EXCEPT ![j] = IF current_job = j THEN "found" ELSE "notfound"]
          /\ control' = [control EXCEPT ![j] = "serving"]
          /\ UNCHANGED link
     ELSE /\ request' = [request EXCEPT ![j] = "none"]
          /\ \/ control' = [control EXCEPT ![j] = "serving"] /\ UNCHANGED link
             \/ control' = [control EXCEPT ![j] = "listening"] /\ link' = [link EXCEPT ![j] = "none"]
  /\ UNCHANGED Rest

\* The end of the stream, seen between requests, panics the task and closes
\* its listener.
control_panics(j) ==
  /\ control[j] = "serving"
  /\ link[j] = "closed"
  /\ control' = [control EXCEPT ![j] = "panicked"]
  /\ request' = [request EXCEPT ![j] = "none"]
  /\ UNCHANGED <<link, Rest>>

\* Ignores the command while a puppet is connected.
control_ends_MutantOuter(j) ==
  /\ control[j] = "listening"
  /\ At(j, "join_control")
  /\ control' = [control EXCEPT ![j] = "ended"]
  /\ UNCHANGED <<link, request, Rest>>

\* Shutdown, seen while it waits for a connection or between requests.
control_ends(j) ==
  /\ control[j] \in {"listening", "serving"}
  /\ At(j, "join_control")
  /\ control' = [control EXCEPT ![j] = "ended"]
  /\ link' = [link EXCEPT ![j] = "none"]
  /\ request' = [request EXCEPT ![j] = "none"]
  /\ UNCHANGED Rest

-----------------------------------------------------------------------------

start_job(j) ==
  \/ start_refused(j) \/ allocate(j) \/ scripts(j) \/ open_console(j) \/ ready(j)

stop_job(j) ==
  \/ stop_refused(j) \/ stop_accepted(j) \/ join_control(j) \/ join_streamer(j) \/ finish(j)

Next ==
  \E j \in Jobs :
    \/ receive_start_job(j) \/ receive_stop_job(j)
    \/ start_job(j) \/ stop_job(j) \/ connector_panics(j)
    \/ streamer_panics(j) \/ streamer_ends(j)
    \/ puppet_connects(j) \/ puppet_asks(j) \/ puppet_receives(j) \/ puppet_closes(j)
    \/ control_request(j) \/ control_answers(j) \/ control_panics(j) \/ control_ends(j)

Spec == Init /\ [][Next]_vars

\* Tokio polls every task that can proceed, and its mutex serves waiters in
\* order.  Scripts are assumed to end.  Nothing obliges the coordinator to
\* send, the puppet to do anything or a post to fail.
Fairness ==
  \A j \in Jobs :
    /\ WF_vars(start_job(j)) /\ WF_vars(stop_job(j))
    /\ WF_vars(FindsPanic(j) /\ connector_panics(j))
    /\ WF_vars(streamer_ends(j))
    /\ WF_vars(control_request(j)) /\ SF_vars(control_answers(j))
    /\ WF_vars(control_panics(j)) /\ WF_vars(control_ends(j))

FairSpec == Spec /\ Fairness

-----------------------------------------------------------------------------
(* Properties.                                                             *)

\* The job the runner works for.
Slot == IF Locked THEN job ELSE current_job

\* A control socket that listens or serves, and a streamer that reads, belong
\* to the job the runner works for: two jobs never share the board's serial
\* line or the control socket's address, whatever puppets and panics do.
OneJobRuns ==
  \A j \in Jobs : control[j] \in Serving \/ streamer[j] = "running" => Slot = j

\* A job reported finished has no control socket and no streamer, and if its
\* board has a serial console no proxy either.
FinishedIsReleased ==
  \A j \in Jobs :
    "finished" \in reports[j]
      => /\ control[j] = "ended" /\ streamer[j] \in {"none", "ended"} /\ j # current_job
         /\ streamer[j] = "ended" => j \notin proxies

\* A puppet is never told that its job does not exist: a request made while
\* start_job or stop_job holds the mutex waits, and stop_job lets the mutex go
\* only after the task that asks has ended.
AnswersMatch == \A j \in Jobs : request[j] # "notfound"

Runner == INSTANCE RunnerContract WITH posted <- reports, slot <- Slot

\* The runner keeps the contract of all runners: one job at a time, its states
\* reported in the order of its life, "finished" after it was let go.
ImplementsRunner == Runner!ContractSpec

\* stop_job joins the control socket task while it holds the mutex the task
\* waits for.
Stuck(j) == At(j, "join_control") /\ control[j] = "handling"

\* Every call returns, and so the connector reads on, unless stop_job and a
\* puppet's request wait for each other.
CallReturns == stage # "idle" ~> (stage = "idle" \/ \E j \in Jobs : Stuck(j))

=============================================================================
