---------------------------- MODULE NspawnRunner ----------------------------
(***************************************************************************)
(* The runner that executes jobs in systemd-nspawn containers              *)
(* (nspawn-runner), with the connector that calls it (sse-connector) and   *)
(* the control socket it serves to the puppet inside the container         *)
(* (unix-seqpacket-control-socket).                                        *)
(*                                                                         *)
(* A call of start_job or stop_job is named by its job and its caller: the *)
(* connector, which handles one SSE event after the other, or a task that  *)
(* the console streamer spawned on end-of-file of stdout or of stderr.     *)
(* The steps of a call are its stretches between two awaits that matter;   *)
(* a stretch that ends in post_job_state includes the post.                *)
(*                                                                         *)
(* post_job_state unwraps: when the request cannot be sent, the task that  *)
(* posts panics.  A panic of the connector ends the process, which is      *)
(* started again; containers and mounts survive it.                        *)
(***************************************************************************)
EXTENDS Naturals, FiniteSets

CONSTANTS
  Jobs,      \* jobs the coordinator may send
  Nil,       \* no job, or the mutex is free
  MaxStops,  \* bound: stop_job messages
  Output     \* bound: the pipes containers write to

Fds     == {"stdout", "stderr"}
Callers == {"connector"} \cup Fds

ASSUME NilAssumption == Nil \notin Jobs \cup (Jobs \X Callers)
ASSUME BoundsAssumption == MaxStops \in Nat /\ Output \subseteq Fds

VARIABLES
  told,         \* jobs whose start_job message has arrived
  stops,        \* stop_job messages that have arrived
  pc,           \* pc[j][f]: where the call of caller f for job j is
  lock,         \* the call holding the current_job mutex, or Nil
  current_job,  \* the job in the mutex, or Nil
  child,        \* child[j]: the nspawn process
  unread,       \* unread[j]: the pipes that hold output nobody has read
  eof,          \* eof[j]: the pipes the streamer has marked closed
  streamer,     \* streamer[j]: the console streamer task
  control,      \* control[j]: the control socket task
  closing,      \* closing[j]: tasks sent Shutdown, or whose command channel is dropped
  request,      \* request[j]: the puppet's request, or the answer it has not read
  mounted,      \* jobs whose root file system is mounted
  proxies,      \* jobs whose rendezvous proxy tasks run
  \* History, read by no action.
  reports,      \* reports[j]: the states posted for j
  lost          \* jobs whose container or record a panic has dropped

inputs  == <<told, stops>>
tasks   == <<eof, streamer, control, closing, request>>
console == <<unread, eof, streamer>>
outside == <<child, unread, mounted, proxies>>
vars == <<told, stops, pc, lock, current_job, child, unread, eof, streamer, control,
          closing, request, mounted, proxies, reports, lost>>

StartStages == {"start_lock", "allocate", "spawn", "ready"}
StopStages  == {"stop_lock", "terminate", "wait", "join_control", "join_streamer", "umount", "finish"}
Reports     == {"allocating", "booting", "ready", "stopping", "finished", "failed"}

TypeOK ==
  /\ told \subseteq Jobs
  /\ stops \in 0..MaxStops
  /\ pc \in [Jobs -> [Callers -> {"idle"} \cup StartStages \cup StopStages]]
  /\ lock \in (Jobs \X Callers) \cup {Nil}
  /\ current_job \in Jobs \cup {Nil}
  /\ child \in [Jobs -> {"none", "running", "closing", "exited"}]
  /\ unread \in [Jobs -> SUBSET Fds]
  /\ eof \in [Jobs -> SUBSET Fds]
  /\ streamer \in [Jobs -> {"none", "running", "panicked", "ended"}]
  /\ control \in [Jobs -> {"none", "open", "asked", "panicked", "ended"}]
  /\ closing \in [Jobs -> SUBSET {"control", "streamer"}]
  /\ request \in [Jobs -> {"none", "sent", "found", "notfound"}]
  /\ mounted \subseteq Jobs
  /\ proxies \subseteq Jobs
  /\ reports \in [Jobs -> SUBSET Reports]
  /\ lost \subseteq Jobs

Init ==
  /\ told = {}
  /\ stops = 0
  /\ pc = [j \in Jobs |-> [f \in Callers |-> "idle"]]
  /\ lock = Nil
  /\ current_job = Nil
  /\ child = [j \in Jobs |-> "none"]
  /\ unread = [j \in Jobs |-> {}]
  /\ eof = [j \in Jobs |-> {}]
  /\ streamer = [j \in Jobs |-> "none"]
  /\ control = [j \in Jobs |-> "none"]
  /\ closing = [j \in Jobs |-> {}]
  /\ request = [j \in Jobs |-> "none"]
  /\ mounted = {}
  /\ proxies = {}
  /\ reports = [j \in Jobs |-> {}]
  /\ lost = {}

Alive(j) == child[j] \in {"running", "closing"}
Post(j, s) == reports' = [reports EXCEPT ![j] = @ \cup {s}]
Goto(j, f, stage) == pc' = [pc EXCEPT ![j][f] = stage]

\* stop_job holds the child's mutex from the SIGTERM until it returns.
ChildLocked(j) ==
  \E f \in Callers : pc[j][f] \in {"wait", "join_control", "join_streamer", "umount", "finish"}

-----------------------------------------------------------------------------
(* The connector: handle_sse_event awaits the call before it reads on.     *)

ConnectorIdle == \A j \in Jobs : pc[j]["connector"] = "idle"

\* The board server sends start_job at most once for a job.
receive_start_job(j) ==
  /\ ConnectorIdle
  /\ j \notin told
  /\ told' = told \cup {j}
  /\ Goto(j, "connector", "start_lock")
  /\ UNCHANGED <<stops, lock, current_job, tasks, outside, reports, lost>>

\* A job's start_job may have been lost with an earlier connection.
receive_stop_job(j) ==
  /\ ConnectorIdle
  /\ stops < MaxStops
  /\ stops' = stops + 1
  /\ Goto(j, "connector", "stop_lock")
  /\ UNCHANGED <<told, lock, current_job, tasks, outside, reports, lost>>

-----------------------------------------------------------------------------
(* start_job.  A definition whose name ends in "_Mutant..." is a wrong     *)
(* version of the next one; only the mutation checks listed in             *)
(* PROJECT.json use it.                                                    *)

\* Another job is running, or the environment is unknown: the lock is
\* taken for the post only.
start_refused(j) ==
  /\ pc[j]["connector"] = "start_lock"
  /\ lock = Nil
  /\ Post(j, "failed")
  /\ Goto(j, "connector", "idle")
  /\ UNCHANGED <<inputs, lock, current_job, tasks, outside, lost>>

start_accepted_MutantBusy(j) ==
  /\ pc[j]["connector"] = "start_lock"
  /\ lock = Nil
  /\ lock' = <<j, "connector">>
  /\ Post(j, "allocating")
  /\ Goto(j, "connector", "allocate")
  /\ UNCHANGED <<inputs, current_job, tasks, outside, lost>>

start_accepted(j) ==
  /\ pc[j]["connector"] = "start_lock"
  /\ lock = Nil
  /\ current_job = Nil
  /\ lock' = <<j, "connector">>
  /\ Post(j, "allocating")
  /\ Goto(j, "connector", "allocate")
  /\ UNCHANGED <<inputs, current_job, tasks, outside, lost>>

allocate_fails(j) ==
  /\ pc[j]["connector"] = "allocate"
  /\ lock' = Nil
  /\ Post(j, "failed")
  /\ Goto(j, "connector", "idle")
  /\ UNCHANGED <<inputs, current_job, tasks, outside, lost>>

\* Root file system, control socket and, when the environment has an SSH
\* address and the message names servers, rendezvous proxies.
allocate(j) ==
  /\ pc[j]["connector"] = "allocate"
  /\ mounted' = mounted \cup {j}
  /\ control' = [control EXCEPT ![j] = "open"]
  /\ proxies' \in {proxies, proxies \cup {j}}
  /\ Post(j, "booting")
  /\ Goto(j, "connector", "spawn")
  /\ UNCHANGED <<inputs, lock, current_job, child, console, closing, request, lost>>

\* The early return drops the control socket, and with it its command
\* channel; proxies keep running and the root file system stays mounted.
spawn_fails(j) ==
  /\ pc[j]["connector"] = "spawn"
  /\ closing' = [closing EXCEPT ![j] = @ \cup {"control"}]
  /\ lock' = Nil
  /\ Post(j, "failed")
  /\ Goto(j, "connector", "idle")
  /\ UNCHANGED <<inputs, current_job, outside, eof, streamer, control, request, lost>>

\* Gives the job away before its connection info is known.
spawn_MutantUnlocks(j) ==
  /\ pc[j]["connector"] = "spawn"
  /\ child' = [child EXCEPT ![j] = "running"]
  /\ streamer' = [streamer EXCEPT ![j] = "running"]
  /\ lock' = Nil
  /\ current_job' = j
  /\ Goto(j, "connector", "ready")
  /\ UNCHANGED <<inputs, unread, eof, control, closing, request, mounted, proxies, reports, lost>>

spawn(j) ==
  /\ pc[j]["connector"] = "spawn"
  /\ child' = [child EXCEPT ![j] = "running"]
  /\ streamer' = [streamer EXCEPT ![j] = "running"]
  /\ Goto(j, "connector", "ready")
  /\ UNCHANGED <<inputs, lock, current_job, unread, eof, control, closing, request,
                 mounted, proxies, reports, lost>>

\* After public_addr of each proxy, which gives up after five seconds.
ready(j) ==
  /\ pc[j]["connector"] = "ready"
  /\ Post(j, "ready")
  /\ current_job' = j
  /\ lock' = Nil
  /\ Goto(j, "connector", "idle")
  /\ UNCHANGED <<inputs, tasks, outside, lost>>

-----------------------------------------------------------------------------
(* stop_job, for any caller.                                               *)

stop_refused(j, f) ==
  /\ pc[j][f] = "stop_lock"
  /\ lock = Nil
  /\ current_job # j
  /\ Post(j, "failed")
  /\ Goto(j, f, "idle")
  /\ UNCHANGED <<inputs, lock, current_job, tasks, outside, lost>>

stop_accepted(j, f) ==
  /\ pc[j][f] = "stop_lock"
  /\ lock = Nil
  /\ current_job = j
  /\ lock' = <<j, f>>
  /\ current_job' = Nil
  /\ Post(j, "stopping")
  /\ Goto(j, f, "terminate")
  /\ UNCHANGED <<inputs, tasks, outside, lost>>

\* Lock the child and send it SIGTERM.
terminate(j, f) ==
  /\ pc[j][f] = "terminate"
  /\ Goto(j, f, "wait")
  /\ UNCHANGED <<inputs, lock, current_job, tasks, outside, reports, lost>>

\* The process exits, or the shutdown timeout expires and it is killed; then
\* the control socket task is sent Shutdown.
wait(j, f) ==
  /\ pc[j][f] = "wait"
  /\ child' = [child EXCEPT ![j] = "exited"]
  /\ closing' = [closing EXCEPT ![j] = @ \cup {"control"}]
  /\ Goto(j, f, "join_control")
  /\ UNCHANGED <<inputs, lock, current_job, console, control, request,
                 mounted, proxies, reports, lost>>

\* Waits for the streamer without telling it to stop.
join_control_MutantSilent(j, f) ==
  /\ pc[j][f] = "join_control"
  /\ control[j] = "ended"
  /\ Goto(j, f, "join_streamer")
  /\ UNCHANGED <<inputs, lock, current_job, tasks, outside, reports, lost>>

\* Skips the join.
join_control_MutantDetached(j, f) ==
  /\ pc[j][f] = "join_control"
  /\ closing' = [closing EXCEPT ![j] = @ \cup {"streamer"}]
  /\ Goto(j, f, "join_streamer")
  /\ UNCHANGED <<inputs, lock, current_job, outside, eof, streamer, control, request, reports, lost>>

\* The control socket task has ended; the streamer is sent Shutdown.
join_control(j, f) ==
  /\ pc[j][f] = "join_control"
  /\ control[j] = "ended"
  /\ streamer[j] # "panicked"
  /\ closing' = [closing EXCEPT ![j] = @ \cup {"streamer"}]
  /\ Goto(j, f, "join_streamer")
  /\ UNCHANGED <<inputs, lock, current_job, outside, eof, streamer, control, request, reports, lost>>

join_streamer_MutantProxies(j, f) ==
  /\ pc[j][f] = "join_streamer"
  /\ streamer[j] = "ended"
  /\ Goto(j, f, "umount")
  /\ UNCHANGED <<inputs, lock, current_job, tasks, outside, reports, lost>>

\* The streamer has ended; the proxies are shut down.
join_streamer(j, f) ==
  /\ pc[j][f] = "join_streamer"
  /\ streamer[j] = "ended"
  /\ proxies' = proxies \ {j}
  /\ Goto(j, f, "umount")
  /\ UNCHANGED <<inputs, lock, current_job, tasks, child, unread, mounted, reports, lost>>

umount_fails(j, f) ==
  /\ pc[j][f] = "umount"
  /\ lock' = Nil
  /\ Post(j, "failed")
  /\ Goto(j, f, "idle")
  /\ UNCHANGED <<inputs, current_job, tasks, outside, lost>>

\* Unmounts and drops the lock guard.
umount(j, f) ==
  /\ pc[j][f] = "umount"
  /\ mounted' = mounted \ {j}
  /\ lock' = Nil
  /\ Goto(j, f, "finish")
  /\ UNCHANGED <<inputs, current_job, tasks, child, unread, proxies, reports, lost>>

finish(j, f) ==
  /\ pc[j][f] = "finish"
  /\ Post(j, "finished")
  /\ Goto(j, f, "idle")
  /\ UNCHANGED <<inputs, lock, current_job, tasks, outside, lost>>

-----------------------------------------------------------------------------
(* Panics.                                                                 *)

\* stop_job unwraps what it learns when it shuts down the control socket and
\* the streamer, whose tasks may have panicked.
FindsPanic(j, f) ==
  \/ pc[j][f] = "join_control" /\ control[j] = "panicked"
  \/ pc[j][f] = "join_control" /\ control[j] = "ended" /\ streamer[j] = "panicked"
  \/ pc[j][f] = "join_streamer" /\ streamer[j] = "panicked"

\* A call also panics where it posts, where it shuts down a proxy whose
\* listener has quit, and where it can neither kill nor wait for a container
\* that has not exited.
MayPanic(j, f) ==
  \/ pc[j][f] = "join_streamer" /\ streamer[j] = "ended" /\ j \in proxies
  \/ pc[j][f] \in {"start_lock", "stop_lock"} /\ lock = Nil
  \/ pc[j][f] \in {"allocate", "spawn", "ready", "umount", "finish"}
  \/ pc[j][f] = "wait" /\ Alive(j)
  \/ FindsPanic(j, f)

\* A panic in a spawned stop_job: the guard of the mutex and, once taken,
\* the job with its command channels are dropped.
stop_panics(j, f) ==
  /\ f \in Fds
  /\ MayPanic(j, f)
  /\ lock' = IF lock = <<j, f>> THEN Nil ELSE lock
  /\ IF pc[j][f] = "stop_lock" /\ current_job # j
     THEN UNCHANGED <<current_job, closing, lost>>
     ELSE /\ current_job' = IF pc[j][f] = "stop_lock" THEN Nil ELSE current_job
          /\ closing' = [closing EXCEPT ![j] = {"control", "streamer"}]
          /\ lost' = lost \cup {j}
  /\ Goto(j, f, "idle")
  /\ UNCHANGED <<inputs, outside, eof, streamer, control, request, reports>>

\* A panic in the connector ends the process and every task of it; the next
\* process starts empty.  allocate may have mounted the root file system.
connector_panics(j) ==
  /\ MayPanic(j, "connector")
  /\ mounted' \in {mounted} \cup (IF pc[j]["connector"] = "allocate" THEN {mounted \cup {j}} ELSE {})
  /\ lost' = lost \cup {k \in Jobs : Alive(k)}
  /\ pc' = [k \in Jobs |-> [f \in Callers |-> "idle"]]
  /\ lock' = Nil
  /\ current_job' = Nil
  /\ streamer' = [k \in Jobs |-> IF streamer[k] = "none" THEN "none" ELSE "ended"]
  /\ control' = [k \in Jobs |-> IF control[k] = "none" THEN "none" ELSE "ended"]
  /\ proxies' = {}
  /\ unread' = [k \in Jobs |-> {}]
  /\ eof' = [k \in Jobs |-> {}]
  /\ closing' = [k \in Jobs |-> {}]
  /\ request' = [k \in Jobs |-> "none"]
  /\ UNCHANGED <<inputs, child, reports>>

-----------------------------------------------------------------------------
(* The container and the console streamer.                                 *)

child_writes(j, fd) ==
  /\ fd \in Output
  /\ child[j] = "running"
  /\ streamer[j] = "running"
  /\ unread' = [unread EXCEPT ![j] = @ \cup {fd}]
  /\ UNCHANGED <<inputs, pc, lock, current_job, child, tasks, mounted, proxies, reports, lost>>

\* The process closes its pipes, by itself or because it is ending.
child_closes(j) ==
  /\ child[j] = "running"
  /\ child' = [child EXCEPT ![j] = "closing"]
  /\ UNCHANGED <<inputs, pc, lock, current_job, tasks, unread, mounted, proxies, reports, lost>>

\* From here on wait finds it.
child_exits(j) ==
  /\ child[j] = "closing"
  /\ child' = [child EXCEPT ![j] = "exited"]
  /\ UNCHANGED <<inputs, pc, lock, current_job, tasks, unread, mounted, proxies, reports, lost>>

streamer_data(j, fd) ==
  /\ streamer[j] = "running"
  /\ fd \in unread[j]
  /\ unread' = [unread EXCEPT ![j] = @ \ {fd}]
  /\ UNCHANGED <<inputs, pc, lock, current_job, child, tasks, mounted, proxies, reports, lost>>

\* Takes the state the process had at the first end-of-file for final.
streamer_zero_bytes_MutantOnce(j, fd) ==
  /\ streamer[j] = "running"
  /\ child[j] \in {"closing", "exited"}
  /\ fd \notin unread[j] \cup eof[j]
  /\ eof' = [eof EXCEPT ![j] = @ \cup {fd}]
  /\ IF child[j] = "exited" /\ ~ChildLocked(j) /\ eof[j] = {}
       THEN Goto(j, fd, "stop_lock") ELSE UNCHANGED pc
  /\ UNCHANGED <<inputs, lock, current_job, streamer, control, closing, request, outside, reports, lost>>

\* A read of zero bytes: if the child's mutex is free and the child has
\* exited, stop_job is spawned as a task of its own.
streamer_zero_bytes(j, fd) ==
  /\ streamer[j] = "running"
  /\ child[j] \in {"closing", "exited"}
  /\ fd \notin unread[j] \cup eof[j]
  /\ eof' = [eof EXCEPT ![j] = @ \cup {fd}]
  /\ IF child[j] = "exited" /\ ~ChildLocked(j) THEN Goto(j, fd, "stop_lock") ELSE UNCHANGED pc
  /\ UNCHANGED <<inputs, lock, current_job, streamer, control, closing, request, outside, reports, lost>>

\* Reading failed, or send_job_console_log, which unwraps.  What was not yet
\* read is lost, and no end-of-file is noticed any more.
streamer_panics(j) ==
  /\ streamer[j] = "running"
  /\ streamer' = [streamer EXCEPT ![j] = "panicked"]
  /\ eof' = [eof EXCEPT ![j] = {}]
  /\ unread' = [unread EXCEPT ![j] = {}]
  /\ UNCHANGED <<inputs, pc, lock, current_job, child, control, closing, request, mounted, proxies, reports, lost>>

\* The Shutdown command, or a panic because the channel was dropped.  The
\* streamer's locals and the pipes go with it.
streamer_ends(j) ==
  /\ streamer[j] = "running"
  /\ "streamer" \in closing[j]
  /\ streamer' = [streamer EXCEPT ![j] = "ended"]
  /\ eof' = [eof EXCEPT ![j] = {}]
  /\ unread' = [unread EXCEPT ![j] = {}]
  /\ UNCHANGED <<inputs, pc, lock, current_job, child, control, closing, request, mounted, proxies, reports, lost>>

-----------------------------------------------------------------------------
(* The puppet and the control socket.  Accepting a connection, pings and   *)
(* events touch nothing the runner shares and are left out.                *)

Rest == <<inputs, pc, lock, current_job, outside, eof, streamer, closing, reports, lost>>

\* SSHKeys or NetworkConfig.
puppet_asks(j) ==
  /\ child[j] = "running"
  /\ control[j] \in {"open", "asked"}
  /\ request[j] = "none"
  /\ request' = [request EXCEPT ![j] = "sent"]
  /\ UNCHANGED <<control, Rest>>

puppet_receives(j) ==
  /\ child[j] = "running"
  /\ request[j] \in {"found", "notfound"}
  /\ request' = [request EXCEPT ![j] = "none"]
  /\ UNCHANGED <<control, Rest>>

\* The task reads the request, which the puppet may not have outlived.
control_request(j) ==
  /\ control[j] = "open"
  /\ request[j] = "sent"
  /\ control' = [control EXCEPT ![j] = "asked"]
  /\ UNCHANGED <<request, Rest>>

\* Does not wait for the mutex.
control_answers_MutantTryLock(j) ==
  /\ control[j] = "asked"
  /\ request' = [request EXCEPT ![j] = IF child[j] # "running" THEN "none"
                                       ELSE IF lock = Nil /\ current_job = j THEN "found" ELSE "notfound"]
  /\ control' = [control EXCEPT ![j] = "open"]
  /\ UNCHANGED Rest

\* ssh_keys or network_config, once the mutex is free.
control_answers(j) ==
  /\ control[j] = "asked"
  /\ lock = Nil
  /\ request' = [request EXCEPT ![j] = IF child[j] # "running" THEN "none"
                                       ELSE IF current_job = j THEN "found" ELSE "notfound"]
  /\ control' = [control EXCEPT ![j] = "open"]
  /\ UNCHANGED Rest

\* The puppet ended with an unread answer, with the container or alone: the
\* next recv fails with ECONNRESET and the task panics.
control_panics(j) ==
  /\ control[j] = "open"
  /\ request[j] \in {"found", "notfound"}
  /\ control' = [control EXCEPT ![j] = "panicked"]
  /\ request' = [request EXCEPT ![j] = "none"]
  /\ UNCHANGED Rest

\* The Shutdown command or the end of its channel, seen between requests.  A
\* request not yet read, or an answer nobody lives to read, is gone with the
\* connection.
control_ends(j) ==
  /\ control[j] = "open"
  /\ "control" \in closing[j]
  /\ control' = [control EXCEPT ![j] = "ended"]
  /\ request' = [request EXCEPT ![j] = IF child[j] = "running" /\ @ # "sent" THEN @ ELSE "none"]
  /\ UNCHANGED Rest

-----------------------------------------------------------------------------

start_job(j) ==
  \/ start_refused(j) \/ start_accepted(j)
  \/ allocate_fails(j) \/ allocate(j)
  \/ spawn_fails(j) \/ spawn(j)
  \/ ready(j)

stop_job(j, f) ==
  \/ stop_refused(j, f) \/ stop_accepted(j, f)
  \/ terminate(j, f) \/ wait(j, f)
  \/ join_control(j, f) \/ join_streamer(j, f)
  \/ umount_fails(j, f) \/ umount(j, f) \/ finish(j, f)

Next ==
  \E j \in Jobs :
    \/ receive_start_job(j) \/ receive_stop_job(j)
    \/ start_job(j)
    \/ \E f \in Callers : stop_job(j, f)
    \/ \E f \in Fds : stop_panics(j, f)
    \/ connector_panics(j)
    \/ \E fd \in Fds : child_writes(j, fd) \/ streamer_data(j, fd) \/ streamer_zero_bytes(j, fd)
    \/ child_closes(j) \/ child_exits(j)
    \/ streamer_panics(j) \/ streamer_ends(j)
    \/ puppet_asks(j) \/ puppet_receives(j)
    \/ control_request(j) \/ control_answers(j) \/ control_panics(j) \/ control_ends(j)

Spec == Init /\ [][Next]_vars

\* stop_job ends in the panic it finds.
unwraps(j, f) ==
  /\ FindsPanic(j, f)
  /\ stop_panics(j, f) \/ (f = "connector" /\ connector_panics(j))

\* Tokio polls every task that can proceed; tokio::sync::Mutex serves its
\* waiters in order, so a call that waits gets its turn.  Nothing obliges the
\* coordinator to send, the puppet to ask, the container to end or a post to
\* fail.
Fairness ==
  \A j \in Jobs :
    /\ SF_vars(start_job(j))
    /\ \A f \in Callers : SF_vars(stop_job(j, f)) /\ WF_vars(unwraps(j, f))
    /\ \A fd \in Fds : WF_vars(streamer_data(j, fd)) /\ WF_vars(streamer_zero_bytes(j, fd))
    /\ WF_vars(streamer_ends(j))
    /\ WF_vars(control_request(j)) /\ SF_vars(control_answers(j)) /\ WF_vars(control_ends(j))

FairSpec == Spec /\ Fairness

-----------------------------------------------------------------------------
(* Properties that hold.                                                   *)

\* The job a call works on while it holds the mutex.
Held == IF lock = Nil THEN {} ELSE {lock[1]}

\* Whatever runs for a job - container, streamer, control socket task not yet
\* told to end - belongs to the job in the mutex or to the call that holds
\* the mutex, so two jobs never run at once; only a panic loses a job.  This
\* is what the busy check of start_job and the guard that stop_job keeps to
\* its end are for.
OneJobRuns ==
  \A j \in Jobs \ lost :
    Alive(j) \/ streamer[j] = "running" \/ (control[j] \in {"open", "asked"} /\ "control" \notin closing[j])
      => Held \cup ({current_job} \ {Nil}) = {j}

\* The root file system of a job that ran is unmounted only when nothing can
\* hold a file of it open: the container, the streamer and the control socket
\* task, whose listener lies in it, are gone (the order of the shutdowns in
\* stop_job).
UnmountedIsUnused ==
  \A j \in Jobs :
    "stopping" \in reports[j] /\ j \notin mounted
      => ~Alive(j) /\ streamer[j] = "ended" /\ control[j] \in {"ended", "panicked"}

\* A job that was reported finished has returned everything start_job took,
\* whichever calls raced to stop it.
FinishedIsReleased ==
  \A j \in Jobs :
    "finished" \in reports[j]
      => ~Alive(j) /\ j \notin mounted \cup proxies /\ j # current_job
           /\ streamer[j] = "ended" /\ control[j] = "ended"

\* The puppet of a job that no panic lost is never told that its job does not
\* exist: a request made while start_job still holds the mutex waits and is
\* answered with the job's data, and stop_job lets the mutex go only after the
\* container, and so the puppet, has ended (ssh_keys, network_config).
AnswersMatch == \A j \in Jobs \ lost : request[j] # "notfound"

\* The job the runner works for: the one a call holds the mutex for, or else
\* the one in it.
Slot == IF lock # Nil THEN lock[1] ELSE current_job

Runner == INSTANCE RunnerContract WITH posted <- reports, slot <- Slot

\* What the board server relies on: whichever tasks post, stop and panic, the
\* runner keeps the contract of all runners - one job at a time, its states
\* reported in the order of its life, "finished" after it was let go.
ImplementsRunner == Runner!ContractSpec

\* stop_job joins the control socket task while it holds the mutex the task
\* waits for.
Stuck(j) == \E f \in Callers : lock = <<j, f>> /\ pc[j][f] = "join_control" /\ control[j] = "asked"

\* Every call of start_job and stop_job returns, and so the connector reads
\* on, unless stop_job and a puppet's request wait for each other.
CallReturns ==
  \A j \in Jobs : \A f \in Callers :
    pc[j][f] # "idle" ~> (pc[j][f] = "idle" \/ \E k \in Jobs : Stuck(k))

\* A container that has ended is noticed while one of its pipes has still to
\* report its end: the job leaves the mutex without a stop message
\* (main.rs:743-747).  Once both pipes have ended before the process could be
\* waited for, nothing looks at it again; nor does a panicked streamer.
ExitIsNoticed ==
  \A j \in Jobs :
    current_job = j /\ child[j] = "exited" /\ streamer[j] = "running" /\ eof[j] # Fds
      ~> current_job # j \/ streamer[j] # "running" \/ \E k \in Jobs : Stuck(k)

-----------------------------------------------------------------------------
(* A property a comment of the code states and the code does not have.     *)

\* main.rs:857 "This method must not block for long periods of time.": a
\* stop_job that has taken the job returns.
StopReturns ==
  \A j \in Jobs : \A f \in Callers : pc[j][f] = "terminate" ~> pc[j][f] = "idle"

=============================================================================
