----------------------------- MODULE Treadmill -----------------------------
(***************************************************************************)
(* The board server composed with a runner: the SSE connector's loop       *)
(* (sse-connector), which reads one stream, calls start_job and stop_job   *)
(* inline and reconnects, and a runner reduced to the job it works for and *)
(* to what it reports (nspawn-runner, netboot-runner).  The two ends of a  *)
(* connection do not learn of its end together, and the runner's process   *)
(* may crash and be started again.                                         *)
(*                                                                         *)
(* BoardServer lets a runner post almost anything, and RunnerContract lets *)
(* a coordinator ask almost anything.  That this is all they need of one   *)
(* another is checked here: the composition implements both.               *)
(***************************************************************************)
EXTENDS BoardServer

CONSTANT MaxInbox  \* bound: messages the runner's end of a stream holds

ASSUME InboxAssumption == MaxInbox \in Nat

VARIABLES
  connector,  \* SSERunnerConnector::run: "connecting", "reading", "waiting"
  stream,     \* the connection it reads, or Nil
  inbox,      \* messages that reached its end of the stream
  call,       \* the start_job or stop_job under way and how far it is, or Nil
  slot,       \* the job the runner works for, or Nil
  posted      \* posted[j]: the states the runner has reported for j

link   == <<connector, stream, inbox>>
runner == <<slot, posted>>
tvars  == <<vars, link, call, runner>>

Calls == [type : {"start_job", "started", "stop_job", "exited", "stopping"}, job : Jobs]

ASSUME CallsAssumption == Nil \notin Calls

TreadmillTypeOK ==
  /\ TypeOK
  /\ connector \in {"connecting", "reading", "waiting"}
  /\ stream \in Conns \cup {Nil} /\ (stream # Nil <=> connector = "reading")
  /\ inbox \in Seq(RunnerMsgs) /\ Len(inbox) <= MaxInbox
  /\ call \in Calls \cup {Nil}
  /\ slot \in Jobs \cup {Nil}
  /\ posted \in [Jobs -> SUBSET {"booting", "ready", "stopping", "finished", "failed"}]

\* The jobs are in the table when the first runner connects.
TreadmillInit ==
  /\ web = [j \in Jobs |-> "notified"] /\ start = [j \in Jobs |-> 0]
  /\ dispatched = {} /\ completion = [j \in Jobs |-> "nil"]
  /\ up = FALSE /\ exit = "none"
  /\ runner_pid = Nil /\ coord_state = [j \in Jobs |-> "absent"] /\ waited = [j \in Jobs |-> 0]
  /\ timer = NoTimer /\ registered = {} /\ mailbox = {}
  /\ conn = [c \in Conns |-> "closed"] /\ wire = [c \in Conns |-> <<>>]
  /\ reported = [j \in Jobs |-> "unknown"] /\ starts = [j \in Jobs |-> 0]
  /\ connector = "connecting" /\ stream = Nil /\ inbox = <<>>
  /\ call = Nil
  /\ slot = Nil /\ posted = [j \in Jobs |-> {}]

-----------------------------------------------------------------------------
(* The coordinator: its server, the users who terminate jobs, the network. *)
(* Its database fails here in a server's start only; BoardServer has the   *)
(* failures in its handlers, too.                                          *)

coordinator ==
  /\ \/ Handle
     \/ \E j \in Jobs : request_terminate(j)
     \/ \E c \in Conns : start_server(c) \/ relookup(c) \/ close_conn(c) \/ close_orphan(c)
     \/ timer > 0 /\ tick
  /\ UNCHANGED <<link, call, runner>>

-----------------------------------------------------------------------------
(* The connector's loop.  A definition whose name ends in "_Mutant..." is  *)
(* a wrong version of the next one; only the mutation checks listed in     *)
(* PROJECT.json use it.                                                    *)

connects(c) ==
  /\ connector = "connecting"
  /\ open_conn(c)
  /\ connector' = "reading" /\ stream' = c
  /\ UNCHANGED <<inbox, call, runner>>

\* What the server sent arrives at the runner's end.
delivers ==
  /\ stream # Nil
  /\ Len(inbox) < MaxInbox
  /\ receive(stream)
  /\ inbox' = Append(inbox, Head(wire[stream]))
  /\ UNCHANGED <<connector, stream, call, runner>>

\* handle_sse_event: the call is awaited, the stream is not polled meanwhile.
handle_sse_event ==
  /\ call = Nil
  /\ inbox # <<>>
  /\ call' = Head(inbox)
  /\ inbox' = Tail(inbox)
  /\ UNCHANGED <<vars, connector, stream, runner>>

\* The loop does not await a call; a stop_job of the runner's own is not its.
Polls == call = Nil \/ call \in [type : {"exited"}, job : Jobs]

\* Leaves the loop with the stream still open.
breaks_MutantKeepsStream ==
  /\ connector = "reading"
  /\ Polls
  /\ connector' = "waiting"
  /\ UNCHANGED <<vars, stream, inbox, call, runner>>

\* The stream errs, or the keep-alive timeout is found to be over: the loop
\* is left, and with the stream what it held.  The coordinator need not know.
breaks ==
  /\ connector = "reading"
  /\ Polls
  /\ connector' = "waiting" /\ stream' = Nil /\ inbox' = <<>>
  /\ UNCHANGED <<vars, call, runner>>

\* reconnect_wait is over.
waited_enough ==
  /\ connector = "waiting"
  /\ connector' = "connecting"
  /\ UNCHANGED <<vars, stream, inbox, call, runner>>

-----------------------------------------------------------------------------
(* The runner.                                                             *)

\* The state of the coordinator's API a report is sent as.
JobState(s) == IF s = "booting" THEN "starting" ELSE s

\* A post is answered before the task that makes it goes on.
Answered(j) == \A t \in JobReports \ {"failed"} : Update(j, t) \notin mailbox

\* post_job_state: the coordinator looks j up and calls the server; a job it
\* does not know changes nothing.
Post(j, s) ==
  /\ Room
  /\ posted' = [posted EXCEPT ![j] = @ \cup {s}]
  /\ IF j \in registered
     THEN /\ mailbox' = mailbox \cup {Update(j, JobState(s))}
          /\ reported' = [reported EXCEPT ![j] = IF @ = "finished" THEN @ ELSE JobState(s)]
     ELSE UNCHANGED <<mailbox, reported>>
  /\ UNCHANGED <<db, server, conn, wire, starts>>

Called(type, j) == call = [type |-> type, job |-> j]
Stops(j) == Called("stop_job", j) \/ Called("exited", j)

\* start_job finds no job, and takes the slot.  (That the nspawn runner also
\* reports that it allocates is left out: it is the same JobState as booting.)
start_job(j) ==
  /\ Called("start_job", j)
  /\ slot = Nil
  /\ slot' = j
  /\ call' = [type |-> "started", job |-> j]
  /\ UNCHANGED <<vars, link, posted>>

\* Reports that it boots before it looks for another job.
refuses_MutantAnnounces(j) ==
  /\ Called("start_job", j) \/ (Stops(j) /\ slot # j)
  /\ Post(j, IF "booting" \in posted[j] THEN "failed" ELSE "booting")
  /\ call' = IF "booting" \in posted[j] THEN Nil ELSE call
  /\ UNCHANGED <<link, slot>>

\* start_job finds a job, or does not know the environment; stop_job finds
\* no job, or another.
refuses(j) ==
  /\ Called("start_job", j) \/ (Stops(j) /\ slot # j)
  /\ Post(j, "failed")
  /\ call' = Nil
  /\ UNCHANGED <<link, slot>>

\* The states in any order.
progress_MutantUnordered(j, s) ==
  /\ Called("started", j)
  /\ Answered(j)
  /\ s \notin posted[j]
  /\ Post(j, s)
  /\ UNCHANGED <<link, call, slot>>

\* start_job reports its progress.
progress(j, s) ==
  /\ Called("started", j)
  /\ Answered(j)
  /\ s \notin posted[j]
  /\ s = "ready" => "booting" \in posted[j]
  /\ Post(j, s)
  /\ UNCHANGED <<link, call, slot>>

start_job_returns(j) ==
  /\ Called("started", j)
  /\ "ready" \in posted[j] /\ Answered(j)
  /\ call' = Nil
  /\ UNCHANGED <<vars, link, runner>>

\* A step of start_job fails.
fails(j) ==
  /\ Called("started", j)
  /\ "ready" \notin posted[j]
  /\ Answered(j)
  /\ Post(j, "failed")
  /\ slot' = Nil /\ call' = Nil
  /\ UNCHANGED link

\* The process of the job exited: the streamer calls stop_job, and the mutex
\* keeps the connector's calls waiting.
exits(j) ==
  /\ slot = j
  /\ call = Nil
  /\ call' = [type |-> "exited", job |-> j]
  /\ UNCHANGED <<vars, link, runner>>

\* Does not say that it stops.
stop_job_MutantSilent(j) ==
  /\ Stops(j)
  /\ slot = j
  /\ call' = [type |-> "stopping", job |-> j]
  /\ UNCHANGED <<vars, link, runner>>

\* stop_job of the job the runner works for.
stop_job(j) ==
  /\ Stops(j)
  /\ slot = j
  /\ Post(j, "stopping")
  /\ call' = [type |-> "stopping", job |-> j]
  /\ UNCHANGED <<link, slot>>

\* Keeps the job until the next call.
lets_go_MutantKeeps(j) ==
  /\ Called("stopping", j) /\ slot = j
  /\ Answered(j)
  /\ Post(j, "finished")
  /\ call' = Nil
  /\ UNCHANGED <<link, slot>>

\* Tasks are joined, the mutex is released.  There is one call at a time: a
\* stop_job that the streamer spawned takes the place of the connector's, and
\* "finished" is not overtaken by the next job's start (NspawnRunner has both).
lets_go(j) ==
  /\ Called("stopping", j) /\ slot = j
  /\ Answered(j)
  /\ slot' = Nil
  /\ UNCHANGED <<vars, link, call, posted>>

\* The job is finished, or its file system could not be unmounted.
stop_job_returns(j) ==
  /\ Called("stopping", j) /\ slot # j
  /\ Post(j, "finished") \/ Post(j, "failed")
  /\ call' = Nil
  /\ UNCHANGED <<link, slot>>

\* The runner's process ends, by a panic or by its host, and is started again.
crashes ==
  /\ connector' = "connecting" /\ stream' = Nil /\ inbox' = <<>>
  /\ call' = Nil /\ slot' = Nil
  /\ call # Nil \/ slot # Nil
  /\ UNCHANGED <<vars, posted>>

-----------------------------------------------------------------------------

runs ==
  \/ \E j \in Jobs : start_job(j) \/ start_job_returns(j) \/ fails(j) \/ refuses(j)
  \/ \E j \in Jobs : exits(j) \/ stop_job(j) \/ lets_go(j) \/ stop_job_returns(j)
  \/ \E j \in Jobs, s \in {"booting", "ready"} : progress(j, s)
  \/ crashes

TreadmillNext ==
  \/ coordinator
  \/ \E c \in Conns : connects(c)
  \/ delivers \/ handle_sse_event \/ breaks \/ waited_enough
  \/ runs

TreadmillSpec == TreadmillInit /\ [][TreadmillNext]_tvars

-----------------------------------------------------------------------------
(* Properties.                                                             *)

\* A job the coordinator records as finished is one the runner has let go, and
\* does not take again: the board is free for the next job.
FinishedIsFree == \A j \in Jobs : completion[j] = "finished" => slot # j

\* While the runner works for a job, the coordinator does not believe that
\* another one is starting or ready, although it may have given up on the
\* first, timed out, lost the connection or crashed.
BelievedIsReal ==
  \A j, k \in Jobs : slot = j /\ coord_state[k] \in {"starting", "ready"} => k = j

\* The runner does not do to the server what BoardServer excludes.
ImplementsBoard == [][Next]_vars

Runner == INSTANCE RunnerContract

\* The coordinator does not make the runner break its contract: it never asks
\* twice for a job.
ImplementsRunner == Runner!ContractSpec

=============================================================================
