--------------------------- MODULE ControlSocket ---------------------------
(***************************************************************************)
(* The puppet (puppet) and the control socket its runner serves, over a    *)
(* unix seqpacket socket (unix-seqpacket-control-socket) or over TCP       *)
(* (tcp-control-socket).  The puppet is its main task, which asks for keys *)
(* and network configuration and then waits for CTRL+C, and a client task  *)
(* that owns the receiving side; they share the table of open requests and *)
(* a Notify.  A section under the table's mutex is one step.  A puppet     *)
(* that ended may be started again and opens a connection of its own.      *)
(*                                                                         *)
(* The runner is reduced to what its job means to the control socket: when *)
(* its mutex is held, when Shutdown is sent and when the command channel   *)
(* is dropped.                                                             *)
(***************************************************************************)
EXTENDS Naturals, Sequences

CONSTANTS
  MaxStarts  \* bound: how often the puppet is started

ASSUME StartsAssumption == MaxStarts \in Nat

Conns == 1..MaxStarts
Kinds == {"ssh_keys", "network_config"}

VARIABLES
  transport,  \* "unix" or "tcp"
  job,        \* the runner's job
  server,     \* the control socket task
  accepted,   \* the last connection the task accepted
  req,        \* the request it handles: <<id, kind>>
  up, down,   \* up[c], down[c]: messages to the server, to the puppet
  gone,       \* connections the server sees closed
  reset,      \* those it closed with an answer unread
  epoch,      \* how often the puppet was started: its connection
  pc,         \* where its main task is
  id, kind,   \* the request it makes
  table,      \* request_responses: open requests, "none" until answered
  notified,   \* the Notified future it awaits has been woken
  client,     \* the client task
  cmd         \* the client task's command channel, of capacity 1

vars == <<transport, job, server, accepted, req, up, down, gone, reset, epoch, pc, id, kind,
          table, notified, client, cmd>>
runner  == <<transport, job>>
task    == <<server, accepted, req>>
wire    == <<up, down>>
ends    == <<gone, reset, epoch>>
asking  == <<id, kind, table, notified>>

Requests  == {0, 1} \X Kinds
Responses == {"keys", "no_keys", "config", "not_found"}
Stages    == {"exited", "begin", "send", "check", "wait", "keyed", "configured", "ctrl_c", "shutdown", "join"}

TypeOK ==
  /\ transport \in {"unix", "tcp"}
  /\ job \in {"starting", "running", "stopping", "stopped", "dropped"}
  /\ server \in {"listening", "serving", "handling", "panicked", "ended"}
  /\ accepted \in 0..MaxStarts /\ epoch \in 0..MaxStarts /\ accepted <= epoch
  /\ req \in Requests
  /\ up \in [Conns -> Seq(Requests \cup {<<0, "ready">>})]
  /\ down \in [Conns -> Seq({0, 1} \X Responses)]
  /\ reset \subseteq gone /\ gone \subseteq Conns
  /\ pc \in Stages
  /\ id \in 0..2 /\ kind \in Kinds
  /\ DOMAIN table \subseteq {0, 1} /\ \A i \in DOMAIN table : table[i] \in Responses \cup {"none"}
  /\ notified \in BOOLEAN
  /\ client \in {"none", "running", "panicked", "ended"}
  /\ cmd \in {<<>>, <<"Shutdown">>} \cup {<<m>> : m \in Requests \cup {<<0, "ready">>}}

Init ==
  /\ transport \in {"unix", "tcp"}
  /\ job = "starting"
  /\ server = "listening"
  /\ accepted = 0 /\ epoch = 0
  /\ req = <<0, "ssh_keys">>
  /\ up = [c \in Conns |-> <<>>] /\ down = [c \in Conns |-> <<>>]
  /\ gone = {} /\ reset = {}
  /\ pc = "exited" /\ id = 0 /\ kind = "ssh_keys"
  /\ table = <<>>
  /\ notified = FALSE
  /\ client = "none"
  /\ cmd = <<>>

\* The server's socket is closed: Shutdown, or the end of its task.
ServerGone == server \in {"panicked", "ended"}
Locked == job \in {"starting", "stopping"}

-----------------------------------------------------------------------------
(* The runner's job.                                                       *)

RunnerStep == UNCHANGED <<transport, task, wire, ends, pc, asking, client, cmd>>

\* start_job puts the job into the mutex and drops its guard.
job_ready == job = "starting" /\ job' = "running" /\ RunnerStep

\* stop_job takes the job and sends Shutdown.
job_stop == job = "running" /\ job' = "stopping" /\ RunnerStep

\* start_job fails or a stop_job panics: the command channel is dropped.
job_drop == job \in {"starting", "running"} /\ job' = "dropped" /\ RunnerStep

\* shutdown joins the task; the runner unwraps a panic.
job_join ==
  /\ job = "stopping"
  /\ \/ server = "ended" /\ job' = "stopped"
     \/ server = "panicked" /\ job' = "dropped"
  /\ RunnerStep

-----------------------------------------------------------------------------
(* The control socket task: one connection at a time.  A definition whose  *)
(* name ends in "_Mutant..." is a wrong version of the next one; only the  *)
(* mutation checks listed in PROJECT.json use it.                          *)

TaskStep == UNCHANGED <<runner, ends, pc, asking, client, cmd>>

accept ==
  /\ server = "listening"
  /\ accepted < epoch
  /\ accepted' = accepted + 1
  /\ server' = "serving"
  /\ UNCHANGED <<req, wire>> /\ TaskStep

\* A request waits for the runner's mutex; an event is logged.
receive ==
  /\ server = "serving"
  /\ accepted \notin reset
  /\ up[accepted] # <<>>
  /\ up' = [up EXCEPT ![accepted] = Tail(@)]
  /\ LET m == Head(up[accepted]) IN
       IF m[2] = "ready" THEN UNCHANGED <<server, req>> ELSE server' = "handling" /\ req' = m
  /\ UNCHANGED <<accepted, down>> /\ TaskStep

\* job_id is in the mutex, or it is not.
handle_request(k) ==
  IF k = "ssh_keys" THEN IF job = "running" THEN "keys" ELSE "no_keys"
                    ELSE IF job = "running" THEN "config" ELSE "not_found"

\* Sends to the connection opened last.
answer_MutantLatest ==
  /\ server = "handling"
  /\ ~Locked
  /\ IF epoch \notin gone
     THEN /\ down' = [down EXCEPT ![epoch] = Append(@, <<req[1], handle_request(req[2])>>)]
          /\ server' = "serving"
     ELSE /\ server' \in {"listening"} \cup (IF transport = "tcp" THEN {"serving"} ELSE {})
          /\ UNCHANGED down
  /\ UNCHANGED <<accepted, req, up>> /\ TaskStep

\* To a puppet that has gone, a unix socket reports a broken pipe and the task
\* accepts again; TCP may also take the message.
answer ==
  /\ server = "handling"
  /\ ~Locked
  /\ IF accepted \notin gone
     THEN /\ down' = [down EXCEPT ![accepted] = Append(@, <<req[1], handle_request(req[2])>>)]
          /\ server' = "serving"
     ELSE /\ server' \in {"listening"} \cup (IF transport = "tcp" THEN {"serving"} ELSE {})
          /\ UNCHANGED down
  /\ UNCHANGED <<accepted, req, up>> /\ TaskStep

\* The end of the connection.  unix: a datagram of zero bytes does not parse,
\* the error sent back meets a broken pipe and the task accepts again; after a
\* reset, recv fails and the task panics.  TCP: the task panics.
end_of_stream ==
  /\ server = "serving"
  /\ accepted \in gone
  /\ up[accepted] = <<>> \/ accepted \in reset
  /\ server' = IF transport = "unix" /\ accepted \notin reset THEN "listening" ELSE "panicked"
  /\ UNCHANGED <<accepted, req, wire>> /\ TaskStep

command_MutantOuter ==
  /\ server = "listening"
  /\ \/ job = "stopping" /\ server' = "ended"
     \/ job = "dropped" /\ server' = "panicked"
  /\ UNCHANGED <<accepted, req, wire>> /\ TaskStep

\* Shutdown, or the end of the command channel, seen between messages.
command ==
  /\ server \in {"listening", "serving"}
  /\ \/ job = "stopping" /\ server' = "ended"
     \/ job = "dropped" /\ server' = "panicked"
  /\ UNCHANGED <<accepted, req, wire>> /\ TaskStep

-----------------------------------------------------------------------------
(* The puppet's main task.                                                 *)

\* Connecting fails once the listener is closed, and the process ends.
start ==
  /\ pc = "exited"
  /\ epoch < MaxStarts
  /\ ~ServerGone
  /\ epoch' = epoch + 1
  /\ pc' = "begin"
  /\ id' = 0 /\ table' = <<>> /\ notified' = FALSE
  /\ client' = "running" /\ cmd' = <<>>
  /\ UNCHANGED <<runner, task, wire, gone, reset, kind>>

\* The process ends, and with it both tasks and the connection.
Exit ==
  /\ pc' = "exited"
  /\ gone' = gone \cup {epoch}
  /\ reset' = IF down[epoch] = <<>> THEN reset ELSE reset \cup {epoch}
  /\ client' = "none" /\ cmd' = <<>>
  /\ UNCHANGED <<runner, task, wire, epoch, asking>>

\* A signal before CTRL+C is handled, or a panic elsewhere.
dies == pc # "exited" /\ Exit

\* TCP: the target loses power.  Nothing tells the server, whose stream goes on.
loses_power ==
  /\ transport = "tcp"
  /\ pc # "exited"
  /\ pc' = "exited"
  /\ client' = "none" /\ cmd' = <<>>
  /\ UNCHANGED <<runner, task, wire, ends, asking>>

\* Connections of puppets that lost power.
Dead == {c \in 1..epoch : c \notin gone /\ (c < epoch \/ pc = "exited")}

\* The server's kernel may give a dead stream up, if it has something to resend.
stream_fails ==
  /\ \E c \in Dead : gone' = gone \cup {c}
  /\ UNCHANGED <<runner, task, wire, reset, epoch, pc, asking, client, cmd>>

\* Whether keys and configuration are asked for depends on the arguments.
request(k) ==
  /\ pc \in IF k = "ssh_keys" THEN {"begin"} ELSE {"begin", "keyed"}
  /\ kind' = k
  /\ table' = [i \in DOMAIN table \cup {id} |-> IF i = id THEN "none" ELSE table[i]]
  /\ pc' = "send"
  /\ UNCHANGED <<runner, task, wire, ends, id, notified, client, cmd>>

\* unix: into the socket; TCP: into the command channel.
Send(m) ==
  IF transport = "unix"
  THEN /\ up' = [up EXCEPT ![epoch] = Append(@, m)]
       /\ UNCHANGED cmd
  ELSE /\ cmd = <<>>
       /\ cmd' = <<m>>
       /\ UNCHANGED up
SendFails == IF transport = "unix" THEN ServerGone ELSE client # "running"

send ==
  /\ pc = "send"
  /\ ~SendFails
  /\ Send(<<id, kind>>)
  /\ pc' = "check"
  /\ UNCHANGED <<runner, task, down, ends, asking, client>>

\* The future is created after the lock is released: an answer may come first.
check_MutantLate ==
  /\ pc = "check"
  /\ table[id] = "none"
  /\ pc' = "wait"
  /\ notified' = FALSE
  /\ \/ UNCHANGED <<table, down>>
     \/ /\ down[epoch] # <<>>
        /\ table' = [table EXCEPT ![id] = Head(down[epoch])[2]]
        /\ down' = [down EXCEPT ![epoch] = Tail(@)]
  /\ UNCHANGED <<runner, task, up, ends, id, kind, client, cmd>>

\* Not answered yet: the future is created under the lock, awaited without.
check ==
  /\ pc = "check"
  /\ table[id] = "none"
  /\ pc' = "wait"
  /\ notified' = FALSE
  /\ UNCHANGED <<runner, task, wire, ends, id, kind, table, client, cmd>>

wake ==
  /\ pc = "wait"
  /\ notified
  /\ pc' = "check"
  /\ UNCHANGED <<runner, task, wire, ends, asking, client, cmd>>

Fits(r) == r \in IF kind = "ssh_keys" THEN {"keys", "no_keys"} ELSE {"config"}

\* The answer is taken out of the table: the keys are written, the network
\* script is run.
answered ==
  /\ pc = "check"
  /\ Fits(table[id])
  /\ pc' = IF kind = "ssh_keys" THEN "keyed" ELSE "configured"
  /\ table' = [i \in DOMAIN table \ {id} |-> table[i]]
  /\ id' = id + 1
  /\ UNCHANGED <<runner, task, wire, ends, kind, notified, client, cmd>>

\* Any other answer, and a message that cannot be sent, panics.
panics ==
  /\ \/ pc = "check" /\ table[id] # "none" /\ ~Fits(table[id])
     \/ pc \in {"send", "begin", "keyed", "configured"} /\ SendFails
  /\ Exit

report_ready ==
  /\ pc \in {"begin", "keyed", "configured"}
  /\ ~SendFails
  /\ Send(<<0, "ready">>)
  /\ pc' = "ctrl_c"
  /\ UNCHANGED <<runner, task, down, ends, asking, client>>

ctrl_c ==
  /\ pc = "ctrl_c"
  /\ pc' = "shutdown"
  /\ UNCHANGED <<runner, task, wire, ends, asking, client, cmd>>

\* Joins without asking.
shutdown_MutantSilent ==
  /\ pc = "shutdown"
  /\ pc' = "join"
  /\ UNCHANGED <<runner, task, wire, ends, asking, client, cmd>>

shutdown ==
  /\ pc = "shutdown"
  /\ client = "running"
  /\ cmd = <<>>
  /\ cmd' = <<"Shutdown">>
  /\ pc' = "join"
  /\ UNCHANGED <<runner, task, wire, ends, asking, client>>

\* The client task has ended; a panic of it is unwrapped.
join == pc \in {"shutdown", "join"} /\ client # "running" /\ Exit

-----------------------------------------------------------------------------
(* The puppet's client task.                                               *)

\* An answer to no open request is logged; notify_waiters wakes the future
\* that exists.
client_receive ==
  /\ client = "running"
  /\ down[epoch] # <<>>
  /\ down' = [down EXCEPT ![epoch] = Tail(@)]
  /\ LET m == Head(down[epoch]) IN
       IF m[1] \in DOMAIN table
       THEN /\ table' = [table EXCEPT ![m[1]] = m[2]]
            /\ notified' = (notified \/ pc = "wait")
       ELSE UNCHANGED <<table, notified>>
  /\ UNCHANGED <<runner, task, up, ends, pc, id, kind, client, cmd>>

\* unix: the zero bytes do not parse and the task panics.  TCP: the end of the
\* stream is logged again and again.
client_end_of_stream ==
  /\ transport = "unix"
  /\ client = "running"
  /\ down[epoch] = <<>>
  /\ ServerGone
  /\ client' = "panicked"
  /\ UNCHANGED <<runner, task, wire, ends, pc, asking, cmd>>

\* TCP: SendMessage, lost if the server has gone.
client_send ==
  /\ client = "running"
  /\ cmd # <<>> /\ cmd # <<"Shutdown">>
  /\ cmd' = <<>>
  /\ up' = IF ServerGone THEN up ELSE [up EXCEPT ![epoch] = Append(@, Head(cmd))]
  /\ UNCHANGED <<runner, task, down, ends, pc, asking, client>>

client_shutdown ==
  /\ client = "running"
  /\ cmd = <<"Shutdown">>
  /\ cmd' = <<>>
  /\ client' = "ended"
  /\ UNCHANGED <<runner, task, wire, ends, pc, asking>>

-----------------------------------------------------------------------------

serves  == accept \/ receive \/ end_of_stream \/ command
runs    == send \/ check \/ wake \/ answered \/ panics \/ shutdown \/ join
decides == (\E k \in Kinds : request(k)) \/ report_ready
clients == client_receive \/ client_end_of_stream \/ client_send \/ client_shutdown

Next ==
  \/ job_ready \/ job_stop \/ job_drop \/ job_join
  \/ serves \/ answer
  \/ start \/ dies \/ loses_power \/ stream_fails \/ ctrl_c
  \/ decides \/ runs
  \/ clients

Spec == Init /\ [][Next]_vars

\* Every task that can proceed is polled, and start_job ends.  Nothing obliges
\* the runner to stop the job, the puppet to start, to die or to be interrupted,
\* or a dead stream to fail.  Shutdown is seen although messages keep coming: select polls
\* its branches in random order.
Fairness ==
  /\ WF_vars(job_ready) /\ WF_vars(job_join)
  /\ WF_vars(serves) /\ SF_vars(command) /\ WF_vars(answer)
  /\ WF_vars(decides) /\ WF_vars(runs)
  /\ WF_vars(clients)

FairSpec == Spec /\ Fairness

-----------------------------------------------------------------------------
(* Properties.                                                             *)

\* No lost wake-up: while the main task of the puppet sleeps on an answer that
\* is in the table, its future has been notified.  (request creates the future
\* before it releases the lock under which the client task stores answers.)
NoLostWakeup == pc = "wait" /\ table[id] # "none" => notified

\* An answer in the table is one to the question that was asked, by this
\* process: ids begin at 0 in every puppet, so an answer the runner owed a
\* puppet that died must never reach the next one.
AnswersMatch ==
  pc \in {"send", "check", "wait"} /\ table[id] # "none"
    => table[id] \in IF kind = "ssh_keys" THEN {"keys", "no_keys"} ELSE {"config", "not_found"}

\* stop_job waits for a task that waits for the mutex stop_job holds.
Stuck == job = "stopping" /\ server = "handling"

\* The server serves the stream of a puppet that lost power, and no other: the
\* loop around accept is entered again only when that stream fails.
ServesDead == server = "serving" /\ accepted \in Dead

\* Whatever was started, died and asked before: a request returns, or the
\* control socket goes away, or it serves a stream that lost its puppet.
RequestReturns ==
  pc \in {"send", "check", "wait"}
    ~> (pc \notin {"send", "check", "wait"} \/ ServerGone \/ Stuck \/ ServesDead)

\* The control socket's shutdown returns, whatever the puppet does, except in
\* the deadlock with a request.
ShutdownEnds == job = "stopping" ~> (job # "stopping" \/ Stuck)

\* After CTRL+C the puppet ends, also when the runner has gone and when its
\* last message still fills the command channel.
PuppetEnds == pc = "shutdown" ~> pc = "exited"

=============================================================================
