---------------------------- MODULE BoardServer ----------------------------
(***************************************************************************)
(* The coordinator's server for one board (Treadmill.Board.Server), the    *)
(* jobs table it schedules from, and the processes that talk to it: the    *)
(* request handlers that create and terminate jobs, the SSE handlers that  *)
(* hold runner connections, and the runner posting job states.             *)
(*                                                                         *)
(* A GenServer handles one message at a time, so each handler is one       *)
(* action that consumes one message.  Erlang orders signals only between   *)
(* a pair of processes and every message here has its own sender, so the   *)
(* mailbox is a set.  An exception in a handler ends the server: its       *)
(* memory, its registry entries and its mailbox are lost, the jobs table   *)
(* is not.                                                                 *)
(***************************************************************************)
EXTENDS Naturals, Integers, Sequences, FiniteSets

CONSTANTS
  Jobs,        \* jobs users may create for this board
  Conns,       \* SSE handler processes (an identity is reused once forgotten)
  Nil,         \* Elixir's nil, for a pid or a job
  StartTimes,  \* values of the "start" column, in whole seconds
  Five,        \* the 5 seconds of the timer and of the start timeout, in ticks
  MaxWire,     \* bound: users stop terminating when a connection holds this many messages
  MaxMail      \* bound: no new requests while the mailbox holds this many messages

ASSUME JobsAssumption == IsFiniteSet(Jobs) /\ Nil \notin Jobs
ASSUME ConnsAssumption == Nil \notin Conns
ASSUME TimesAssumption == StartTimes \subseteq Nat /\ Five \in Nat \ {0}
ASSUME BoundsAssumption == MaxWire \in Nat /\ MaxMail \in Nat

VARIABLES
  \* The jobs table (job.ex).
  web,           \* web[j]: "absent"; "inserted" (row committed); "notified" (jobs_updated done)
  start,         \* column start
  dispatched,    \* the jobs whose column dispatched is true
  completion,    \* column completion_code
  \* The board server.
  up,            \* a server process is registered for the board
  exit,          \* why the last server ended; "none" while one runs
  runner_pid,    \* the connection the server sends to, or Nil
  coord_state,   \* active_jobs: "absent" for a job that is not a key
  waited,        \* waited[j]: ticks j has been in wait_for_start, saturating
  timer,         \* NoTimer, 0 (expired) or the ticks left
  registered,    \* the server's keys in Treadmill.Job.BoardRegistry
  mailbox,       \* messages sent to the server and not yet handled
  \* The SSE handlers and the runner at the other end.
  conn,          \* conn[c]: the stage of handler c
  wire,          \* wire[c]: runner messages sent through c, not yet received
  reported,      \* reported[j]: how far the runner has got with a registered j
  \* History, read by no action.
  starts         \* starts[j]: how often start_job was sent for j

db     == <<web, start, dispatched, completion>>
server == <<up, exit, runner_pid, coord_state, waited, timer, registered>>
ends   == <<conn, wire, reported>>
vars   == <<web, start, dispatched, completion, up, exit, runner_pid, coord_state,
            waited, timer, registered, mailbox, conn, wire, reported, starts>>

-----------------------------------------------------------------------------
(* Values.                                                                 *)

max_jobs    == 1
NoTimer     == -1
Saturated   == Five + 1
Codes       == {"server_crashed", "runner_timeout", "finished", "failed"}
CoordStates == {"wait_for_start", "starting", "ready", "stopping"}
JobReports  == {"starting", "ready", "stopping", "finished", "failed"}
Exits       == {"none", "raised", "schedule_send", "terminate_send", "function_clause", "case_clause", "match_error"}

Connect(c)   == [type |-> "connect_runner", conn |-> c]
Down(c)      == [type |-> "DOWN", conn |-> c]
Update(j, s) == [type |-> "update_job_state", job |-> j, state |-> s]
Terminate(j) == [type |-> "terminate_job", job |-> j]
Schedule(j)  == [type |-> "schedule_jobs", job |-> j]   \* the cast made for new job j
TimerMsg     == [type |-> "runner_supervisor_timer"]

Messages ==
  {Connect(c) : c \in Conns} \cup {Down(c) : c \in Conns}
    \cup {Update(j, s) : j \in Jobs, s \in JobReports}
    \cup {Terminate(j) : j \in Jobs} \cup {Schedule(j) : j \in Jobs} \cup {TimerMsg}

RunnerMsgs == [type : {"start_job", "stop_job"}, job : Jobs]

TypeOK ==
  /\ web \in [Jobs -> {"absent", "inserted", "notified"}]
  /\ start \in [Jobs -> Nat]
  /\ dispatched \subseteq Jobs
  /\ completion \in [Jobs -> Codes \cup {"nil"}]
  /\ up \in BOOLEAN
  /\ exit \in Exits
  /\ runner_pid \in Conns \cup {Nil}
  /\ coord_state \in [Jobs -> CoordStates \cup {"absent"}]
  /\ timer \in NoTimer..Five
  /\ registered \subseteq Jobs
  /\ mailbox \subseteq Messages
  /\ conn \in [Conns -> {"closed", "starting", "relookup", "calling", "streaming", "orphan"}]
  /\ wire \in [Conns -> Seq(RunnerMsgs)]
  /\ reported \in [Jobs -> {"unknown", "told"} \cup JobReports]
  /\ starts \in [Jobs -> Nat]
  /\ waited \in [Jobs -> 0..Saturated]

Init ==
  /\ web = [j \in Jobs |-> "absent"]
  /\ start = [j \in Jobs |-> 0]
  /\ dispatched = {}
  /\ completion = [j \in Jobs |-> "nil"]
  /\ up = FALSE
  /\ exit = "none"
  /\ runner_pid = Nil
  /\ coord_state = [j \in Jobs |-> "absent"]
  /\ timer = NoTimer
  /\ registered = {}
  /\ mailbox = {}
  /\ conn = [c \in Conns |-> "closed"]
  /\ wire = [c \in Conns |-> <<>>]
  /\ reported = [j \in Jobs |-> "unknown"]
  /\ starts = [j \in Jobs |-> 0]
  /\ waited = [j \in Jobs |-> 0]

-----------------------------------------------------------------------------
(* The private functions of the server.  A definition whose name ends in   *)
(* "_Mutant..." is a wrong version of the next one; only the mutation      *)
(* checks listed in PROJECT.json use it.                                   *)

\* The keys of an active_jobs map.
Keys(jobs) == {j \in Jobs : jobs[j] # "absent"}

PendingRows_MutantLatest(comp) ==
  LET rows == {j \in Jobs : web[j] # "absent" /\ comp[j] = "nil" /\ j \notin dispatched}
  IN  {j \in rows : \A k \in rows : start[j] >= start[k]}

\* Job.pending_jobs(limit: 1), before its filter: the rows the query may
\* return first, given completion codes comp.
PendingRows(comp) ==
  LET rows == {j \in Jobs : web[j] # "absent" /\ comp[j] = "nil" /\ j \notin dispatched}
  IN  {j \in rows : \A k \in rows : start[j] <= start[k]}

\* Counts the active jobs of the state before the handler's own update.
NextJob_MutantStale(jobs, reg, comp) ==
  IF Cardinality(Keys(coord_state)) < max_jobs /\ PendingRows(comp) # {}
  THEN {IF j \in reg THEN Nil ELSE j : j \in PendingRows(comp)}
  ELSE {Nil}

\* The jobs schedule_jobs may pick when active_jobs is jobs and the server
\* holds the registry keys reg; Nil: it dispatches nothing.  Jobs that are
\* registered are filtered out after the query's limit was applied.
NextJob(jobs, reg, comp) ==
  IF Cardinality(Keys(jobs)) < max_jobs /\ PendingRows(comp) # {}
  THEN {IF j \in reg THEN Nil ELSE j : j \in PendingRows(comp)}
  ELSE {Nil}

Armed_MutantOnce == IF timer = NoTimer THEN Five ELSE timer

\* arm_runner_supervisor_timer: the timer reference after the call.
Armed == IF timer = NoTimer \/ timer = 0 THEN Five ELSE timer

\* The age of the timestamp in {:wait_for_start, t}.  The struct's default
\* DateTime.utc_now() is evaluated when the module is compiled, which is more
\* than five seconds before any job is dispatched.
Age(j) == Saturated + waited[j]

\* complete_jobs: the completion codes once the jobs in S completed with code.
complete_jobs(S, code) == [j \in Jobs |-> IF j \in S THEN code ELSE completion[j]]

Without_MutantKept(S) == coord_state

\* complete_jobs: active_jobs once the keys S were popped.
Without(S) == [j \in Jobs |-> IF j \in S THEN "absent" ELSE coord_state[j]]

\* send/2 to a connection process: a dead process swallows the message.
SentTo(c, type, j) ==
  IF conn[c] = "closed" THEN wire
  ELSE [wire EXCEPT ![c] = Append(@, [type |-> type, job |-> j])]

\* The server goes on with the given state.
Continue(pid, jobs, reg, tm) ==
  /\ up' = TRUE
  /\ exit' = "none"
  /\ runner_pid' = pid
  /\ coord_state' = jobs
  /\ registered' = reg
  /\ timer' = tm
  /\ waited' = [j \in Jobs |-> IF jobs[j] = "wait_for_start" THEN waited[j] ELSE 0]
  /\ reported' = [j \in Jobs |-> IF j \in reg THEN reported[j] ELSE "unknown"]

\* The server process ends; monitors, registry keys and timers go with it.
Die(reason) ==
  /\ up' = FALSE
  /\ exit' = reason
  /\ runner_pid' = Nil
  /\ coord_state' = [j \in Jobs |-> "absent"]
  /\ registered' = {}
  /\ timer' = NoTimer
  /\ waited' = [j \in Jobs |-> 0]
  /\ reported' = [j \in Jobs |-> "unknown"]

\* What the end of the server does to the SSE handlers: a GenServer.call in
\* flight exits, a streaming handler gets DOWN for the board server.
Bereaved(c) == CASE conn[c] = "calling" -> "closed"
                 [] conn[c] = "streaming" -> "orphan"
                 [] OTHER -> conn[c]

\* Message m leaves the mailbox, messages new enter it and handler c, if
\* any, moves to stage; everything is lost if the handler ended the server.
Handled(m, new, c, stage) ==
  /\ mailbox' = IF up' THEN (mailbox \ {m}) \cup new ELSE {}
  /\ conn' = IF up' THEN [x \in Conns |-> IF x = c THEN stage ELSE conn[x]]
             ELSE [x \in Conns |-> Bereaved(x)]

Marked_MutantForgotten(p) == dispatched

\* The row of the accepted job p is marked as dispatched.
Marked(p) == dispatched \cup {p}

\* schedule_jobs(%{state | runner_pid: pid, active_jobs: jobs}), with registry
\* keys reg and completion codes comp.  The key is registered and the row is
\* marked before the send, which raises when pid is nil.  With max_jobs = 1
\* the tail call finds the board full.
schedule_jobs(pid, jobs, reg, comp) ==
  \E p \in NextJob(jobs, reg, comp) :
    IF p = Nil THEN
      /\ Continue(pid, jobs, reg, timer)
      /\ UNCHANGED <<dispatched, wire, starts>>
    ELSE
      /\ dispatched' = Marked(p)
      /\ IF pid = Nil THEN
           /\ Die("schedule_send")
           /\ UNCHANGED <<wire, starts>>
         ELSE
           /\ Continue(pid, [jobs EXCEPT ![p] = "wait_for_start"], reg \cup {p}, Armed)
           /\ wire' = SentTo(pid, "start_job", p)
           /\ starts' = [starts EXCEPT ![p] = @ + 1]

-----------------------------------------------------------------------------
(* The handlers.                                                           *)

\* handle_call({:connect_runner, ...}) from SSE handler c, which may be dead
\* by now: the monitor then delivers DOWN at once.
connect_runner(c) ==
  /\ up
  /\ Connect(c) \in mailbox
  /\ schedule_jobs(c, coord_state, registered, completion)
  /\ IF conn[c] = "calling" THEN Handled(Connect(c), {}, c, "streaming")
                            ELSE Handled(Connect(c), {Down(c)}, c, conn[c])
  /\ UNCHANGED <<web, start, completion>>

act_MutantRepeat(cs, s) ==
  CASE s \in {"stopping", "finished", "failed"} -> s
    [] s = "starting" /\ cs = "wait_for_start" -> "starting"
    [] s = "starting" /\ cs = "starting" -> "ready"
    [] s = "ready" /\ cs \in {"wait_for_start", "starting", "ready"} -> "ready"
    [] OTHER -> "no_clause"

\* The case on {coord_state, new_runner_state.state}: the next coord_state,
\* the completion code of a removal, or "no_clause".
act(cs, s) ==
  CASE s \in {"stopping", "finished", "failed"} -> s
    [] s = "starting" /\ cs \in {"wait_for_start", "starting"} -> "starting"
    [] s = "ready" /\ cs \in {"wait_for_start", "starting", "ready"} -> "ready"
    [] OTHER -> "no_clause"

\* handle_call({:update_job_state, j, s})
update_job_state(j, s) ==
  LET a    == act(coord_state[j], s)
      gone == IF a \in {"finished", "failed"} THEN {j} ELSE {}
      jobs == IF gone = {} THEN [coord_state EXCEPT ![j] = a] ELSE Without(gone)
      comp == complete_jobs(gone, a)
  IN  /\ up
      /\ Update(j, s) \in mailbox
      /\ IF coord_state[j] = "absent" \* reply {:error, :job_not_active}
         THEN /\ Continue(runner_pid, coord_state, registered, timer)
              /\ UNCHANGED <<completion, dispatched, wire, starts>>
         ELSE IF a = "no_clause"
         THEN /\ Die("case_clause")
              /\ UNCHANGED <<completion, dispatched, wire, starts>>
         ELSE /\ completion' = comp
              /\ schedule_jobs(runner_pid, jobs, registered \ gone, comp)
      /\ Handled(Update(j, s), {}, Nil, "closed")
      /\ UNCHANGED <<web, start>>

\* handle_call({:terminate_job, j}): neither j nor the connection is checked.
terminate_job(j) ==
  /\ up
  /\ Terminate(j) \in mailbox
  /\ IF runner_pid = Nil
     THEN Die("terminate_send") /\ UNCHANGED wire
     ELSE /\ Continue(runner_pid, coord_state, registered, timer)
          /\ wire' = SentTo(runner_pid, "stop_job", j)
  /\ Handled(Terminate(j), {}, Nil, "closed")
  /\ UNCHANGED <<db, starts>>

\* handle_cast(:schedule_jobs), sent when job j was created.
cast_schedule_jobs(j) ==
  /\ up
  /\ Schedule(j) \in mailbox
  /\ schedule_jobs(runner_pid, coord_state, registered, completion)
  /\ Handled(Schedule(j), {}, Nil, "closed")
  /\ UNCHANGED <<web, start, completion>>

runner_down_MutantKeepsJobs(c) ==
  /\ up
  /\ Down(c) \in mailbox
  /\ IF c = runner_pid
     THEN Continue(Nil, coord_state, registered, timer)
     ELSE Die("function_clause")
  /\ Handled(Down(c), {}, Nil, "closed")
  /\ UNCHANGED <<web, start, dispatched, completion, wire, starts>>

\* handle_info({:DOWN, ...}): the only clause matches the current runner_pid.
runner_down(c) ==
  /\ up
  /\ Down(c) \in mailbox
  /\ IF c = runner_pid
     THEN /\ completion' = complete_jobs(Keys(coord_state), "failed")
          /\ Continue(Nil, Without(Keys(coord_state)), registered \ Keys(coord_state), timer)
     ELSE Die("function_clause") /\ UNCHANGED completion
  /\ Handled(Down(c), {}, Nil, "closed")
  /\ UNCHANGED <<web, start, dispatched, wire, starts>>

\* The jobs supervise_runners looks at, and those of them for which
\* t + 5 s < now.
Waiting == {j \in Jobs : coord_state[j] = "wait_for_start"}
Late    == {j \in Waiting : Five < Age(j)}

\* handle_info(:runner_supervisor_timer): supervise_runners, then
\* arm_runner_supervisor_timer.  The test is written "if :lt = compare(...)",
\* a match that raises for a job that is not late.
runner_supervisor_timer ==
  /\ up
  /\ TimerMsg \in mailbox
  /\ IF Waiting = Late
     THEN /\ completion' = complete_jobs(Late, "runner_timeout")
          /\ Continue(runner_pid, Without(Late), registered \ Late, Armed)
     ELSE Die("match_error") /\ UNCHANGED completion
  /\ Handled(TimerMsg, {}, Nil, "closed")
  /\ UNCHANGED <<web, start, dispatched, wire, starts>>

\* A database call of the handler of m raises, after any prefix of the
\* handler's writes.
Completes(m) ==
  CASE m.type = "update_job_state" ->
         IF coord_state[m.job] # "absent" /\ m.state \in {"finished", "failed"} THEN {m.job} ELSE {}
    [] m.type = "DOWN" -> IF m.conn = runner_pid THEN Keys(coord_state) ELSE {}
    [] m.type = "runner_supervisor_timer" -> Late
    [] OTHER -> {}

CodeOf(m) ==
  CASE m.type = "update_job_state" -> m.state
    [] m.type = "DOWN" -> "failed"
    [] OTHER -> "runner_timeout"

Schedules(m) ==
  \/ m.type \in {"connect_runner", "schedule_jobs"}
  \/ m.type = "update_job_state" /\ coord_state[m.job] # "absent"

raises(m) ==
  LET S    == Completes(m)
      comp == complete_jobs(S, CodeOf(m))
      next == IF Schedules(m) THEN NextJob(Without(S), registered \ S, comp) ELSE {Nil}
  IN  /\ up
      /\ m \in mailbox
      /\ m.type # "terminate_job"
      /\ Die("raised")
      /\ Handled(m, {}, Nil, "closed")
      /\ \/ UNCHANGED <<completion, dispatched>>
         \/ /\ completion' = comp
            /\ \E p \in next \cup {Nil} : dispatched' = dispatched \cup ({p} \ {Nil})
      /\ UNCHANGED <<web, start, wire, starts>>

-----------------------------------------------------------------------------
(* Request handlers: jobs are created and terminated.                      *)

\* The bound on requests: runners and users wait while the mailbox is full.
Room == Cardinality(mailbox) < MaxMail

\* Job.instant_job: insert!.  The start time was read before the row is
\* committed and is cut to seconds, so rows may tie or appear out of order.
insert_job(j) ==
  /\ web[j] = "absent"
  /\ web' = [web EXCEPT ![j] = "inserted"]
  /\ \E t \in StartTimes : start' = [start EXCEPT ![j] = t]
  /\ UNCHANGED <<dispatched, completion, server, mailbox, ends, starts>>

\* Board.jobs_updated: a cast to the server, if one is registered.
jobs_updated(j) ==
  /\ web[j] = "inserted"
  /\ Room
  /\ web' = [web EXCEPT ![j] = "notified"]
  /\ mailbox' = IF up THEN mailbox \cup {Schedule(j)} ELSE mailbox
  /\ UNCHANGED <<start, dispatched, completion, server, ends, starts>>

\* Job.terminate_job: the registry lookup, then the call.
request_terminate(j) ==
  /\ j \in registered
  /\ Terminate(j) \notin mailbox
  /\ Room
  /\ \A c \in Conns : Len(wire[c]) < MaxWire
  /\ mailbox' = mailbox \cup {Terminate(j)}
  /\ UNCHANGED <<db, server, ends, starts>>

-----------------------------------------------------------------------------
(* SSE handlers: sse_conn, connect_runner's client side, get_or_start.     *)

\* No message of an earlier process with identity c is left.
Forgotten(c) == c # runner_pid /\ Connect(c) \notin mailbox /\ Down(c) \notin mailbox

\* A runner opens a connection: get_or_start looks the server up and either
\* calls it or goes on to start one.
open_conn(c) ==
  /\ conn[c] = "closed"
  /\ Forgotten(c)
  /\ Room
  /\ conn' = [conn EXCEPT ![c] = IF up THEN "calling" ELSE "starting"]
  /\ mailbox' = IF up THEN mailbox \cup {Connect(c)} ELSE mailbox
  /\ UNCHANGED <<db, server, wire, reported, starts>>

CrashedJobs_MutantNone == {}

\* The rows init finds dispatched and not completed.
CrashedJobs == {j \in dispatched : completion[j] = "nil"}

\* GenServer.start and the server's init: when another process registered
\* first it returns :ignore; else jobs dispatched by an earlier server and
\* not completed become :server_crashed, unless the database fails and with it
\* the new server.  Registration and sweep are one step: a message that comes
\* between the two waits until init has returned (BoardPage has them apart).
start_server(c) ==
  /\ conn[c] = "starting"
  /\ conn' = [conn EXCEPT ![c] = "relookup"]
  /\ \/ UNCHANGED <<up, exit, completion>>
     \/ /\ ~up
        /\ up' = TRUE
        /\ exit' = "none"
        /\ completion' = complete_jobs(CrashedJobs, "server_crashed")
  /\ UNCHANGED <<web, start, dispatched, runner_pid, coord_state, waited, timer, registered,
                 mailbox, wire, reported, starts>>

\* The second lookup of get_or_start: a MatchError if there is no server.
relookup(c) ==
  /\ conn[c] = "relookup"
  /\ conn' = [conn EXCEPT ![c] = IF up THEN "calling" ELSE "closed"]
  /\ mailbox' = IF up THEN mailbox \cup {Connect(c)} ELSE mailbox
  /\ UNCHANGED <<db, server, wire, reported, starts>>

\* The handler process of c ends: the client or the network went away, or
\* the call timed out.  The server that monitors it receives DOWN; a call
\* already sent stays in the mailbox.
close_conn(c) ==
  /\ conn[c] # "closed"
  /\ conn' = [conn EXCEPT ![c] = "closed"]
  /\ wire' = [wire EXCEPT ![c] = <<>>]
  /\ mailbox' = IF conn[c] = "streaming" THEN mailbox \cup {Down(c)} ELSE mailbox
  /\ UNCHANGED <<db, server, reported, starts>>

\* sse_loop of an orphan has written what the server had sent, then the
\* close event.
close_orphan(c) ==
  /\ conn[c] = "orphan"
  /\ wire[c] = <<>>
  /\ conn' = [conn EXCEPT ![c] = "closed"]
  /\ UNCHANGED <<db, server, mailbox, wire, reported, starts>>

-----------------------------------------------------------------------------
(* The runner, as far as its reports are ordered (sse-connector,           *)
(* nspawn-runner, netboot-runner).                                         *)

\* sse_loop forwards the next message and the runner receives it.
receive(c) ==
  /\ wire[c] # <<>>
  /\ wire' = [wire EXCEPT ![c] = Tail(@)]
  /\ LET j == Head(wire[c]).job
     IN  reported' = [reported EXCEPT ![j] = IF @ = "unknown" /\ j \in registered THEN "told" ELSE @]
  /\ UNCHANGED <<db, server, mailbox, conn, starts>>

\* Before it posts s, the runner has got this far with the job.  A stop_job
\* that finds the job gone posts failed at any time.
Precedes(s) ==
  CASE s = "starting" -> {"told", "starting"}
    [] s = "ready"    -> {"told", "starting", "ready"}
    [] s = "stopping" -> {"told", "starting", "ready", "stopping"}
    [] s = "finished" -> {"stopping", "failed"}
    [] s = "failed"   -> {"told"} \cup JobReports

\* post_job_state, received by Job.update_job_state: a registry lookup, then
\* the call.  Posts of one job are awaited one after the other, except a
\* failed post by another task of the runner.  A post for a job that is not
\* registered is answered {:error, :job_not_found} and changes nothing; a job
\* is registered at most once, so such posts are left out.
post_job_state(j, s) ==
  /\ j \in registered
  /\ Room
  /\ reported[j] \in Precedes(s)
  /\ s # "failed" => \A t \in JobReports \ {"failed"} : Update(j, t) \notin mailbox
  /\ reported' = [reported EXCEPT ![j] = IF @ = "finished" THEN @ ELSE s]
  /\ mailbox' = mailbox \cup {Update(j, s)}
  /\ UNCHANGED <<db, server, conn, wire, starts>>

-----------------------------------------------------------------------------
(* Time.                                                                   *)

\* One tick: the timer counts down and sends its message when it expires.
tick ==
  /\ up
  /\ timer > 0 \/ \E j \in Waiting : waited[j] < Saturated
  /\ timer' = IF timer > 0 THEN timer - 1 ELSE timer
  /\ mailbox' = IF timer = 1 THEN mailbox \cup {TimerMsg} ELSE mailbox
  /\ waited' = [j \in Jobs |-> IF j \in Waiting /\ waited[j] < Saturated THEN waited[j] + 1 ELSE waited[j]]
  /\ UNCHANGED <<db, up, exit, runner_pid, coord_state, registered, ends, starts>>

-----------------------------------------------------------------------------

Handle ==
  \/ \E c \in Conns : connect_runner(c) \/ runner_down(c)
  \/ \E j \in Jobs : cast_schedule_jobs(j) \/ terminate_job(j)
  \/ \E j \in Jobs, s \in JobReports : update_job_state(j, s)
  \/ runner_supervisor_timer

Environment ==
  \/ \E j \in Jobs : insert_job(j) \/ jobs_updated(j) \/ request_terminate(j)
  \/ \E c \in Conns : open_conn(c) \/ start_server(c) \/ relookup(c)
                        \/ close_conn(c) \/ close_orphan(c) \/ receive(c)
  \/ \E j \in Jobs, s \in JobReports : post_job_state(j, s)
  \/ \E m \in mailbox : raises(m)
  \/ tick

Next == Handle \/ Environment

Spec == Init /\ [][Next]_vars

\* The BEAM schedules every runnable process, a GenServer takes each message
\* in its turn, time passes, and a request handler that inserted a job goes
\* on to announce it.  Users, runners, connections and faults are not fair.
Fairness ==
  /\ \A c \in Conns : WF_vars(connect_runner(c)) /\ WF_vars(runner_down(c))
  /\ \A j \in Jobs : WF_vars(cast_schedule_jobs(j)) /\ WF_vars(terminate_job(j))
  /\ \A j \in Jobs, s \in JobReports : WF_vars(update_job_state(j, s))
  /\ WF_vars(runner_supervisor_timer)
  /\ WF_vars(tick)
  /\ \A j \in Jobs : WF_vars(jobs_updated(j))
  /\ \A c \in Conns : WF_vars(start_server(c)) /\ WF_vars(relookup(c)) /\ WF_vars(close_orphan(c))

FairSpec == Spec /\ Fairness

-----------------------------------------------------------------------------
(* Properties.                                                             *)

\* Jobs accepted for a runner and not completed, as the database sees it.
Running == {j \in dispatched : completion[j] = "nil"}

\* While a server is registered, its active_jobs, its keys in the job
\* registry and the dispatched, uncompleted rows are the same jobs: no job is
\* stuck as dispatched, and pages that look the registry up find the server.
ActiveConsistent == up => Keys(coord_state) = Running /\ registered = Running

\* At most max_jobs jobs are dispatched and uncompleted at any time, also
\* while no server runs and after the next one was started: init clears what
\* a crash left behind before schedule_jobs can hand out the slot again.
OneJobAtATime == Cardinality(Running) <= max_jobs

\* start_job is sent at most once for a job, whatever reconnects, timeouts
\* and server crashes happen: the dispatched flag is written before the send.
StartedAtMostOnce == \A j \in Jobs : starts[j] <= 1

\* Without a runner connection the server has no active job: runner_down
\* completes them all, and only a connected server dispatches.
NoRunnerNoJobs == runner_pid = Nil => Keys(coord_state) = {}

\* A connected server with a free slot and a pending job is about to schedule
\* it (the request handler still has to send its cast, or has sent it) unless
\* some job timed out: every other handler that frees the slot or
\* connects a runner schedules at its end.
WorkConserving ==
  /\ runner_pid # Nil
  /\ Keys(coord_state) = {}
  /\ PendingRows(completion) # {}
  => \/ \E j \in Jobs : web[j] = "inserted" \/ Schedule(j) \in mailbox
     \/ \E j \in Jobs : completion[j] = "runner_timeout"

\* Reports that arrive in the order a runner posts them never meet a missing
\* clause of update_job_state, though it has none for {:ready, :starting},
\* {{:stopping, _}, :starting} and {{:stopping, _}, :ready}.
ReportsHaveClause == exit # "case_clause"

\* A completion code, once written, is never changed or cleared, whatever
\* timeouts, late reports, disconnects and restarts follow.
CompletionFinal == [][\A j \in Jobs : completion[j] # "nil" => completion'[j] = completion[j]]_vars

\* A job the runner never answers for leaves wait_for_start: the supervisor
\* timer is armed whenever such a job exists.
StartIsResolved == \A j \in Jobs : coord_state[j] = "wait_for_start" ~> coord_state[j] # "wait_for_start"

\* The abstract status of the jobs, read off the jobs table.
JobStatus ==
  [j \in Jobs |-> IF web[j] = "absent" THEN "absent"
                  ELSE IF completion[j] # "nil" THEN "completed"
                  ELSE IF j \in dispatched THEN "dispatched" ELSE "pending"]

Lifecycle == INSTANCE JobLifecycle WITH code <- completion, status <- JobStatus

\* Every step of the server, of the request handlers and of a crash is a step
\* of JobLifecycle or leaves the jobs alone.
ImplementsLifecycle == Lifecycle!Spec

=============================================================================
