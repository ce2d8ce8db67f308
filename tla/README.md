# A TLA+ model of Treadmill

Treadmill (`src/`) lends boards, such as FPGA boards, to remote users. A
coordinator written in Elixir keeps the jobs and schedules them; a runner
written in Rust sits next to each board and executes them, in a container
(`nspawn-runner`) or on a network-booted host (`netboot-runner`); a puppet
inside the job's system talks to the runner; rendezvous proxies and servers
carry SSH into the job.

This directory models the parts of Treadmill that decide what happens to a job
and to the connections into it, checks them with TLC on small instances and
proves, with TLAPS, their safety for every number of jobs, connections, proxies,
clients and bytes: of the board server and that it implements the life of a job,
of both runners and that they keep the contract the coordinator relies on, of
the two joined by their connections, of the control sockets, the rendezvous
service and its tunnels, and of the live page of a board. Every safety property
that a run checks is also a theorem.

## 1. Inventory

| Component | State | Operations | Interacts with |
|---|---|---|---|
| Board server (`coordinator/lib/treadmill/board/`) | runner pid, active jobs with a coordinator state each, supervisor timer, keys in the job registry | `connect_runner`, `update_job_state`, `terminate_job`, `schedule_jobs`, `DOWN`, timer, `init` | jobs table, SSE handlers, request handlers, live views |
| Jobs (`job/job.ex`) | rows: start, dispatched, completion code | create, pending query, complete, look up the board server | web UI, board server |
| Runner API (`treadmill_web/api/runner_v0/`) | one process per SSE connection | open, forward events, end; state and console posts | runner's connector, board server |
| SSE connector (`sse-connector`) | connection, time of the last message | read event and await the handler, reconnect, post state, post console | runner API, runner |
| Nspawn runner (`nspawn-runner`) | `current_job` behind a mutex; child, streamer, control socket, proxies, mount of the job | `start_job`, `stop_job`, streamer loop, `ssh_keys`, `network_config` | connector, container, control socket, proxies |
| Control sockets (`unix-seqpacket-control-socket`, `tcp-control-socket`) | client, command channel, task | accept, request, shutdown and join | puppet, runner |
| Netboot runner (`netboot-runner`) | as the nspawn runner, with serial console and boot files | as the nspawn runner | connector, TCP control socket, proxies |
| Puppet (`puppet`) | request table, notification | request, receive, events | control socket |
| Rendezvous proxy (`rendezvous-proxy`) | public address, map of connection tasks | start, `public_addr`, listen, tunnel, shutdown | rendezvous server, SSH of the job |
| Rendezvous server (`rendezvous-server`) | port pool, clients, waiting connections | listen, accept, connect | proxies, users |
| Views (`web_ui/`) | a snapshot per page | mount, subscribe, update, job form | board server's notifications |
| Accounts, static data, images, assets | rows and files | - | - |

What is hard, and which properties answer it:

* *One message at a time is not one request at a time.* A GenServer handler is
  atomic, but the row of a job is inserted, the registry is read and the runner
  connects in other processes, before and after. What must hold is that memory,
  registry and table agree (`ActiveConsistent`), that the slot is given once
  (`OneJobAtATime`, `StartedAtMostOnce`) and not forgotten (`WorkConserving`).
* *The server may end in any handler* and is started again by the next request.
  `OneJobAtATime` and `CompletionFinal` speak about states without a server too.
* *Reports race timeouts, disconnects and terminations*: `ReportsHaveClause`,
  `ImplementsLifecycle`, `CompletionFinal`, `StartIsResolved`.
* *Coordinator and runner do not learn of a lost connection together*, and
  either may crash: `BelievedIsReal`, `FinishedIsFree`, `ImplementsBoard`,
  `ImplementsRunner`.
* *The runner's tasks share one mutex and join each other*: `OneJobRuns`,
  `UnmountedIsUnused`, `FinishedIsReleased`, `AnswersMatch`, `ImplementsRunner`,
  `CallReturns`, `ExitIsNoticed`.
* *Containers end, connections fail and tasks panic by themselves*, in the
  middle of `start_job` or `stop_job`: the same properties, with these steps in
  the next-state relation.
* *A waiter may miss the event it waits for* (the puppet's answers, the proxy's
  public address): `NoLostWakeup`, `RequestReturns`, `PuppetEnds`; and an answer
  owed to a puppet that died must not reach its successor: `AnswersMatch`.
* *One server hands out ports and stream ids to many proxies*, and an accepted
  stream changes hands three times: `TunnelsMatch`, `ClientIsServed`.
* *Shutting down races what is being started*: `ShutdownIsComplete`,
  `ShutdownReturns`, `ShutdownEnds`.
* *Half-duplex relays over bounded streams*: `UploadIntact`, `DownloadInOrder`,
  `UploadArrives`.
* *A page reads the jobs while they move*: `PageIsCurrent`, `NoJobVanishes`,
  `LogIsComplete`.

`PROJECT.json` lists each such place with its line and the properties for it.

## 2. Modules

| Module | Models | State and actions |
|---|---|---|
| `JobLifecycle` | what the coordinator promises about jobs | a status and a completion code per job; `Create`, `Dispatch` (earliest start first, into the one slot), `Complete`, `Handover` (a completion that dispatches the next job in the same step) |
| `BoardServer` | `board_server.ex`, the scheduling part of `job.ex` and `board.ex`, the SSE handler, the order of a runner's reports | variables named after the struct's fields and the table's columns; one action per handler, each consuming one message of `mailbox`; the request handlers and SSE handlers as processes with the stages between their calls |
| `RunnerContract` | what every runner promises the coordinator | the slot and the states posted for each job: taken while free, reported in order, `finished` after it was let go |
| `NspawnRunner` | `nspawn-runner`, event handling and posting of `sse-connector`, the unix control socket | `pc[j][f]` is where the call for job `j` by caller `f` is; `lock` is the `current_job` mutex; streamer, control socket task and container have a state per job |
| `NetbootRunner` | `netboot-runner` with the TCP control socket | one call at a time (`job`, `stage`), the job in the mutex, control socket, TCP link, serial streamer and proxies of each job |
| `Treadmill` | `BoardServer` composed with the connector's loop and a runner | extends `BoardServer`; adds the stream the connector reads, its inbox, the call under way and the runner's slot and posts |
| `ControlSocket` | both control sockets and the puppet | the server's task, the puppet's main and client tasks, one stream each way per puppet process, the request table and its `Notify` |
| `Rendezvous` | rendezvous server and proxies | port pool, listeners, accepted and relayed streams; per proxy its caller, its SSE loop, its address and its connection tasks |
| `Tunnel` | the bytes of one tunnel | client, handler, WebSocket, connection task and service with the bounded streams between them |
| `BoardPage` | the live page of a board, `log.ex`, and the effects of `board_server.ex` one by one | the rest of a running handler is `todo`; the page's reads are steps; its messages are in `inbox` |
| `MC...` | - | symmetry sets and constants for TLC |
| `...Proofs` | - | theorems about the module whose name comes first; `TreadmillProofs` builds on `BoardServerProofs` |

How they compose: `BoardServer` implements `JobLifecycle`; `NspawnRunner`,
`NetbootRunner` and `Treadmill` implement `RunnerContract`; `Treadmill`
implements `BoardServer`. So what `BoardServer` allows a runner to post covers
what a runner joined to it by the connector does post, and what the contract
assumes of the coordinator holds of the coordinator. `NspawnRunner` and
`NetbootRunner` contain the side of the control socket that matters for the
mutex; `ControlSocket` has the whole socket and reduces the runner to when its
mutex is held and when it shuts the socket down. `Rendezvous` opens and closes
tunnels; `Tunnel` is what happens in one.

`BoardServer`. It is told apart from its environment by `Handle` and
`Environment`. `mailbox` is a set because Erlang orders signals only between two
processes and each message here has its own sender. `schedule_jobs`,
`complete_jobs` and `arm_runner_supervisor_timer` are private functions of the
server: they are operators that the handlers apply, in the code's order, within
one action. `Die` is the end of a server by an exception: memory, registry keys
and mailbox go, the table stays as written so far; `exit` records which
expression raised, and `raises` lets a database error end any handler after any
prefix of its writes. A server's start registers and sweeps in one step, or
fails: a message that comes between the two waits until `init` has returned
(`BoardPage` has the two apart). Time is counted in ticks; `Five` stands for the five seconds of both the timer and the
start timeout. `JobState`'s default timestamp is evaluated when the module is
compiled, so `Age` does not depend on how long the job has waited.

`NspawnRunner`. A call of `start_job` or `stop_job` is cut at the awaits where
another task can make a difference. A stretch that ends with `post_job_state`
contains the post. ZFS, mount and spawn succeed or fail. `SIGTERM`, the shutdown
timeout and the kill loop are one step, `wait`, after which the process is gone.
A process closes its pipes (`child_closes`) before it can be waited for
(`child_exits`). A puppet may die before its container does and leave an answer
unread. `closing` holds the tasks whose command channel carries
Shutdown or was dropped: both end the task. A failing post panics the posting
task: `stop_panics` for a spawned `stop_job`, whose guards and job are dropped;
`connector_panics` for the connector, which is the main task, so the process
ends and is started again with containers and mounts left behind. The kill loop
of `stop_job` panics, too, when a process that has not exited can be neither
killed nor waited for.

`NetbootRunner`. Only the connector calls `start_job` and `stop_job`, so the
mutex is contended by that call and the control socket task alone, and every
panic of a call ends the process. The target machine survives it, as it may
outlive its job: a puppet of any target that was booted may connect to the
control socket of the next process or job.

`Treadmill`. The coordinator's end of a connection (`conn`, from `BoardServer`)
and the runner's end (`stream`) break separately: `breaks` is the runner's
keep-alive timeout or stream error, `close_conn` the coordinator's, and what was
in the connection is lost with either. The loop does not poll while a call runs
(`Polls`). `crashes` ends the runner's process, whose successor knows no job.
Restrictions that keep it small: the jobs are in the table at the start, the
database fails in a server's start only (`BoardServer` has both in full), time
passes only while the supervisor timer runs, and the runner has one call under
way at a time. `NspawnRunner` has the calls that overlap, a `Finished` that the
next job's start overtakes among them.

`ControlSocket`. The transport is chosen at the start; the two differ in how a
message is sent and in what the end of a stream does (a panic of the unix
client and of the TCP server's task, a busy loop of the TCP client). A puppet
may die anywhere and be started again with a new connection, and the task
accepts the next one only where the code does. A puppet that dies has its stream
closed by the kernel; a target that loses power (`loses_power`, TCP only) closes
nothing, so the server may serve the dead stream on and on, until something it
sends there makes the stream fail (`stream_fails`).

`Rendezvous`. The position of a listener is its handle, that of a stream its id.
`Kept` names proxies whose caller never asks for their address nor stops them:
one such proxy beside a full one is enough to have a second owner of ports and
streams, at a fraction of the states. Streams may break at any time and are
reconnected; a bind, a dial or an upgrade may fail.

`Tunnel`. `Buffer` is what a stream to a relay holds, `Window` what the stream
to the client and that to the service hold. `Window = 1` makes the short write
of the handler happen and `write_all` of the connection task wait; `task_write_all`
is one write of it. `reads = FALSE` is a client, `takes = FALSE` a service that
never reads. The WebSocket holds one message each way.

`BoardPage`. `BoardServer` has each handler as one step; here it is the sequence
of its effects, because the page reads the table and the registry in the middle.
It asks the server only whether the runner is connected, which the server
answers between two handlers. The history variables `missed` and `torn` name the
two cases in which the page may be wrong until the next update: an update sent
between mount's reads and its subscription, and a server that ended while the
page was reading. One assumption is of this module alone: `jobs_updated` puts its
cast into the server's mailbox when it is sent, before any call that a page makes
on account of the update that follows. Erlang promises no order between signals
of different senders, but on one node, where coordinator and pages run, a send
is a delivery; `PageIsCurrent` rests on it. What the page shows of the log is a
set, while the code prepends to a list: `LogIsComplete` is about events that are
missed, not about one shown twice, which happens when an event is both queried
and told.

Definitions with `_Mutant` in their name are wrong variants of the next
definition; the mutation checks put them in its place to show that the named
property depends on it.

## 3. What is checked

Runs that hold (states with the bounds of the cfg):

| Run | Instance | Shows |
|---|---|---|
| `board_safety` | 2 jobs, 2 connections, 2 messages waiting, 453 920 states | `ActiveConsistent`, `OneJobAtATime`, `StartedAtMostOnce`, `NoRunnerNoJobs`, `WorkConserving`, `ReportsHaveClause` |
| `board_liveness` | 2 jobs with 2 start times, 1 connection, `Five = 2`, 103 164 states | `StartIsResolved`, and `BoardServer` implements `JobLifecycle` |
| `treadmill` | 2 jobs, 2 connections, 967 655 states | `TreadmillTypeOK`, `BelievedIsReal`, `FinishedIsFree`; the composition implements `BoardServer` and `RunnerContract` |
| `nspawn_safety` | 2 jobs, 1 stop message each, 1 172 726 states | `OneJobRuns`, `UnmountedIsUnused`, `FinishedIsReleased`, `AnswersMatch`, `ImplementsRunner` |
| `nspawn_liveness` | 1 job, 2 stop messages, output on stdout, 10 045 states | `CallReturns`, `ExitIsNoticed` |
| `netboot` | 2 jobs, 2 stop messages, 36 379 states | `FinishedIsReleased`, `ImplementsRunner`, `CallReturns` |
| `control_socket` | both transports, a puppet started twice, 19 246 states | `AnswersMatch`, `RequestReturns`, `ShutdownEnds`, `PuppetEnds` |
| `rendezvous_safety` | 2 proxies (one `Kept`), 2 ports, 2 clients, 1 418 421 states | `TunnelsMatch`, `NoLostWakeup`, `ShutdownIsComplete` |
| `rendezvous_liveness` | 1 proxy, 2 ports, 2 clients, 206 175 states | `ShutdownReturns`, `ClientIsServed` |
| `tunnel` | 3 bytes up, 2 down, 266 955 states | `UploadIntact`, `DownloadInOrder`, `UploadArrives`, `ShutdownEnds` |
| `board_page` | 2 jobs, 3 log events, 5 662 717 states | `TypeOK`, `PageIsCurrent`, `NoJobVanishes`, `LogIsComplete` |

Two jobs are what it takes to have one running and one waiting or refused; a
board has one slot, so a third job adds no role. Two connections give a current
and a replaced one. Two waiting messages let any handler be overtaken by one
other message; the theorems lift these bounds. One stop message and two pipes
give three calls of `stop_job` for the same job. Two starts of a puppet give one
that died owing or being owed a message and its successor. Two ports let a
listener reconnect to another port or two proxies hold one each; two clients
compete for a port and for a stream id. Three bytes fill the relay's buffer and
leave one behind it. Three log events are one connection's two and one more.

Invariants that are proved and would only repeat what a listed property shows
are left out of the runs: the type invariants of the modules with proofs,
`CompletionFinal` (`ImplementsLifecycle` implies it), `OneJobRuns` and
`AnswersMatch` of `NetbootRunner`, `NoLostWakeup` of `ControlSocket`.

Deadlock is checked in `board_safety`, `board_liveness` and `treadmill`. In the
others the bounded messages run out, or everything has been shut down, and the
system may stop.

One run shows a disagreement between the code and its comments:

| Run | Property | What happens |
|---|---|---|
| `nspawn_deadlock` | `StopReturns` | `stop_job` joins the control socket task, which waits for the mutex `stop_job` holds |

Behaviours that the models contain, that no document rules out, and that the
properties therefore exempt or describe as they are:

* A job created while the server is up and no runner is connected ends the
  server: it is dispatched and then sent to nil (`exit = "schedule_send"`). A
  terminate request that looked the job up before the runner's DOWN was handled
  does so too (`exit = "terminate_send"`). The job is `server_crashed`.
* The DOWN of a replaced connection matches no clause and ends the server with
  the job of the new connection. `NoRunnerNoJobs` says nothing about it; what the
  table and the next server look like then, `ActiveConsistent` and
  `OneJobAtATime` do.
* A job is timed out by the next periodic timer, however recently it was
  dispatched, because `JobState`'s timestamp is that of compilation (`Age`), and
  a timeout that frees the slot schedules nothing (`WorkConserving` exempts it).
* The runner goes on with a job that the coordinator has given up, and refuses
  the next; `BelievedIsReal` says what the coordinator then must not believe.
* A container that exits between the take of the job and the lock of the child
  is stopped twice, and the second stop reports Failed. A container whose pipes
  both end before the process is waitable is not noticed (`ExitIsNoticed` says
  what is). Output still in the pipes at Shutdown is dropped.
* A job that a panicking task of the nspawn runner drops goes on running in its
  container; `OneJobRuns` and `AnswersMatch` exempt it.
* A netboot board without serial console never shuts its proxies down, which
  `FinishedIsReleased` exempts.
* A TCP control socket goes on serving the stream of a target that lost power
  (`ServesDead`), and the requests of the puppet that is started next wait until
  that stream fails. `AnswersMatch` tells answers apart by their kind.
* The relays of a tunnel do not see Shutdown while they send or write, and may do
  so for ever: when both directions are full (`BothSend`), when the handler
  waits for a client that does not read and the task for the handler
  (`Stalled`), and when the task is in `write_all` to a service that does not
  read (`ServiceStalled`). `ShutdownEnds` says that the proxy's task ends in
  every other case. `UploadArrives` is about a service that reads and says that
  all of the at most `Up` bytes arrive unless the relays block.
* The handler's short write drops bytes, so `DownloadInOrder` is about order
  alone; the end of the service's stream does not end a tunnel. An accepted
  stream whose event is lost is kept by the rendezvous server for ever, a port
  is never returned, and a failed bind loses one. `ClientIsServed` exempts a
  client whose own connection at the proxy has failed while its stream was still
  in the server's table; connections of other clients are no excuse.

Fairness. In `BoardServer`, weak fairness of every handler (a GenServer takes
each message in its turn), of the request and SSE handlers between their calls,
and of time; none for users, runners, connections or faults. In the Rust
modules, weak fairness of the tasks (tokio polls what can proceed), strong
fairness of the steps that wait for a mutex (`tokio::sync::Mutex` serves its
waiters in order) and of the branches of a `select!` that compete with others
(it polls its branches in random order); none for the coordinator, the puppet's
user, the container, breaking streams, failing posts, or for peers to send or to
close. A client or service of a tunnel that reads goes on reading; there are
others, which never read. Posts, scripts and external commands are taken to
return. `treadmill` and `board_page`
check safety only.

## 4. What is proved

`BoardServerProofs`, for every finite set of jobs, every set of connections and
all bounds:

* `TypeCorrect`, `ActiveConsistentHolds`, `OneJobAtATimeHolds`,
  `StartedAtMostOnceHolds`, `NoRunnerNoJobsHolds`, `WorkConservingHolds`,
  `ReportsHaveClauseHolds`: the invariants of the same names;
* `CompletionFinalHolds`: the action property;
* `Refinement`: `Spec => ImplementsLifecycle`.

Assumptions: those of the module (`Jobs` finite, `Nil` no job or connection,
start times natural numbers, `Five` positive).

The argument is one inductive invariant, `IInv`:

* `TypeOK`;
* `DownIsEmpty`: without a server there is no memory, registry key, runner or
  timer, so a crash leaves only the table;
* `ActiveConsistent`, `AtMostOneRunning` (`OneJobAtATime` said without
  cardinalities, for the provers);
* `RowsOrdered`: a job is dispatched only if its row exists, completed only if
  it was dispatched, and started only if it is marked dispatched; this is what
  `StartedAtMostOnce` rests on, because a step that sends must first see the
  flag unset;
* `NoRunnerNoJobs`, `WorkConserving`.

None of the parts is inductive alone: that `start_server` may hand out the slot
needs that a crash left nothing in memory; that a handler frees its slot needs
that memory and table agree. Every handler is a composition of three effects,
`complete_jobs`, `schedule_jobs` and the end of the server, so the proof states
one lemma for each and then goes through the actions. The refinement follows
from the same invariant: a handler that completes one job and dispatches the
next is `Handover`.

`ReportsHaveClause` needs more, `ReportsFollow`: the coordinator's state of an
active job is never ahead of its runner's (`Upto`), at most one report other
than `failed` is in flight, it is the last thing the runner reported but for a
`failed`, and the coordinator is in a state with a clause for it (`Before`).
Taking the report restores this one state further on; a timeout, a termination
and a crash only take jobs away.

`TreadmillProofs`, for every finite set of jobs, every set of connections and
every bound on what is on the way (`Nil` is no call, `MaxInbox` a natural
number): `TreadmillTypeCorrect`, `FinishedIsFreeHolds`, `BelievedIsRealHolds`,
`CoordinatorKeepsPromises` (the board server's invariants hold in the
composition), `ImplementsBoardHolds` and `ImplementsRunnerHolds`. The invariant `TInv` is that
of the board server, `ReportsInv`, and what relates the two sides:

* `Wires`, `PipeOrdered`: `Pipe` is what the runner has still to handle of the
  stream it reads, its inbox and then the connection. A `start_job` in it is the
  first message of its job, of which the runner has no `Trace` yet, and if that
  job runs, no later `start_job` follows. A broken stream takes messages from
  the end, the connector takes them from the front, a handler of the server adds
  one at the end; both lemmas (`PipeShrinks`, `PipeGrows`) are about sequences
  of any length;
* `CallOrdered`: while a job runs that the runner took on, neither the call
  under way nor the pipe asks for another one;
* `WorkReported`, `WorkAnswered`: which states were posted at each point of a
  call, and that a job at rest has no report in flight;
* `ReportedTrue`: `BoardServer`'s history of what the runner reported is true of
  this runner;
* `BeliefBacked`: what the coordinator believes or records, and what is in its
  mailbox, was posted.

`FinishedIsFree` and `BelievedIsReal` follow from the last one with `CallOrdered`
and `WorkReported`. The refinement of `BoardServer` is more than that its actions
are reused: each post of the runner must satisfy the guard of
`BoardServer`'s own report (`ReportedTrue`, `WorkAnswered`), which is the
assumption `ReportsHaveClause` rests on; so it holds of the composition too
(`CoordinatorKeepsPromises`).

`BoardPageProofs`, for every set of jobs and all bounds (natural numbers):
`BoardPageTypeCorrect`, `NoJobVanishesHolds`, `LogIsCompleteHolds`,
`PageIsCurrentHolds`, and `JobsMoveForwardHolds`, an action property: no single
effect takes a job's row back. The invariant `BInv`:

* `Queues`: what is left of a handler has the shape of a rest of one (`Shape`:
  `mark` is followed by `send`, `complete` by `unregister`, `log` by `tell`), and
  there is at most one message of a connection or page in the mailbox;
* `JobsPhase`, `ConnPhase`: how memory, registry and table differ in the middle
  of a handler, and where the connection is;
* `LogPhase`: the log is numbered without a gap, and what the running handler
  and the connections will still log (`Owed`) fits. Without the count the bound
  on the log is not inductive;
* `Asks`: the page's question and the server's answer exist only while the page
  waits for it;
* `Follows`: from the query of the log on, every event that was told is shown or
  in the inbox, because the page subscribed before the query;
* `Finds`: for each read, where a job known at the first read may be, which goes
  through because `JobsMove`: a job leaves the registry only once it is
  completed, and completed it stays;
* `Announced`, `Fresh`: either a page that has the server's answer is `Due` an
  update, or no effect is left that changes what pages show and every list it
  has read is that of the board. The server's `notify_board_update` may come
  before the change, so this needs that the server answers between two handlers,
  and that a cast behind the page's question (`Behind`) belongs to a creation
  whose update is still to come.

`NspawnRunnerProofs`, for every set of jobs and every number of stop messages
(`Nil` is no job and no call, `MaxStops` a natural number, `Output` a set of
pipes):

* `TypeCorrect`;
* `OneJobRunsHolds` and `FinishedIsReleasedHolds`: the invariants of the same
  names, panics and lost containers included.

Neither is inductive. The invariant `IInv` follows the mutex:

* `LockMatches`: the mutex is held by exactly the call whose stage says so, so a
  call that is past the lock excludes every other one;
* `HeldIsFree`: whoever holds it has taken the job out or not yet put it in;
* `Fresh`, `ToldFirst`: before `start_job` has spawned the container there is no
  process, no task and no call that stops the job; without them the `wait` of a
  stop could run against a job that is being started;
* `SpawnedOnce`: a pipe spawns one `stop_job`, at its end-of-file;
* `StageFacts`: what `stop_job` has already ended at each of its stages;
* `Owned`: what runs belongs to the job in the mutex or to its holder, which is
  `OneJobRuns` but for the form;
* `FinishFacts`: `FinishedIsReleased`, from the stage before the report on.

The proof takes the actions one by one: a step that says what the action does to
the variables of the invariant, then one step per part.

For `UnmountedIsUnusedHolds`, `AnswersMatchHolds` and `Contract`
(`Spec => ImplementsRunner`) the invariant is extended by `Contracted`:

* `ReportsMatch`: which states a job has and has not reported at each stage of
  its call, so each post extends the contract's order;
* `OneStop`: only one of the calls that race to stop a job gets past the take of
  it, and so reports for it;
* `PipesStop`: the end of a pipe never starts anything;
* `Mounted`: a job that is started, runs or is being stopped has its root file
  system, so the only unmount is `finish`'s.

`NetbootRunnerProofs`, for every set of jobs and number of stop messages:
`TypeCorrect`, `OneJobRunsHolds`, `FinishedIsReleasedHolds`, `AnswersMatchHolds`
and `Contract`. Its invariant has the same parts in a simpler form, since only
one call exists: `MutexMatches`, `Fresh` (nothing exists for a job before
`start_job` takes the mutex) and `StageFacts`.

`ControlSocketProofs`, for any number of starts of the puppet: `TypeCorrect`,
`AnswersMatchHolds`, `NoLostWakeupHolds`. Ids begin at 0 in each puppet, so
`AnswersMatch` needs to know what is on the way: `WireFacts` says that every
message to and from the present puppet carries an id it has used, and, if that
of the open request, the open request's kind, and that the connections of later
puppets are unused. What the control socket still owes a puppet that died goes
to that puppet's connection.

`RendezvousProofs`, for every set of proxies and clients and every finite set of
ports: `TypeCorrect`, `TunnelsMatchHolds`, `NoLostWakeupHolds`,
`ShutdownIsCompleteHolds`. `TunnelsMatch` follows a client through the server:
`PortsDiffer` (a port is in the pool or at one listener), `Dialled` (a client is
queued where it dialled), `IdsKnown` and `IdsOwned` (an id names one client and
is announced to one proxy, the one that client meant). Shutdown needs `Held` (a
connection that has not ended is in its proxy's table or is waited for) and
`Quiet` (a listener that ended adds none).

`TunnelProofs`, for any number of bytes and any size of the buffers:
`TypeCorrect`, `UploadIntactHolds`, `DownloadInOrderHolds`. Upwards, what the
service has read or its stream holds and what the task, the WebSocket, the
handler and the client's stream still hold are consecutive runs of byte
positions (`UpFacts`), as long as they can still arrive. Downwards a short write may have dropped bytes, so the
invariant says that there is a position up to which bytes were delivered or
dropped, and that what follows is consecutive from there (`DownFacts`).

Assumptions are those of the modules; each run evaluates them.

Only model-checked: liveness under fairness, which the prover cannot express the
premises of (`ENABLED`): `StartIsResolved`, `CallReturns`, `ExitIsNoticed`,
`RequestReturns`, `PuppetEnds`, `ShutdownReturns`, `ShutdownEnds`,
`ClientIsServed`, `UploadArrives`. The refinements that are proved are of the
safety parts; none of the abstract specifications states fairness.

## 5. Plan

Done: the modules of section 2, in the order board server, nspawn runner, runner
contract, netboot runner, control sockets, rendezvous, tunnel, composition,
board page; then the proofs of section 4, of every safety property that a run
checks. Next:

1. Action properties of the composition that follow from `TInv` and are not yet
   stated.
2. For the liveness properties, their safety half: that the step which is to
   happen is possible whenever it is waited for, stated without `ENABLED`, as
   `NoLostWakeup` does.

## 6. Not modelled

Sign-in and user accounts, static rows (boards, environments), routing,
templates, telemetry and assets: no protocol of their own. The job page, which
reads its row once and appends the console text it is sent (no code publishes
the log events it also handles), and the parameter form, which checks its input
and creates the row. The contents of job parameters, SSH keys, network
configuration and console output: no step decides by them, and the coordinator's
console endpoint only forwards text to the job page. The systemd-nspawn arguments, ZFS commands, boot
files and scripts: success or failure is kept. WebSocket pings, and frames that
arrive in pieces on a TCP control socket. A restart of the rendezvous server.
The limits of the page's queries (5 pending, 10 completed, 50 events), which are
larger than the instances. The dummy connector: a driver for manual tests.
