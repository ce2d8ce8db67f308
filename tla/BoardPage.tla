----------------------------- MODULE BoardPage -----------------------------
(***************************************************************************)
(* The live page of a board: how the process of an open page reads the     *)
(* board's state and follows its changes, while the board server works on  *)
(* that state.  BoardServer has each handler of the server as one step;    *)
(* the page does not go through the server for most of what it shows: it   *)
(* reads the jobs table and the registry in the middle of a handler.  Here *)
(* a handler is therefore the sequence of its effects, one step each, and  *)
(* the page's four reads are four steps.                                   *)
(*                                                                         *)
(* One connection at a time: that a reconnect may replace a connection     *)
(* before its end was noticed is BoardServer's.  The limits of the page's  *)
(* queries (5 pending and 10 completed jobs, 50 events) are larger than    *)
(* the instances, so the lists are sets.                                   *)
(*                                                                         *)
(* A definition whose name ends in "_Mutant..." is a wrong variant of the  *)
(* one after it; only the mutation checks in PROJECT.json use it.          *)
(***************************************************************************)
EXTENDS Naturals, Sequences, FiniteSets, SequencesExt

CONSTANTS
  Jobs,       \* rows of the jobs table
  MaxMail,    \* bound on the messages in the server's mailbox
  MaxInbox,   \* bound on the messages waiting for the page when others act
  MaxLog      \* bound on the log events of the board

ASSUME BoundsAssumption == MaxMail \in Nat /\ MaxInbox \in Nat /\ MaxLog \in Nat

VARIABLES
  row,         \* the jobs table: "none", "pending", "dispatched", "completed"
  registered,  \* Job.BoardRegistry: jobs the living server is registered for
  server,      \* whether a server is registered for the board
  mail,        \* the server's mailbox
  todo,        \* effects the running handler has still to perform
  active,      \* state.active_jobs
  waiting,     \* the jobs in wait_for_start
  runner_pid,  \* whether state.runner_pid is set
  alive,       \* whether that connection's process lives
  creating,    \* where instant_job is: "none", "row", "cast"
  log,         \* events in the log_events table
  told,        \* events that were dispatched to the subscribers
  pc,          \* what the page does next
  mounting,    \* whether the page reads for mount or for an update
  subscribed,  \* whether the page is in the SubscriberRegistry
  inbox,       \* messages for the page: Update or LogEvent(number)
  view,        \* what the page shows of the board
  shown,       \* the page's log_events
  known,       \* history: jobs that existed when the page read the pending ones
  torn,        \* history: a server died while the page was reading
  missed       \* history: an update was sent between mount's reads and subscribe

vars == <<row, registered, server, mail, todo, active, waiting, runner_pid,
          alive, creating, log, told, pc, mounting, subscribed, inbox, view,
          shown, known, torn, missed>>

jobs_vars == <<row, registered, active, waiting>>
conn_vars == <<runner_pid, alive>>
log_vars == <<log, told>>
page_vars == <<pc, mounting, subscribed, inbox, view, shown, known, torn, missed>>

Blank == [connected |-> FALSE, pending |-> {}, active |-> {}, completed |-> {}]

Init ==
  /\ row = [j \in Jobs |-> "none"]
  /\ registered = {} /\ active = {} /\ waiting = {}
  /\ server = FALSE /\ mail = <<>> /\ todo = <<>>
  /\ runner_pid = FALSE /\ alive = FALSE
  /\ creating = "none"
  /\ log = {} /\ told = {}
  /\ pc = "closed" /\ mounting = FALSE /\ subscribed = FALSE
  /\ inbox = <<>> /\ view = Blank /\ shown = {}
  /\ known = {} /\ torn = FALSE /\ missed = FALSE

In(state) == {j \in Jobs : row[j] = state}

\* pending_jobs: rows not dispatched nor completed, without the registered ones
Pending == In("pending") \ registered

\* What if the reads ran against the direction in which jobs move?
After_MutantCompletedFirst(step) ==
  CASE step = "connected" -> "completed"
    [] step = "completed" -> "active"
    [] step = "active" -> "pending"
    [] step = "pending" -> "filter"
    [] step = "filter" /\ mounting -> "subscribe"
    [] step = "subscribe" -> "log"
    [] OTHER -> "idle"

\* What if mount queried the log before it subscribed?
After_MutantLogFirst(step) ==
  CASE step = "connected" -> "pending"
    [] step = "pending" -> "filter"
    [] step = "filter" -> "active"
    [] step = "active" -> "completed"
    [] step = "completed" /\ mounting -> "log"
    [] step = "log" -> "subscribe"
    [] OTHER -> "idle"

\* What follows a step of the page: update_board_state's reads and, for a
\* mount, the subscription and the query of the log.
After(step) ==
  CASE step = "connected" -> "pending"
    [] step = "pending" -> "filter"
    [] step = "filter" -> "active"
    [] step = "active" -> "completed"
    [] step = "completed" /\ mounting -> "subscribe"
    [] step = "subscribe" -> "log"
    [] OTHER -> "idle"

-----------------------------------------------------------------------------
(* The board server: the effects of its handlers, in their order.          *)

Handler(msg) ==
  CASE msg = "connect" -> <<"log", "tell", "connect", "schedule", "notify">>
    [] msg = "started" /\ active # {} -> <<"notify", "start", "schedule">>
    [] msg = "ended" /\ active # {} ->
         <<"notify", "complete", "unregister", "schedule">>
    [] msg = "timer" /\ waiting # {} -> <<"complete", "unregister", "notify">>
    [] msg = "down" ->
         <<"disconnect", "complete", "unregister", "log", "tell", "notify">>
    [] msg = "cast" -> <<"schedule">>
    [] msg = "page" -> <<"reply">>
    [] OTHER -> <<>>

handle ==
  /\ server /\ todo = <<>> /\ mail # <<>>
  /\ todo' = Handler(Head(mail))
  /\ mail' = Tail(mail)
  /\ UNCHANGED <<server, creating, jobs_vars, conn_vars, log_vars, page_vars>>

\* the :board_event messages of a page
Update == [type |-> "update"]
LogEvent(n) == [type |-> "log_event", event |-> n]

\* Registry.dispatch on the subscribers: only a subscribed page gets it
Dispatch(msg) ==
  /\ inbox' = IF subscribed THEN Append(inbox, msg) ELSE inbox
  /\ missed' = (missed \/ (msg = Update /\ ~subscribed /\ pc # "closed"))
  /\ UNCHANGED <<pc, mounting, subscribed, view, shown, known, torn>>

notify_board_update ==
  /\ todo # <<>> /\ Head(todo) = "notify"
  /\ Dispatch(Update)
  /\ todo' = Tail(todo)
  /\ UNCHANGED <<server, mail, creating, jobs_vars, conn_vars, log_vars>>

\* Log.info: the row first ...
insert_event ==
  /\ todo # <<>> /\ Head(todo) = "log"
  /\ log' = log \cup {Cardinality(log) + 1}
  /\ todo' = Tail(todo)
  /\ UNCHANGED <<told, server, mail, creating, jobs_vars, conn_vars, page_vars>>

\* ... then the subscribers
log_event ==
  /\ todo # <<>> /\ Head(todo) = "tell"
  /\ Dispatch(LogEvent(Cardinality(log)))
  /\ told' = told \cup {Cardinality(log)}
  /\ todo' = Tail(todo)
  /\ UNCHANGED <<log, server, mail, creating, jobs_vars, conn_vars>>

runner_changes ==
  /\ todo # <<>> /\ Head(todo) \in {"connect", "disconnect"}
  /\ runner_pid' = (Head(todo) = "connect")
  /\ todo' = Tail(todo)
  /\ UNCHANGED <<alive, server, mail, creating, jobs_vars, log_vars, page_vars>>

\* schedule_jobs registers a pending job, unless the one slot is taken
schedule_jobs ==
  /\ todo # <<>> /\ Head(todo) = "schedule"
  /\ \/ /\ active = {} /\ Pending # {}
        /\ \E j \in Pending : registered' = registered \cup {j}
        /\ todo' = <<"mark", "send">> \o Tail(todo)
     \/ /\ active # {} \/ Pending = {}
        /\ todo' = Tail(todo)
        /\ UNCHANGED registered
  /\ UNCHANGED <<row, active, waiting, server, mail, creating, conn_vars,
                 log_vars, page_vars>>

mark_dispatched ==
  /\ todo # <<>> /\ Head(todo) = "mark"
  /\ row' = [j \in Jobs |-> IF j \in registered THEN "dispatched" ELSE row[j]]
  /\ todo' = Tail(todo)
  /\ UNCHANGED <<registered, active, waiting, server, mail, creating,
                 conn_vars, log_vars, page_vars>>

\* without a connection the send raises: see raises
send_start_job ==
  /\ todo # <<>> /\ Head(todo) = "send" /\ runner_pid
  /\ active' = registered /\ waiting' = registered
  /\ todo' = Tail(todo)
  /\ UNCHANGED <<row, registered, server, mail, creating, conn_vars, log_vars,
                 page_vars>>

job_started ==
  /\ todo # <<>> /\ Head(todo) = "start"
  /\ waiting' = {}
  /\ todo' = Tail(todo)
  /\ UNCHANGED <<row, registered, active, server, mail, creating, conn_vars,
                 log_vars, page_vars>>

\* complete_jobs: the completion codes in the table first ...
complete_jobs ==
  /\ todo # <<>> /\ Head(todo) = "complete"
  /\ row' = [j \in Jobs |-> IF j \in active THEN "completed" ELSE row[j]]
  /\ todo' = Tail(todo)
  /\ UNCHANGED <<registered, active, waiting, server, mail, creating,
                 conn_vars, log_vars, page_vars>>

\* What if the server went on listing the jobs it unregistered?
unregister_MutantKeepsActive ==
  /\ todo # <<>> /\ Head(todo) = "unregister"
  /\ registered' = {}
  /\ todo' = Tail(todo)
  /\ UNCHANGED <<active, waiting, row, server, mail, creating, conn_vars, log_vars, page_vars>>

\* ... then the registry
unregister ==
  /\ todo # <<>> /\ Head(todo) = "unregister"
  /\ registered' = {} /\ active' = {} /\ waiting' = {}
  /\ todo' = Tail(todo)
  /\ UNCHANGED <<row, server, mail, creating, conn_vars, log_vars, page_vars>>

\* init: jobs a previous server left dispatched have crashed
sweep ==
  /\ todo # <<>> /\ Head(todo) = "sweep"
  /\ row' = [j \in Jobs |-> IF row[j] = "dispatched" THEN "completed" ELSE row[j]]
  /\ todo' = Tail(todo)
  /\ UNCHANGED <<registered, active, waiting, server, mail, creating,
                 conn_vars, log_vars, page_vars>>

\* handle_call(:get_runner_connected)
get_runner_connected ==
  /\ todo # <<>> /\ Head(todo) = "reply"
  /\ view' = [view EXCEPT !.connected = runner_pid /\ alive]
  /\ pc' = After("connected")
  /\ todo' = Tail(todo)
  /\ UNCHANGED <<mounting, subscribed, inbox, shown, known, torn, missed,
                 server, mail, creating, jobs_vars, conn_vars, log_vars>>

\* the process of the page ends, and the registry forgets it
Closed ==
  /\ pc' = "closed" /\ mounting' = FALSE /\ subscribed' = FALSE
  /\ inbox' = <<>> /\ view' = Blank /\ shown' = {}
  /\ known' = {} /\ torn' = FALSE /\ missed' = FALSE

\* A database call or the send to nil raises in the middle of a handler: the
\* registries forget the server, its connection ends, and a page waiting for
\* its answer exits with it and is mounted again by the browser.
raises ==
  /\ server /\ todo # <<>>
  /\ \/ Head(todo) \in {"log", "schedule", "mark", "complete", "sweep"}
     \/ Head(todo) = "send" /\ ~runner_pid
  /\ server' = FALSE /\ mail' = <<>> /\ todo' = <<>>
  /\ registered' = {} /\ active' = {} /\ waiting' = {}
  /\ runner_pid' = FALSE /\ alive' = FALSE
  /\ \/ /\ pc = "answer"
        /\ Closed
     \/ /\ pc # "answer"
        /\ torn' = (pc # "closed")
        /\ UNCHANGED <<pc, mounting, subscribed, inbox, view, shown, known, missed>>
  /\ UNCHANGED <<row, creating, log_vars>>

server_step ==
  \/ handle \/ notify_board_update \/ insert_event \/ log_event
  \/ runner_changes \/ schedule_jobs \/ mark_dispatched \/ send_start_job
  \/ job_started \/ complete_jobs \/ unregister \/ sweep
  \/ get_runner_connected \/ raises

-----------------------------------------------------------------------------
(* What the server is sent, and by whom.                                   *)

\* bounds: the messages waiting, and the events logged or about to be
Room == Len(mail) < MaxMail /\ Len(inbox) < MaxInbox

\* get_or_start, by the process of a connection: init registers the server
\* and tells the subscribers before it sweeps the table
start_server ==
  /\ ~server /\ Room
  /\ server' = TRUE
  /\ todo' = <<"notify", "sweep">>
  /\ UNCHANGED <<mail, creating, jobs_vars, conn_vars, log_vars, page_vars>>

connect_runner ==
  /\ server /\ ~alive /\ ~runner_pid /\ Room
  /\ Cardinality(log) + Cardinality({i \in DOMAIN todo : todo[i] = "log"}) + 2 =< MaxLog
  /\ alive' = TRUE
  /\ mail' = Append(mail, "connect")
  /\ UNCHANGED <<runner_pid, server, todo, creating, jobs_vars, log_vars, page_vars>>

\* the connection's process ends; its monitor tells the server
runner_down ==
  /\ runner_pid /\ alive /\ Room
  /\ alive' = FALSE
  /\ mail' = Append(mail, "down")
  /\ UNCHANGED <<runner_pid, server, todo, creating, jobs_vars, log_vars, page_vars>>

\* Job.update_job_state, for a job the registry knows, and the periodic timer
report ==
  /\ registered # {} /\ Room
  /\ \E msg \in {"started", "ended", "timer"} : mail' = Append(mail, msg)
  /\ UNCHANGED <<server, todo, creating, jobs_vars, conn_vars, log_vars, page_vars>>

\* instant_job inserts the row ...
instant_job ==
  /\ creating = "none" /\ Room
  /\ \E j \in In("none") : row' = [row EXCEPT ![j] = "pending"]
  /\ creating' = "row"
  /\ UNCHANGED <<registered, active, waiting, server, mail, todo, conn_vars,
                 log_vars, page_vars>>

\* ... jobs_updated casts to the server, if there is one.  The cast is in the
\* mailbox before any call a page makes on hearing of the update that follows:
\* so it is on one node, though Erlang orders signals of one sender only ...
jobs_updated ==
  /\ creating = "row"
  /\ mail' = IF server THEN Append(mail, "cast") ELSE mail
  /\ creating' = "cast"
  /\ UNCHANGED <<server, todo, jobs_vars, conn_vars, log_vars, page_vars>>

\* ... and then tells the subscribers
tell_subscribers ==
  /\ creating = "cast"
  /\ Dispatch(Update)
  /\ creating' = "none"
  /\ UNCHANGED <<server, mail, todo, jobs_vars, conn_vars, log_vars>>

-----------------------------------------------------------------------------
(* The page.                                                               *)

\* Every read leaves the rest of the system alone
page_alone == UNCHANGED <<server, todo, creating, jobs_vars, conn_vars, log_vars>>

\* The first mount, for the static page, is a process of its own that ends
\* with its answer; this is the mount of the live connection.
mount ==
  /\ pc = "closed"
  /\ pc' = "connected"
  /\ mounting' = TRUE
  /\ UNCHANGED <<subscribed, inbox, view, shown, known, torn, missed, mail>>
  /\ page_alone

\* What if the page took the server's word from a cache instead of asking?
runner_connected_MutantPeeks ==
  /\ pc = "connected"
  /\ view' = [view EXCEPT !.connected = runner_pid /\ alive]
  /\ pc' = After(pc)
  /\ UNCHANGED <<mail, mounting, subscribed, inbox, shown, known, torn, missed>>
  /\ page_alone

\* update_board_state: runner_connected? asks the server, if there is one
runner_connected ==
  /\ pc = "connected"
  /\ \/ /\ server
        /\ mail' = Append(mail, "page")
        /\ pc' = "answer"
        /\ UNCHANGED view
     \/ /\ ~server
        /\ view' = [view EXCEPT !.connected = FALSE]
        /\ pc' = After(pc)
        /\ UNCHANGED mail
  /\ UNCHANGED <<mounting, subscribed, inbox, shown, known, torn, missed>>
  /\ page_alone

\* pending_jobs: the query ...
pending_jobs ==
  /\ pc = "pending"
  /\ view' = [view EXCEPT !.pending = In("pending")]
  /\ known' = {j \in Jobs : row[j] # "none" /\ ~(row[j] = "dispatched" /\ j \notin registered)}
  /\ pc' = After(pc)
  /\ UNCHANGED <<mail, mounting, subscribed, inbox, shown, torn, missed>>
  /\ page_alone

\* ... and then the filter on the registry
job_active ==
  /\ pc = "filter"
  /\ view' = [view EXCEPT !.pending = @ \ registered]
  /\ pc' = After(pc)
  /\ UNCHANGED <<mail, mounting, subscribed, inbox, shown, known, torn, missed>>
  /\ page_alone

active_jobs ==
  /\ pc = "active"
  /\ view' = [view EXCEPT !.active = registered]
  /\ pc' = After(pc)
  /\ UNCHANGED <<mail, mounting, subscribed, inbox, shown, known, torn, missed>>
  /\ page_alone

completed_jobs ==
  /\ pc = "completed"
  /\ view' = [view EXCEPT !.completed = In("completed")]
  /\ pc' = After(pc)
  /\ UNCHANGED <<mail, mounting, subscribed, inbox, shown, known, torn, missed>>
  /\ page_alone

\* the order of mount: subscribe, and only then the query of the log
subscribe ==
  /\ pc = "subscribe"
  /\ subscribed' = TRUE
  /\ pc' = After(pc)
  /\ UNCHANGED <<mail, mounting, inbox, view, shown, known, torn, missed>>
  /\ page_alone

board_log ==
  /\ pc = "log"
  /\ shown' = log
  /\ pc' = After(pc)
  /\ UNCHANGED <<mail, mounting, subscribed, inbox, view, known, torn, missed>>
  /\ page_alone

\* An event both queried and told is shown twice by the code, which prepends to a
\* list; here shown is the set of them
handle_info ==
  /\ pc = "idle" /\ inbox # <<>>
  /\ inbox' = Tail(inbox)
  /\ \/ /\ Head(inbox).type = "update"
        /\ pc' = "connected" /\ mounting' = FALSE
        /\ torn' = FALSE /\ missed' = FALSE
        /\ UNCHANGED shown
     \/ /\ Head(inbox).type = "log_event"
        /\ shown' = shown \cup {Head(inbox).event}
        /\ UNCHANGED <<pc, mounting, torn, missed>>
  /\ UNCHANGED <<mail, subscribed, view, known>>
  /\ page_alone

\* the visitor leaves
leave ==
  /\ pc = "idle"
  /\ Closed
  /\ UNCHANGED mail
  /\ page_alone

page ==
  \/ mount \/ runner_connected \/ pending_jobs \/ job_active \/ active_jobs
  \/ completed_jobs \/ subscribe \/ board_log \/ handle_info \/ leave

Next ==
  \/ server_step
  \/ start_server \/ connect_runner \/ runner_down \/ report
  \/ instant_job \/ jobs_updated \/ tell_subscribers
  \/ page

Spec == Init /\ [][Next]_vars

-----------------------------------------------------------------------------
(* Properties.                                                             *)

Events == 1..MaxLog

\* Every variable has its type; the server's memory of its jobs never runs
\* ahead of the registry, and only a subscribed page is sent messages.
TypeOK ==
  /\ row \in [Jobs -> {"none", "pending", "dispatched", "completed"}]
  /\ waiting \subseteq active /\ active \subseteq registered
  /\ registered \subseteq Jobs
  /\ {server, runner_pid, alive, mounting, subscribed, torn, missed} \subseteq BOOLEAN
  /\ creating \in {"none", "row", "cast"}
  /\ log \subseteq Events /\ told \subseteq log
  /\ pc \in {"closed", "connected", "answer", "pending", "filter", "active",
             "completed", "subscribe", "log", "idle"}
  /\ ~subscribed => inbox = <<>>
  /\ ToSet(inbox) \subseteq {Update} \cup {LogEvent(n) : n \in log}
  /\ shown \subseteq log /\ known \subseteq Jobs
  /\ view \in [connected : BOOLEAN, pending : SUBSET Jobs,
               active : SUBSET Jobs, completed : SUBSET Jobs]

Board == [connected |-> runner_pid /\ alive, pending |-> Pending,
          active |-> registered, completed |-> In("completed")]

\* A page at rest shows the board as it is: when the server is up and idle,
\* no creation is under way and no message waits for the page, nothing the
\* page shows is out of date, unless an update fell between mount's reads and
\* its subscription.  handle_call(:update_job_state) tells the subscribers
\* before it changes anything, so this rests on update_board_state asking the
\* server, which answers after the handler, before it reads the jobs; and, for a
\* new job, on the cast of jobs_updated reaching the server before that call.
PageIsCurrent ==
  /\ pc = "idle" /\ inbox = <<>>
  /\ server /\ todo = <<>> /\ mail = <<>> /\ creating = "none"
  /\ ~missed
  => view = Board

\* No job falls between the page's three lists while it moves from one to the
\* next under the page's reads: whatever existed when the pending jobs were
\* queried is shown as pending, active or completed, unless a server died
\* meanwhile.  update_board_state reads the lists in the order in which a job
\* passes through them, and the server fills the next list before it empties
\* the previous one.
NoJobVanishes ==
  pc \in {"subscribe", "log", "idle"} /\ ~torn
    => known \subseteq view.pending \cup view.active \cup view.completed

\* The log of a mounted page is complete: an event whose subscribers were told
\* is shown or waits in the page's inbox, whenever it came in relation to
\* mount's subscription and query, and a page never loses one it showed.
LogIsComplete == pc = "idle" => \A n \in told : n \in shown \/ LogEvent(n) \in ToSet(inbox)
=============================================================================
