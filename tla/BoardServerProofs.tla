------------------------- MODULE BoardServerProofs -------------------------
(***************************************************************************)
(* Safety of the board server, proved for any finite set of jobs, any set  *)
(* of connections and any length of the timeout.                           *)
(***************************************************************************)
EXTENDS BoardServer, FiniteSetTheorems, TLAPS

-----------------------------------------------------------------------------
(* The operators the handlers are built from.                              *)

\* Every message the model sends is a message.
LEMMA MessagesTyped ==
  /\ \A c \in Conns : Connect(c) \in Messages /\ Down(c) \in Messages
  /\ \A j \in Jobs, s \in JobReports : Update(j, s) \in Messages
  /\ \A j \in Jobs : Terminate(j) \in Messages /\ Schedule(j) \in Messages
  /\ TimerMsg \in Messages
BY DEF Messages

\* A message belongs to exactly one sender and kind, so removing one from the
\* mailbox keeps every other.
LEMMA MessagesDistinct ==
  /\ \A c \in Conns, j \in Jobs : Schedule(j) # Connect(c) /\ Schedule(j) # Down(c)
  /\ \A i, j \in Jobs, s \in JobReports : Schedule(j) # Update(i, s)
  /\ \A i, j \in Jobs : Schedule(j) # Terminate(i)
  /\ \A i, j \in Jobs : Schedule(j) = Schedule(i) => i = j
  /\ \A j \in Jobs : Schedule(j) # TimerMsg
BY DEF Schedule, Connect, Down, Update, Terminate, TimerMsg

\* With max_jobs = 1, "map_size(active_jobs) < max_jobs" says that no job is
\* active.
LEMMA FreeSlot ==
  ASSUME NEW jobs
  PROVE  Cardinality(Keys(jobs)) < max_jobs <=> Keys(jobs) = {}
<1>1. IsFiniteSet(Keys(jobs))
  <2>1. Keys(jobs) \subseteq Jobs
    BY DEF Keys
  <2> QED
    BY <2>1, JobsAssumption, FS_Subset
<1>2. Cardinality(Keys(jobs)) \in Nat /\ (Cardinality(Keys(jobs)) = 0 <=> Keys(jobs) = {})
  BY <1>1, FS_CardinalityType, FS_EmptySet
<1> QED
  BY <1>2 DEF max_jobs

\* schedule_jobs picks a job only for a free slot, from the pending rows, and
\* picks none only when the slot is taken, nothing is pending or the row it
\* got is registered already.
LEMMA NextJobPicks ==
  ASSUME NEW jobs, NEW reg, NEW comp, NEW p \in NextJob(jobs, reg, comp)
  PROVE  /\ p # Nil => p \in PendingRows(comp) /\ p \in Jobs /\ p \notin reg /\ Keys(jobs) = {}
         /\ p = Nil => \/ Keys(jobs) # {}
                       \/ PendingRows(comp) = {}
                       \/ \E j \in PendingRows(comp) : j \in reg
<1>1. PendingRows(comp) \subseteq Jobs
  BY DEF PendingRows
<1> QED
  BY <1>1, FreeSlot, JobsAssumption DEF NextJob

LEMMA CompleteTyped ==
  ASSUME TypeOK, NEW S, NEW c \in Codes
  PROVE  complete_jobs(S, c) \in [Jobs -> Codes \cup {"nil"}]
BY DEF TypeOK, complete_jobs

\* What a step of schedule_jobs leaves well typed.
ScheduledTypes ==
  /\ dispatched' \subseteq Jobs
  /\ up' \in BOOLEAN
  /\ exit' \in Exits
  /\ runner_pid' \in Conns \cup {Nil}
  /\ coord_state' \in [Jobs -> CoordStates \cup {"absent"}]
  /\ timer' \in NoTimer..Five
  /\ registered' \subseteq Jobs
  /\ waited' \in [Jobs -> 0..Saturated]
  /\ reported' \in [Jobs -> {"unknown", "told"} \cup JobReports]
  /\ wire' \in [Conns -> Seq(RunnerMsgs)]
  /\ starts' \in [Jobs -> Nat]

LEMMA ContinueTyped ==
  ASSUME TypeOK, NEW pid \in Conns \cup {Nil}, NEW jobs \in [Jobs -> CoordStates \cup {"absent"}],
         NEW reg \in SUBSET Jobs, NEW tm \in NoTimer..Five, Continue(pid, jobs, reg, tm)
  PROVE  /\ up' \in BOOLEAN
         /\ exit' \in Exits
         /\ runner_pid' \in Conns \cup {Nil}
         /\ coord_state' \in [Jobs -> CoordStates \cup {"absent"}]
         /\ timer' \in NoTimer..Five
         /\ registered' \subseteq Jobs
         /\ waited' \in [Jobs -> 0..Saturated]
         /\ reported' \in [Jobs -> {"unknown", "told"} \cup JobReports]
BY TimesAssumption DEF TypeOK, Continue, Exits, Saturated

LEMMA DieTyped ==
  ASSUME TypeOK, NEW reason \in Exits, Die(reason)
  PROVE  /\ up' \in BOOLEAN
         /\ exit' \in Exits
         /\ runner_pid' \in Conns \cup {Nil}
         /\ coord_state' \in [Jobs -> CoordStates \cup {"absent"}]
         /\ timer' \in NoTimer..Five
         /\ registered' \subseteq Jobs
         /\ waited' \in [Jobs -> 0..Saturated]
         /\ reported' \in [Jobs -> {"unknown", "told"} \cup JobReports]
<1>1. timer' \in NoTimer..Five
  BY TimesAssumption DEF Die, NoTimer
<1>2. waited' \in [Jobs -> 0..Saturated]
  BY TimesAssumption DEF Die, Saturated
<1>3. up' \in BOOLEAN
  BY DEF Die
<1> QED
  BY <1>1, <1>2, <1>3 DEF Die

LEMMA ArmedTyped == TypeOK => Armed \in NoTimer..Five
BY TimesAssumption DEF TypeOK, Armed, NoTimer

LEMMA SentToTyped ==
  ASSUME TypeOK, NEW c \in Conns, NEW t \in {"start_job", "stop_job"}, NEW j \in Jobs
  PROVE  SentTo(c, t, j) \in [Conns -> Seq(RunnerMsgs)]
<1>1. [type |-> t, job |-> j] \in RunnerMsgs
  BY DEF RunnerMsgs
<1>2. Append(wire[c], [type |-> t, job |-> j]) \in Seq(RunnerMsgs)
  BY <1>1 DEF TypeOK
<1> QED
  BY <1>2 DEF TypeOK, SentTo

LEMMA ScheduleTyped ==
  ASSUME TypeOK, NEW pid \in Conns \cup {Nil}, NEW jobs \in [Jobs -> CoordStates \cup {"absent"}],
         NEW reg \in SUBSET Jobs, NEW comp, schedule_jobs(pid, jobs, reg, comp)
  PROVE  ScheduledTypes
<1>1. PICK p \in NextJob(jobs, reg, comp) :
        IF p = Nil
        THEN /\ Continue(pid, jobs, reg, timer)
             /\ UNCHANGED <<dispatched, wire, starts>>
        ELSE /\ dispatched' = dispatched \cup {p}
             /\ IF pid = Nil
                THEN Die("schedule_send") /\ UNCHANGED <<wire, starts>>
                ELSE /\ Continue(pid, [jobs EXCEPT ![p] = "wait_for_start"], reg \cup {p}, Armed)
                     /\ wire' = SentTo(pid, "start_job", p)
                     /\ starts' = [starts EXCEPT ![p] = @ + 1]
  BY DEF schedule_jobs, Marked
<1>2. p # Nil => p \in Jobs
  BY NextJobPicks
<1>3. CASE p = Nil
  BY <1>1, <1>3, ContinueTyped DEF ScheduledTypes, TypeOK
<1>4. CASE p # Nil /\ pid = Nil
  BY <1>1, <1>2, <1>4, DieTyped DEF ScheduledTypes, TypeOK, Exits
<1>5. CASE p # Nil /\ pid # Nil
  <2>1. [jobs EXCEPT ![p] = "wait_for_start"] \in [Jobs -> CoordStates \cup {"absent"}]
    BY <1>2, <1>5 DEF CoordStates
  <2>2. reg \cup {p} \in SUBSET Jobs /\ dispatched' \subseteq Jobs
    BY <1>1, <1>2, <1>5 DEF TypeOK
  <2>3. starts' \in [Jobs -> Nat] /\ wire' \in [Conns -> Seq(RunnerMsgs)]
    BY <1>1, <1>2, <1>5, SentToTyped DEF TypeOK
  <2> QED
    BY <1>1, <1>5, <2>1, <2>2, <2>3, ArmedTyped, ContinueTyped DEF ScheduledTypes
<1> QED
  BY <1>3, <1>4, <1>5

\* The mailbox and the handlers' stages stay well typed.
LEMMA HandledTyped ==
  ASSUME TypeOK, NEW msg, NEW new \in SUBSET Messages, NEW c,
         NEW stage \in {"closed", "starting", "relookup", "calling", "streaming", "orphan"},
         Handled(msg, new, c, stage)
  PROVE  /\ mailbox' \subseteq Messages
         /\ conn' \in [Conns -> {"closed", "starting", "relookup", "calling", "streaming", "orphan"}]
<1>1. \A x \in Conns : Bereaved(x) \in {"closed", "starting", "relookup", "calling", "streaming", "orphan"}
  BY DEF TypeOK, Bereaved
<1> QED
  BY <1>1 DEF TypeOK, Handled

-----------------------------------------------------------------------------
(* Type correctness.                                                       *)

LEMMA ActTyped ==
  ASSUME NEW cs, NEW s \in JobReports
  PROVE  act(cs, s) \in CoordStates \cup {"finished", "failed", "no_clause"}
BY DEF act, JobReports, CoordStates

LEMMA WithoutTyped ==
  ASSUME TypeOK, NEW S
  PROVE  Without(S) \in [Jobs -> CoordStates \cup {"absent"}]
BY DEF TypeOK, Without

\* Every handler keeps the state well typed.
LEMMA HandleTyped ==
  ASSUME TypeOK, Handle
  PROVE  TypeOK'
<1> USE MessagesTyped
<1>1. ASSUME NEW c \in Conns, connect_runner(c)
      PROVE  TypeOK'
  <2>1. ScheduledTypes
    BY <1>1, ScheduleTyped DEF connect_runner, TypeOK
  <2>2. /\ mailbox' \subseteq Messages
        /\ conn' \in [Conns -> {"closed", "starting", "relookup", "calling", "streaming", "orphan"}]
    <3>1. CASE conn[c] = "calling"
      BY <1>1, <3>1, HandledTyped DEF connect_runner
    <3>2. CASE conn[c] # "calling"
      <4>1. {Down(c)} \in SUBSET Messages /\ conn[c] \in {"closed", "starting", "relookup", "calling", "streaming", "orphan"}
        BY DEF TypeOK
      <4>2. Handled(Connect(c), {Down(c)}, c, conn[c])
        BY <1>1, <3>2 DEF connect_runner
      <4> QED
        BY <4>1, <4>2, HandledTyped
    <3> QED
      BY <3>1, <3>2
  <2> QED
    BY <1>1, <2>1, <2>2 DEF connect_runner, TypeOK, ScheduledTypes
<1>2. ASSUME NEW c \in Conns, runner_down(c)
      PROVE  TypeOK'
  <2>1. completion' \in [Jobs -> Codes \cup {"nil"}]
    BY <1>2, CompleteTyped DEF runner_down, TypeOK, Codes
  <2>2. /\ mailbox' \subseteq Messages
        /\ conn' \in [Conns -> {"closed", "starting", "relookup", "calling", "streaming", "orphan"}]
    BY <1>2, HandledTyped DEF runner_down
  <2>3. CASE c = runner_pid
    <3>1. Continue(Nil, Without(Keys(coord_state)), registered \ Keys(coord_state), timer)
      BY <1>2, <2>3 DEF runner_down
    <3>2. registered \ Keys(coord_state) \in SUBSET Jobs /\ timer \in NoTimer..Five
      BY DEF TypeOK
    <3> QED
      BY <1>2, <2>1, <2>2, <3>1, <3>2, ContinueTyped, WithoutTyped DEF runner_down, TypeOK
  <2>4. CASE c # runner_pid
    BY <1>2, <2>1, <2>2, <2>4, DieTyped DEF runner_down, TypeOK, Exits
  <2> QED
    BY <2>3, <2>4
<1>3. ASSUME NEW j \in Jobs, cast_schedule_jobs(j)
      PROVE  TypeOK'
  <2>1. ScheduledTypes
    BY <1>3, ScheduleTyped DEF cast_schedule_jobs, TypeOK
  <2>2. /\ mailbox' \subseteq Messages
        /\ conn' \in [Conns -> {"closed", "starting", "relookup", "calling", "streaming", "orphan"}]
    BY <1>3, HandledTyped DEF cast_schedule_jobs
  <2> QED
    BY <1>3, <2>1, <2>2 DEF cast_schedule_jobs, TypeOK, ScheduledTypes
<1>4. ASSUME NEW j \in Jobs, terminate_job(j)
      PROVE  TypeOK'
  <2>1. /\ mailbox' \subseteq Messages
        /\ conn' \in [Conns -> {"closed", "starting", "relookup", "calling", "streaming", "orphan"}]
    BY <1>4, HandledTyped DEF terminate_job
  <2>2. CASE runner_pid = Nil
    BY <1>4, <2>1, <2>2, DieTyped DEF terminate_job, TypeOK, Exits, db
  <2>3. CASE runner_pid # Nil
    <3>1. runner_pid \in Conns
      BY <2>3 DEF TypeOK
    <3>2. wire' \in [Conns -> Seq(RunnerMsgs)]
      BY <1>4, <2>3, <3>1, SentToTyped DEF terminate_job
    <3>3. Continue(runner_pid, coord_state, registered, timer)
      BY <1>4, <2>3 DEF terminate_job
    <3> QED
      BY <1>4, <2>1, <3>2, <3>3, ContinueTyped DEF terminate_job, TypeOK, db
  <2> QED
    BY <2>2, <2>3
<1>5. ASSUME NEW j \in Jobs, NEW s \in JobReports, update_job_state(j, s)
      PROVE  TypeOK'
  <2> DEFINE a    == act(coord_state[j], s)
             gone == IF a \in {"finished", "failed"} THEN {j} ELSE {}
             jobs == IF gone = {} THEN [coord_state EXCEPT ![j] = a] ELSE Without(gone)
             comp == complete_jobs(gone, a)
  <2>1. /\ mailbox' \subseteq Messages
        /\ conn' \in [Conns -> {"closed", "starting", "relookup", "calling", "streaming", "orphan"}]
    BY <1>5, HandledTyped DEF update_job_state
  <2>2. CASE coord_state[j] = "absent"
    <3>1. Continue(runner_pid, coord_state, registered, timer)
      BY <1>5, <2>2 DEF update_job_state
    <3> QED
      BY <1>5, <2>1, <2>2, <3>1, ContinueTyped DEF update_job_state, TypeOK
  <2>3. CASE coord_state[j] # "absent" /\ a = "no_clause"
    BY <1>5, <2>1, <2>3, DieTyped DEF update_job_state, TypeOK, Exits
  <2>4. CASE coord_state[j] # "absent" /\ a # "no_clause"
    <3>1. completion' = comp /\ schedule_jobs(runner_pid, jobs, registered \ gone, comp)
      BY <1>5, <2>4 DEF update_job_state
    <3>2. jobs \in [Jobs -> CoordStates \cup {"absent"}]
      BY <2>4, ActTyped, WithoutTyped DEF TypeOK
    <3>3. comp \in [Jobs -> Codes \cup {"nil"}]
      BY DEF TypeOK, complete_jobs, Codes
    <3>4. ScheduledTypes
      <4>1. runner_pid \in Conns \cup {Nil} /\ registered \ gone \in SUBSET Jobs
        BY DEF TypeOK
      <4> HIDE DEF jobs, gone, comp
      <4> QED
        BY <3>1, <3>2, <4>1, ScheduleTyped
    <3> HIDE DEF jobs, gone, comp
    <3> QED
      BY <1>5, <2>1, <3>1, <3>3, <3>4 DEF update_job_state, TypeOK, ScheduledTypes
  <2> QED
    BY <2>2, <2>3, <2>4
<1>6. ASSUME runner_supervisor_timer
      PROVE  TypeOK'
  <2>1. completion' \in [Jobs -> Codes \cup {"nil"}]
    BY <1>6, CompleteTyped DEF runner_supervisor_timer, TypeOK, Codes
  <2>2. /\ mailbox' \subseteq Messages
        /\ conn' \in [Conns -> {"closed", "starting", "relookup", "calling", "streaming", "orphan"}]
    BY <1>6, HandledTyped DEF runner_supervisor_timer
  <2>3. CASE Waiting = Late
    <3>1. Continue(runner_pid, Without(Late), registered \ Late, Armed)
      BY <1>6, <2>3 DEF runner_supervisor_timer
    <3>2. registered \ Late \in SUBSET Jobs /\ runner_pid \in Conns \cup {Nil}
      BY DEF TypeOK
    <3> QED
      BY <1>6, <2>1, <2>2, <3>1, <3>2, ContinueTyped, WithoutTyped, ArmedTyped DEF runner_supervisor_timer, TypeOK
  <2>4. CASE Waiting # Late
    BY <1>6, <2>1, <2>2, <2>4, DieTyped DEF runner_supervisor_timer, TypeOK, Exits
  <2> QED
    BY <2>3, <2>4
<1> QED
  BY <1>1, <1>2, <1>3, <1>4, <1>5, <1>6 DEF Handle

\* An exception in the handler of m writes completion codes only, and only
\* from the schema's enumeration.
LEMMA RaisedCompletionTyped ==
  ASSUME TypeOK, NEW m
  PROVE  complete_jobs(Completes(m), CodeOf(m)) \in [Jobs -> Codes \cup {"nil"}]
<1>1. CASE Completes(m) = {}
  BY <1>1 DEF complete_jobs, TypeOK
<1>2. CASE Completes(m) # {}
  <2>1. CodeOf(m) \in Codes
    BY <1>2 DEF Completes, CodeOf, Codes
  <2> QED
    BY <2>1, CompleteTyped
<1> QED
  BY <1>1, <1>2

\* Every step of the processes around the server keeps the state well typed.
LEMMA EnvironmentTyped ==
  ASSUME TypeOK, Environment
  PROVE  TypeOK'
<1> USE MessagesTyped
<1>1. ASSUME NEW j \in Jobs, insert_job(j) \/ jobs_updated(j) \/ request_terminate(j)
      PROVE  TypeOK'
  <2>1. CASE insert_job(j)
    BY <2>1, TimesAssumption DEF insert_job, TypeOK, server, ends
  <2>2. CASE jobs_updated(j)
    BY <2>2 DEF jobs_updated, TypeOK, server, ends
  <2>3. CASE request_terminate(j)
    BY <2>3 DEF request_terminate, TypeOK, db, server, ends
  <2> QED
    BY <1>1, <2>1, <2>2, <2>3
<1>2. ASSUME NEW c \in Conns, open_conn(c) \/ relookup(c) \/ close_orphan(c)
      PROVE  TypeOK'
  BY <1>2 DEF open_conn, relookup, close_orphan, TypeOK, db, server
<1>3. ASSUME NEW c \in Conns, start_server(c)
      PROVE  TypeOK'
  <2>1. completion' \in [Jobs -> Codes \cup {"nil"}]
    BY <1>3, CompleteTyped DEF start_server, TypeOK, Codes
  <2>2. up' \in BOOLEAN /\ exit' \in Exits
    BY <1>3 DEF start_server, TypeOK, Exits
  <2>3. conn' \in [Conns -> {"closed", "starting", "relookup", "calling", "streaming", "orphan"}]
    BY <1>3 DEF start_server, TypeOK
  <2> QED
    BY <1>3, <2>1, <2>2, <2>3 DEF start_server, TypeOK
<1>4. ASSUME NEW c \in Conns, close_conn(c)
      PROVE  TypeOK'
  <2>1. wire' \in [Conns -> Seq(RunnerMsgs)]
    BY <1>4 DEF close_conn, TypeOK
  <2> QED
    BY <1>4, <2>1 DEF close_conn, TypeOK, db, server
<1>5. ASSUME NEW c \in Conns, receive(c)
      PROVE  TypeOK'
  <2>1. wire[c] \in Seq(RunnerMsgs) /\ wire[c] # <<>>
    BY <1>5 DEF receive, TypeOK
  <2>2. wire' \in [Conns -> Seq(RunnerMsgs)]
    BY <1>5, <2>1 DEF receive, TypeOK
  <2>3. reported' \in [Jobs -> {"unknown", "told"} \cup JobReports]
    BY <1>5 DEF receive, TypeOK
  <2> QED
    BY <1>5, <2>2, <2>3 DEF receive, TypeOK, db, server
<1>6. ASSUME NEW j \in Jobs, NEW s \in JobReports, post_job_state(j, s)
      PROVE  TypeOK'
  BY <1>6 DEF post_job_state, TypeOK, db, server
<1>7. ASSUME NEW m \in mailbox, raises(m)
      PROVE  TypeOK'
  <2>1. completion' \in [Jobs -> Codes \cup {"nil"}]
    BY <1>7, RaisedCompletionTyped DEF raises, TypeOK
  <2>2. dispatched' \subseteq Jobs
    <3> DEFINE next == IF Schedules(m)
                       THEN NextJob(Without(Completes(m)), registered \ Completes(m),
                                    complete_jobs(Completes(m), CodeOf(m)))
                       ELSE {Nil}
    <3>1. \A p \in next : p # Nil => p \in Jobs
      BY NextJobPicks
    <3>2. dispatched' = dispatched \/ \E p \in next : dispatched' = dispatched \cup ({p} \ {Nil})
      BY <1>7 DEF raises
    <3> HIDE DEF next
    <3> QED
      BY <3>1, <3>2 DEF TypeOK
  <2>3. /\ mailbox' \subseteq Messages
        /\ conn' \in [Conns -> {"closed", "starting", "relookup", "calling", "streaming", "orphan"}]
    BY <1>7, HandledTyped DEF raises
  <2>4. Die("raised")
    BY <1>7 DEF raises
  <2> QED
    BY <1>7, <2>1, <2>2, <2>3, <2>4, DieTyped DEF raises, TypeOK, Exits
<1>8. ASSUME tick
      PROVE  TypeOK'
  <2>1. timer' \in NoTimer..Five
    BY <1>8, TimesAssumption DEF tick, TypeOK, NoTimer
  <2>2. waited' \in [Jobs -> 0..Saturated]
    BY <1>8, TimesAssumption DEF tick, TypeOK, Saturated
  <2> QED
    BY <1>8, <2>1, <2>2 DEF tick, TypeOK, db, ends
<1> QED
  BY <1>1, <1>2, <1>3, <1>4, <1>5, <1>6, <1>7, <1>8 DEF Environment

LEMMA InitTyped == Init => TypeOK
<1> SUFFICES ASSUME Init PROVE TypeOK
  OBVIOUS
<1>1. timer \in NoTimer..Five /\ waited \in [Jobs -> 0..Saturated]
  BY TimesAssumption DEF Init, NoTimer, Saturated
<1>2. wire \in [Conns -> Seq(RunnerMsgs)]
  BY DEF Init
<1> QED
  BY <1>1, <1>2 DEF Init, TypeOK, Exits

LEMMA NextTyped == TypeOK /\ [Next]_vars => TypeOK'
<1> SUFFICES ASSUME TypeOK, [Next]_vars PROVE TypeOK'
  OBVIOUS
<1>1. CASE Next
  BY <1>1, HandleTyped, EnvironmentTyped DEF Next
<1>2. CASE UNCHANGED vars
  BY <1>2 DEF vars, TypeOK
<1> QED
  BY <1>1, <1>2

\* The type invariant of the board server holds in every reachable state.
THEOREM TypeCorrect == Spec => []TypeOK
BY InitTyped, NextTyped, PTL DEF Spec

-----------------------------------------------------------------------------
(* The inductive invariant.                                                *)

\* Without a server there is no connection, no active job, no registry key.
DownIsEmpty == ~up => runner_pid = Nil /\ Keys(coord_state) = {} /\ registered = {}

\* The set form of OneJobAtATime.
AtMostOneRunning == \A i, j \in Running : i = j

\* The columns of a row, and the number of start messages sent for it.
RowsOrdered ==
  \A j \in Jobs : /\ j \in dispatched => web[j] # "absent"
                  /\ completion[j] # "nil" => j \in dispatched
                  /\ starts[j] <= 1
                  /\ j \notin dispatched => starts[j] = 0

Consistent ==
  DownIsEmpty /\ ActiveConsistent /\ AtMostOneRunning /\ RowsOrdered /\ NoRunnerNoJobs

IInv == TypeOK /\ Consistent /\ WorkConserving

LEMMA WithoutKeys ==
  ASSUME NEW S
  PROVE  Keys(Without(S)) = Keys(coord_state) \ S
BY DEF Keys, Without

\* schedule_jobs, entered with the handler's own changes jobs, reg and comp in
\* step with one another, leaves server, registry and table in step.
LEMMA ScheduleKeeps ==
  ASSUME TypeOK,
         NEW pid \in Conns \cup {Nil}, NEW jobs \in [Jobs -> CoordStates \cup {"absent"}],
         NEW reg \in SUBSET Jobs, NEW comp \in [Jobs -> Codes \cup {"nil"}],
         RowsOrdered,
         \A j \in Jobs : comp[j] # "nil" => j \in dispatched,
         Keys(jobs) = {j \in dispatched : comp[j] = "nil"},
         reg = Keys(jobs),
         \A i, j \in Keys(jobs) : i = j,
         pid = Nil => Keys(jobs) = {},
         schedule_jobs(pid, jobs, reg, comp),
         completion' = comp, UNCHANGED <<web, start>>
  PROVE  Consistent' /\ WorkConserving'
<1>1. PICK p \in NextJob(jobs, reg, comp) :
        IF p = Nil
        THEN /\ Continue(pid, jobs, reg, timer)
             /\ UNCHANGED <<dispatched, wire, starts>>
        ELSE /\ dispatched' = dispatched \cup {p}
             /\ IF pid = Nil
                THEN Die("schedule_send") /\ UNCHANGED <<wire, starts>>
                ELSE /\ Continue(pid, [jobs EXCEPT ![p] = "wait_for_start"], reg \cup {p}, Armed)
                     /\ wire' = SentTo(pid, "start_job", p)
                     /\ starts' = [starts EXCEPT ![p] = @ + 1]
  BY DEF schedule_jobs, Marked
<1>2. CASE p = Nil
  <2>1. Continue(pid, jobs, reg, timer) /\ UNCHANGED <<dispatched, wire, starts>>
    BY <1>1, <1>2
  <2>2. Running' = Keys(jobs) /\ Keys(coord_state)' = Keys(jobs)
    BY <2>1 DEF Running, Keys, Continue
  <2>3. Consistent'
    BY <2>1, <2>2 DEF Consistent, DownIsEmpty, ActiveConsistent, AtMostOneRunning, RowsOrdered,
                      NoRunnerNoJobs, Continue
  <2>4. \A j \in PendingRows(comp) : j \notin reg
    BY DEF PendingRows, Keys
  <2>5. Keys(jobs) # {} \/ PendingRows(comp) = {}
    BY <1>2, <2>4, NextJobPicks
  <2>6. PendingRows(completion)' = PendingRows(comp)
    BY <2>1 DEF PendingRows
  <2> QED
    BY <2>2, <2>3, <2>5, <2>6 DEF WorkConserving
<1>3. CASE p # Nil
  <2>1. p \in PendingRows(comp) /\ p \in Jobs /\ p \notin reg /\ Keys(jobs) = {}
    BY <1>3, NextJobPicks
  <2>2. comp[p] = "nil" /\ p \notin dispatched /\ web[p] # "absent"
    BY <2>1 DEF PendingRows
  <2>3. dispatched' = dispatched \cup {p} /\ Running' = {p}
    BY <1>1, <1>3, <2>1, <2>2 DEF Running
  <2>4. CASE pid = Nil
    <3>1. Die("schedule_send") /\ UNCHANGED starts
      BY <1>1, <1>3, <2>4
    <3> QED
      BY <2>2, <2>3, <3>1 DEF Consistent, DownIsEmpty, ActiveConsistent, AtMostOneRunning, RowsOrdered,
                              NoRunnerNoJobs, WorkConserving, Die, Keys
  <2>5. CASE pid # Nil
    <3>1. /\ Continue(pid, [jobs EXCEPT ![p] = "wait_for_start"], reg \cup {p}, Armed)
          /\ starts' = [starts EXCEPT ![p] = @ + 1]
      BY <1>1, <1>3, <2>5
    <3>2. Keys(coord_state)' = {p} /\ registered' = {p}
      BY <2>1, <3>1 DEF Continue, Keys
    <3>3. RowsOrdered'
      BY <2>1, <2>2, <2>3, <3>1 DEF RowsOrdered, TypeOK
    <3> QED
      BY <2>3, <2>5, <3>1, <3>2, <3>3 DEF Consistent, DownIsEmpty, ActiveConsistent, AtMostOneRunning,
                              NoRunnerNoJobs, WorkConserving, Continue
  <2> QED
    BY <2>4, <2>5
<1> QED
  BY <1>2, <1>3

\* A step that ends the server and adds no running job to the table keeps
\* the invariant.
LEMMA DieKeeps ==
  ASSUME NEW reason, Die(reason), RowsOrdered',
         \A i, j \in Running' : i = j
  PROVE  Consistent' /\ WorkConserving'
BY DEF Consistent, DownIsEmpty, ActiveConsistent, AtMostOneRunning, NoRunnerNoJobs, WorkConserving, Die, Keys

\* Completing some of the running jobs keeps the columns in order.
LEMMA CompleteKeeps ==
  ASSUME TypeOK, Consistent, up, NEW S, NEW c \in Codes, S \subseteq Running,
         completion' = complete_jobs(S, c), UNCHANGED <<web, dispatched, starts>>
  PROVE  RowsOrdered' /\ Running' = Running \ S
BY DEF TypeOK, Consistent, RowsOrdered, Running, complete_jobs, Codes

LEMMA HandleKeeps ==
  ASSUME IInv, Handle
  PROVE  Consistent' /\ WorkConserving'
<1> USE DEF IInv
<1>1. ASSUME NEW c \in Conns, connect_runner(c)
      PROVE  Consistent' /\ WorkConserving'
  <2>1. Keys(coord_state) = Running /\ registered = Running
    BY <1>1 DEF connect_runner, Consistent, ActiveConsistent
  <2>2. c # Nil
    BY ConnsAssumption
  <2> QED
    BY <1>1, <2>1, <2>2, ScheduleKeeps DEF connect_runner, TypeOK, Consistent, RowsOrdered, AtMostOneRunning, Running
<1>2. ASSUME NEW c \in Conns, runner_down(c)
      PROVE  Consistent' /\ WorkConserving'
  <2>1. Keys(coord_state) = Running /\ registered = Running /\ up
    BY <1>2 DEF runner_down, Consistent, ActiveConsistent
  <2>2. CASE c = runner_pid
    <3>1. /\ completion' = complete_jobs(Running, "failed")
          /\ Continue(Nil, Without(Running), registered \ Running, timer)
      BY <1>2, <2>1, <2>2 DEF runner_down
    <3>2. RowsOrdered' /\ Running' = {}
      BY <1>2, <2>1, <3>1, CompleteKeeps DEF runner_down, Codes
    <3>3. Keys(coord_state)' = {} /\ registered' = {} /\ runner_pid' = Nil /\ up'
      BY <2>1, <3>1 DEF Continue, Keys, Without
    <3> QED
      BY <3>2, <3>3 DEF Consistent, DownIsEmpty, ActiveConsistent, AtMostOneRunning, NoRunnerNoJobs, WorkConserving
  <2>3. CASE c # runner_pid
    <3>1. Die("function_clause") /\ UNCHANGED <<completion, dispatched, web, starts>>
      BY <1>2, <2>3 DEF runner_down
    <3>2. RowsOrdered' /\ Running' = Running
      BY <3>1 DEF Consistent, RowsOrdered, Running
    <3> QED
      BY <3>1, <3>2, DieKeeps DEF Consistent, AtMostOneRunning
  <2> QED
    BY <2>2, <2>3
<1>3. ASSUME NEW j \in Jobs, cast_schedule_jobs(j)
      PROVE  Consistent' /\ WorkConserving'
  <2>1. Keys(coord_state) = Running /\ registered = Running
    BY <1>3 DEF cast_schedule_jobs, Consistent, ActiveConsistent
  <2>2. /\ completion' = completion
        /\ schedule_jobs(runner_pid, coord_state, registered, completion)
        /\ UNCHANGED <<web, start>>
    BY <1>3 DEF cast_schedule_jobs
  <2>3. /\ RowsOrdered
        /\ \A i \in Jobs : completion[i] # "nil" => i \in dispatched
        /\ \A i, k \in Keys(coord_state) : i = k
        /\ runner_pid = Nil => Keys(coord_state) = {}
    BY <2>1 DEF Consistent, RowsOrdered, AtMostOneRunning, NoRunnerNoJobs
  <2>4. /\ Keys(coord_state) = {i \in dispatched : completion[i] = "nil"}
        /\ registered = Keys(coord_state)
    BY <2>1 DEF Running
  <2> QED
    BY <2>2, <2>3, <2>4, ScheduleKeeps DEF TypeOK
<1>4. ASSUME NEW j \in Jobs, terminate_job(j)
      PROVE  Consistent' /\ WorkConserving'
  <2>1. UNCHANGED <<web, start, dispatched, completion, starts>> /\ up
    BY <1>4 DEF terminate_job, db
  <2>2. RowsOrdered' /\ Running' = Running /\ PendingRows(completion)' = PendingRows(completion)
    BY <2>1 DEF Consistent, RowsOrdered, Running, PendingRows
  <2>3. CASE runner_pid = Nil
    BY <1>4, <2>2, <2>3, DieKeeps DEF terminate_job, Consistent, AtMostOneRunning
  <2>4. CASE runner_pid # Nil
    <3>1. Continue(runner_pid, coord_state, registered, timer)
      BY <1>4, <2>4 DEF terminate_job
    <3>2. Keys(coord_state)' = Keys(coord_state) /\ UNCHANGED <<registered, runner_pid>> /\ up'
      BY <3>1 DEF Continue, Keys
    <3>3. \A i \in Jobs : Schedule(i) \in mailbox => Schedule(i) \in mailbox'
      BY <1>4, <3>2, MessagesDistinct DEF terminate_job, Handled
    <3>4. Consistent'
      BY <2>1, <2>2, <3>2 DEF Consistent, DownIsEmpty, ActiveConsistent, AtMostOneRunning, NoRunnerNoJobs
    <3> QED
      BY <2>1, <2>2, <3>2, <3>3, <3>4 DEF WorkConserving
  <2> QED
    BY <2>3, <2>4
<1>5. ASSUME NEW j \in Jobs, NEW s \in JobReports, update_job_state(j, s)
      PROVE  Consistent' /\ WorkConserving'
  <2> DEFINE a    == act(coord_state[j], s)
             gone == IF a \in {"finished", "failed"} THEN {j} ELSE {}
             jobs == IF gone = {} THEN [coord_state EXCEPT ![j] = a] ELSE Without(gone)
             comp == complete_jobs(gone, a)
  <2>1. Keys(coord_state) = Running /\ registered = Running /\ up
    BY <1>5 DEF update_job_state, Consistent, ActiveConsistent
  <2>2. CASE coord_state[j] = "absent"
    <3>1. /\ Continue(runner_pid, coord_state, registered, timer)
          /\ UNCHANGED <<web, start, completion, dispatched, starts>>
      BY <1>5, <2>2 DEF update_job_state
    <3>2. Keys(coord_state)' = Keys(coord_state) /\ UNCHANGED <<registered, runner_pid>> /\ up'
      BY <3>1 DEF Continue, Keys
    <3>3. \A i \in Jobs : Schedule(i) \in mailbox => Schedule(i) \in mailbox'
      BY <1>5, <3>2, MessagesDistinct DEF update_job_state, Handled
    <3>4. RowsOrdered' /\ Running' = Running /\ PendingRows(completion)' = PendingRows(completion)
      BY <3>1 DEF Consistent, RowsOrdered, Running, PendingRows
    <3>5. Consistent'
      BY <2>1, <3>2, <3>4 DEF Consistent, DownIsEmpty, ActiveConsistent, AtMostOneRunning, NoRunnerNoJobs
    <3> QED
      BY <3>1, <3>2, <3>3, <3>4, <3>5 DEF WorkConserving
  <2>3. CASE coord_state[j] # "absent" /\ a = "no_clause"
    <3>1. Die("case_clause") /\ UNCHANGED <<completion, dispatched, web, starts>>
      BY <1>5, <2>3 DEF update_job_state
    <3>2. RowsOrdered' /\ Running' = Running
      BY <3>1 DEF Consistent, RowsOrdered, Running
    <3> QED
      BY <3>1, <3>2, DieKeeps DEF Consistent, AtMostOneRunning
  <2>4. CASE coord_state[j] # "absent" /\ a # "no_clause"
    <3>1. /\ completion' = comp
          /\ schedule_jobs(runner_pid, jobs, registered \ gone, comp)
          /\ UNCHANGED <<web, start>>
      BY <1>5, <2>4 DEF update_job_state
    <3>2. j \in Running
      BY <2>1, <2>4 DEF Keys
    <3>3. Keys(jobs) = Running \ gone
      <4>1. CASE gone = {}
        <5>1. a # "absent"
          BY ActTyped DEF CoordStates
        <5> QED
          BY <2>1, <3>2, <4>1, <5>1 DEF Keys, TypeOK
      <4>2. CASE gone # {}
        BY <2>1, <4>2, WithoutKeys
      <4> QED
        BY <4>1, <4>2
    <3>4. jobs \in [Jobs -> CoordStates \cup {"absent"}]
      BY <2>4, ActTyped, WithoutTyped DEF TypeOK
    <3>5. comp \in [Jobs -> Codes \cup {"nil"}]
      BY DEF TypeOK, complete_jobs, Codes
    <3>6. {i \in dispatched : comp[i] = "nil"} = Running \ gone
      BY <3>2 DEF complete_jobs, Running, TypeOK
    <3>7. \A i \in Jobs : comp[i] # "nil" => i \in dispatched
      BY <3>2 DEF complete_jobs, Running, TypeOK, Consistent, RowsOrdered
    <3>8. /\ registered \ gone \in SUBSET Jobs
          /\ registered \ gone = Keys(jobs)
          /\ runner_pid \in Conns \cup {Nil}
          /\ runner_pid = Nil => Keys(jobs) = {}
          /\ \A i, k \in Keys(jobs) : i = k
      BY <2>1, <3>3 DEF TypeOK, Consistent, NoRunnerNoJobs, AtMostOneRunning
    <3>9. RowsOrdered
      BY DEF Consistent
    <3> DEFINE reg == registered \ gone
    <3>10. Keys(jobs) = {i \in dispatched : comp[i] = "nil"}
      BY <3>3, <3>6
    <3>11. UNCHANGED <<web, start>>
      BY <3>1
    <3> HIDE DEF jobs, gone, comp, reg
    <3>12. reg \in SUBSET Jobs /\ reg = Keys(jobs) /\ schedule_jobs(runner_pid, jobs, reg, comp)
      BY <3>1, <3>8 DEF reg
    <3> QED
      BY <3>1, <3>4, <3>5, <3>7, <3>8, <3>9, <3>10, <3>11, <3>12, ScheduleKeeps
  <2> QED
    BY <2>2, <2>3, <2>4
<1>6. ASSUME runner_supervisor_timer
      PROVE  Consistent' /\ WorkConserving'
  <2>1. Keys(coord_state) = Running /\ registered = Running /\ up
    BY <1>6 DEF runner_supervisor_timer, Consistent, ActiveConsistent
  <2>2. CASE Waiting = Late
    <3>1. /\ completion' = complete_jobs(Late, "runner_timeout")
          /\ Continue(runner_pid, Without(Late), registered \ Late, Armed)
          /\ UNCHANGED <<web, start, dispatched, starts>>
      BY <1>6, <2>2 DEF runner_supervisor_timer
    <3>2. Late \subseteq Running
      BY <2>1 DEF Late, Waiting, Keys
    <3>3. RowsOrdered' /\ Running' = Running \ Late
      BY <2>1, <3>1, <3>2, CompleteKeeps DEF Codes
    <3>4. Keys(coord_state)' = Running \ Late /\ registered' = Running \ Late /\ UNCHANGED runner_pid /\ up'
      BY <2>1, <3>1, WithoutKeys DEF Continue, Keys, Without
    <3>5. Consistent'
      BY <3>3, <3>4, <2>1 DEF Consistent, DownIsEmpty, ActiveConsistent, AtMostOneRunning, NoRunnerNoJobs
    <3>6. CASE Late # {}
      <4>1. PICK i \in Late : TRUE
        BY <3>6
      <4>2. i \in Jobs /\ completion'[i] = "runner_timeout"
        BY <3>1, <4>1 DEF complete_jobs, Late, Waiting
      <4> QED
        BY <3>5, <4>2 DEF WorkConserving
    <3>7. CASE Late = {}
      <4>1. completion' = completion /\ Keys(coord_state)' = Keys(coord_state)
        BY <2>1, <3>1, <3>4, <3>7 DEF complete_jobs, TypeOK
      <4>2. PendingRows(completion)' = PendingRows(completion)
        BY <3>1, <4>1 DEF PendingRows
      <4>3. \A k \in Jobs : Schedule(k) \in mailbox => Schedule(k) \in mailbox'
        BY <1>6, <3>4, MessagesDistinct DEF runner_supervisor_timer, Handled
      <4> QED
        BY <3>1, <3>4, <3>5, <4>1, <4>2, <4>3 DEF WorkConserving
    <3> QED
      BY <3>6, <3>7
  <2>3. CASE Waiting # Late
    <3>1. Die("match_error") /\ UNCHANGED <<completion, dispatched, web, starts>>
      BY <1>6, <2>3 DEF runner_supervisor_timer
    <3>2. RowsOrdered' /\ Running' = Running
      BY <3>1 DEF Consistent, RowsOrdered, Running
    <3> QED
      BY <3>1, <3>2, DieKeeps DEF Consistent, AtMostOneRunning
  <2> QED
    BY <2>2, <2>3
<1> QED
  BY <1>1, <1>2, <1>3, <1>4, <1>5, <1>6 DEF Handle

\* A handler completes active jobs only.
LEMMA CompletesActive ==
  ASSUME TypeOK, NEW m \in mailbox
  PROVE  Completes(m) \subseteq Keys(coord_state)
<1>1. m \in Messages
  BY DEF TypeOK
<1>2. ASSUME m.type = "update_job_state"
      PROVE  m.job \in Jobs
  BY <1>1, <1>2 DEF Messages, Connect, Down, Update, Terminate, Schedule, TimerMsg
<1> QED
  BY <1>2 DEF Completes, Keys, Late, Waiting

\* An exception after any prefix of a handler's writes leaves a table that the
\* next server's init can repair.
LEMMA RaiseKeeps ==
  ASSUME IInv, NEW m \in mailbox, raises(m)
  PROVE  Consistent' /\ WorkConserving'
<1> DEFINE S    == Completes(m)
           comp == complete_jobs(S, CodeOf(m))
           next == IF Schedules(m) THEN NextJob(Without(S), registered \ S, comp) ELSE {Nil}
<1>1. TypeOK /\ Consistent /\ up
  BY DEF IInv, raises
<1>2. Keys(coord_state) = Running
  BY <1>1 DEF Consistent, ActiveConsistent
<1>3. S \subseteq Running
  BY <1>1, <1>2, CompletesActive
<1>4. Die("raised") /\ UNCHANGED <<web, start, starts>>
  BY DEF raises
<1>5. CASE UNCHANGED <<completion, dispatched>>
  <2>1. RowsOrdered' /\ Running' = Running
    BY <1>1, <1>4, <1>5 DEF Consistent, RowsOrdered, Running
  <2> QED
    BY <1>1, <1>4, <2>1, DieKeeps DEF Consistent, AtMostOneRunning
<1>6. CASE /\ completion' = comp
           /\ \E p \in next \cup {Nil} : dispatched' = dispatched \cup ({p} \ {Nil})
  <2>1. PICK p \in next \cup {Nil} : dispatched' = dispatched \cup ({p} \ {Nil})
    BY <1>6
  <2>2. S # {} => CodeOf(m) \in Codes
    BY DEF Completes, CodeOf, Codes
  <2>3. \A j \in Jobs : comp[j] = "nil" <=> completion[j] = "nil" /\ j \notin S
    BY <1>1, <2>2 DEF complete_jobs, TypeOK, Codes
  <2>4. p # Nil => p \in PendingRows(comp) /\ p \in Jobs /\ Keys(Without(S)) = {}
    BY NextJobPicks
  <2>5. p # Nil => p \notin dispatched /\ web[p] # "absent" /\ comp[p] = "nil" /\ Running \ S = {}
    BY <1>2, <2>4, WithoutKeys DEF PendingRows
  <2>6. RowsOrdered'
    BY <1>1, <1>3, <1>4, <1>6, <2>1, <2>3, <2>4, <2>5 DEF Consistent, RowsOrdered, Running, TypeOK
  <2>7. Running' = (Running \ S) \cup ({p} \ {Nil})
    BY <1>1, <1>6, <2>1, <2>3, <2>4, <2>5 DEF Running, TypeOK
  <2>8. \A i, j \in Running' : i = j
    BY <1>1, <2>5, <2>7 DEF Consistent, AtMostOneRunning
  <2> QED
    BY <1>4, <2>6, <2>8, DieKeeps
<1> QED
  BY <1>5, <1>6 DEF raises

LEMMA EnvironmentKeeps ==
  ASSUME IInv, Environment
  PROVE  Consistent' /\ WorkConserving'
<1> USE DEF IInv
<1>1. ASSUME NEW j \in Jobs, insert_job(j)
      PROVE  Consistent' /\ WorkConserving'
  <2>1. web'[j] = "inserted"
    BY <1>1 DEF insert_job, TypeOK
  <2>2. Running' = Running /\ Keys(coord_state)' = Keys(coord_state)
    BY <1>1 DEF insert_job, server, Running, Keys
  <2>3. RowsOrdered'
    BY <1>1 DEF insert_job, Consistent, RowsOrdered, TypeOK
  <2> QED
    BY <1>1, <2>1, <2>2, <2>3 DEF insert_job, server, Consistent, DownIsEmpty, ActiveConsistent, AtMostOneRunning,
                                  NoRunnerNoJobs, WorkConserving
<1>2. ASSUME NEW j \in Jobs, jobs_updated(j)
      PROVE  Consistent' /\ WorkConserving'
  <2>1. Running' = Running /\ Keys(coord_state)' = Keys(coord_state)
    BY <1>2 DEF jobs_updated, server, Running, Keys
  <2>2. RowsOrdered'
    BY <1>2 DEF jobs_updated, Consistent, RowsOrdered, TypeOK
  <2>3. Consistent'
    BY <1>2, <2>1, <2>2 DEF jobs_updated, server, Consistent, DownIsEmpty, ActiveConsistent, AtMostOneRunning,
                            NoRunnerNoJobs
  <2>4. up => Schedule(j) \in mailbox'
    BY <1>2 DEF jobs_updated
  <2>5. ~up => runner_pid' = Nil
    BY <1>2 DEF jobs_updated, server, Consistent, DownIsEmpty
  <2> QED
    BY <2>3, <2>4, <2>5 DEF WorkConserving
<1>3. ASSUME UNCHANGED <<web, start, dispatched, completion, up, runner_pid, coord_state, registered, starts>>,
             mailbox \subseteq mailbox'
      PROVE  Consistent' /\ WorkConserving'
  <2>1. /\ Running' = Running
        /\ Keys(coord_state)' = Keys(coord_state)
        /\ PendingRows(completion)' = PendingRows(completion)
    BY <1>3 DEF Running, Keys, PendingRows
  <2>2. RowsOrdered'
    BY <1>3 DEF Consistent, RowsOrdered
  <2>3. Consistent'
    BY <1>3, <2>1, <2>2 DEF Consistent, DownIsEmpty, ActiveConsistent, AtMostOneRunning, NoRunnerNoJobs
  <2> QED
    BY <1>3, <2>1, <2>3 DEF WorkConserving
<1>4. ASSUME NEW j \in Jobs, request_terminate(j)
      PROVE  Consistent' /\ WorkConserving'
  BY <1>3, <1>4 DEF request_terminate, db, server
<1>5. ASSUME NEW c \in Conns, \/ open_conn(c) \/ relookup(c) \/ close_conn(c)
                              \/ close_orphan(c) \/ receive(c)
      PROVE  Consistent' /\ WorkConserving'
  BY <1>3, <1>5 DEF open_conn, relookup, close_conn, close_orphan, receive, db, server
<1>6. ASSUME NEW c \in Conns, start_server(c)
      PROVE  Consistent' /\ WorkConserving'
  <2>1. CASE UNCHANGED <<up, exit, completion>>
    BY <1>3, <1>6, <2>1 DEF start_server
  <2>2. CASE ~up /\ up' /\ completion' = complete_jobs(CrashedJobs, "server_crashed")
    <3>1. /\ completion' = complete_jobs(Running, "server_crashed")
          /\ up'
          /\ UNCHANGED <<web, start, dispatched, runner_pid, coord_state, registered, starts>>
      BY <1>6, <2>2 DEF start_server, CrashedJobs, Running
    <3>2. runner_pid' = Nil /\ Keys(coord_state)' = {} /\ registered' = {}
      BY <2>2, <3>1 DEF Consistent, DownIsEmpty, Keys
    <3>3. Running' = {} /\ RowsOrdered'
      BY <3>1 DEF TypeOK, Consistent, RowsOrdered, Running, complete_jobs
    <3> QED
      BY <3>1, <3>2, <3>3 DEF Consistent, DownIsEmpty, ActiveConsistent, AtMostOneRunning, NoRunnerNoJobs,
                              WorkConserving
  <2> QED
    BY <1>6, <2>1, <2>2 DEF start_server
<1>7. ASSUME NEW j \in Jobs, NEW s \in JobReports, post_job_state(j, s)
      PROVE  Consistent' /\ WorkConserving'
  BY <1>3, <1>7 DEF post_job_state, db, server
<1>8. ASSUME tick
      PROVE  Consistent' /\ WorkConserving'
  BY <1>3, <1>8 DEF tick, db
<1>9. ASSUME NEW m \in mailbox, raises(m)
      PROVE  Consistent' /\ WorkConserving'
  BY <1>9, RaiseKeeps
<1> QED
  BY <1>1, <1>2, <1>4, <1>5, <1>6, <1>7, <1>8, <1>9 DEF Environment

LEMMA InitInv == Init => IInv
<1> SUFFICES ASSUME Init PROVE IInv
  OBVIOUS
<1>1. Running = {} /\ Keys(coord_state) = {}
  BY DEF Init, Running, Keys
<1>2. RowsOrdered
  BY DEF Init, RowsOrdered
<1> QED
  BY <1>1, <1>2, InitTyped DEF Init, IInv, Consistent, DownIsEmpty, ActiveConsistent, AtMostOneRunning,
                               NoRunnerNoJobs, WorkConserving

LEMMA NextInv == IInv /\ [Next]_vars => IInv'
<1> SUFFICES ASSUME IInv, [Next]_vars PROVE IInv'
  OBVIOUS
<1>1. TypeOK'
  BY NextTyped DEF IInv
<1>2. CASE Next
  BY <1>1, <1>2, HandleKeeps, EnvironmentKeeps DEF Next, IInv
<1>3. CASE UNCHANGED vars
  <2>1. /\ Running' = Running
        /\ Keys(coord_state)' = Keys(coord_state)
        /\ PendingRows(completion)' = PendingRows(completion)
    BY <1>3 DEF vars, Running, Keys, PendingRows
  <2> QED
    BY <1>1, <1>3, <2>1 DEF vars, IInv, Consistent, DownIsEmpty, ActiveConsistent, AtMostOneRunning, RowsOrdered,
                            NoRunnerNoJobs, WorkConserving
<1> QED
  BY <1>2, <1>3

\* The inductive invariant holds in every reachable state.
THEOREM Invariant == Spec => []IInv
BY InitInv, NextInv, PTL DEF Spec

\* The server's active jobs, its registry keys and the dispatched rows without
\* a completion code are the same jobs in every reachable state.
THEOREM ActiveConsistentHolds == Spec => []ActiveConsistent
<1>1. IInv => ActiveConsistent
  BY DEF IInv, Consistent
<1> QED
  BY <1>1, Invariant, PTL

\* At most one job runs, said with a cardinality as the property does.
LEMMA OneRunning == IInv => OneJobAtATime
<1> SUFFICES ASSUME IInv PROVE OneJobAtATime
  OBVIOUS
<1>1. CASE Running = {}
  BY <1>1, FS_EmptySet DEF OneJobAtATime, max_jobs
<1>2. CASE Running # {}
  <2>1. PICK j \in Running : TRUE
    BY <1>2
  <2>2. Running = {j}
    BY <2>1 DEF IInv, Consistent, AtMostOneRunning
  <2> QED
    BY <2>2, FS_Singleton DEF OneJobAtATime, max_jobs
<1> QED
  BY <1>1, <1>2

\* At most one job is dispatched and not completed, across crashes too.
THEOREM OneJobAtATimeHolds == Spec => []OneJobAtATime
BY OneRunning, Invariant, PTL

\* start_job is sent at most once per job.
THEOREM StartedAtMostOnceHolds == Spec => []StartedAtMostOnce
<1>1. IInv => StartedAtMostOnce
  BY DEF IInv, Consistent, RowsOrdered, StartedAtMostOnce
<1> QED
  BY <1>1, Invariant, PTL

\* A server without a runner connection has no active job.
THEOREM NoRunnerNoJobsHolds == Spec => []NoRunnerNoJobs
<1>1. IInv => NoRunnerNoJobs
  BY DEF IInv, Consistent
<1> QED
  BY <1>1, Invariant, PTL

\* Unless a job timed out, a free, connected board with a pending job has a
\* scheduling step under way.
THEOREM WorkConservingHolds == Spec => []WorkConserving
<1>1. IInv => WorkConserving
  BY DEF IInv
<1> QED
  BY <1>1, Invariant, PTL

-----------------------------------------------------------------------------
(* The reports of a runner meet a clause.                                  *)

\* The coordinator's states of a job whose runner has got as far as r.
Upto(r) ==
  CASE r \in {"unknown", "told"} -> {"wait_for_start"}
    [] r = "starting"            -> {"wait_for_start", "starting"}
    [] r = "ready"               -> {"wait_for_start", "starting", "ready"}
    [] OTHER                     -> CoordStates

\* The coordinator's states with a clause for report s.
Before(s) ==
  CASE s = "starting" -> {"wait_for_start", "starting"}
    [] s = "ready"    -> {"wait_for_start", "starting", "ready"}
    [] OTHER          -> CoordStates

\* With messages mail on the way, the coordinator's state of job j is behind
\* the runner's.  At most one report other than failed is in flight; nothing
\* but a failed was reported after it, and it has a clause.
Follows(j, state, mail) ==
  /\ state \in Upto(reported[j])
  /\ \A s \in JobReports \ {"failed"} :
       Update(j, s) \in mail =>
         /\ state \in Before(s)
         /\ reported[j] \in {s, "failed"}
         /\ \A t \in JobReports \ {"failed"} : Update(j, t) \in mail => t = s

\* Reports are about dispatched jobs, and every active job follows its runner.
ReportsFollow ==
  /\ \A j \in Jobs, s \in JobReports : Update(j, s) \in mailbox => j \in dispatched
  /\ \A j \in registered : Follows(j, coord_state[j], mailbox)

ReportsInv == ReportsFollow /\ ReportsHaveClause

\* The reports in the mailbox are among those that were there.
NoNewReports == \A j \in Jobs, s \in JobReports : Update(j, s) \in mailbox' => Update(j, s) \in mailbox

LEMMA ReportsDistinct ==
  /\ \A j \in Jobs, s \in JobReports : \A c \in Conns : Update(j, s) # Connect(c) /\ Update(j, s) # Down(c)
  /\ \A j \in Jobs, s \in JobReports : \A i \in Jobs : Update(j, s) # Schedule(i) /\ Update(j, s) # Terminate(i)
  /\ \A j \in Jobs, s \in JobReports : \A i \in Jobs, t \in JobReports : Update(j, s) = Update(i, t) => i = j /\ s = t
  /\ \A j \in Jobs, s \in JobReports : Update(j, s) # TimerMsg
BY DEF Schedule, Connect, Down, Update, Terminate, TimerMsg

\* A report in the order of the runner's has a clause.
LEMMA ActHasClause ==
  ASSUME NEW s \in JobReports, NEW state \in Before(s)
  PROVE  act(state, s) # "no_clause" /\ (s \notin {"finished", "failed"} => act(state, s) = s)
BY DEF Before, act, JobReports, CoordStates

\* What the coordinator may take over once s was reported.
LEMMA ReportedIsUpto ==
  ASSUME NEW s \in {"starting", "ready", "stopping"}, NEW r \in {s, "failed"}
  PROVE  s \in Upto(r)
BY DEF Upto, CoordStates

\* What a report of s, posted at reported state r, finds.
LEMMA PostedIsAhead ==
  ASSUME NEW s \in JobReports, NEW r \in Precedes(s), NEW state \in Upto(r)
  PROVE  /\ state \in Before(s)
         /\ state \in Upto(IF r = "finished" THEN r ELSE s)
<1>1. CASE s \in {"starting", "ready"}
  BY <1>1 DEF Upto, Before, Precedes
<1>2. CASE s \in {"stopping", "finished", "failed"}
  <2>1. state \in CoordStates
    BY <1>2 DEF Upto, CoordStates
  <2> QED
    BY <1>2, <2>1 DEF Upto, Before
<1> QED
  BY <1>1, <1>2 DEF JobReports

LEMMA FollowKept ==
  ASSUME ReportsFollow, dispatched \subseteq dispatched', NoNewReports,
         registered' \subseteq registered, registered' \subseteq Jobs,
         \A j \in registered' : coord_state'[j] = coord_state[j] /\ reported'[j] = reported[j]
  PROVE  ReportsFollow'
<1>1. \A j \in Jobs, s \in JobReports : Update(j, s) \in mailbox' => j \in dispatched'
  BY DEF ReportsFollow, NoNewReports
<1>2. ASSUME NEW j \in registered'
      PROVE  Follows(j, coord_state[j], mailbox)'
  BY <1>2 DEF ReportsFollow, Follows, NoNewReports
<1> QED
  BY <1>1, <1>2 DEF ReportsFollow

\* schedule_jobs, entered with jobs that follow their runners, adds a job
\* nothing was reported of.
LEMMA ScheduleFollows ==
  ASSUME TypeOK, ReportsFollow, NoNewReports,
         NEW pid, NEW jobs \in [Jobs -> CoordStates \cup {"absent"}], NEW reg \in SUBSET Jobs, NEW comp,
         \A j \in reg : Follows(j, jobs[j], mailbox'),
         schedule_jobs(pid, jobs, reg, comp)
  PROVE  ReportsInv'
<1>1. PICK p \in NextJob(jobs, reg, comp) :
        IF p = Nil
        THEN /\ Continue(pid, jobs, reg, timer)
             /\ UNCHANGED <<dispatched, wire, starts>>
        ELSE /\ dispatched' = dispatched \cup {p}
             /\ IF pid = Nil
                THEN Die("schedule_send") /\ UNCHANGED <<wire, starts>>
                ELSE /\ Continue(pid, [jobs EXCEPT ![p] = "wait_for_start"], reg \cup {p}, Armed)
                     /\ wire' = SentTo(pid, "start_job", p)
                     /\ starts' = [starts EXCEPT ![p] = @ + 1]
  BY DEF schedule_jobs, Marked
<1>2. \A j \in Jobs, s \in JobReports : Update(j, s) \in mailbox' => j \in dispatched /\ j \in dispatched'
  BY <1>1 DEF ReportsFollow, NoNewReports
<1>3. CASE p = Nil
  <2>1. Continue(pid, jobs, reg, timer)
    BY <1>1, <1>3
  <2>2. \A j \in registered' : j \in reg /\ coord_state'[j] = jobs[j] /\ reported'[j] = reported[j]
    BY <2>1 DEF Continue
  <2>3. \A j \in registered' : Follows(j, coord_state[j], mailbox)'
    BY <2>2 DEF Follows
  <2> QED
    BY <1>2, <2>1, <2>3 DEF ReportsInv, ReportsFollow, ReportsHaveClause, Continue
<1>4. CASE p # Nil /\ pid = Nil
  BY <1>1, <1>2, <1>4 DEF Die, ReportsInv, ReportsFollow, ReportsHaveClause
<1>5. CASE p # Nil /\ pid # Nil
  <2>1. p \in PendingRows(comp) /\ p \in Jobs /\ p \notin dispatched
    BY <1>5, NextJobPicks DEF PendingRows
  <2>2. Continue(pid, [jobs EXCEPT ![p] = "wait_for_start"], reg \cup {p}, Armed)
    BY <1>1, <1>5
  <2>3. \A j \in registered' : /\ j = p \/ j \in reg
                               /\ coord_state'[j] = IF j = p THEN "wait_for_start" ELSE jobs[j]
                               /\ reported'[j] = reported[j]
    BY <2>1, <2>2 DEF Continue
  <2>4. \A s \in JobReports : Update(p, s) \notin mailbox'
    BY <1>2, <2>1
  <2>5. ASSUME NEW j \in registered'
        PROVE  Follows(j, coord_state[j], mailbox)'
    <3>1. CASE j = p
      <4>1. "wait_for_start" \in Upto(reported[j])
        BY DEF Upto, CoordStates
      <4> QED
        BY <2>3, <2>4, <2>5, <3>1, <4>1 DEF Follows
    <3>2. CASE j # p
      BY <2>3, <2>5, <3>2 DEF Follows
    <3> QED
      BY <3>1, <3>2
  <2> QED
    BY <1>2, <2>2, <2>5 DEF ReportsInv, ReportsFollow, ReportsHaveClause, Continue
<1> QED
  BY <1>3, <1>4, <1>5

\* The end of the server for another reason forgets every job.
LEMMA DieFollows ==
  ASSUME ReportsFollow, dispatched \subseteq dispatched', NoNewReports, NEW reason, Die(reason), reason # "case_clause"
  PROVE  ReportsInv'
BY DEF ReportsFollow, NoNewReports, Die, ReportsInv, ReportsHaveClause

LEMMA ContinueFollows ==
  ASSUME TypeOK, ReportsFollow, UNCHANGED dispatched, NoNewReports, NEW pid, NEW jobs, NEW reg, NEW tm,
         Continue(pid, jobs, reg, tm), reg \subseteq registered, \A j \in reg : jobs[j] = coord_state[j]
  PROVE  ReportsInv'
<1>1. \A j \in registered' : coord_state'[j] = coord_state[j] /\ reported'[j] = reported[j]
  BY DEF Continue, TypeOK
<1>2. registered' \subseteq registered /\ registered' \subseteq Jobs
  BY DEF Continue, TypeOK
<1>3. ReportsFollow'
  BY <1>1, <1>2, FollowKept
<1> QED
  BY <1>3 DEF ReportsInv, ReportsHaveClause, Continue

\* Handling a message other than a report adds no report.
LEMMA HandledReports ==
  ASSUME NEW m, NEW new, NEW c, NEW stage, Handled(m, new, c, stage),
         \A j \in Jobs, s \in JobReports : Update(j, s) \notin new
  PROVE  NoNewReports
BY DEF Handled, NoNewReports

LEMMA HandleFollows ==
  ASSUME IInv, ReportsInv, Handle
  PROVE  ReportsInv'
<1> USE ReportsDistinct
<1>0. TypeOK /\ Consistent /\ ReportsFollow
  BY DEF IInv, ReportsInv
<1>1. ASSUME NEW c \in Conns, connect_runner(c)
      PROVE  ReportsInv'
  <2>1. NoNewReports
    BY <1>1, HandledReports DEF connect_runner
  <2>2. \A j \in registered : Follows(j, coord_state[j], mailbox')
    BY <1>0, <2>1 DEF ReportsFollow, Follows, NoNewReports, TypeOK
  <2>3. schedule_jobs(c, coord_state, registered, completion)
    BY <1>1 DEF connect_runner
  <2> QED
    BY <1>0, <2>1, <2>2, <2>3, ScheduleFollows DEF TypeOK
<1>2. ASSUME NEW c \in Conns, runner_down(c)
      PROVE  ReportsInv'
  <2>1. NoNewReports /\ dispatched' = dispatched
    BY <1>2, HandledReports DEF runner_down
  <2>2. CASE c = runner_pid
    <3>1. Continue(Nil, Without(Keys(coord_state)), registered \ Keys(coord_state), timer)
      BY <1>2, <2>2 DEF runner_down
    <3>2. \A j \in registered \ Keys(coord_state) : Without(Keys(coord_state))[j] = coord_state[j]
      BY <1>0 DEF Without, TypeOK
    <3> QED
      BY <1>0, <2>1, <3>1, <3>2, ContinueFollows
  <2>3. CASE c # runner_pid
    BY <1>0, <1>2, <2>1, <2>3, DieFollows DEF runner_down
  <2> QED
    BY <2>2, <2>3
<1>3. ASSUME NEW i \in Jobs, cast_schedule_jobs(i)
      PROVE  ReportsInv'
  <2>1. NoNewReports
    BY <1>3, HandledReports DEF cast_schedule_jobs
  <2>2. \A j \in registered : Follows(j, coord_state[j], mailbox')
    BY <1>0, <2>1 DEF ReportsFollow, Follows, NoNewReports, TypeOK
  <2>3. schedule_jobs(runner_pid, coord_state, registered, completion)
    BY <1>3 DEF cast_schedule_jobs
  <2> QED
    BY <1>0, <2>1, <2>2, <2>3, ScheduleFollows DEF TypeOK
<1>4. ASSUME NEW i \in Jobs, terminate_job(i)
      PROVE  ReportsInv'
  <2>1. NoNewReports /\ dispatched' = dispatched
    BY <1>4, HandledReports DEF terminate_job, db
  <2>2. CASE runner_pid = Nil
    BY <1>0, <1>4, <2>1, <2>2, DieFollows DEF terminate_job
  <2>3. CASE runner_pid # Nil
    <3>1. Continue(runner_pid, coord_state, registered, timer)
      BY <1>4, <2>3 DEF terminate_job
    <3> QED
      BY <1>0, <2>1, <3>1, ContinueFollows
  <2> QED
    BY <2>2, <2>3
<1>5. ASSUME NEW i \in Jobs, NEW s \in JobReports, update_job_state(i, s)
      PROVE  ReportsInv'
  <2> DEFINE a    == act(coord_state[i], s)
             gone == IF a \in {"finished", "failed"} THEN {i} ELSE {}
             jobs == IF gone = {} THEN [coord_state EXCEPT ![i] = a] ELSE Without(gone)
             comp == complete_jobs(gone, a)
             reg  == registered \ gone
  <2>1. NoNewReports /\ up /\ Update(i, s) \in mailbox
    BY <1>5, HandledReports DEF update_job_state
  <2>2. CASE coord_state[i] = "absent"
    <3>1. Continue(runner_pid, coord_state, registered, timer) /\ dispatched' = dispatched
      BY <1>5, <2>2 DEF update_job_state
    <3> QED
      BY <1>0, <2>1, <3>1, ContinueFollows
  <2>3. CASE coord_state[i] # "absent"
    <3>1. i \in registered
      BY <1>0, <2>1, <2>3 DEF Consistent, ActiveConsistent, Keys
    <3>2. Follows(i, coord_state[i], mailbox)
      BY <1>0, <3>1 DEF ReportsFollow
    <3>3. coord_state[i] \in Before(s)
      <4>1. CASE s = "failed"
        BY <1>0, <2>3, <4>1 DEF Before, TypeOK
      <4>2. CASE s # "failed"
        BY <2>1, <3>2, <4>2 DEF Follows
      <4> QED
        BY <4>1, <4>2
    <3>4. a # "no_clause" /\ (s \notin {"finished", "failed"} => a = s) /\ (s \in {"finished", "failed"} => a = s)
      BY <3>3, ActHasClause DEF act
    <3>5. schedule_jobs(runner_pid, jobs, reg, comp)
      BY <1>5, <2>3, <3>4 DEF update_job_state
    <3>6. jobs \in [Jobs -> CoordStates \cup {"absent"}]
      BY <1>0, <3>4, ActTyped, WithoutTyped DEF TypeOK
    <3>7. ASSUME NEW j \in reg
          PROVE  Follows(j, jobs[j], mailbox')
      <4>1. j \in registered /\ j \in Jobs
        BY <1>0 DEF TypeOK
      <4>2. Follows(j, coord_state[j], mailbox)
        BY <1>0, <4>1 DEF ReportsFollow
      <4>3. CASE j # i
        <5>1. jobs[j] = coord_state[j]
          BY <1>0, <4>1, <4>3 DEF TypeOK, Without
        <5> HIDE DEF jobs
        <5> QED
          BY <2>1, <4>1, <4>2, <5>1 DEF Follows, NoNewReports
      <4>4. CASE j = i
        <5>1. s \in {"starting", "ready", "stopping"} /\ jobs[j] = s
          BY <1>0, <3>4, <4>1, <4>4 DEF JobReports, TypeOK
        <5>2. reported[j] \in {s, "failed"} /\ (\A t \in JobReports \ {"failed"} : Update(j, t) \in mailbox => t = s)
          BY <2>1, <4>2, <4>4, <5>1 DEF Follows, JobReports
        <5>3. s \in Upto(reported[j])
          BY <5>1, <5>2, ReportedIsUpto
        <5>4. Update(j, s) \notin mailbox'
          BY <1>5, <4>4 DEF update_job_state, Handled
        <5> HIDE DEF jobs
        <5> QED
          BY <2>1, <4>1, <5>1, <5>2, <5>3, <5>4 DEF Follows, NoNewReports
      <4> QED
        BY <4>3, <4>4
    <3>8. reg \in SUBSET Jobs
      BY <1>0 DEF TypeOK
    <3> HIDE DEF jobs, reg, comp
    <3> QED
      BY <1>0, <2>1, <3>5, <3>6, <3>7, <3>8, ScheduleFollows
  <2> QED
    BY <2>2, <2>3
<1>6. ASSUME runner_supervisor_timer
      PROVE  ReportsInv'
  <2>1. NoNewReports /\ dispatched' = dispatched
    BY <1>6, HandledReports DEF runner_supervisor_timer
  <2>2. CASE Waiting = Late
    <3>1. Continue(runner_pid, Without(Late), registered \ Late, Armed)
      BY <1>6, <2>2 DEF runner_supervisor_timer
    <3>2. \A j \in registered \ Late : Without(Late)[j] = coord_state[j]
      BY <1>0 DEF Without, TypeOK
    <3> QED
      BY <1>0, <2>1, <3>1, <3>2, ContinueFollows
  <2>3. CASE Waiting # Late
    BY <1>0, <1>6, <2>1, <2>3, DieFollows DEF runner_supervisor_timer
  <2> QED
    BY <2>2, <2>3
<1> QED
  BY <1>1, <1>2, <1>3, <1>4, <1>5, <1>6 DEF Handle

LEMMA EnvironmentFollows ==
  ASSUME IInv, ReportsInv, Environment
  PROVE  ReportsInv'
<1> USE ReportsDistinct
<1>0. TypeOK /\ Consistent /\ ReportsFollow /\ exit # "case_clause" /\ registered \subseteq Jobs
  BY DEF IInv, ReportsInv, ReportsHaveClause, TypeOK
<1>1. ASSUME UNCHANGED <<dispatched, registered, coord_state, reported>>, exit' \in {exit, "none"}, NoNewReports
      PROVE  ReportsInv'
  <2>1. ReportsFollow'
    BY <1>0, <1>1, FollowKept
  <2> QED
    BY <1>0, <1>1, <2>1 DEF ReportsInv, ReportsHaveClause
<1>2. ASSUME NEW j \in Jobs, insert_job(j) \/ jobs_updated(j) \/ request_terminate(j)
      PROVE  ReportsInv'
  <2>1. NoNewReports
    BY <1>2 DEF insert_job, jobs_updated, request_terminate, NoNewReports
  <2> QED
    BY <1>1, <1>2, <2>1 DEF insert_job, jobs_updated, request_terminate, server, ends, db
<1>3. ASSUME NEW c \in Conns, open_conn(c) \/ relookup(c) \/ close_conn(c) \/ close_orphan(c)
      PROVE  ReportsInv'
  <2>1. NoNewReports
    BY <1>3 DEF open_conn, relookup, close_conn, close_orphan, NoNewReports
  <2> QED
    BY <1>1, <1>3, <2>1 DEF open_conn, relookup, close_conn, close_orphan, server, db
<1>4. ASSUME NEW c \in Conns, start_server(c)
      PROVE  ReportsInv'
  BY <1>1, <1>4 DEF start_server, NoNewReports
<1>5. ASSUME NEW c \in Conns, receive(c)
      PROVE  ReportsInv'
  <2> DEFINE i == Head(wire[c]).job
  <2>1. /\ UNCHANGED <<dispatched, registered, coord_state, exit, mailbox>>
        /\ reported' = [reported EXCEPT ![i] = IF @ = "unknown" /\ i \in registered THEN "told" ELSE @]
    BY <1>5 DEF receive, db, server
  <2>2. ASSUME NEW j \in registered
        PROVE  Follows(j, coord_state[j], mailbox)'
    <3>1. Follows(j, coord_state[j], mailbox)
      BY <1>0 DEF ReportsFollow
    <3>2. reported'[j] = reported[j] \/ (reported[j] = "unknown" /\ reported'[j] = "told")
      BY <1>0, <2>1 DEF TypeOK
    <3>3. Upto(reported[j])' = Upto(reported[j])
      BY <3>2 DEF Upto
    <3>4. ASSUME NEW s \in JobReports, reported[j] \in {s, "failed"}
          PROVE  reported[j]' \in {s, "failed"}
      BY <3>2, <3>4 DEF JobReports
    <3> QED
      BY <2>1, <3>1, <3>3, <3>4 DEF Follows
  <2> QED
    BY <1>0, <2>1, <2>2 DEF ReportsInv, ReportsFollow, ReportsHaveClause
<1>6. ASSUME NEW i \in Jobs, NEW s \in JobReports, post_job_state(i, s)
      PROVE  ReportsInv'
  <2>1. /\ UNCHANGED <<dispatched, registered, coord_state, exit>>
        /\ i \in registered
        /\ reported[i] \in Precedes(s)
        /\ s # "failed" => \A t \in JobReports \ {"failed"} : Update(i, t) \notin mailbox
        /\ reported' = [reported EXCEPT ![i] = IF @ = "finished" THEN @ ELSE s]
        /\ mailbox' = mailbox \cup {Update(i, s)}
    BY <1>6 DEF post_job_state, db, server
  <2>2. i \in dispatched /\ \A j \in Jobs, t \in JobReports : Update(j, t) \in mailbox' => j \in dispatched'
    <3>1. i \in dispatched
      BY <1>0, <2>1 DEF Consistent, DownIsEmpty, ActiveConsistent, Running
    <3> QED
      BY <1>0, <2>1, <3>1 DEF ReportsFollow
  <2>3. ASSUME NEW j \in registered
        PROVE  Follows(j, coord_state[j], mailbox)'
    <3>1. Follows(j, coord_state[j], mailbox)
      BY <1>0 DEF ReportsFollow
    <3>2. CASE j # i
      BY <1>0, <2>1, <3>1, <3>2 DEF Follows
    <3>3. CASE j = i
      <4>1. reported'[j] = IF reported[j] = "finished" THEN reported[j] ELSE s
        BY <1>0, <2>1, <3>3 DEF TypeOK
      <4>2. coord_state[j] \in Before(s) /\ coord_state[j] \in Upto(reported'[j])
        BY <2>1, <3>1, <3>3, <4>1, PostedIsAhead DEF Follows
      <4>3. CASE s = "failed"
        <5>1. \A t \in JobReports \ {"failed"} : Update(j, t) \in mailbox' => Update(j, t) \in mailbox
          BY <1>0, <2>1, <4>3
        <5>2. reported'[j] = reported[j] \/ reported'[j] = "failed"
          BY <4>1, <4>3
        <5> QED
          BY <2>1, <3>1, <4>2, <5>1, <5>2 DEF Follows
      <4>4. CASE s # "failed"
        <5>1. \A t \in JobReports \ {"failed"} : Update(j, t) \in mailbox' => t = s
          BY <1>0, <2>1, <3>3, <4>4
        <5>2. reported'[j] = s
          BY <2>1, <3>3, <4>1, <4>4 DEF Precedes, JobReports
        <5> QED
          BY <2>1, <4>2, <5>1, <5>2 DEF Follows
      <4> QED
        BY <4>3, <4>4
    <3> QED
      BY <3>2, <3>3
  <2> QED
    BY <1>0, <2>1, <2>2, <2>3 DEF ReportsInv, ReportsFollow, ReportsHaveClause
<1>7. ASSUME tick
      PROVE  ReportsInv'
  <2>1. NoNewReports
    BY <1>7 DEF tick, NoNewReports
  <2> QED
    BY <1>1, <1>7, <2>1 DEF tick, db, ends
<1>8. ASSUME NEW m \in mailbox, raises(m)
      PROVE  ReportsInv'
  <2>1. NoNewReports
    BY <1>8, HandledReports DEF raises
  <2>2. dispatched \subseteq dispatched' /\ Die("raised")
    BY <1>8 DEF raises
  <2> QED
    BY <1>0, <2>1, <2>2, DieFollows
<1> QED
  BY <1>2, <1>3, <1>4, <1>5, <1>6, <1>7, <1>8 DEF Environment

LEMMA ReportsInit ==
  ASSUME registered = {}, mailbox = {}, exit = "none"
  PROVE  ReportsInv
BY DEF ReportsInv, ReportsFollow, ReportsHaveClause

LEMMA ReportsNext == IInv /\ ReportsInv /\ [Next]_vars => ReportsInv'
<1> SUFFICES ASSUME IInv, ReportsInv, [Next]_vars PROVE ReportsInv'
  OBVIOUS
<1>1. CASE Next
  BY <1>1, HandleFollows, EnvironmentFollows DEF Next
<1>2. CASE UNCHANGED vars
  BY <1>2 DEF vars, ReportsInv, ReportsFollow, ReportsHaveClause, Follows
<1> QED
  BY <1>1, <1>2

\* A state report posted in the order a runner's state machine posts them
\* never ends the server for want of a clause of update_job_state.
THEOREM ReportsHaveClauseHolds == Spec => []ReportsHaveClause
<1>1. Init => ReportsInv
  BY ReportsInit DEF Init
<1>2. ReportsInv => ReportsHaveClause
  BY DEF ReportsInv
<1> QED
  BY <1>1, <1>2, Invariant, ReportsNext, PTL DEF Spec

-----------------------------------------------------------------------------
(* What a step does to the jobs table, and the refinement of JobLifecycle. *)

\* A step completes some of the running jobs and may then hand the free slot
\* to an earliest pending job.
TableStep(S, c, D) ==
  /\ S \subseteq Running
  /\ completion' = complete_jobs(S, c)
  /\ dispatched' = dispatched \cup D
  /\ D # {} => Running \ S = {} /\ \E p \in PendingRows(completion) : D = {p}
  /\ \A j \in Jobs : web'[j] = "absent" <=> web[j] = "absent"
  /\ start' = start

TableChanges == \E S \in SUBSET Running, c \in Codes, D \in SUBSET Jobs : TableStep(S, c, D)

\* Completing running jobs does not change what is pending.
LEMMA PendingKept ==
  ASSUME TypeOK, NEW S \in SUBSET Running, NEW c \in Codes
  PROVE  PendingRows(complete_jobs(S, c)) = PendingRows(completion)
BY DEF PendingRows, complete_jobs, Running, TypeOK

LEMMA TableUnchanged ==
  ASSUME TypeOK, UNCHANGED <<start, dispatched, completion>>,
         \A j \in Jobs : web'[j] = "absent" <=> web[j] = "absent"
  PROVE  TableChanges
<1>1. completion' = complete_jobs({}, "failed")
  BY DEF complete_jobs, TypeOK
<1>2. TableStep({}, "failed", {})
  BY <1>1 DEF TableStep
<1> QED
  BY <1>2 DEF TableChanges, Codes

LEMMA TableCompletes ==
  ASSUME TypeOK, NEW S \in SUBSET Running, NEW c \in Codes,
         completion' = complete_jobs(S, c), UNCHANGED <<web, start, dispatched>>
  PROVE  TableChanges
<1>1. TableStep(S, c, {})
  BY DEF TableStep
<1> QED
  BY <1>1 DEF TableChanges

LEMMA TableSchedules ==
  ASSUME TypeOK, NEW S \in SUBSET Running, NEW c \in Codes, NEW pid, NEW jobs, NEW reg,
         Keys(jobs) = Running \ S,
         schedule_jobs(pid, jobs, reg, complete_jobs(S, c)),
         completion' = complete_jobs(S, c), UNCHANGED <<web, start>>
  PROVE  TableChanges
<1>1. PICK p \in NextJob(jobs, reg, complete_jobs(S, c)) :
        IF p = Nil THEN dispatched' = dispatched ELSE dispatched' = dispatched \cup {p}
  BY DEF schedule_jobs, Marked
<1>2. p # Nil => p \in PendingRows(completion) /\ p \in Jobs /\ Running \ S = {}
  BY NextJobPicks, PendingKept
<1>3. CASE p = Nil
  BY <1>1, <1>3, TableCompletes
<1>4. CASE p # Nil
  <2>1. TableStep(S, c, {p})
    BY <1>1, <1>2, <1>4 DEF TableStep
  <2> QED
    BY <1>2, <1>4, <2>1 DEF TableChanges
<1> QED
  BY <1>3, <1>4

LEMMA HandleTable ==
  ASSUME IInv, Handle
  PROVE  TableChanges
<1> USE DEF IInv
<1>0. up /\ Keys(coord_state) = Running /\ registered = Running
  BY DEF Handle, connect_runner, runner_down, cast_schedule_jobs, terminate_job, update_job_state,
         runner_supervisor_timer, Consistent, ActiveConsistent
<1>a. completion = complete_jobs({}, "failed")
  BY DEF complete_jobs, TypeOK
<1>1. ASSUME NEW c \in Conns, connect_runner(c)
      PROVE  TableChanges
  <2>1. /\ schedule_jobs(c, coord_state, registered, complete_jobs({}, "failed"))
        /\ completion' = complete_jobs({}, "failed")
        /\ UNCHANGED <<web, start>>
    BY <1>1, <1>a DEF connect_runner
  <2>2. {} \in SUBSET Running /\ "failed" \in Codes /\ Keys(coord_state) = Running \ {}
    BY <1>0 DEF Codes
  <2> QED
    BY <2>1, <2>2, TableSchedules
<1>2. ASSUME NEW c \in Conns, runner_down(c)
      PROVE  TableChanges
  <2>1. CASE c = runner_pid
    BY <1>0, <1>2, <2>1, TableCompletes DEF runner_down, Codes
  <2>2. CASE c # runner_pid
    BY <1>2, <2>2, TableUnchanged DEF runner_down
  <2> QED
    BY <2>1, <2>2
<1>3. ASSUME NEW j \in Jobs, cast_schedule_jobs(j)
      PROVE  TableChanges
  <2>1. /\ schedule_jobs(runner_pid, coord_state, registered, complete_jobs({}, "failed"))
        /\ completion' = complete_jobs({}, "failed")
        /\ UNCHANGED <<web, start>>
    BY <1>3, <1>a DEF cast_schedule_jobs
  <2>2. {} \in SUBSET Running /\ "failed" \in Codes /\ Keys(coord_state) = Running \ {}
    BY <1>0 DEF Codes
  <2> QED
    BY <2>1, <2>2, TableSchedules
<1>4. ASSUME NEW j \in Jobs, terminate_job(j)
      PROVE  TableChanges
  BY <1>4, TableUnchanged DEF terminate_job, db
<1>5. ASSUME NEW j \in Jobs, NEW s \in JobReports, update_job_state(j, s)
      PROVE  TableChanges
  <2> DEFINE a    == act(coord_state[j], s)
             gone == IF a \in {"finished", "failed"} THEN {j} ELSE {}
             jobs == IF gone = {} THEN [coord_state EXCEPT ![j] = a] ELSE Without(gone)
             comp == complete_jobs(gone, a)
             code == IF a \in {"finished", "failed"} THEN a ELSE "failed"
  <2>1. CASE coord_state[j] = "absent" \/ a = "no_clause"
    BY <1>5, <2>1, TableUnchanged DEF update_job_state
  <2>2. CASE coord_state[j] # "absent" /\ a # "no_clause"
    <3>1. /\ completion' = comp
          /\ schedule_jobs(runner_pid, jobs, registered \ gone, comp)
          /\ UNCHANGED <<web, start>>
      BY <1>5, <2>2 DEF update_job_state
    <3>2. j \in Running
      BY <1>0, <2>2 DEF Keys
    <3>3. comp = complete_jobs(gone, code)
      BY DEF complete_jobs
    <3>4. Keys(jobs) = Running \ gone
      <4>1. CASE gone = {}
        <5>1. a # "absent"
          BY ActTyped DEF CoordStates
        <5> QED
          BY <1>0, <3>2, <4>1, <5>1 DEF Keys, TypeOK
      <4>2. CASE gone # {}
        BY <1>0, <4>2, WithoutKeys
      <4> QED
        BY <4>1, <4>2
    <3>5. gone \in SUBSET Running /\ code \in Codes
      BY <3>2 DEF Codes
    <3> HIDE DEF jobs, gone, comp, code
    <3> QED
      BY <3>1, <3>3, <3>4, <3>5, TableSchedules
  <2> QED
    BY <2>1, <2>2
<1>6. ASSUME runner_supervisor_timer
      PROVE  TableChanges
  <2>1. CASE Waiting = Late
    <3>1. Late \in SUBSET Running
      BY <1>0 DEF Late, Waiting, Keys
    <3> QED
      BY <1>6, <2>1, <3>1, TableCompletes DEF runner_supervisor_timer, Codes
  <2>2. CASE Waiting # Late
    BY <1>6, <2>2, TableUnchanged DEF runner_supervisor_timer
  <2> QED
    BY <2>1, <2>2
<1> QED
  BY <1>1, <1>2, <1>3, <1>4, <1>5, <1>6 DEF Handle

LEMMA RaiseTable ==
  ASSUME IInv, NEW m \in mailbox, raises(m)
  PROVE  TableChanges
<1> DEFINE S    == Completes(m)
           code == IF S = {} THEN "failed" ELSE CodeOf(m)
           next == IF Schedules(m) THEN NextJob(Without(S), registered \ S, complete_jobs(S, CodeOf(m))) ELSE {Nil}
<1>1. TypeOK /\ Keys(coord_state) = Running
  BY DEF IInv, raises, Consistent, ActiveConsistent
<1>2. S \in SUBSET Running
  BY <1>1, CompletesActive
<1>3. code \in Codes
  BY DEF Completes, CodeOf, Codes
<1>4. complete_jobs(S, CodeOf(m)) = complete_jobs(S, code)
  BY DEF complete_jobs
<1>5. UNCHANGED <<web, start>>
  BY DEF raises
<1>6. CASE UNCHANGED <<completion, dispatched>>
  BY <1>1, <1>5, <1>6, TableUnchanged
<1>7. CASE /\ completion' = complete_jobs(S, CodeOf(m))
           /\ \E p \in next \cup {Nil} : dispatched' = dispatched \cup ({p} \ {Nil})
  <2>1. PICK p \in next \cup {Nil} : dispatched' = dispatched \cup ({p} \ {Nil})
    BY <1>7
  <2>2. p # Nil => p \in PendingRows(complete_jobs(S, CodeOf(m))) /\ p \in Jobs /\ Keys(Without(S)) = {}
    BY NextJobPicks
  <2>3. p # Nil => p \in PendingRows(completion) /\ p \in Jobs /\ Running \ S = {}
    <3> HIDE DEF S, code
    <3> QED
      BY <1>1, <1>2, <1>3, <1>4, <2>2, PendingKept, WithoutKeys
  <2> HIDE DEF S, code
  <2>4. TableStep(S, code, {p} \ {Nil})
    BY <1>2, <1>4, <1>5, <1>7, <2>1, <2>3 DEF TableStep
  <2>5. {p} \ {Nil} \in SUBSET Jobs
    BY <2>3
  <2> QED
    BY <1>2, <1>3, <2>4, <2>5 DEF TableChanges
<1> QED
  BY <1>6, <1>7 DEF raises

LEMMA EnvironmentTable ==
  ASSUME IInv, Environment
  PROVE  TableChanges \/ \E j \in Jobs : insert_job(j)
<1> USE DEF IInv
<1>1. ASSUME NEW j \in Jobs, jobs_updated(j) \/ request_terminate(j)
      PROVE  TableChanges
  BY <1>1, TableUnchanged DEF jobs_updated, request_terminate, db, TypeOK
<1>2. ASSUME NEW c \in Conns, \/ open_conn(c) \/ relookup(c) \/ close_conn(c)
                              \/ close_orphan(c) \/ receive(c)
      PROVE  TableChanges
  BY <1>2, TableUnchanged DEF open_conn, relookup, close_conn, close_orphan, receive, db
<1>3. ASSUME NEW c \in Conns, start_server(c)
      PROVE  TableChanges
  <2>1. CASE UNCHANGED completion
    BY <1>3, <2>1, TableUnchanged DEF start_server
  <2>2. CASE completion' = complete_jobs(CrashedJobs, "server_crashed")
    BY <1>3, <2>2, TableCompletes DEF start_server, CrashedJobs, Running, Codes
  <2> QED
    BY <1>3, <2>1, <2>2 DEF start_server
<1>4. ASSUME NEW j \in Jobs, NEW s \in JobReports, post_job_state(j, s)
      PROVE  TableChanges
  BY <1>4, TableUnchanged DEF post_job_state, db
<1>5. ASSUME tick
      PROVE  TableChanges
  BY <1>5, TableUnchanged DEF tick, db
<1> QED
  BY <1>1, <1>2, <1>3, <1>4, <1>5, RaiseTable DEF Environment

LEMMA NextTable ==
  ASSUME IInv, [Next]_vars
  PROVE  TableChanges \/ \E j \in Jobs : insert_job(j)
<1>1. CASE Next
  BY <1>1, HandleTable, EnvironmentTable DEF Next
<1>2. CASE UNCHANGED vars
  BY <1>2, TableUnchanged DEF vars, IInv
<1> QED
  BY <1>1, <1>2

\* No step changes or clears a completion code that has been written.
THEOREM CompletionFinalHolds == Spec => CompletionFinal
<1>1. IInv /\ [Next]_vars
      => [\A j \in Jobs : completion[j] # "nil" => completion'[j] = completion[j]]_vars
  <2> SUFFICES ASSUME IInv, [Next]_vars, NEW j \in Jobs, completion[j] # "nil"
               PROVE  completion'[j] = completion[j]
    OBVIOUS
  <2>1. CASE TableChanges
    <3>1. PICK S \in SUBSET Running, c \in Codes, D \in SUBSET Jobs : TableStep(S, c, D)
      BY <2>1 DEF TableChanges
    <3>2. j \notin S
      BY DEF Running
    <3> QED
      BY <3>1, <3>2 DEF TableStep, complete_jobs
  <2>2. CASE \E k \in Jobs : insert_job(k)
    BY <2>2 DEF insert_job
  <2> QED
    BY <2>1, <2>2, NextTable
<1> QED
  BY <1>1, Invariant, PTL DEF Spec, CompletionFinal

\* The initial states are initial states of JobLifecycle.
LEMMA LifecycleInit == Init => Lifecycle!Init
<1> SUFFICES ASSUME Init PROVE Lifecycle!Init
  OBVIOUS
<1>1. JobStatus = [j \in Jobs |-> "absent"]
  BY DEF Init, JobStatus
<1> QED
  BY <1>1 DEF Init, Lifecycle!Init

\* A change of the table is a step of JobLifecycle or a stutter.
LEMMA LifecycleStep ==
  ASSUME IInv, IInv', TableChanges
  PROVE  [Lifecycle!Next]_(Lifecycle!vars)
<1>1. PICK S \in SUBSET Running, c \in Codes, D \in SUBSET Jobs : TableStep(S, c, D)
  BY DEF TableChanges
<1>2. TypeOK /\ TypeOK' /\ AtMostOneRunning /\ RowsOrdered
  BY DEF IInv, Consistent
<1>3. S = {} \/ \E j \in Jobs : S = {j}
  <2>1. ASSUME NEW j \in S
        PROVE  j \in Jobs /\ S = {j}
    BY <1>2, <2>1 DEF AtMostOneRunning, Running, TypeOK
  <2> QED
    BY <2>1
<1>4. D = {} \/ \E p \in Jobs : D = {p} /\ p \in PendingRows(completion) /\ Running \ S = {}
  BY <1>1 DEF TableStep
<1>5. \A k \in Jobs : JobStatus[k] = "dispatched" <=> k \in Running
  BY <1>2 DEF JobStatus, Running, RowsOrdered
<1>6. \A k \in Jobs : k \in PendingRows(completion) => Lifecycle!Earliest(k)
  BY <1>2 DEF PendingRows, JobStatus, Lifecycle!Earliest, RowsOrdered
<1>7. JobStatus' = [k \in Jobs |-> IF k \in S THEN "completed"
                                   ELSE IF k \in D THEN "dispatched" ELSE JobStatus[k]]
  <2>1. \A k \in Jobs : k \in D => k \in PendingRows(completion)
    BY <1>4
  <2>2. \A k \in Jobs : JobStatus'[k] = (IF k \in S THEN "completed"
                                         ELSE IF k \in D THEN "dispatched" ELSE JobStatus[k])
    BY <1>1, <1>2, <2>1 DEF TableStep, JobStatus, complete_jobs, Running, RowsOrdered, PendingRows, TypeOK, Codes
  <2> QED
    BY <2>2 DEF JobStatus
<1>8. start' = start /\ completion' = complete_jobs(S, c)
  BY <1>1 DEF TableStep
<1>9. CASE S = {} /\ D = {}
  <2>1. JobStatus' = JobStatus /\ completion' = completion
    BY <1>2, <1>7, <1>8, <1>9 DEF JobStatus, complete_jobs, TypeOK
  <2> QED
    BY <1>8, <2>1 DEF Lifecycle!vars
<1>10. CASE S = {} /\ D # {}
  <2>1. PICK p \in Jobs : D = {p} /\ p \in PendingRows(completion) /\ Running = {}
    BY <1>4, <1>10
  <2>2. completion' = completion
    BY <1>2, <1>8, <1>10 DEF complete_jobs, TypeOK
  <2>3. JobStatus' = [k \in Jobs |-> IF k = p THEN "dispatched" ELSE JobStatus[k]]
    BY <1>7, <1>10, <2>1
  <2>4. JobStatus' = [JobStatus EXCEPT ![p] = "dispatched"]
    BY <2>3 DEF JobStatus
  <2>5. Lifecycle!Dispatch(p)
    BY <1>5, <1>6, <1>8, <2>1, <2>2, <2>4 DEF Lifecycle!Dispatch
  <2> QED
    BY <2>5 DEF Lifecycle!Next
<1>11. CASE S # {}
  <2>1. PICK j \in Jobs : S = {j}
    BY <1>3, <1>11
  <2>2. JobStatus[j] = "dispatched" /\ completion' = [completion EXCEPT ![j] = c] /\ c \in Lifecycle!Codes
    BY <1>2, <1>5, <1>8, <2>1 DEF complete_jobs, TypeOK, Codes, Lifecycle!Codes
  <2>3. CASE D = {}
    <3>1. JobStatus' = [JobStatus EXCEPT ![j] = "completed"]
      BY <1>7, <2>1, <2>3 DEF JobStatus
    <3>2. Lifecycle!Complete(j, c)
      BY <1>8, <2>2, <3>1 DEF Lifecycle!Complete
    <3> QED
      BY <2>2, <3>2 DEF Lifecycle!Next
  <2>4. CASE D # {}
    <3>1. PICK p \in Jobs : D = {p} /\ p \in PendingRows(completion)
      BY <1>4, <2>4
    <3>2. p # j
      BY <2>1, <3>1 DEF PendingRows, Running
    <3>3. JobStatus' = [JobStatus EXCEPT ![j] = "completed", ![p] = "dispatched"]
      BY <1>7, <2>1, <3>1, <3>2 DEF JobStatus
    <3>4. Lifecycle!Handover(j, c, p)
      BY <1>6, <1>8, <2>2, <3>1, <3>3 DEF Lifecycle!Handover
    <3> QED
      BY <2>2, <3>4 DEF Lifecycle!Next
  <2> QED
    BY <2>3, <2>4
<1> QED
  BY <1>9, <1>10, <1>11

\* Creating a job is JobLifecycle's Create.
LEMMA LifecycleCreate ==
  ASSUME IInv, NEW j \in Jobs, insert_job(j)
  PROVE  Lifecycle!Create(j)
<1>1. completion[j] = "nil" /\ j \notin dispatched /\ JobStatus[j] = "absent"
  BY DEF IInv, Consistent, RowsOrdered, insert_job, JobStatus
<1>2. JobStatus' = [JobStatus EXCEPT ![j] = "pending"]
  BY <1>1 DEF insert_job, JobStatus, IInv, TypeOK
<1> QED
  BY <1>1, <1>2 DEF insert_job, Lifecycle!Create

\* The board server implements the abstract life of its jobs.
THEOREM Refinement == Spec => ImplementsLifecycle
<1>1. IInv /\ IInv' /\ [Next]_vars => [Lifecycle!Next]_(Lifecycle!vars)
  <2> SUFFICES ASSUME IInv, IInv', [Next]_vars PROVE [Lifecycle!Next]_(Lifecycle!vars)
    OBVIOUS
  <2>1. CASE TableChanges
    BY <2>1, LifecycleStep
  <2>2. ASSUME NEW j \in Jobs, insert_job(j)
        PROVE  Lifecycle!Next
    BY <2>2, LifecycleCreate DEF Lifecycle!Next
  <2> QED
    BY <2>1, <2>2, NextTable
<1> QED
  BY <1>1, LifecycleInit, Invariant, PTL DEF Spec, ImplementsLifecycle, Lifecycle!Spec

=============================================================================
