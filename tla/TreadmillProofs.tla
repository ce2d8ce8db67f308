-------------------------- MODULE TreadmillProofs --------------------------
(***************************************************************************)
(* The board server and a runner together, proved for any finite set of    *)
(* jobs, any set of connections and any length of the timeout: a finished  *)
(* job is free, what the coordinator believes of the runner is true, and   *)
(* each side keeps to what the other side's module assumes of it.          *)
(***************************************************************************)
EXTENDS Treadmill, BoardServerProofs, SequenceTheorems

-----------------------------------------------------------------------------
(* The inductive invariant.                                                *)

\* The runner's end of a stream holds nothing once the stream is left.
StreamLeft == stream = Nil => inbox = <<>>

\* What the runner has yet to handle of the stream it reads, the eldest first.
Pipe == IF stream = Nil THEN inbox ELSE inbox \o wire[stream]

\* Only an established connection holds messages: the one the server sends to
\* is established or closed, and a call of its own is not answered yet.
Wires ==
  /\ \A c \in Conns : conn[c] \notin {"streaming", "orphan"} => wire[c] = <<>>
  /\ \A c \in Conns : runner_pid = c => conn[c] \in {"streaming", "closed"}
  /\ \A c \in Conns : Connect(c) \in mailbox => conn[c] \in {"calling", "closed"}

\* The runner was told of job j, and what it did about it left a trace.
Trace(j) == posted[j] # {} \/ slot = j \/ (call # Nil /\ call.job = j)

\* The runner took job j on, now or in the past.
Taken(j) == slot = j \/ posted[j] \ {"failed"} # {}

\* No start_job is on its way in q.
NoStart(q) == \A a \in 1..Len(q) : q[a].type # "start_job"

\* Messages are about dispatched jobs.  A start_job is the first message of
\* its job, and no later start_job follows the one of a job that runs.
PipeOrdered(q) ==
  \A a \in 1..Len(q) :
    /\ q[a].job \in dispatched
    /\ q[a].type = "start_job" =>
         /\ ~Trace(q[a].job)
         /\ \A b \in 1..Len(q) : q[b].job = q[a].job => a <= b
         /\ q[a].job \in Running => \A b \in 1..Len(q) : q[b].type = "start_job" => b <= a

\* A job is asked for before anything else is known of it, and while a job
\* runs that the runner took on, no other one is asked for.
CallOrdered ==
  /\ \A j \in Jobs : Trace(j) \/ Terminate(j) \in mailbox => j \in dispatched
  /\ \A j \in Jobs : Called("start_job", j) => ~Taken(j) /\ posted[j] = {} /\ (j \in Running => NoStart(Pipe))
  /\ \A k \in Running : Taken(k) => /\ slot \in {k, Nil}
                                    /\ NoStart(Pipe)
                                    /\ \A j \in Jobs : ~Called("start_job", j)

\* What the runner has reported of its job at each point of a call.
WorkReported ==
  \A j \in Jobs :
    /\ Called("started", j) => slot = j /\ posted[j] \in {{}, {"booting"}, {"booting", "ready"}}
    /\ Called("exited", j) => slot = j
    /\ Called("stopping", j) => posted[j] = {"booting", "ready", "stopping"}
    /\ slot = j /\ ~Called("started", j) /\ ~Called("stopping", j) => posted[j] = {"booting", "ready"}

\* A job that runs and one that was let go have no report in flight.
WorkAnswered ==
  \A j \in Jobs :
    /\ slot = j /\ ~Called("started", j) /\ ~Called("stopping", j) => Answered(j)
    /\ slot # j /\ Called("stopping", j) => Answered(j)

\* The runner was told of job j.
Heard(j) == Trace(j) \/ \E a \in 1..Len(inbox) : inbox[a].job = j

\* The last state of a life reported as P.
LastOf(P) ==
  IF "stopping" \in P THEN {"stopping"}
  ELSE IF "ready" \in P THEN {"ready"}
  ELSE IF "booting" \in P THEN {"starting"} ELSE {"unknown", "told"}

\* BoardServer's summary of the runner is true of this runner.
ReportedTrue ==
  \A j \in Jobs :
    /\ j \notin registered => reported[j] = "unknown"
    /\ j \in registered /\ Heard(j) => reported[j] # "unknown"
    /\ j \in registered /\ posted[j] \cap {"failed", "finished"} = {} => reported[j] \in LastOf(posted[j])

\* What the coordinator has been told and what it made of it, was posted.
BackedBy(s) == CASE s = "starting" -> "booting" [] OTHER -> s
BeliefBacked ==
  \A j \in Jobs :
    /\ \A s \in JobReports : Update(j, s) \in mailbox => BackedBy(s) \in posted[j]
    /\ coord_state[j] \in {"starting", "ready"} => BackedBy(coord_state[j]) \in posted[j]
    /\ completion[j] = "finished" => "finished" \in posted[j]

TInv ==
  /\ IInv /\ ReportsInv
  /\ TreadmillTypeOK /\ StreamLeft /\ Wires
  /\ PipeOrdered(Pipe) /\ CallOrdered
  /\ WorkReported /\ WorkAnswered
  /\ ReportedTrue /\ BeliefBacked

-----------------------------------------------------------------------------
(* The messages on the way to the runner.                                  *)

LEMMA PipeTyped == TypeOK /\ TreadmillTypeOK => Pipe \in Seq(RunnerMsgs)
<1> SUFFICES ASSUME TypeOK, TreadmillTypeOK PROVE Pipe \in Seq(RunnerMsgs)
  OBVIOUS
<1>1. inbox \in Seq(RunnerMsgs) /\ (stream # Nil => wire[stream] \in Seq(RunnerMsgs))
  BY DEF TypeOK, TreadmillTypeOK
<1> QED
  BY <1>1, ConcatProperties DEF Pipe

\* The first messages of the pipe are those of the inbox.
LEMMA InboxInPipe ==
  ASSUME TypeOK, TreadmillTypeOK
  PROVE  Len(inbox) <= Len(Pipe) /\ \A a \in 1..Len(inbox) : a \in 1..Len(Pipe) /\ Pipe[a] = inbox[a]
<1>1. inbox \in Seq(RunnerMsgs) /\ (stream # Nil => wire[stream] \in Seq(RunnerMsgs))
  BY DEF TypeOK, TreadmillTypeOK
<1>2. CASE stream = Nil
  BY <1>1, <1>2 DEF Pipe
<1>3. CASE stream # Nil
  <2>1. /\ Len(Pipe) = Len(inbox) + Len(wire[stream])
        /\ \A a \in 1..(Len(inbox) + Len(wire[stream])) :
             Pipe[a] = IF a <= Len(inbox) THEN inbox[a] ELSE wire[stream][a - Len(inbox)]
    BY <1>1, <1>3, ConcatProperties DEF Pipe
  <2>2. Len(inbox) \in Nat /\ Len(wire[stream]) \in Nat
    BY <1>1, <1>3
  <2> QED
    BY <2>1, <2>2
<1> QED
  BY <1>2, <1>3

\* A message that arrives was next.
LEMMA ConcatShift ==
  ASSUME NEW S, NEW s \in Seq(S), NEW w \in Seq(S), w # <<>>
  PROVE  Append(s, Head(w)) \o Tail(w) = s \o w
<1>1. Head(w) \in S /\ Tail(w) \in Seq(S) /\ w = <<Head(w)>> \o Tail(w)
  BY HeadTailProperties, ConcatProperties, SeqEqual
<1>2. Append(s, Head(w)) = s \o <<Head(w)>> /\ <<Head(w)>> \in Seq(S)
  BY <1>1, AppendIsConcat
<1>3. (s \o <<Head(w)>>) \o Tail(w) = s \o (<<Head(w)>> \o Tail(w))
  BY <1>1, <1>2, ConcatAssociative
<1> QED
  BY <1>1, <1>2, <1>3

\* The handler takes the first message of the pipe.
LEMMA ConcatTail ==
  ASSUME NEW S, NEW s \in Seq(S), NEW w \in Seq(S), s # <<>>
  PROVE  Tail(s) \o w = Tail(s \o w) /\ Head(s) = (s \o w)[1] /\ s \o w # <<>>
<1>1. /\ s \o w \in Seq(S) /\ Len(s \o w) = Len(s) + Len(w)
      /\ \A i \in 1..Len(s) + Len(w) : (s \o w)[i] = IF i <= Len(s) THEN s[i] ELSE w[i - Len(s)]
  BY ConcatProperties
<1>2. Len(s) \in Nat \ {0} /\ Len(w) \in Nat
  BY HeadTailProperties
<1>3. s \o w # <<>>
  BY <1>1, <1>2
<1>4. Tail(s) \in Seq(S) /\ Len(Tail(s)) = Len(s) - 1 /\ \A i \in 1..Len(Tail(s)) : Tail(s)[i] = s[i + 1]
  BY HeadTailProperties
<1>5. /\ Tail(s \o w) \in Seq(S) /\ Len(Tail(s \o w)) = Len(s) + Len(w) - 1
      /\ \A i \in 1..Len(Tail(s \o w)) : Tail(s \o w)[i] = (s \o w)[i + 1]
  BY <1>1, <1>3, HeadTailProperties
<1>6. /\ Tail(s) \o w \in Seq(S) /\ Len(Tail(s) \o w) = Len(Tail(s)) + Len(w)
      /\ \A i \in 1..Len(Tail(s)) + Len(w) :
           (Tail(s) \o w)[i] = IF i <= Len(Tail(s)) THEN Tail(s)[i] ELSE w[i - Len(Tail(s))]
  BY <1>4, ConcatProperties
<1>7. \A i \in 1..Len(Tail(s \o w)) : (Tail(s) \o w)[i] = Tail(s \o w)[i]
  <2> TAKE i \in 1..Len(Tail(s \o w))
  <2>1. i \in 1..Len(s) + Len(w) - 1 /\ i + 1 \in 1..Len(s) + Len(w)
    BY <1>2, <1>5
  <2>2. Tail(s \o w)[i] = IF i + 1 <= Len(s) THEN s[i + 1] ELSE w[i + 1 - Len(s)]
    BY <1>1, <1>5, <2>1
  <2>3. (Tail(s) \o w)[i] = IF i <= Len(s) - 1 THEN Tail(s)[i] ELSE w[i - (Len(s) - 1)]
    BY <1>2, <1>4, <1>6, <2>1
  <2>4. i <= Len(s) - 1 => Tail(s)[i] = s[i + 1]
    BY <1>2, <1>4, <2>1
  <2>5. i + 1 - Len(s) = i - (Len(s) - 1) /\ (i + 1 <= Len(s) <=> i <= Len(s) - 1)
    BY <1>2, <2>1
  <2> QED
    BY <2>2, <2>3, <2>4, <2>5
<1>8. Tail(s) \o w = Tail(s \o w)
  BY <1>2, <1>4, <1>5, <1>6, <1>7, SeqEqual
<1>9. Head(s) = (s \o w)[1]
  BY <1>1, <1>2
<1> QED
  BY <1>3, <1>8, <1>9

\* A message that is sent is the last of the pipe.
LEMMA ConcatAppend ==
  ASSUME NEW S, NEW s \in Seq(S), NEW w \in Seq(S), NEW m \in S
  PROVE  s \o Append(w, m) = Append(s \o w, m)
<1>1. Append(w, m) = w \o <<m>> /\ Append(s \o w, m) = (s \o w) \o <<m>> /\ <<m>> \in Seq(S)
  BY AppendIsConcat, ConcatProperties
<1> QED
  BY <1>1, ConcatAssociative

\* The pipe may lose its first messages or its last ones.
LEMMA PipeShrinks ==
  ASSUME PipeOrdered(Pipe), NEW n \in Nat, Len(Pipe) \in Nat, Len(Pipe') \in Nat, Len(Pipe') + n <= Len(Pipe),
         \A a \in 1..Len(Pipe') : Pipe'[a] = Pipe[a + n],
         dispatched \subseteq dispatched',
         \A j \in dispatched : j \in Running' => j \in Running,
         \A a \in 1..Len(Pipe') : \A j \in dispatched : Pipe'[a].type = "start_job" /\ Pipe'[a].job = j /\ Trace(j)' => Trace(j)
  PROVE  PipeOrdered(Pipe)'
<1> DEFINE q == Pipe
           r == Pipe'
<1>1. \A a \in 1..Len(r) : a + n \in 1..Len(q) /\ r[a] = q[a + n]
  OBVIOUS
<1> SUFFICES ASSUME NEW a \in 1..Len(r)
             PROVE  /\ r[a].job \in dispatched'
                    /\ r[a].type = "start_job" =>
                         /\ \A j : j = r[a].job => ~Trace(j)'
                         /\ \A b \in 1..Len(r) : r[b].job = r[a].job => a <= b
                         /\ r[a].job \in Running' => \A b \in 1..Len(r) : r[b].type = "start_job" => b <= a
  BY DEF PipeOrdered, Trace
<1> HIDE DEF q, r
<1>2. \A x \in 1..Len(q) :
        /\ q[x].job \in dispatched
        /\ q[x].type = "start_job" =>
             /\ ~Trace(q[x].job)
             /\ \A y \in 1..Len(q) : q[y].job = q[x].job => x <= y
             /\ q[x].job \in Running => \A y \in 1..Len(q) : q[y].type = "start_job" => y <= x
  BY DEF PipeOrdered, q
<1>3. r[a].job \in dispatched
  BY <1>1, <1>2
<1>4. ASSUME r[a].type = "start_job", NEW j, j = r[a].job
      PROVE  ~Trace(j)'
  BY <1>1, <1>2, <1>3, <1>4 DEF r
<1>5. ASSUME r[a].type = "start_job", NEW b \in 1..Len(r), r[b].job = r[a].job
      PROVE  a <= b
  <2>1. a + n <= b + n
    BY <1>1, <1>2, <1>5
  <2> QED
    BY <2>1
<1>6. ASSUME r[a].type = "start_job", r[a].job \in Running', NEW b \in 1..Len(r), r[b].type = "start_job"
      PROVE  b <= a
  <2>1. r[a].job \in Running
    BY <1>3, <1>6
  <2>2. b + n <= a + n
    BY <1>1, <1>2, <1>6, <2>1
  <2> QED
    BY <2>2
<1> QED
  BY <1>3, <1>4, <1>5, <1>6

\* A message is sent for a job that was dispatched before, or start_job for one
\* that was not.
LEMMA PipeGrows ==
  ASSUME PipeOrdered(Pipe), Pipe \in Seq(RunnerMsgs), NEW m \in RunnerMsgs, Pipe' = Append(Pipe, m),
         UNCHANGED <<posted, slot, call>>,
         dispatched \subseteq dispatched', m.job \in dispatched',
         \A j \in dispatched : j \in Running' => j \in Running,
         \/ m.type # "start_job"
         \/ /\ m.job \notin dispatched /\ ~Trace(m.job)
            /\ \A j \in dispatched : j \notin Running'
  PROVE  PipeOrdered(Pipe)'
<1> DEFINE q == Pipe
           r == Pipe'
<1>1. /\ Len(q) \in Nat /\ Len(r) = Len(q) + 1 /\ r[Len(q) + 1] = m
      /\ \A a \in 1..Len(q) : r[a] = q[a]
  BY AppendProperties
<1>2. \A j : Trace(j)' <=> Trace(j)
  BY DEF Trace
<1> SUFFICES ASSUME NEW a \in 1..Len(r)
             PROVE  /\ r[a].job \in dispatched'
                    /\ r[a].type = "start_job" =>
                         /\ \A j : j = r[a].job => ~Trace(j)'
                         /\ \A b \in 1..Len(r) : r[b].job = r[a].job => a <= b
                         /\ r[a].job \in Running' => \A b \in 1..Len(r) : r[b].type = "start_job" => b <= a
  BY DEF PipeOrdered, Trace
<1>3. \A x \in 1..Len(q) :
        /\ q[x].job \in dispatched
        /\ q[x].type = "start_job" =>
             /\ ~Trace(q[x].job)
             /\ \A y \in 1..Len(q) : q[y].job = q[x].job => x <= y
             /\ q[x].job \in Running => \A y \in 1..Len(q) : q[y].type = "start_job" => y <= x
  BY DEF PipeOrdered
<1> HIDE DEF q, r
<1>4. CASE a \in 1..Len(q)
  <2>1. r[a] = q[a] /\ r[a].job \in dispatched /\ (r[a].type = "start_job" => ~Trace(r[a].job))
    BY <1>1, <1>3, <1>4
  <2>2. ASSUME r[a].type = "start_job", NEW b \in 1..Len(r), r[b].job = r[a].job
        PROVE  a <= b
    <3>1. CASE b \in 1..Len(q)
      BY <1>1, <1>3, <1>4, <2>2, <3>1
    <3>2. CASE b \notin 1..Len(q)
      BY <1>1, <1>4, <3>2
    <3> QED
      BY <3>1, <3>2
  <2>3. ASSUME r[a].type = "start_job", r[a].job \in Running', NEW b \in 1..Len(r), r[b].type = "start_job"
        PROVE  b <= a
    <3>1. CASE b \in 1..Len(q)
      BY <1>1, <1>3, <1>4, <2>1, <2>3, <3>1
    <3>2. CASE b \notin 1..Len(q)
      <4>1. b = Len(q) + 1
        BY <1>1, <3>2
      <4>2. m.type = "start_job"
        BY <1>1, <2>3, <4>1
      <4> QED
        BY <2>1, <2>3, <4>2
    <3> QED
      BY <3>1, <3>2
  <2> QED
    BY <1>2, <2>1, <2>2, <2>3
<1>5. CASE a \notin 1..Len(q)
  <2>1. a = Len(q) + 1 /\ r[a] = m
    BY <1>1, <1>5
  <2>2. ASSUME m.type = "start_job", NEW b \in 1..Len(r), r[b].job = m.job
        PROVE  a <= b
    <3>1. CASE b \in 1..Len(q)
      BY <1>1, <1>3, <2>2, <3>1
    <3>2. CASE b \notin 1..Len(q)
      BY <1>1, <2>1, <3>2
    <3> QED
      BY <3>1, <3>2
  <2>3. \A b \in 1..Len(r) : b <= a
    BY <1>1, <2>1
  <2> QED
    BY <1>2, <2>1, <2>2, <2>3
<1> QED
  BY <1>4, <1>5

-----------------------------------------------------------------------------
(* What a step of the coordinator is to the runner.                        *)

\* What a step of the coordinator does to the connections.
WireStep ==
  \/ wire' = wire
  \/ \E c \in Conns : wire' = [wire EXCEPT ![c] = <<>>]
  \/ \E c \in Conns, j \in Jobs : Terminate(j) \in mailbox /\ wire' = SentTo(c, "stop_job", j)
  \/ \E c \in Conns, p \in Jobs : p \in dispatched' \ dispatched /\ wire' = SentTo(c, "start_job", p)

\* What it does to the registry, given the keys reg it had before.
RegistryStep(reg) ==
  /\ \A j \in Jobs : j \notin registered' => reported'[j] = "unknown"
  /\ \A j \in registered' : reported'[j] = reported[j] /\ (j \in reg \/ j \notin dispatched)

\* What it learns of the jobs, it takes from the reports in the mailbox.
BeliefStep ==
  \A j \in Jobs :
    /\ coord_state'[j] \in {"starting", "ready"} =>
         coord_state'[j] = coord_state[j] \/ Update(j, coord_state'[j]) \in mailbox
    /\ completion'[j] = "finished" => completion[j] = "finished" \/ Update(j, "finished") \in mailbox

\* No report is made for the runner, and only registered jobs are terminated.
MailStep ==
  /\ NoNewReports
  /\ \A j \in Jobs : Terminate(j) \in mailbox' => Terminate(j) \in mailbox \/ j \in registered

\* Jobs stay dispatched, and a newly dispatched job is the only one to run.
RowsStep ==
  /\ dispatched \subseteq dispatched'
  /\ \A j \in dispatched : j \in Running' => j \in Running
  /\ dispatched' # dispatched => \A j \in dispatched : j \notin Running'

CoordinatorStep == WireStep /\ RegistryStep(registered) /\ BeliefStep /\ MailStep /\ RowsStep /\ Wires'

LEMMA RowsMove ==
  ASSUME TypeOK, TableChanges
  PROVE  RowsStep
<1>1. PICK S \in SUBSET Running, c \in Codes, D \in SUBSET Jobs : TableStep(S, c, D)
  BY DEF TableChanges
<1>2. completion' = complete_jobs(S, c) /\ dispatched' = dispatched \cup D
  BY <1>1 DEF TableStep
<1>3. \A j \in dispatched : j \in Running' => j \in Running \ S
  BY <1>2 DEF Running, complete_jobs, TypeOK, Codes
<1>4. D # {} => Running \ S = {}
  BY <1>1 DEF TableStep
<1> QED
  BY <1>2, <1>3, <1>4 DEF RowsStep

\* Only dispatched jobs are registered, and nothing is reported of others.
LEMMA RegisteredDispatched ==
  ASSUME Consistent
  PROVE  registered \subseteq dispatched
BY DEF Consistent, DownIsEmpty, ActiveConsistent, Running

\* What schedule_jobs does.
LEMMA ScheduleEffect ==
  ASSUME TypeOK, NEW pid, NEW jobs \in [Jobs -> CoordStates \cup {"absent"}], NEW reg \in SUBSET Jobs, NEW comp,
         schedule_jobs(pid, jobs, reg, comp)
  PROVE  /\ \/ up' /\ runner_pid' = pid
            \/ ~up' /\ runner_pid' = Nil /\ pid = Nil /\ wire' = wire
         /\ \/ wire' = wire
            \/ \E p \in Jobs : p \in dispatched' \ dispatched /\ wire' = SentTo(pid, "start_job", p)
         /\ pid = Nil => wire' = wire
         /\ RegistryStep(reg)
         /\ \A j \in Jobs : coord_state'[j] \in {"starting", "ready"} => coord_state'[j] = jobs[j]
<1>1. PICK p \in NextJob(jobs, reg, comp) :
        IF p = Nil
        THEN /\ Continue(pid, jobs, reg, timer)
             /\ UNCHANGED <<dispatched, wire, starts>>
        ELSE /\ dispatched' = dispatched \cup {p}
             /\ IF pid = Nil
                THEN Die("schedule_send") /\ UNCHANGED <<wire, starts>>
                ELSE /\ Continue(pid, [jobs EXCEPT ![p] = "wait_for_start"], reg \cup {p}, Armed)
                     /\ wire' = SentTo(pid, "start_job", p)
                     /\ starts' = [starts EXCEPT ![p] = @ + 1]
  BY DEF schedule_jobs, Marked
<1>2. CASE p = Nil
  <2>1. Continue(pid, jobs, reg, timer) /\ wire' = wire
    BY <1>1, <1>2
  <2>2. RegistryStep(reg)
    BY <2>1 DEF Continue, RegistryStep
  <2> QED
    BY <2>1, <2>2 DEF Continue
<1>3. CASE p # Nil /\ pid = Nil
  <2>1. Die("schedule_send") /\ wire' = wire
    BY <1>1, <1>3
  <2>2. RegistryStep(reg)
    BY <2>1 DEF Die, RegistryStep
  <2> QED
    BY <1>3, <2>1, <2>2 DEF Die
<1>4. CASE p # Nil /\ pid # Nil
  <2>1. p \in PendingRows(comp) /\ p \in Jobs /\ p \notin dispatched
    BY <1>4, NextJobPicks DEF PendingRows
  <2>2. /\ Continue(pid, [jobs EXCEPT ![p] = "wait_for_start"], reg \cup {p}, Armed)
        /\ wire' = SentTo(pid, "start_job", p) /\ dispatched' = dispatched \cup {p}
    BY <1>1, <1>4
  <2>3. RegistryStep(reg)
    BY <2>1, <2>2 DEF Continue, RegistryStep
  <2>4. \A j \in Jobs : coord_state'[j] \in {"starting", "ready"} => coord_state'[j] = jobs[j]
    BY <2>1, <2>2 DEF Continue
  <2> QED
    BY <1>4, <2>1, <2>2, <2>3, <2>4 DEF Continue
<1> QED
  BY <1>2, <1>3, <1>4

\* A handler that answers no connection keeps the connections in order.
LEMMA HandledWires ==
  ASSUME TypeOK, Wires, NEW m, Handled(m, {}, Nil, "closed"),
         \/ up' /\ runner_pid' \in {runner_pid, Nil}
         \/ ~up' /\ runner_pid' = Nil /\ wire' = wire,
         wire' = wire \/ (runner_pid # Nil /\ \E t \in {"start_job", "stop_job"}, j \in Jobs : wire' = SentTo(runner_pid, t, j))
  PROVE  Wires'
<1>1. CASE up'
  <2>1. \A c \in Conns : conn'[c] = conn[c] /\ (Connect(c) \in mailbox' => Connect(c) \in mailbox)
    BY <1>1, ConnsAssumption DEF Handled, TypeOK
  <2>2. \A c \in Conns : wire'[c] # wire[c] => conn[c] \in {"streaming"}
    <3>1. CASE wire' = wire
      BY <3>1
    <3>2. CASE wire' # wire
      <4>1. PICK t \in {"start_job", "stop_job"}, j \in Jobs : wire' = SentTo(runner_pid, t, j)
        BY <3>2
      <4>2. runner_pid \in Conns
        BY <3>2 DEF TypeOK
      <4> QED
        BY <4>1, <4>2 DEF SentTo, TypeOK, Wires
    <3> QED
      BY <3>1, <3>2
  <2>3. \A c \in Conns : runner_pid' = c => runner_pid = c
    BY <1>1, ConnsAssumption
  <2> QED
    BY <2>1, <2>2, <2>3 DEF Wires
<1>2. CASE ~up'
  <2>1. /\ mailbox' = {} /\ runner_pid' = Nil /\ wire' = wire
        /\ \A c \in Conns : conn'[c] = Bereaved(c)
    BY <1>2 DEF Handled
  <2> QED
    BY <2>1, ConnsAssumption DEF Wires, Bereaved
<1> QED
  BY <1>1, <1>2

\* Handling any message but a report leaves fewer reports and terminations.
LEMMA HandledMail ==
  ASSUME NEW m, NEW new, NEW c, NEW stage, Handled(m, new, c, stage),
         \A j \in Jobs, s \in JobReports : Update(j, s) \notin new,
         \A j \in Jobs : Terminate(j) \notin new
  PROVE  MailStep
BY DEF Handled, NoNewReports, MailStep

LEMMA ConnectDistinct ==
  /\ \A c, d \in Conns : Connect(c) = Connect(d) => c = d
  /\ \A c, d \in Conns : Connect(c) # Down(d)
  /\ \A c \in Conns, j \in Jobs : Connect(c) # Terminate(j) /\ Down(c) # Terminate(j)
  /\ \A c \in Conns : Connect(c) # TimerMsg
  /\ \A j \in Jobs : Terminate(j) # TimerMsg
  /\ \A i, j \in Jobs : Terminate(i) = Terminate(j) => i = j
BY DEF Connect, Down, Terminate, TimerMsg

\* A handler that schedules with the server's own connection.
LEMMA ScheduledStep ==
  ASSUME TypeOK, Wires, RowsStep, MailStep, NEW m, Handled(m, {}, Nil, "closed"),
         NEW jobs \in [Jobs -> CoordStates \cup {"absent"}], NEW reg \in SUBSET registered, NEW comp,
         schedule_jobs(runner_pid, jobs, reg, comp),
         \A j \in Jobs : jobs[j] \in {"starting", "ready"} => jobs[j] = coord_state[j] \/ Update(j, jobs[j]) \in mailbox,
         \A j \in Jobs : completion'[j] = "finished" => completion[j] = "finished" \/ Update(j, "finished") \in mailbox
  PROVE  CoordinatorStep
<1>1. reg \in SUBSET Jobs /\ runner_pid \in Conns \cup {Nil}
  BY DEF TypeOK
<1>2. /\ \/ up' /\ runner_pid' = runner_pid
         \/ ~up' /\ runner_pid' = Nil /\ runner_pid = Nil /\ wire' = wire
      /\ \/ wire' = wire
         \/ \E p \in Jobs : p \in dispatched' \ dispatched /\ wire' = SentTo(runner_pid, "start_job", p)
      /\ runner_pid = Nil => wire' = wire
      /\ RegistryStep(reg)
      /\ \A j \in Jobs : coord_state'[j] \in {"starting", "ready"} => coord_state'[j] = jobs[j]
  BY <1>1, ScheduleEffect
<1>3. Wires'
  BY <1>2, HandledWires
<1>4. WireStep
  BY <1>1, <1>2 DEF WireStep
<1>5. RegistryStep(registered)
  BY <1>2 DEF RegistryStep
<1>6. BeliefStep
  BY <1>2 DEF BeliefStep
<1> QED
  BY <1>3, <1>4, <1>5, <1>6 DEF CoordinatorStep

\* A handler that goes on without scheduling.
LEMMA ContinuedStep ==
  ASSUME TypeOK, Wires, RowsStep, MailStep, NEW m, Handled(m, {}, Nil, "closed"),
         NEW pid \in {runner_pid, Nil}, NEW jobs, NEW reg \in SUBSET registered, NEW tm, Continue(pid, jobs, reg, tm),
         \A j \in Jobs : jobs[j] \in {"starting", "ready"} => jobs[j] = coord_state[j],
         \A j \in Jobs : completion'[j] = "finished" => completion[j] = "finished",
         \/ wire' = wire
         \/ runner_pid # Nil /\ \E j \in Jobs : Terminate(j) \in mailbox /\ wire' = SentTo(runner_pid, "stop_job", j)
  PROVE  CoordinatorStep
<1>1. runner_pid \in Conns \cup {Nil} /\ registered \subseteq Jobs
  BY DEF TypeOK
<1>2. Wires'
  BY HandledWires DEF Continue
<1>3. WireStep
  BY <1>1 DEF WireStep
<1>4. RegistryStep(registered)
  BY <1>1 DEF RegistryStep, Continue
<1>5. BeliefStep
  BY DEF BeliefStep, Continue
<1> QED
  BY <1>2, <1>3, <1>4, <1>5 DEF CoordinatorStep

\* A handler that ends the server.
LEMMA DiedStep ==
  ASSUME TypeOK, Wires, RowsStep, MailStep, NEW m, Handled(m, {}, Nil, "closed"),
         NEW reason, Die(reason), UNCHANGED <<completion, wire>>
  PROVE  CoordinatorStep
<1>1. Wires'
  BY HandledWires DEF Die
<1>2. RegistryStep(registered) /\ BeliefStep
  BY DEF Die, RegistryStep, BeliefStep
<1> QED
  BY <1>1, <1>2 DEF CoordinatorStep, WireStep

LEMMA HandleIsStep ==
  ASSUME IInv, ReportsInv, Wires, Handle
  PROVE  CoordinatorStep
<1> USE ReportsDistinct, ConnectDistinct
<1>0. TypeOK /\ Consistent /\ RowsStep
  BY HandleTable, RowsMove DEF IInv
<1>1. ASSUME NEW c \in Conns, connect_runner(c)
      PROVE  CoordinatorStep
  <2>1. schedule_jobs(c, coord_state, registered, completion) /\ completion' = completion
    BY <1>1 DEF connect_runner
  <2>2. c # Nil
    BY ConnsAssumption
  <2>3. /\ up' /\ runner_pid' = c
        /\ \/ wire' = wire
           \/ \E p \in Jobs : p \in dispatched' \ dispatched /\ wire' = SentTo(c, "start_job", p)
        /\ RegistryStep(registered)
        /\ \A j \in Jobs : coord_state'[j] \in {"starting", "ready"} => coord_state'[j] = coord_state[j]
    <3>1. coord_state \in [Jobs -> CoordStates \cup {"absent"}] /\ registered \in SUBSET Jobs
      BY <1>0 DEF TypeOK
    <3>2. /\ \/ up' /\ runner_pid' = c
             \/ ~up' /\ runner_pid' = Nil /\ c = Nil /\ wire' = wire
          /\ \/ wire' = wire
             \/ \E p \in Jobs : p \in dispatched' \ dispatched /\ wire' = SentTo(c, "start_job", p)
          /\ RegistryStep(registered)
          /\ \A j \in Jobs : coord_state'[j] \in {"starting", "ready"} => coord_state'[j] = coord_state[j]
      BY <1>0, <2>1, <3>1, ScheduleEffect
    <3> QED
      BY <2>2, <3>2
  <2>4. MailStep
    BY <1>1, HandledMail DEF connect_runner
  <2>5. /\ Connect(c) \in mailbox
        /\ \A d \in Conns : Connect(d) \in mailbox' => Connect(d) \in mailbox /\ d # c
        /\ \A d \in Conns : d # c => conn'[d] = conn[d]
        /\ conn'[c] = IF conn[c] = "calling" THEN "streaming" ELSE conn[c]
    BY <1>0, <1>1, <2>3 DEF connect_runner, Handled, TypeOK
  <2>6. conn[c] \in {"calling", "closed"}
    BY <2>5 DEF Wires
  <2>7. /\ \A d \in Conns : d # c => wire'[d] = wire[d]
        /\ conn[c] = "closed" => wire'[c] = wire[c]
    <3>1. CASE wire' = wire
      BY <3>1
    <3>2. CASE wire' # wire
      <4>1. PICK p \in Jobs : wire' = SentTo(c, "start_job", p)
        BY <2>3, <3>2
      <4> QED
        BY <1>0, <4>1 DEF SentTo, TypeOK
    <3> QED
      BY <3>1, <3>2
  <2>8. Wires'
    BY <2>3, <2>5, <2>6, <2>7 DEF Wires
  <2>9. BeliefStep
    BY <2>1, <2>3 DEF BeliefStep
  <2>10. WireStep
    BY <2>3 DEF WireStep
  <2> QED
    BY <1>0, <2>3, <2>4, <2>8, <2>9, <2>10 DEF CoordinatorStep
<1>2. ASSUME NEW c \in Conns, runner_down(c)
      PROVE  CoordinatorStep
  <2>1. MailStep /\ Handled(Down(c), {}, Nil, "closed") /\ wire' = wire
    BY <1>2, HandledMail DEF runner_down
  <2>2. CASE c = runner_pid
    <3>1. /\ Continue(Nil, Without(Keys(coord_state)), registered \ Keys(coord_state), timer)
          /\ completion' = complete_jobs(Keys(coord_state), "failed")
      BY <1>2, <2>2 DEF runner_down
    <3>2. \A j \in Jobs : completion'[j] = "finished" => completion[j] = "finished"
      BY <3>1 DEF complete_jobs
    <3>3. \A j \in Jobs : Without(Keys(coord_state))[j] \in {"starting", "ready"} => Without(Keys(coord_state))[j] = coord_state[j]
      BY DEF Without
    <3>4. registered \ Keys(coord_state) \in SUBSET registered
      OBVIOUS
    <3> QED
      BY <1>0, <2>1, <3>1, <3>2, <3>3, <3>4, ContinuedStep
  <2>3. CASE c # runner_pid
    BY <1>0, <1>2, <2>1, <2>3, DiedStep DEF runner_down
  <2> QED
    BY <2>2, <2>3
<1>3. ASSUME NEW i \in Jobs, cast_schedule_jobs(i)
      PROVE  CoordinatorStep
  <2>1. /\ Handled(Schedule(i), {}, Nil, "closed") /\ completion' = completion
        /\ schedule_jobs(runner_pid, coord_state, registered, completion)
    BY <1>3 DEF cast_schedule_jobs
  <2>2. MailStep
    BY <2>1, HandledMail
  <2>3. coord_state \in [Jobs -> CoordStates \cup {"absent"}] /\ registered \in SUBSET registered
    BY <1>0 DEF TypeOK
  <2> QED
    BY <1>0, <2>1, <2>2, <2>3, ScheduledStep
<1>4. ASSUME NEW i \in Jobs, terminate_job(i)
      PROVE  CoordinatorStep
  <2>1. Handled(Terminate(i), {}, Nil, "closed") /\ Terminate(i) \in mailbox /\ completion' = completion
    BY <1>4 DEF terminate_job, db
  <2>2. MailStep
    BY <2>1, HandledMail
  <2>3. CASE runner_pid = Nil
    BY <1>0, <1>4, <2>1, <2>2, <2>3, DiedStep DEF terminate_job
  <2>4. CASE runner_pid # Nil
    <3>1. Continue(runner_pid, coord_state, registered, timer) /\ wire' = SentTo(runner_pid, "stop_job", i)
      BY <1>4, <2>4 DEF terminate_job
    <3> QED
      BY <1>0, <2>1, <2>2, <2>4, <3>1, ContinuedStep
  <2> QED
    BY <2>3, <2>4
<1>5. ASSUME NEW i \in Jobs, NEW s \in JobReports, update_job_state(i, s)
      PROVE  CoordinatorStep
  <2> DEFINE a    == act(coord_state[i], s)
             gone == IF a \in {"finished", "failed"} THEN {i} ELSE {}
             jobs == IF gone = {} THEN [coord_state EXCEPT ![i] = a] ELSE Without(gone)
             comp == complete_jobs(gone, a)
             reg  == registered \ gone
  <2>1. Handled(Update(i, s), {}, Nil, "closed") /\ Update(i, s) \in mailbox
    BY <1>5 DEF update_job_state
  <2>2. MailStep
    BY <2>1, HandledMail
  <2>3. CASE coord_state[i] = "absent"
    <3>1. Continue(runner_pid, coord_state, registered, timer) /\ UNCHANGED <<completion, wire>>
      BY <1>5, <2>3 DEF update_job_state
    <3> QED
      BY <1>0, <2>1, <2>2, <3>1, ContinuedStep
  <2>4. CASE coord_state[i] # "absent" /\ a = "no_clause"
    <3>1. Die("case_clause") /\ UNCHANGED <<completion, wire>>
      BY <1>5, <2>4 DEF update_job_state
    <3> QED
      BY <1>0, <2>1, <2>2, <3>1, DiedStep
  <2>5. CASE coord_state[i] # "absent" /\ a # "no_clause"
    <3>1. completion' = comp /\ schedule_jobs(runner_pid, jobs, reg, comp)
      BY <1>5, <2>5 DEF update_job_state
    <3>2. a = s
      BY <2>5 DEF act
    <3>3. jobs \in [Jobs -> CoordStates \cup {"absent"}]
      BY <1>0, <2>5, ActTyped, WithoutTyped DEF TypeOK
    <3>4. ASSUME NEW j \in Jobs, jobs[j] \in {"starting", "ready"}
          PROVE  jobs[j] = coord_state[j] \/ Update(j, jobs[j]) \in mailbox
      <4>1. CASE j = i /\ gone = {}
        BY <1>0, <2>1, <3>2, <4>1 DEF TypeOK
      <4>2. CASE j # i \/ gone # {}
        BY <1>0, <3>4, <4>2 DEF TypeOK, Without
      <4> QED
        BY <4>1, <4>2
    <3>5. ASSUME NEW j \in Jobs, completion'[j] = "finished"
          PROVE  completion[j] = "finished" \/ Update(j, "finished") \in mailbox
      BY <2>1, <3>1, <3>2, <3>5 DEF complete_jobs
    <3>6. reg \in SUBSET registered
      OBVIOUS
    <3> HIDE DEF jobs, comp, reg
    <3> QED
      BY <1>0, <2>1, <2>2, <3>1, <3>3, <3>4, <3>5, <3>6, ScheduledStep
  <2> QED
    BY <2>3, <2>4, <2>5
<1>6. ASSUME runner_supervisor_timer
      PROVE  CoordinatorStep
  <2>1. Handled(TimerMsg, {}, Nil, "closed") /\ wire' = wire
    BY <1>6 DEF runner_supervisor_timer
  <2>2. MailStep
    BY <2>1, HandledMail
  <2>3. CASE Waiting = Late
    <3>1. /\ Continue(runner_pid, Without(Late), registered \ Late, Armed)
          /\ completion' = complete_jobs(Late, "runner_timeout")
      BY <1>6, <2>3 DEF runner_supervisor_timer
    <3>2. \A j \in Jobs : completion'[j] = "finished" => completion[j] = "finished"
      BY <3>1 DEF complete_jobs
    <3>3. \A j \in Jobs : Without(Late)[j] \in {"starting", "ready"} => Without(Late)[j] = coord_state[j]
      BY DEF Without
    <3>4. registered \ Late \in SUBSET registered
      OBVIOUS
    <3> QED
      BY <1>0, <2>1, <2>2, <3>1, <3>2, <3>3, <3>4, ContinuedStep
  <2>4. CASE Waiting # Late
    BY <1>0, <1>6, <2>1, <2>2, <2>4, DiedStep DEF runner_supervisor_timer
  <2> QED
    BY <2>3, <2>4
<1> QED
  BY <1>1, <1>2, <1>3, <1>4, <1>5, <1>6 DEF Handle

\* Steps of the coordinator that are not handlers.
LEMMA OutsideIsStep ==
  ASSUME IInv, Wires, ReportedTrue,
         \/ \E j \in Jobs : request_terminate(j)
         \/ \E c \in Conns : start_server(c) \/ relookup(c) \/ close_conn(c) \/ close_orphan(c)
         \/ timer > 0 /\ tick
  PROVE  CoordinatorStep
<1> USE ReportsDistinct, ConnectDistinct
<1>0. TypeOK /\ Consistent
  BY DEF IInv
<1>1. RowsStep
  <2>1. Environment
    BY DEF Environment
  <2>2. ASSUME NEW j \in Jobs, insert_job(j)
        PROVE  RowsStep
    BY <2>2 DEF insert_job, RowsStep, Running
  <2> QED
    BY <1>0, <2>1, <2>2, EnvironmentTable, RowsMove
<1>2. ASSUME UNCHANGED <<registered, reported>>
      PROVE  RegistryStep(registered)
  BY <1>2 DEF RegistryStep, ReportedTrue
<1>3. ASSUME UNCHANGED <<coord_state, completion>>
      PROVE  BeliefStep
  BY <1>3 DEF BeliefStep
<1>4. ASSUME NEW j \in Jobs, request_terminate(j)
      PROVE  CoordinatorStep
  <2>1. /\ UNCHANGED <<completion, coord_state, registered, conn, wire, reported, runner_pid>>
        /\ j \in registered /\ mailbox' = mailbox \cup {Terminate(j)}
    BY <1>4 DEF request_terminate, db, server, ends
  <2>2. MailStep /\ Wires'
    BY <2>1 DEF MailStep, NoNewReports, Wires
  <2> QED
    BY <1>1, <1>2, <1>3, <2>1, <2>2 DEF CoordinatorStep, WireStep
<1>5. ASSUME NEW c \in Conns, start_server(c)
      PROVE  CoordinatorStep
  <2>1. /\ UNCHANGED <<coord_state, registered, mailbox, wire, reported, runner_pid>>
        /\ conn[c] = "starting" /\ conn' = [conn EXCEPT ![c] = "relookup"]
    BY <1>5 DEF start_server
  <2>2. MailStep
    BY <2>1 DEF MailStep, NoNewReports
  <2>3. Wires'
    BY <1>0, <2>1 DEF Wires, TypeOK
  <2>4. BeliefStep
    BY <1>5, <2>1 DEF BeliefStep, start_server, complete_jobs
  <2> QED
    BY <1>1, <1>2, <2>1, <2>2, <2>3, <2>4 DEF CoordinatorStep, WireStep
<1>6. ASSUME NEW c \in Conns, relookup(c)
      PROVE  CoordinatorStep
  <2>1. /\ UNCHANGED <<completion, coord_state, registered, wire, reported, runner_pid>>
        /\ conn[c] = "relookup" /\ conn' = [conn EXCEPT ![c] = IF up THEN "calling" ELSE "closed"]
        /\ mailbox' = IF up THEN mailbox \cup {Connect(c)} ELSE mailbox
    BY <1>6 DEF relookup, db, server
  <2>2. MailStep
    BY <2>1 DEF MailStep, NoNewReports
  <2>3. Wires'
    BY <1>0, <2>1 DEF Wires, TypeOK
  <2> QED
    BY <1>1, <1>2, <1>3, <2>1, <2>2, <2>3 DEF CoordinatorStep, WireStep
<1>7. ASSUME NEW c \in Conns, close_conn(c)
      PROVE  CoordinatorStep
  <2>1. /\ UNCHANGED <<completion, coord_state, registered, reported, runner_pid>>
        /\ conn' = [conn EXCEPT ![c] = "closed"] /\ wire' = [wire EXCEPT ![c] = <<>>]
        /\ mailbox' = IF conn[c] = "streaming" THEN mailbox \cup {Down(c)} ELSE mailbox
    BY <1>7 DEF close_conn, db, server
  <2>2. MailStep
    BY <2>1 DEF MailStep, NoNewReports
  <2>3. Wires'
    BY <1>0, <2>1 DEF Wires, TypeOK
  <2> QED
    BY <1>1, <1>2, <1>3, <2>1, <2>2, <2>3 DEF CoordinatorStep, WireStep
<1>8. ASSUME NEW c \in Conns, close_orphan(c)
      PROVE  CoordinatorStep
  <2>1. /\ UNCHANGED <<completion, coord_state, registered, mailbox, wire, reported, runner_pid>>
        /\ wire[c] = <<>> /\ conn' = [conn EXCEPT ![c] = "closed"]
    BY <1>8 DEF close_orphan, db, server
  <2>2. MailStep
    BY <2>1 DEF MailStep, NoNewReports
  <2>3. Wires'
    BY <1>0, <2>1 DEF Wires, TypeOK
  <2> QED
    BY <1>1, <1>2, <1>3, <2>1, <2>2, <2>3 DEF CoordinatorStep, WireStep
<1>9. ASSUME tick
      PROVE  CoordinatorStep
  <2>1. /\ UNCHANGED <<completion, coord_state, registered, conn, wire, reported, runner_pid>>
        /\ mailbox' \subseteq mailbox \cup {TimerMsg}
    BY <1>9 DEF tick, db, ends
  <2>2. MailStep /\ Wires'
    BY <2>1 DEF MailStep, NoNewReports, Wires
  <2> QED
    BY <1>1, <1>2, <1>3, <2>1, <2>2 DEF CoordinatorStep, WireStep
<1> QED
  BY <1>4, <1>5, <1>6, <1>7, <1>8, <1>9

\* A coordinator's step cuts the pipe off, appends to it or leaves it alone.
PipeStep ==
  \/ Pipe' = Pipe
  \/ Pipe' = inbox
  \/ \E j \in Jobs : Terminate(j) \in mailbox /\ Pipe' = Append(Pipe, [type |-> "stop_job", job |-> j])
  \/ \E p \in Jobs : p \in dispatched' \ dispatched /\ Pipe' = Append(Pipe, [type |-> "start_job", job |-> p])

LEMMA WirePipe ==
  ASSUME TypeOK, TreadmillTypeOK, WireStep, UNCHANGED <<stream, inbox>>
  PROVE  PipeStep
<1>1. inbox \in Seq(RunnerMsgs) /\ (stream # Nil => stream \in Conns /\ wire[stream] \in Seq(RunnerMsgs))
  BY DEF TypeOK, TreadmillTypeOK
<1>2. CASE stream = Nil
  BY <1>2 DEF Pipe, PipeStep
<1>3. CASE stream # Nil
  <2>1. Pipe = inbox \o wire[stream] /\ Pipe' = inbox \o wire'[stream]
    BY <1>3 DEF Pipe
  <2>2. CASE wire'[stream] = wire[stream]
    BY <2>1, <2>2 DEF PipeStep
  <2>3. CASE wire'[stream] = <<>>
    <3>1. Pipe' = inbox
      BY <1>1, <2>1, <2>3, ConcatEmptySeq
    <3> QED
      BY <3>1 DEF PipeStep
  <2>4. ASSUME NEW t \in {"start_job", "stop_job"}, NEW j \in Jobs,
               wire'[stream] = Append(wire[stream], [type |-> t, job |-> j])
        PROVE  Pipe' = Append(Pipe, [type |-> t, job |-> j])
    <3>1. [type |-> t, job |-> j] \in RunnerMsgs
      BY DEF RunnerMsgs
    <3> QED
      BY <1>1, <1>3, <2>1, <2>4, <3>1, ConcatAppend
  <2>5. ASSUME NEW c \in Conns, NEW t, NEW j \in Jobs, wire' = SentTo(c, t, j)
        PROVE  wire'[stream] = wire[stream] \/ wire'[stream] = Append(wire[stream], [type |-> t, job |-> j])
    BY <1>1, <1>3, <2>5 DEF SentTo, TypeOK
  <2>6. CASE \E c \in Conns : wire' = [wire EXCEPT ![c] = <<>>]
    BY <1>1, <1>3, <2>2, <2>3, <2>6 DEF TypeOK
  <2>7. CASE \E c \in Conns, j \in Jobs : Terminate(j) \in mailbox /\ wire' = SentTo(c, "stop_job", j)
    <3>1. PICK c \in Conns, j \in Jobs : Terminate(j) \in mailbox /\ wire' = SentTo(c, "stop_job", j)
      BY <2>7
    <3> QED
      BY <2>2, <2>4, <2>5, <3>1 DEF PipeStep
  <2>8. CASE \E c \in Conns, p \in Jobs : p \in dispatched' \ dispatched /\ wire' = SentTo(c, "start_job", p)
    <3>1. PICK c \in Conns, p \in Jobs : p \in dispatched' \ dispatched /\ wire' = SentTo(c, "start_job", p)
      BY <2>8
    <3> QED
      BY <2>2, <2>4, <2>5, <3>1 DEF PipeStep
  <2> QED
    BY <2>2, <2>6, <2>7, <2>8 DEF WireStep
<1> QED
  BY <1>2, <1>3

\* No step of the coordinator disorders the pipe or asks for a job while a job
\* runs that was dispatched before.
LEMMA CoordinatorPipe ==
  ASSUME TInv, CoordinatorStep, UNCHANGED <<link, call, runner>>
  PROVE  /\ PipeOrdered(Pipe)'
         /\ \A j \in dispatched : j \in Running' /\ NoStart(Pipe) => NoStart(Pipe)'
<1>1. /\ TypeOK /\ TreadmillTypeOK /\ PipeOrdered(Pipe) /\ CallOrdered
      /\ UNCHANGED <<stream, inbox, call, slot, posted>>
  BY DEF TInv, IInv, link, runner
<1>2. PipeStep /\ RowsStep
  BY <1>1, WirePipe DEF CoordinatorStep
<1>3. Pipe \in Seq(RunnerMsgs) /\ Len(Pipe) \in Nat
  BY <1>1, PipeTyped
<1>4. \A j : Trace(j)' <=> Trace(j)
  BY <1>1 DEF Trace
<1>5. CASE Pipe' = Pipe
  <2>1. \A a \in 1..Len(Pipe') : Pipe'[a] = Pipe[a + 0]
    BY <1>3, <1>5
  <2>2. Len(Pipe') \in Nat /\ Len(Pipe') + 0 <= Len(Pipe)
    BY <1>3, <1>5
  <2>3. PipeOrdered(Pipe)'
    BY <1>1, <1>2, <1>3, <1>4, <2>1, <2>2, PipeShrinks DEF RowsStep
  <2> QED
    BY <1>5, <2>3 DEF NoStart
<1>6. CASE Pipe' = inbox
  <2>1. Len(inbox) \in Nat /\ Len(inbox) <= Len(Pipe) /\ \A a \in 1..Len(inbox) : a \in 1..Len(Pipe) /\ Pipe[a] = inbox[a]
    BY <1>1, InboxInPipe DEF TreadmillTypeOK
  <2>2. \A a \in 1..Len(Pipe') : Pipe'[a] = Pipe[a + 0]
    BY <1>6, <2>1
  <2>3. Len(Pipe') \in Nat /\ Len(Pipe') + 0 <= Len(Pipe)
    BY <1>3, <1>6, <2>1
  <2>4. PipeOrdered(Pipe)'
    BY <1>1, <1>2, <1>3, <1>4, <2>2, <2>3, PipeShrinks DEF RowsStep
  <2> QED
    BY <1>6, <2>1, <2>4 DEF NoStart
<1>7. ASSUME NEW j \in Jobs, Terminate(j) \in mailbox, Pipe' = Append(Pipe, [type |-> "stop_job", job |-> j])
      PROVE  PipeOrdered(Pipe)' /\ (NoStart(Pipe) => NoStart(Pipe)')
  <2> DEFINE m == [type |-> "stop_job", job |-> j]
  <2>1. m \in RunnerMsgs /\ m.type # "start_job" /\ m.job = j
    BY DEF RunnerMsgs
  <2>2. j \in dispatched'
    BY <1>1, <1>2, <1>7 DEF CallOrdered, RowsStep
  <2>3. /\ Len(Pipe') = Len(Pipe) + 1 /\ Pipe'[Len(Pipe) + 1] = m
        /\ \A a \in 1..Len(Pipe) : Pipe'[a] = Pipe[a]
    BY <1>3, <1>7, <2>1, AppendProperties
  <2> HIDE DEF m
  <2>4. PipeOrdered(Pipe)'
    BY <1>1, <1>2, <1>3, <1>7, <2>1, <2>2, PipeGrows DEF RowsStep, m
  <2> QED
    BY <1>3, <2>1, <2>3, <2>4 DEF NoStart
<1>8. ASSUME NEW p \in Jobs, p \in dispatched' \ dispatched, Pipe' = Append(Pipe, [type |-> "start_job", job |-> p])
      PROVE  PipeOrdered(Pipe)' /\ \A j \in dispatched : j \notin Running'
  <2> DEFINE m == [type |-> "start_job", job |-> p]
  <2>1. m \in RunnerMsgs /\ m.job = p
    BY DEF RunnerMsgs
  <2>2. \A j \in dispatched : j \notin Running'
    BY <1>2, <1>8 DEF RowsStep
  <2>3. ~Trace(p)
    BY <1>1, <1>8 DEF CallOrdered
  <2> HIDE DEF m
  <2>4. PipeOrdered(Pipe)'
    BY <1>1, <1>2, <1>3, <1>8, <2>1, <2>2, <2>3, PipeGrows DEF RowsStep, m
  <2> QED
    BY <2>2, <2>4
<1> QED
  BY <1>2, <1>5, <1>6, <1>7, <1>8 DEF PipeStep

\* What is known of the jobs survives a step of the coordinator.
LEMMA CoordinatorKeeps ==
  ASSUME TInv, TypeOK', CoordinatorStep, UNCHANGED <<link, call, runner>>
  PROVE  /\ TreadmillTypeOK' /\ StreamLeft' /\ Wires'
         /\ PipeOrdered(Pipe)' /\ CallOrdered'
         /\ WorkReported' /\ WorkAnswered'
         /\ ReportedTrue' /\ BeliefBacked'
<1>1. /\ TypeOK /\ Consistent /\ TreadmillTypeOK /\ StreamLeft /\ PipeOrdered(Pipe) /\ CallOrdered
      /\ WorkReported /\ WorkAnswered /\ ReportedTrue /\ BeliefBacked
      /\ UNCHANGED <<connector, stream, inbox, call, slot, posted>>
  BY DEF TInv, IInv, link, runner
<1>2. RegistryStep(registered) /\ BeliefStep /\ MailStep /\ RowsStep /\ Wires'
  BY DEF CoordinatorStep
<1>3. TreadmillTypeOK' /\ StreamLeft'
  BY <1>1 DEF TreadmillTypeOK, StreamLeft
<1>4. PipeOrdered(Pipe)' /\ \A j \in dispatched : j \in Running' /\ NoStart(Pipe) => NoStart(Pipe)'
  BY CoordinatorPipe
<1>5. \A j : (Trace(j)' <=> Trace(j)) /\ (Taken(j)' <=> Taken(j))
  BY <1>1 DEF Trace, Taken
<1>6. registered \subseteq dispatched
  BY <1>1, RegisteredDispatched
<1>7. CallOrdered'
  <2>1. ASSUME NEW j \in Jobs, Trace(j)' \/ Terminate(j) \in mailbox'
        PROVE  j \in dispatched'
    BY <1>1, <1>2, <1>5, <1>6, <2>1 DEF CallOrdered, MailStep, RowsStep
  <2>2. ASSUME NEW j \in Jobs, Called("start_job", j)'
        PROVE  ~Taken(j)' /\ posted'[j] = {} /\ (j \in Running' => NoStart(Pipe)')
    <3>1. Called("start_job", j)
      BY <1>1, <2>2 DEF Called
    <3>2. j \in dispatched
      <4>1. call # Nil /\ call.job = j
        BY <3>1, CallsAssumption DEF Called, Calls
      <4> QED
        BY <1>1, <4>1 DEF CallOrdered, Trace
    <3> QED
      BY <1>1, <1>2, <1>4, <1>5, <3>1, <3>2 DEF CallOrdered, RowsStep
  <2>3. ASSUME NEW k \in Running', Taken(k)'
        PROVE  /\ slot' \in {k, Nil}
               /\ NoStart(Pipe)'
               /\ \A j \in Jobs : ~Called("start_job", j)'
    <3>1. Taken(k) /\ Trace(k)
      BY <1>5, <2>3 DEF Taken, Trace
    <3>2. k \in Jobs
      BY DEF Running, TypeOK
    <3>3. k \in dispatched
      BY <1>1, <3>1, <3>2 DEF CallOrdered
    <3>4. k \in Running
      BY <1>2, <2>3, <3>3 DEF RowsStep
    <3> QED
      BY <1>1, <1>4, <2>3, <3>1, <3>3, <3>4 DEF CallOrdered, Called
  <2> QED
    BY <2>1, <2>2, <2>3 DEF CallOrdered
<1>8. WorkReported'
  BY <1>1 DEF WorkReported, Called
<1>9. WorkAnswered'
  BY <1>1, <1>2 DEF WorkAnswered, Called, Answered, MailStep, NoNewReports
<1>10. ReportedTrue'
  <2>1. \A j : Heard(j)' <=> Heard(j)
    BY <1>1, <1>5 DEF Heard
  <2>2. \A a \in 1..Len(inbox) : inbox[a].job \in dispatched
    BY <1>1, InboxInPipe DEF PipeOrdered
  <2>3. ASSUME NEW j \in Jobs, j \in registered'
        PROVE  /\ Heard(j)' => reported'[j] # "unknown"
               /\ posted'[j] \cap {"failed", "finished"} = {} => reported'[j] \in LastOf(posted'[j])
    <3>1. reported'[j] = reported[j] /\ (j \in registered \/ j \notin dispatched)
      BY <1>2, <2>3 DEF RegistryStep
    <3>2. CASE j \in registered
      BY <1>1, <2>1, <3>1, <3>2 DEF ReportedTrue
    <3>3. CASE j \notin dispatched
      <4>1. ~Heard(j) /\ posted[j] = {}
        BY <1>1, <2>2, <3>3 DEF CallOrdered, Heard, Trace
      <4>2. reported[j] = "unknown"
        BY <1>1, <1>6, <3>3 DEF ReportedTrue
      <4> QED
        BY <1>1, <2>1, <3>1, <4>1, <4>2 DEF LastOf
    <3> QED
      BY <3>1, <3>2, <3>3
  <2> QED
    BY <1>2, <2>3 DEF ReportedTrue, RegistryStep
<1>11. BeliefBacked'
  <2> SUFFICES ASSUME NEW j \in Jobs
               PROVE  /\ \A s \in JobReports : Update(j, s) \in mailbox' => BackedBy(s) \in posted[j]
                      /\ coord_state'[j] \in {"starting", "ready"} => BackedBy(coord_state'[j]) \in posted[j]
                      /\ completion'[j] = "finished" => "finished" \in posted[j]
    BY <1>1 DEF BeliefBacked, BackedBy
  <2>1. \A s \in JobReports : Update(j, s) \in mailbox => BackedBy(s) \in posted[j]
    BY <1>1 DEF BeliefBacked
  <2>2. \A s \in JobReports : Update(j, s) \in mailbox' => BackedBy(s) \in posted[j]
    BY <1>2, <2>1 DEF MailStep, NoNewReports
  <2>3. ASSUME coord_state'[j] \in {"starting", "ready"}
        PROVE  BackedBy(coord_state'[j]) \in posted[j]
    <3>1. coord_state'[j] = coord_state[j] \/ Update(j, coord_state'[j]) \in mailbox
      BY <1>2, <2>3 DEF BeliefStep
    <3>2. coord_state'[j] \in JobReports
      BY <2>3 DEF JobReports
    <3> QED
      BY <1>1, <2>1, <2>3, <3>1, <3>2 DEF BeliefBacked
  <2>4. ASSUME completion'[j] = "finished"
        PROVE  "finished" \in posted[j]
    <3>1. completion[j] = "finished" \/ Update(j, "finished") \in mailbox
      BY <1>2, <2>4 DEF BeliefStep
    <3>2. "finished" \in JobReports /\ BackedBy("finished") = "finished"
      BY DEF JobReports, BackedBy
    <3> QED
      BY <1>1, <2>1, <3>1, <3>2 DEF BeliefBacked
  <2> QED
    BY <2>2, <2>3, <2>4
<1> QED
  BY <1>2, <1>3, <1>4, <1>7, <1>8, <1>9, <1>10, <1>11

-----------------------------------------------------------------------------
(* What a step of the runner is to the coordinator.                        *)

PostStates == {"booting", "ready", "stopping", "finished", "failed"}

\* The stages of job j before s, and no others, are reported.
InOrder(j, s) ==
  /\ s = "booting"  => posted[j] = {}
  /\ s = "ready"    => posted[j] = {"booting"}
  /\ s = "stopping" => posted[j] = {"booting", "ready"}
  /\ s = "finished" => posted[j] = {"booting", "ready", "stopping"}

\* The runner reports s of a job it was told of, in its turn and when its last
\* report is answered.
Timely(j, s) == Heard(j) /\ (s # "failed" => Answered(j)) /\ InOrder(j, s)

\* What a step of the runner leaves alone, and what it does to its slot: it
\* takes on no job it was not asked for.
RunnerStep ==
  /\ UNCHANGED <<dispatched, completion, registered, coord_state, runner_pid, conn, wire>>
  /\ UNCHANGED <<inbox, stream>> \/ (inbox' = <<>> /\ stream' = Nil)
  /\ \A c \in Conns : Connect(c) \in mailbox' => Connect(c) \in mailbox
  /\ \A j \in Jobs : Terminate(j) \in mailbox' => Terminate(j) \in mailbox
  /\ \A j \in Jobs : Trace(j)' => Trace(j)
  /\ \A j \in Jobs : ~Called("start_job", j)'
  /\ \/ slot' \in {slot, Nil} /\ \A k \in Jobs : Taken(k)' => Taken(k)
     \/ \E j \in Jobs : /\ Called("start_job", j) /\ slot' = j
                        /\ \A k \in Jobs : Taken(k)' => Taken(k) \/ k = j

\* The pipe loses what the runner leaves with its stream.
LEMMA RunnerPipe ==
  ASSUME TInv, RunnerStep
  PROVE  StreamLeft' /\ Wires' /\ PipeOrdered(Pipe)' /\ CallOrdered'
<1>1. TypeOK /\ TreadmillTypeOK /\ StreamLeft /\ Wires /\ PipeOrdered(Pipe) /\ CallOrdered
  BY DEF TInv, IInv
<1>2. StreamLeft'
  BY <1>1 DEF StreamLeft, RunnerStep
<1>3. Wires'
  BY <1>1 DEF Wires, RunnerStep
<1>4. Running' = Running /\ dispatched' = dispatched
  BY DEF RunnerStep, Running
<1>5. Pipe' = Pipe \/ Pipe' = <<>>
  BY DEF RunnerStep, Pipe
<1>6. Pipe \in Seq(RunnerMsgs) /\ Len(Pipe) \in Nat
  BY <1>1, PipeTyped
<1>7. Len(Pipe') \in Nat /\ Len(Pipe') + 0 <= Len(Pipe) /\ \A a \in 1..Len(Pipe') : Pipe'[a] = Pipe[a + 0]
  BY <1>5, <1>6
<1>8. \A j \in Jobs : Trace(j)' => Trace(j)
  BY DEF RunnerStep
<1>a. dispatched \subseteq Jobs
  BY <1>1 DEF TypeOK
<1>9. PipeOrdered(Pipe)'
  BY <1>1, <1>4, <1>6, <1>7, <1>8, <1>a, PipeShrinks
<1>10. NoStart(Pipe) => NoStart(Pipe)'
  BY <1>5 DEF NoStart
<1>11. CallOrdered'
  <2>1. \A j \in Jobs : Trace(j)' \/ Terminate(j) \in mailbox' => j \in dispatched'
    BY <1>1, <1>4, <1>8 DEF RunnerStep, CallOrdered
  <2>2. \A j \in Jobs : ~Called("start_job", j)'
    BY DEF RunnerStep
  <2>3. ASSUME NEW k \in Running, Taken(k)'
        PROVE  slot' \in {k, Nil} /\ NoStart(Pipe)'
    <3>1. k \in Jobs
      BY <1>1 DEF Running, TypeOK
    <3>2. CASE slot' \in {slot, Nil} /\ Taken(k)
      BY <1>1, <1>10, <3>2 DEF CallOrdered
    <3>3. ASSUME NEW j \in Jobs, Called("start_job", j), slot' = j, Taken(k) \/ k = j
          PROVE  slot' \in {k, Nil} /\ NoStart(Pipe)'
      BY <1>1, <1>10, <3>1, <3>3 DEF CallOrdered
    <3> QED
      BY <2>3, <3>1, <3>2, <3>3 DEF RunnerStep
  <2> QED
    BY <1>4, <2>1, <2>2, <2>3 DEF CallOrdered
<1> QED
  BY <1>2, <1>3, <1>9, <1>11

\* A timely report is one BoardServer's runner may make.
LEMMA PostIsNext ==
  ASSUME TInv, NEW j \in Jobs, NEW s \in PostStates, Timely(j, s), Post(j, s)
  PROVE  [Next]_vars
<1>1. CASE j \notin registered
  BY <1>1 DEF Post, vars, db, server
<1>2. CASE j \in registered
  <2> DEFINE t == JobState(s)
  <2>1. t \in JobReports /\ (s = "booting" => t = "starting") /\ (s # "booting" => t = s)
    BY DEF JobState, JobReports, PostStates
  <2>2. ReportedTrue /\ TypeOK
    BY DEF TInv, IInv
  <2>3. reported[j] # "unknown" /\ reported[j] \in {"unknown", "told"} \cup JobReports
    BY <1>2, <2>2 DEF Timely, InOrder, ReportedTrue, TypeOK
  <2>4. posted[j] \cap {"failed", "finished"} = {} => reported[j] \in LastOf(posted[j])
    BY <1>2, <2>2 DEF ReportedTrue
  <2>5. reported[j] \in Precedes(t)
    BY <2>1, <2>3, <2>4 DEF Precedes, LastOf, Timely, InOrder, PostStates
  <2>6. t # "failed" => \A u \in JobReports \ {"failed"} : Update(j, u) \notin mailbox
    BY <2>1 DEF Timely, InOrder, Answered
  <2>7. post_job_state(j, t)
    BY <1>2, <2>5, <2>6 DEF Post, post_job_state
  <2> QED
    BY <2>1, <2>7 DEF Next, Environment
<1> QED
  BY <1>1, <1>2

\* What a report changes.
LEMMA PostKeeps ==
  ASSUME TInv, NEW j \in Jobs, NEW s \in PostStates, Timely(j, s), Post(j, s),
         \A k \in Jobs : Heard(k)' => Heard(k)
  PROVE  /\ ReportedTrue' /\ BeliefBacked'
         /\ posted' \in [Jobs -> SUBSET PostStates]
         /\ posted'[j] = posted[j] \cup {s}
         /\ \A k \in Jobs : k # j => posted'[k] = posted[k] /\ (Answered(k) => Answered(k)')
         /\ UNCHANGED <<dispatched, completion, registered, coord_state, runner_pid, conn, wire>>
         /\ \A c \in Conns : Connect(c) \in mailbox' => Connect(c) \in mailbox
         /\ \A k \in Jobs : Terminate(k) \in mailbox' => Terminate(k) \in mailbox
<1> USE ReportsDistinct
<1> DEFINE t == JobState(s)
<1>1. t \in JobReports /\ (s = "booting" => t = "starting") /\ (s # "booting" => t = s) /\ BackedBy(t) = s
  BY DEF JobState, JobReports, BackedBy, PostStates
<1>2. TypeOK /\ TreadmillTypeOK /\ ReportedTrue /\ BeliefBacked
  BY DEF TInv, IInv
<1>3. /\ posted' = [posted EXCEPT ![j] = @ \cup {s}]
      /\ UNCHANGED <<dispatched, completion, registered, coord_state, runner_pid, conn, wire>>
      /\ mailbox' = mailbox \/ mailbox' = mailbox \cup {Update(j, t)}
      /\ j \in registered => reported' = [reported EXCEPT ![j] = IF @ = "finished" THEN @ ELSE t]
      /\ j \notin registered => reported' = reported
  BY DEF Post, db, server
<1>4. /\ posted' \in [Jobs -> SUBSET PostStates] /\ posted'[j] = posted[j] \cup {s}
      /\ \A k \in Jobs : k # j => posted'[k] = posted[k]
  BY <1>2, <1>3 DEF TreadmillTypeOK, PostStates
<1> HIDE DEF t
<1>5. \A k \in Jobs : k # j => (Answered(k) => Answered(k)')
  BY <1>1, <1>3 DEF Answered
<1>6. /\ \A c \in Conns : Connect(c) \in mailbox' => Connect(c) \in mailbox
      /\ \A k \in Jobs : Terminate(k) \in mailbox' => Terminate(k) \in mailbox
  BY <1>1, <1>3
<1>7. ReportedTrue'
  <2> SUFFICES ASSUME NEW k \in Jobs
               PROVE  /\ k \notin registered => reported'[k] = "unknown"
                      /\ k \in registered /\ Heard(k)' => reported'[k] # "unknown"
                      /\ k \in registered /\ posted'[k] \cap {"failed", "finished"} = {} => reported'[k] \in LastOf(posted'[k])
    BY <1>3 DEF ReportedTrue, LastOf
  <2>1. /\ k \notin registered => reported[k] = "unknown"
        /\ k \in registered /\ Heard(k) => reported[k] # "unknown"
        /\ k \in registered /\ posted[k] \cap {"failed", "finished"} = {} => reported[k] \in LastOf(posted[k])
    BY <1>2 DEF ReportedTrue
  <2>2. CASE k # j \/ j \notin registered
    <3>1. reported'[k] = reported[k]
      BY <1>2, <1>3, <2>2 DEF TypeOK
    <3>2. k \in registered => posted'[k] = posted[k]
      BY <1>4, <2>2
    <3> QED
      BY <2>1, <3>1, <3>2
  <2>3. CASE k = j /\ j \in registered
    <3>1. reported'[k] = IF reported[k] = "finished" THEN "finished" ELSE t
      BY <1>2, <1>3, <2>3 DEF TypeOK
    <3>2. t # "unknown"
      BY <1>1 DEF JobReports
    <3>3. ASSUME posted'[k] \cap {"failed", "finished"} = {}
          PROVE  reported'[k] \in LastOf(posted'[k])
      <4>1. s \in {"booting", "ready", "stopping"} /\ posted[k] \cap {"failed", "finished"} = {}
        BY <1>4, <2>3, <3>3 DEF PostStates
      <4>2. reported[k] # "finished"
        BY <2>1, <2>3, <4>1 DEF LastOf
      <4>3. reported'[k] = t
        BY <3>1, <4>2
      <4>4. t \in LastOf(posted[k] \cup {s})
        BY <1>1, <2>3, <4>1 DEF LastOf, Timely, InOrder
      <4> QED
        BY <1>4, <2>3, <4>3, <4>4
    <3> QED
      BY <2>3, <3>1, <3>2, <3>3
  <2> QED
    BY <2>2, <2>3
<1>8. BeliefBacked'
  <2> SUFFICES ASSUME NEW k \in Jobs
               PROVE  /\ \A u \in JobReports : Update(k, u) \in mailbox' => BackedBy(u) \in posted'[k]
                      /\ coord_state[k] \in {"starting", "ready"} => BackedBy(coord_state[k]) \in posted'[k]
                      /\ completion[k] = "finished" => "finished" \in posted'[k]
    BY <1>3 DEF BeliefBacked, BackedBy
  <2>1. posted[k] \subseteq posted'[k]
    BY <1>4
  <2>2. /\ \A u \in JobReports : Update(k, u) \in mailbox => BackedBy(u) \in posted[k]
        /\ coord_state[k] \in {"starting", "ready"} => BackedBy(coord_state[k]) \in posted[k]
        /\ completion[k] = "finished" => "finished" \in posted[k]
    BY <1>2 DEF BeliefBacked
  <2>3. ASSUME NEW u \in JobReports, Update(k, u) \in mailbox'
        PROVE  BackedBy(u) \in posted'[k]
    <3>1. CASE Update(k, u) \in mailbox
      BY <2>1, <2>2, <3>1
    <3>2. CASE Update(k, u) = Update(j, t)
      <4>1. k = j /\ u = t
        BY <1>1, <3>2
      <4> QED
        BY <1>1, <1>4, <4>1
    <3> QED
      BY <1>3, <2>3, <3>1, <3>2
  <2> QED
    BY <2>1, <2>2, <2>3
<1> QED
  BY <1>3, <1>4, <1>5, <1>6, <1>7, <1>8

\* A step that reports nothing.
LEMMA QuietKeeps ==
  ASSUME TInv, UNCHANGED <<vars, posted>>, \A k \in Jobs : Heard(k)' => Heard(k)
  PROVE  ReportedTrue' /\ BeliefBacked' /\ [Next]_vars
<1>1. ReportedTrue /\ BeliefBacked
  BY DEF TInv
<1> QED
  BY <1>1 DEF vars, ReportedTrue, BeliefBacked

\* A job is heard of as long as a trace of it is left.
LEMMA HeardKept ==
  ASSUME \A j \in Jobs : Trace(j)' => Trace(j), inbox' \in {inbox, <<>>}
  PROVE  \A j \in Jobs : Heard(j)' => Heard(j)
BY DEF Heard

-----------------------------------------------------------------------------
(* The steps of the runner.                                                *)

\* All that a step of the runner has to keep.
Kept ==
  /\ RunnerStep /\ [Next]_vars
  /\ connector' \in {"connecting", "reading", "waiting"} /\ (stream' # Nil <=> connector' = "reading")
  /\ call' \in Calls \cup {Nil} /\ slot' \in Jobs \cup {Nil} /\ posted' \in [Jobs -> SUBSET PostStates]
  /\ WorkReported' /\ WorkAnswered'
  /\ ReportedTrue' /\ BeliefBacked'

\* A call is of one kind and about one job.
LEMMA CallIsOne ==
  /\ \A t, u, i, j : Called(t, i) /\ Called(u, j) => t = u /\ i = j
  /\ \A t, i : Called(t, i) => call.job = i
  /\ \A t \in {"start_job", "started", "stop_job", "exited", "stopping"}, i \in Jobs : Called(t, i) => call # Nil
<1>1. \A t, i, u, j : [type |-> t, job |-> i] = [type |-> u, job |-> j] => t = u /\ i = j
  <2> TAKE t, i, u, j
  <2>1. [type |-> t, job |-> i].type = t /\ [type |-> u, job |-> j].type = u
    OBVIOUS
  <2>2. [type |-> t, job |-> i].job = i /\ [type |-> u, job |-> j].job = j
    OBVIOUS
  <2> QED
    BY <2>1, <2>2
<1>2. \A t \in {"start_job", "started", "stop_job", "exited", "stopping"}, i \in Jobs : [type |-> t, job |-> i] # Nil
  BY CallsAssumption DEF Calls
<1> QED
  BY <1>1, <1>2 DEF Called

LEMMA StartJobKeeps ==
  ASSUME TInv, NEW j \in Jobs, start_job(j)
  PROVE  Kept
<1>1. TreadmillTypeOK /\ CallOrdered /\ WorkReported /\ WorkAnswered
  BY DEF TInv
<1>2. /\ Called("start_job", j) /\ slot = Nil /\ slot' = j
      /\ Called("started", j)'
      /\ UNCHANGED <<vars, connector, stream, inbox, posted>>
  BY DEF start_job, link, Called
<1>3. j # Nil /\ call' # Nil /\ call'.job = j /\ call.job = j /\ call # Nil /\ call' \in Calls
  BY <1>2, CallIsOne, CallsAssumption, JobsAssumption DEF Called, Calls
<1>4. \A t \in {"start_job", "exited", "stopping"}, i \in Jobs : ~Called(t, i)'
  BY <1>2 DEF Called
<1>5. \A i \in Jobs : Called("started", i)' => i = j
  BY <1>2 DEF Called
<1>6. posted[j] = {}
  BY <1>1, <1>2 DEF CallOrdered
<1>7. \A k \in Jobs : Trace(k)' => Trace(k)
  BY <1>2, <1>3 DEF Trace
<1>8. \A k \in Jobs : Taken(k)' => Taken(k) \/ k = j
  BY <1>2 DEF Taken
<1>9. RunnerStep
  BY <1>2, <1>4, <1>7, <1>8 DEF RunnerStep, vars
<1>10. \A k \in Jobs : Heard(k)' => Heard(k)
  BY <1>2, <1>7, HeardKept
<1>11. WorkReported' /\ WorkAnswered'
  <2>1. \A k \in Jobs : slot' = k => k = j
    BY <1>2
  <2> QED
    BY <1>2, <1>4, <1>5, <1>6, <2>1 DEF WorkReported, WorkAnswered
<1> QED
  BY <1>1, <1>2, <1>3, <1>9, <1>10, <1>11, QuietKeeps DEF Kept, TreadmillTypeOK, PostStates

LEMMA ReturnsKeeps ==
  ASSUME TInv, NEW j \in Jobs, start_job_returns(j)
  PROVE  Kept
<1>1. TreadmillTypeOK /\ WorkReported /\ WorkAnswered
  BY DEF TInv
<1>2. /\ Called("started", j) /\ "ready" \in posted[j] /\ Answered(j) /\ call' = Nil
      /\ UNCHANGED <<vars, connector, stream, inbox, slot, posted>>
  BY DEF start_job_returns, link, runner
<1>3. \A t \in {"start_job", "started", "stop_job", "exited", "stopping"}, i \in Jobs : ~Called(t, i)'
  BY <1>2, CallsAssumption DEF Called, Calls
<1>4. slot = j /\ posted[j] = {"booting", "ready"}
  BY <1>1, <1>2 DEF WorkReported
<1>5. \A k \in Jobs : Trace(k)' => Trace(k)
  BY <1>2 DEF Trace
<1>6. \A k \in Jobs : Taken(k)' => Taken(k)
  BY <1>2 DEF Taken
<1>7. RunnerStep
  BY <1>2, <1>3, <1>5, <1>6 DEF RunnerStep, vars
<1>8. \A k \in Jobs : Heard(k)' => Heard(k)
  BY <1>2, <1>5, HeardKept
<1>9. \A k \in Jobs : Answered(k)' <=> Answered(k)
  BY <1>2 DEF Answered, vars
<1>10. WorkReported' /\ WorkAnswered'
  BY <1>2, <1>3, <1>4, <1>9 DEF WorkReported, WorkAnswered
<1> QED
  BY <1>1, <1>2, <1>7, <1>8, <1>10, QuietKeeps DEF Kept, TreadmillTypeOK, PostStates

LEMMA ExitsKeeps ==
  ASSUME TInv, NEW j \in Jobs, exits(j)
  PROVE  Kept
<1>1. TreadmillTypeOK /\ WorkReported /\ WorkAnswered
  BY DEF TInv
<1>2. /\ slot = j /\ call = Nil /\ Called("exited", j)'
      /\ UNCHANGED <<vars, connector, stream, inbox, slot, posted>>
  BY DEF exits, link, runner, Called
<1>3. \A t \in {"start_job", "started", "stopping"}, i \in Jobs : ~Called(t, i)'
  BY <1>2 DEF Called
<1>4. \A i \in Jobs : Called("exited", i)' => i = j
  BY <1>2 DEF Called
<1>5. \A t \in {"start_job", "started", "stop_job", "exited", "stopping"}, i \in Jobs : ~Called(t, i)
  BY <1>2, CallIsOne
<1>6. call'.job = j /\ call' \in Calls
  BY <1>2 DEF Called, Calls
<1>7. \A k \in Jobs : Trace(k)' => Trace(k)
  BY <1>2, <1>6 DEF Trace
<1>8. \A k \in Jobs : Taken(k)' => Taken(k)
  BY <1>2 DEF Taken
<1>9. RunnerStep
  BY <1>2, <1>3, <1>7, <1>8 DEF RunnerStep, vars
<1>10. \A k \in Jobs : Heard(k)' => Heard(k)
  BY <1>2, <1>7, HeardKept
<1>11. \A k \in Jobs : Answered(k)' <=> Answered(k)
  BY <1>2 DEF Answered, vars
<1>12. WorkReported' /\ WorkAnswered'
  BY <1>1, <1>2, <1>3, <1>4, <1>5, <1>11 DEF WorkReported, WorkAnswered
<1> QED
  BY <1>1, <1>2, <1>6, <1>9, <1>10, <1>12, QuietKeeps DEF Kept, TreadmillTypeOK, PostStates

LEMMA LetsGoKeeps ==
  ASSUME TInv, NEW j \in Jobs, lets_go(j)
  PROVE  Kept
<1>1. TreadmillTypeOK /\ WorkReported /\ WorkAnswered
  BY DEF TInv
<1>2. /\ Called("stopping", j) /\ slot = j /\ Answered(j) /\ slot' = Nil
      /\ UNCHANGED <<vars, connector, stream, inbox, call, posted>>
  BY DEF lets_go, link
<1>3. \A t, i : Called(t, i)' <=> Called(t, i)
  BY <1>2 DEF Called
<1>4. \A t, i : Called(t, i) => t = "stopping" /\ i = j
  BY <1>2, CallIsOne
<1>5. \A k \in Jobs : Trace(k)' => Trace(k)
  <2>1. posted[j] # {}
    BY <1>1, <1>2 DEF WorkReported
  <2>2. call.job = j /\ call # Nil
    BY <1>2, CallIsOne
  <2> QED
    BY <1>2, <2>1, <2>2, JobsAssumption DEF Trace
<1>6. \A k \in Jobs : Taken(k)' => Taken(k)
  BY <1>2, JobsAssumption DEF Taken
<1>7. RunnerStep
  BY <1>2, <1>3, <1>4, <1>5, <1>6 DEF RunnerStep, vars
<1>8. \A k \in Jobs : Heard(k)' => Heard(k)
  BY <1>2, <1>5, HeardKept
<1>9. \A k \in Jobs : Answered(k)' <=> Answered(k)
  BY <1>2 DEF Answered, vars
<1>10. \A k \in Jobs : slot' # k
  BY <1>2, JobsAssumption
<1>11. WorkReported'
  <2>1. posted[j] = {"booting", "ready", "stopping"}
    BY <1>1, <1>2 DEF WorkReported
  <2> QED
    BY <1>2, <1>3, <1>4, <1>10, <2>1 DEF WorkReported
<1>12. WorkAnswered'
  BY <1>2, <1>3, <1>4, <1>9, <1>10 DEF WorkAnswered
<1> QED
  BY <1>1, <1>2, <1>7, <1>8, <1>11, <1>12, QuietKeeps DEF Kept, TreadmillTypeOK, PostStates

LEMMA CrashKeeps ==
  ASSUME TInv, crashes
  PROVE  Kept
<1>1. TreadmillTypeOK /\ StreamLeft
  BY DEF TInv
<1>2. /\ connector' = "connecting" /\ stream' = Nil /\ inbox' = <<>> /\ call' = Nil /\ slot' = Nil
      /\ UNCHANGED <<vars, posted>>
  BY DEF crashes
<1>3. \A t \in {"start_job", "started", "stop_job", "exited", "stopping"}, i \in Jobs : ~Called(t, i)'
  BY <1>2, CallsAssumption DEF Called, Calls
<1>4. \A k \in Jobs : slot' # k
  BY <1>2, JobsAssumption
<1>5. \A k \in Jobs : Trace(k)' => Trace(k)
  BY <1>2, <1>4 DEF Trace
<1>6. \A k \in Jobs : Taken(k)' => Taken(k)
  BY <1>2, <1>4 DEF Taken
<1>7. RunnerStep
  BY <1>2, <1>3, <1>5, <1>6 DEF RunnerStep, vars
<1>8. \A k \in Jobs : Heard(k)' => Heard(k)
  BY <1>2, <1>5, HeardKept
<1>9. WorkReported' /\ WorkAnswered'
  BY <1>3, <1>4 DEF WorkReported, WorkAnswered
<1> QED
  BY <1>1, <1>2, <1>7, <1>8, <1>9, QuietKeeps DEF Kept, TreadmillTypeOK, PostStates

LEMMA ProgressKeeps ==
  ASSUME TInv, NEW j \in Jobs, NEW s \in {"booting", "ready"}, progress(j, s)
  PROVE  Kept
<1>1. TreadmillTypeOK /\ WorkReported /\ WorkAnswered
  BY DEF TInv
<1>2. /\ Called("started", j) /\ Answered(j) /\ s \notin posted[j] /\ (s = "ready" => "booting" \in posted[j])
      /\ Post(j, s)
      /\ UNCHANGED <<connector, stream, inbox, call, slot>>
  BY DEF progress, link
<1>3. \A t, i : Called(t, i)' <=> Called(t, i)
  BY <1>2 DEF Called
<1>4. \A t, i : Called(t, i) => t = "started" /\ i = j
  BY <1>2, CallIsOne
<1>5. slot = j /\ posted[j] \in {{}, {"booting"}, {"booting", "ready"}}
  BY <1>1, <1>2 DEF WorkReported
<1>6. Trace(j) /\ Taken(j)
  BY <1>5 DEF Trace, Taken
<1>7. Timely(j, s) /\ s \in PostStates
  BY <1>2, <1>5, <1>6 DEF Timely, InOrder, Heard, PostStates
<1>8. \A k \in Jobs : k # j => posted'[k] = posted[k]
  BY <1>1, <1>2 DEF Post, TreadmillTypeOK
<1>9. \A k \in Jobs : (Trace(k)' => Trace(k)) /\ (Taken(k)' => Taken(k))
  BY <1>2, <1>6, <1>8 DEF Trace, Taken
<1>10. \A k \in Jobs : Heard(k)' => Heard(k)
  BY <1>2, <1>9, HeardKept
<1>11. /\ ReportedTrue' /\ BeliefBacked' /\ posted' \in [Jobs -> SUBSET PostStates]
       /\ posted'[j] = posted[j] \cup {s}
       /\ UNCHANGED <<dispatched, completion, registered, coord_state, runner_pid, conn, wire>>
       /\ \A c \in Conns : Connect(c) \in mailbox' => Connect(c) \in mailbox
       /\ \A k \in Jobs : Terminate(k) \in mailbox' => Terminate(k) \in mailbox
  BY <1>2, <1>7, <1>10, PostKeeps
<1>12. RunnerStep
  BY <1>2, <1>3, <1>4, <1>9, <1>11 DEF RunnerStep
<1>13. \A k \in Jobs : slot = k => k = j
  BY <1>5
<1>14. WorkReported'
  <2>1. posted'[j] \in {{}, {"booting"}, {"booting", "ready"}}
    BY <1>2, <1>5, <1>11
  <2> QED
    BY <1>2, <1>3, <1>4, <1>5, <1>13, <2>1 DEF WorkReported
<1>15. WorkAnswered'
  BY <1>2, <1>3, <1>4, <1>13 DEF WorkAnswered
<1>16. [Next]_vars
  BY <1>2, <1>7, PostIsNext
<1> QED
  BY <1>1, <1>2, <1>11, <1>12, <1>14, <1>15, <1>16 DEF Kept, TreadmillTypeOK

LEMMA FailsKeeps ==
  ASSUME TInv, NEW j \in Jobs, fails(j)
  PROVE  Kept
<1>1. TreadmillTypeOK /\ WorkReported /\ WorkAnswered
  BY DEF TInv
<1>2. /\ Called("started", j) /\ Post(j, "failed") /\ slot' = Nil /\ call' = Nil
      /\ UNCHANGED <<connector, stream, inbox>>
  BY DEF fails, link
<1>3. \A t \in {"start_job", "started", "stop_job", "exited", "stopping"}, i \in Jobs : ~Called(t, i)'
  BY <1>2, CallsAssumption DEF Called, Calls
<1>4. slot = j
  BY <1>1, <1>2 DEF WorkReported
<1>5. Trace(j) /\ Taken(j)
  BY <1>4 DEF Trace, Taken
<1>6. Timely(j, "failed") /\ "failed" \in PostStates
  BY <1>5 DEF Timely, InOrder, Heard, PostStates
<1>7. \A k \in Jobs : k # j => posted'[k] = posted[k]
  BY <1>1, <1>2 DEF Post, TreadmillTypeOK
<1>8. \A k \in Jobs : slot' # k
  BY <1>2, JobsAssumption
<1>9. \A k \in Jobs : (Trace(k)' => Trace(k)) /\ (Taken(k)' => Taken(k))
  BY <1>2, <1>5, <1>7, <1>8 DEF Trace, Taken
<1>10. \A k \in Jobs : Heard(k)' => Heard(k)
  BY <1>2, <1>9, HeardKept
<1>11. /\ ReportedTrue' /\ BeliefBacked' /\ posted' \in [Jobs -> SUBSET PostStates]
       /\ UNCHANGED <<dispatched, completion, registered, coord_state, runner_pid, conn, wire>>
       /\ \A c \in Conns : Connect(c) \in mailbox' => Connect(c) \in mailbox
       /\ \A k \in Jobs : Terminate(k) \in mailbox' => Terminate(k) \in mailbox
  BY <1>2, <1>6, <1>10, PostKeeps
<1>12. RunnerStep
  BY <1>2, <1>3, <1>9, <1>11 DEF RunnerStep
<1>13. WorkReported' /\ WorkAnswered'
  BY <1>3, <1>8 DEF WorkReported, WorkAnswered
<1>14. [Next]_vars
  BY <1>2, <1>6, PostIsNext
<1> QED
  BY <1>1, <1>2, <1>11, <1>12, <1>13, <1>14 DEF Kept, TreadmillTypeOK

LEMMA RefusesKeeps ==
  ASSUME TInv, NEW j \in Jobs, refuses(j)
  PROVE  Kept
<1>1. TreadmillTypeOK /\ WorkReported /\ WorkAnswered /\ CallOrdered
  BY DEF TInv
<1>2. /\ Called("start_job", j) \/ (Stops(j) /\ slot # j)
      /\ Post(j, "failed") /\ call' = Nil
      /\ UNCHANGED <<connector, stream, inbox, slot>>
  BY DEF refuses, link
<1>3. \A t \in {"start_job", "started", "stop_job", "exited", "stopping"}, i \in Jobs : ~Called(t, i)'
  BY <1>2, CallsAssumption DEF Called, Calls
<1>4. PICK t \in {"start_job", "stop_job", "exited"} : Called(t, j)
  BY <1>2 DEF Stops
<1>5. \A u, i : Called(u, i) => u = t /\ i = j
  BY <1>4, CallIsOne
<1>6. slot # j
  BY <1>1, <1>2 DEF CallOrdered, Taken
<1>7. Trace(j)
  BY <1>4, CallIsOne DEF Trace
<1>8. Timely(j, "failed") /\ "failed" \in PostStates
  BY <1>7 DEF Timely, InOrder, Heard, PostStates
<1>9. /\ \A k \in Jobs : k # j => posted'[k] = posted[k]
      /\ posted'[j] = posted[j] \cup {"failed"}
  BY <1>1, <1>2 DEF Post, TreadmillTypeOK
<1>10. \A k \in Jobs : (Trace(k)' => Trace(k)) /\ (Taken(k)' => Taken(k))
  BY <1>2, <1>6, <1>7, <1>9 DEF Trace, Taken
<1>11. \A k \in Jobs : Heard(k)' => Heard(k)
  BY <1>2, <1>10, HeardKept
<1>12. /\ ReportedTrue' /\ BeliefBacked' /\ posted' \in [Jobs -> SUBSET PostStates]
       /\ \A k \in Jobs : k # j => (Answered(k) => Answered(k)')
       /\ UNCHANGED <<dispatched, completion, registered, coord_state, runner_pid, conn, wire>>
       /\ \A c \in Conns : Connect(c) \in mailbox' => Connect(c) \in mailbox
       /\ \A k \in Jobs : Terminate(k) \in mailbox' => Terminate(k) \in mailbox
  BY <1>2, <1>8, <1>11, PostKeeps
<1>13. RunnerStep
  BY <1>2, <1>3, <1>10, <1>12 DEF RunnerStep
<1>14. \A k \in Jobs : slot = k => k # j /\ posted[k] = {"booting", "ready"} /\ Answered(k)
  BY <1>1, <1>5, <1>6 DEF WorkReported, WorkAnswered
<1>15. WorkReported' /\ WorkAnswered'
  BY <1>2, <1>3, <1>9, <1>12, <1>14 DEF WorkReported, WorkAnswered
<1>16. [Next]_vars
  BY <1>2, <1>8, PostIsNext
<1> QED
  BY <1>1, <1>2, <1>12, <1>13, <1>15, <1>16 DEF Kept, TreadmillTypeOK

LEMMA StopJobKeeps ==
  ASSUME TInv, NEW j \in Jobs, stop_job(j)
  PROVE  Kept
<1>1. TreadmillTypeOK /\ WorkReported /\ WorkAnswered
  BY DEF TInv
<1>2. /\ Stops(j) /\ slot = j /\ Post(j, "stopping") /\ Called("stopping", j)'
      /\ UNCHANGED <<connector, stream, inbox, slot>>
  BY DEF stop_job, link, Called
<1>3. PICK t \in {"stop_job", "exited"} : Called(t, j)
  BY <1>2 DEF Stops
<1>4. \A u, i : Called(u, i) => u = t /\ i = j
  BY <1>3, CallIsOne
<1>5. posted[j] = {"booting", "ready"} /\ Answered(j)
  BY <1>1, <1>2, <1>4 DEF WorkReported, WorkAnswered
<1>6. \A u, i : Called(u, i)' => u = "stopping" /\ i = j
  <2>1. \A u, i : [type |-> u, job |-> i].type = u /\ [type |-> u, job |-> i].job = i
    OBVIOUS
  <2>2. call' = [type |-> "stopping", job |-> j]
    BY <1>2 DEF Called
  <2> QED
    BY <2>1, <2>2 DEF Called
<1>7. call' \in Calls /\ call'.job = j
  BY <1>2 DEF Called, Calls
<1>8. Trace(j) /\ Taken(j)
  BY <1>2 DEF Trace, Taken
<1>9. Timely(j, "stopping") /\ "stopping" \in PostStates
  BY <1>5, <1>8 DEF Timely, InOrder, Heard, PostStates
<1>10. \A k \in Jobs : k # j => posted'[k] = posted[k]
  BY <1>1, <1>2 DEF Post, TreadmillTypeOK
<1>11. \A k \in Jobs : (Trace(k)' => Trace(k)) /\ (Taken(k)' => Taken(k))
  BY <1>2, <1>7, <1>8, <1>10 DEF Trace, Taken
<1>12. \A k \in Jobs : Heard(k)' => Heard(k)
  BY <1>2, <1>11, HeardKept
<1>13. /\ ReportedTrue' /\ BeliefBacked' /\ posted' \in [Jobs -> SUBSET PostStates]
       /\ posted'[j] = posted[j] \cup {"stopping"}
       /\ UNCHANGED <<dispatched, completion, registered, coord_state, runner_pid, conn, wire>>
       /\ \A c \in Conns : Connect(c) \in mailbox' => Connect(c) \in mailbox
       /\ \A k \in Jobs : Terminate(k) \in mailbox' => Terminate(k) \in mailbox
  BY <1>2, <1>9, <1>12, PostKeeps
<1>14. RunnerStep
  BY <1>2, <1>6, <1>11, <1>13 DEF RunnerStep
<1>15. WorkReported'
  <2>1. posted'[j] = {"booting", "ready", "stopping"}
    BY <1>5, <1>13
  <2> QED
    BY <1>2, <1>6, <2>1 DEF WorkReported
<1>16. WorkAnswered'
  BY <1>2, <1>6 DEF WorkAnswered
<1>17. [Next]_vars
  BY <1>2, <1>9, PostIsNext
<1> QED
  BY <1>1, <1>2, <1>7, <1>13, <1>14, <1>15, <1>16, <1>17 DEF Kept, TreadmillTypeOK

LEMMA StopReturnsKeeps ==
  ASSUME TInv, NEW j \in Jobs, stop_job_returns(j)
  PROVE  Kept
<1>1. TreadmillTypeOK /\ WorkReported /\ WorkAnswered
  BY DEF TInv
<1>2. /\ Called("stopping", j) /\ slot # j /\ call' = Nil
      /\ UNCHANGED <<connector, stream, inbox, slot>>
  BY DEF stop_job_returns, link
<1>3. PICK s \in {"finished", "failed"} : Post(j, s)
  BY DEF stop_job_returns
<1>4. \A t \in {"start_job", "started", "stop_job", "exited", "stopping"}, i \in Jobs : ~Called(t, i)'
  BY <1>2, CallsAssumption DEF Called, Calls
<1>5. \A u, i : Called(u, i) => u = "stopping" /\ i = j
  BY <1>2, CallIsOne
<1>6. posted[j] = {"booting", "ready", "stopping"} /\ Answered(j)
  BY <1>1, <1>2 DEF WorkReported, WorkAnswered
<1>7. Trace(j) /\ Taken(j)
  BY <1>6 DEF Trace, Taken
<1>8. Timely(j, s) /\ s \in PostStates
  BY <1>6, <1>7 DEF Timely, InOrder, Heard, PostStates
<1>9. \A k \in Jobs : k # j => posted'[k] = posted[k]
  BY <1>1, <1>3 DEF Post, TreadmillTypeOK
<1>10. \A k \in Jobs : (Trace(k)' => Trace(k)) /\ (Taken(k)' => Taken(k))
  BY <1>2, <1>7, <1>9 DEF Trace, Taken
<1>11. \A k \in Jobs : Heard(k)' => Heard(k)
  BY <1>2, <1>10, HeardKept
<1>12. /\ ReportedTrue' /\ BeliefBacked' /\ posted' \in [Jobs -> SUBSET PostStates]
       /\ \A k \in Jobs : k # j => (Answered(k) => Answered(k)')
       /\ UNCHANGED <<dispatched, completion, registered, coord_state, runner_pid, conn, wire>>
       /\ \A c \in Conns : Connect(c) \in mailbox' => Connect(c) \in mailbox
       /\ \A k \in Jobs : Terminate(k) \in mailbox' => Terminate(k) \in mailbox
  BY <1>3, <1>8, <1>11, PostKeeps
<1>13. RunnerStep
  BY <1>2, <1>4, <1>10, <1>12 DEF RunnerStep
<1>14. \A k \in Jobs : slot = k => k # j /\ posted[k] = {"booting", "ready"} /\ Answered(k)
  BY <1>1, <1>2, <1>5 DEF WorkReported, WorkAnswered
<1>15. WorkReported' /\ WorkAnswered'
  BY <1>2, <1>4, <1>9, <1>12, <1>14 DEF WorkReported, WorkAnswered
<1>16. [Next]_vars
  BY <1>3, <1>8, PostIsNext
<1> QED
  BY <1>1, <1>2, <1>12, <1>13, <1>15, <1>16 DEF Kept, TreadmillTypeOK

LEMMA BreaksKeeps ==
  ASSUME TInv, breaks
  PROVE  Kept
<1>1. TreadmillTypeOK /\ WorkReported /\ WorkAnswered
  BY DEF TInv
<1>2. /\ Polls /\ connector' = "waiting" /\ stream' = Nil /\ inbox' = <<>>
      /\ UNCHANGED <<vars, call, slot, posted>>
  BY DEF breaks, runner
<1>3. \A t, i : Called(t, i)' <=> Called(t, i)
  BY <1>2 DEF Called
<1>4. \A j \in Jobs : ~Called("start_job", j)
  BY <1>2, CallsAssumption DEF Called, Polls, Calls
<1>5. \A k \in Jobs : (Trace(k)' => Trace(k)) /\ (Taken(k)' => Taken(k))
  BY <1>2 DEF Trace, Taken
<1>6. RunnerStep
  BY <1>2, <1>3, <1>4, <1>5 DEF RunnerStep, vars
<1>7. \A k \in Jobs : Heard(k)' => Heard(k)
  BY <1>2, <1>5, HeardKept
<1>8. \A k \in Jobs : Answered(k)' <=> Answered(k)
  BY <1>2 DEF Answered, vars
<1>9. WorkReported' /\ WorkAnswered'
  BY <1>1, <1>2, <1>3, <1>8 DEF WorkReported, WorkAnswered
<1> QED
  BY <1>1, <1>2, <1>6, <1>7, <1>9, QuietKeeps DEF Kept, TreadmillTypeOK, PostStates

-----------------------------------------------------------------------------
(* The steps of the connector's loop that the runner does not see.         *)

\* The parts of TInv that a step has to keep beside BoardServer's.
Rest ==
  /\ TreadmillTypeOK /\ StreamLeft /\ Wires
  /\ PipeOrdered(Pipe) /\ CallOrdered
  /\ WorkReported /\ WorkAnswered
  /\ ReportedTrue /\ BeliefBacked

LEMMA WaitedKeeps ==
  ASSUME TInv, waited_enough
  PROVE  Rest' /\ [Next]_vars
<1>1. Rest /\ connector = "waiting" /\ connector' = "connecting"
      /\ UNCHANGED <<vars, stream, inbox, call, slot, posted>>
  BY DEF TInv, Rest, waited_enough, runner
<1>2. TreadmillTypeOK' /\ StreamLeft' /\ Wires'
  BY <1>1 DEF Rest, TreadmillTypeOK, TypeOK, StreamLeft, Wires, vars
<1>3. PipeOrdered(Pipe)' /\ CallOrdered'
  <2>1. /\ Pipe' = Pipe /\ Running' = Running
        /\ UNCHANGED <<dispatched, mailbox, call, slot, posted>>
    BY <1>1 DEF Pipe, Running, vars
  <2>2. (\A k : Trace(k)' <=> Trace(k)) /\ (\A k : Taken(k)' <=> Taken(k))
    BY <2>1 DEF Trace, Taken
  <2>3. \A t, i : Called(t, i)' <=> Called(t, i)
    BY <2>1 DEF Called
  <2>4. PipeOrdered(Pipe)'
    BY <1>1, <2>1, <2>2 DEF Rest, PipeOrdered
  <2>5. CallOrdered'
    BY <1>1, <2>1, <2>2, <2>3 DEF Rest, CallOrdered, NoStart
  <2> QED
    BY <2>4, <2>5
<1>4. WorkReported' /\ WorkAnswered' /\ ReportedTrue' /\ BeliefBacked'
  BY <1>1 DEF Rest, WorkReported, WorkAnswered, Answered, Called, ReportedTrue, Heard, Trace, BeliefBacked, vars
<1> QED
  BY <1>1, <1>2, <1>3, <1>4 DEF Rest

LEMMA HandleEventKeeps ==
  ASSUME TInv, handle_sse_event
  PROVE  Rest' /\ [Next]_vars
<1> DEFINE m == Head(inbox)
<1>1. /\ TypeOK /\ TreadmillTypeOK /\ StreamLeft /\ Wires /\ PipeOrdered(Pipe) /\ CallOrdered
      /\ WorkReported /\ WorkAnswered /\ ReportedTrue /\ BeliefBacked
  BY DEF TInv, IInv
<1>2. /\ call = Nil /\ inbox # <<>> /\ call' = m /\ inbox' = Tail(inbox)
      /\ UNCHANGED <<vars, connector, stream, slot, posted>>
  BY DEF handle_sse_event, runner
<1>3. /\ inbox \in Seq(RunnerMsgs) /\ Len(inbox) \in Nat \ {0} /\ inbox[1] = m
      /\ stream # Nil /\ stream \in Conns /\ wire[stream] \in Seq(RunnerMsgs)
  BY <1>1, <1>2 DEF TypeOK, TreadmillTypeOK, StreamLeft
<1>4. m \in RunnerMsgs
  BY <1>3
<1>5. m.type \in {"start_job", "stop_job"} /\ m.job \in Jobs /\ m = [type |-> m.type, job |-> m.job]
  BY <1>4 DEF RunnerMsgs
<1>6. m \in Calls
  BY <1>4 DEF RunnerMsgs, Calls
<1>7. Pipe' = Tail(Pipe) /\ Pipe[1] = m /\ Pipe # <<>>
  BY <1>2, <1>3, ConcatTail DEF Pipe, vars
<1> HIDE DEF m
<1>8. Pipe \in Seq(RunnerMsgs)
  BY <1>1, PipeTyped
<1>9. /\ Len(Pipe) \in Nat \ {0} /\ Len(Pipe') = Len(Pipe) - 1
      /\ \A a \in 1..Len(Pipe') : Pipe'[a] = Pipe[a + 1]
  BY <1>7, <1>8, HeadTailProperties
<1>10. 1 \in 1..Len(Pipe) /\ Len(Pipe') \in Nat /\ Len(Pipe') + 1 <= Len(Pipe)
  BY <1>9
<1>11. /\ m.job \in dispatched
       /\ m.type = "start_job" =>
            /\ ~Trace(m.job)
            /\ \A b \in 1..Len(Pipe) : Pipe[b].job = m.job => 1 <= b
            /\ m.job \in Running => \A b \in 1..Len(Pipe) : Pipe[b].type = "start_job" => b <= 1
  BY <1>1, <1>7, <1>10 DEF PipeOrdered
<1>12. \A k : Trace(k)' => Trace(k) \/ k = m.job
  BY <1>2 DEF Trace
<1>13. \A a \in 1..Len(Pipe') : \A j \in dispatched :
         Pipe'[a].type = "start_job" /\ Pipe'[a].job = j /\ Trace(j)' => Trace(j)
  <2> SUFFICES ASSUME NEW a \in 1..Len(Pipe'), Pipe'[a].type = "start_job", Pipe'[a].job = m.job
               PROVE  FALSE
    BY <1>12
  <2>1. a + 1 \in 1..Len(Pipe) /\ Pipe[a + 1] = Pipe'[a]
    BY <1>9
  <2>2. a + 1 <= 1
    BY <1>1, <1>7, <1>10, <2>1 DEF PipeOrdered
  <2> QED
    BY <1>9, <2>2
<1>14. dispatched' = dispatched /\ Running' = Running
  BY <1>2 DEF vars, Running
<1>15. PipeOrdered(Pipe)'
  BY <1>1, <1>9, <1>10, <1>13, <1>14, PipeShrinks
<1>16. \A t, i : Called(t, i)' => t = m.type /\ i = m.job
  <2>1. \A t, i : [type |-> t, job |-> i].type = t /\ [type |-> t, job |-> i].job = i
    OBVIOUS
  <2> QED
    BY <1>2, <2>1 DEF Called
<1>17. \A t \in {"start_job", "started", "stop_job", "exited", "stopping"}, i \in Jobs : ~Called(t, i)
  BY <1>2, CallIsOne
<1>18. \A k : Taken(k)' <=> Taken(k)
  BY <1>2 DEF Taken
<1>19. CallOrdered'
  <2>1. ASSUME NEW j \in Jobs, Trace(j)' \/ Terminate(j) \in mailbox'
        PROVE  j \in dispatched'
    BY <1>1, <1>2, <1>11, <1>12, <1>14, <2>1 DEF CallOrdered, vars
  <2>2. ASSUME NEW j \in Jobs, Called("start_job", j)'
        PROVE  ~Taken(j)' /\ posted'[j] = {} /\ (j \in Running' => NoStart(Pipe)')
    <3>1. m.type = "start_job" /\ m.job = j
      BY <1>16, <2>2
    <3>2. ~Trace(j)
      BY <1>11, <3>1
    <3>3. posted[j] = {} /\ ~Taken(j)
      BY <3>2 DEF Trace, Taken
    <3>4. ASSUME j \in Running, NEW a \in 1..Len(Pipe'), Pipe'[a].type = "start_job"
          PROVE  FALSE
      <4>1. a + 1 \in 1..Len(Pipe) /\ Pipe[a + 1] = Pipe'[a]
        BY <1>9
      <4>2. a + 1 <= 1
        BY <1>11, <3>1, <3>4, <4>1
      <4> QED
        BY <1>9, <4>2
    <3> QED
      BY <1>2, <1>14, <1>18, <3>3, <3>4 DEF NoStart
  <2>3. ASSUME NEW k \in Running, Taken(k)
        PROVE  slot \in {k, Nil} /\ NoStart(Pipe)' /\ \A j \in Jobs : ~Called("start_job", j)'
    <3>1. slot \in {k, Nil} /\ NoStart(Pipe)
      BY <1>1, <2>3 DEF CallOrdered
    <3>2. m.type # "start_job"
      BY <1>7, <1>10, <3>1 DEF NoStart
    <3>3. NoStart(Pipe)'
      BY <1>9, <3>1 DEF NoStart
    <3> QED
      BY <1>16, <3>1, <3>2, <3>3
  <2> QED
    BY <1>2, <1>14, <1>18, <2>1, <2>2, <2>3 DEF CallOrdered
<1>20. \A k \in Jobs : Answered(k)' <=> Answered(k)
  BY <1>2 DEF Answered, vars
<1>21. \A t \in {"started", "exited", "stopping"}, i \in Jobs : ~Called(t, i)'
  BY <1>5, <1>16
<1>22. WorkReported' /\ WorkAnswered'
  BY <1>1, <1>2, <1>17, <1>20, <1>21 DEF WorkReported, WorkAnswered
<1>23. Tail(inbox) \in Seq(RunnerMsgs) /\ Len(Tail(inbox)) = Len(inbox) - 1
       /\ \A a \in 1..Len(Tail(inbox)) : Tail(inbox)[a] = inbox[a + 1]
  BY <1>2, <1>3, HeadTailProperties
<1>24. \A k \in Jobs : Heard(k)' => Heard(k)
  <2> SUFFICES ASSUME NEW k \in Jobs, Heard(k)' PROVE Heard(k)
    OBVIOUS
  <2>1. CASE Trace(k)
    BY <2>1 DEF Heard
  <2>2. CASE k = m.job
    BY <1>3, <2>2 DEF Heard
  <2>3. ASSUME NEW a \in 1..Len(inbox'), inbox'[a].job = k
        PROVE  Heard(k)
    <3>1. a + 1 \in 1..Len(inbox) /\ inbox[a + 1].job = k
      BY <1>2, <1>3, <1>23, <2>3
    <3> QED
      BY <3>1 DEF Heard
  <2> QED
    BY <1>12, <2>1, <2>2, <2>3 DEF Heard
<1>25. ReportedTrue' /\ BeliefBacked' /\ [Next]_vars
  BY <1>2, <1>24, QuietKeeps
<1>26. TreadmillTypeOK'
  <2>1. TypeOK'
    BY <1>1, <1>2 DEF TypeOK, vars
  <2>2. Len(inbox') <= MaxInbox
    BY <1>1, <1>2, <1>3, <1>23, InboxAssumption DEF TreadmillTypeOK
  <2> QED
    BY <1>1, <1>2, <1>6, <1>23, <2>1, <2>2 DEF TreadmillTypeOK
<1>27. StreamLeft' /\ Wires'
  BY <1>1, <1>2, <1>3 DEF StreamLeft, Wires, vars
<1> QED
  BY <1>15, <1>19, <1>22, <1>25, <1>26, <1>27 DEF Rest

LEMMA DeliversKeeps ==
  ASSUME TInv, delivers
  PROVE  Rest' /\ [Next]_vars
<1> DEFINE m == Head(wire[stream])
           i == m.job
<1>1. /\ TypeOK /\ TreadmillTypeOK /\ StreamLeft /\ Wires /\ PipeOrdered(Pipe) /\ CallOrdered
      /\ WorkReported /\ WorkAnswered /\ ReportedTrue /\ BeliefBacked
  BY DEF TInv, IInv
<1>2. /\ stream # Nil /\ Len(inbox) < MaxInbox /\ receive(stream) /\ inbox' = Append(inbox, m)
      /\ UNCHANGED <<connector, stream, call, slot, posted>>
  BY DEF delivers, runner
<1>3. /\ wire[stream] # <<>> /\ wire' = [wire EXCEPT ![stream] = Tail(@)]
      /\ reported' = [reported EXCEPT ![i] = IF @ = "unknown" /\ i \in registered THEN "told" ELSE @]
      /\ UNCHANGED <<web, start, dispatched, completion, up, exit, runner_pid, coord_state, waited, timer,
                     registered, mailbox, conn, starts>>
  BY <1>2 DEF receive, db, server
<1>4. stream \in Conns /\ wire[stream] \in Seq(RunnerMsgs) /\ inbox \in Seq(RunnerMsgs)
  BY <1>1, <1>2 DEF TypeOK, TreadmillTypeOK
<1>5. m \in RunnerMsgs /\ Tail(wire[stream]) \in Seq(RunnerMsgs)
  BY <1>3, <1>4, HeadTailProperties
<1>6. i \in Jobs
  BY <1>5 DEF RunnerMsgs
<1>7. wire'[stream] = Tail(wire[stream])
  BY <1>1, <1>3, <1>4 DEF TypeOK
<1>8. Pipe' = Pipe
  BY <1>2, <1>3, <1>4, <1>7, ConcatShift DEF Pipe
<1> HIDE DEF m
<1>9. Next
  BY <1>2, <1>4 DEF Next, Environment
<1>10. TypeOK'
  BY <1>1, <1>9, NextTyped
<1>11. Append(inbox, m) \in Seq(RunnerMsgs) /\ Len(Append(inbox, m)) = Len(inbox) + 1
       /\ \A a \in 1..Len(inbox) + 1 : Append(inbox, m)[a] = IF a <= Len(inbox) THEN inbox[a] ELSE m
  BY <1>4, <1>5, AppendProperties
<1>12. TreadmillTypeOK'
  <2>1. Len(inbox') <= MaxInbox
    <3>1. Len(inbox) \in Nat /\ Len(inbox') = Len(inbox) + 1
      BY <1>2, <1>4, <1>11
    <3> QED
      BY <1>2, <3>1, InboxAssumption
  <2> QED
    BY <1>1, <1>2, <1>10, <1>11, <2>1 DEF TreadmillTypeOK
<1>13. StreamLeft'
  BY <1>2 DEF StreamLeft
<1>14. Wires'
  <2>1. \A c \in Conns : c # stream => wire'[c] = wire[c]
    BY <1>1, <1>3 DEF TypeOK
  <2>2. conn[stream] \in {"streaming", "orphan"}
    BY <1>1, <1>3, <1>4 DEF Wires
  <2> QED
    BY <1>1, <1>3, <2>1, <2>2 DEF Wires
<1>15. \A k : (Trace(k)' <=> Trace(k)) /\ (Taken(k)' <=> Taken(k))
  BY <1>2 DEF Trace, Taken
<1>16. Running' = Running
  BY <1>3 DEF Running
<1>17. PipeOrdered(Pipe)' /\ CallOrdered'
  BY <1>1, <1>2, <1>3, <1>8, <1>16 DEF PipeOrdered, CallOrdered, NoStart, Trace, Taken, Called
<1>18. WorkReported' /\ WorkAnswered'
  BY <1>1, <1>2, <1>3 DEF WorkReported, WorkAnswered, Answered, Called
<1>19. BeliefBacked'
  BY <1>1, <1>2, <1>3 DEF BeliefBacked, BackedBy
<1>20. \A k \in Jobs : Heard(k)' => Heard(k) \/ k = i
  <2> SUFFICES ASSUME NEW k \in Jobs, Heard(k)' PROVE Heard(k) \/ k = i
    OBVIOUS
  <2>1. CASE Trace(k)
    BY <2>1 DEF Heard
  <2>2. ASSUME NEW a \in 1..Len(inbox'), inbox'[a].job = k
        PROVE  Heard(k) \/ k = i
    <3>1. Len(inbox) \in Nat /\ a \in 1..Len(inbox) + 1 /\ inbox'[a] = IF a <= Len(inbox) THEN inbox[a] ELSE m
      BY <1>2, <1>4, <1>11, <2>2
    <3> QED
      BY <2>2, <3>1 DEF Heard
  <2> QED
    BY <1>15, <2>1, <2>2 DEF Heard
<1>21. ReportedTrue'
  <2> SUFFICES ASSUME NEW k \in Jobs
               PROVE  /\ k \notin registered => reported'[k] = "unknown"
                      /\ k \in registered /\ Heard(k)' => reported'[k] # "unknown"
                      /\ k \in registered /\ posted[k] \cap {"failed", "finished"} = {} => reported'[k] \in LastOf(posted[k])
    BY <1>2, <1>3 DEF ReportedTrue, LastOf
  <2>1. /\ k \notin registered => reported[k] = "unknown"
        /\ k \in registered /\ Heard(k) => reported[k] # "unknown"
        /\ k \in registered /\ posted[k] \cap {"failed", "finished"} = {} => reported[k] \in LastOf(posted[k])
    BY <1>1 DEF ReportedTrue
  <2>2. reported'[k] = IF k = i /\ reported[k] = "unknown" /\ i \in registered THEN "told" ELSE reported[k]
    BY <1>1, <1>3 DEF TypeOK
  <2>3. reported'[k] # reported[k] => "told" \in LastOf(posted[k]) \/ reported[k] \notin LastOf(posted[k])
    BY <2>2 DEF LastOf
  <2> QED
    BY <1>20, <2>1, <2>2, <2>3
<1> QED
  BY <1>9, <1>12, <1>13, <1>14, <1>17, <1>18, <1>19, <1>21 DEF Rest

LEMMA ConnectsKeeps ==
  ASSUME TInv, NEW c \in Conns, connects(c)
  PROVE  Rest' /\ [Next]_vars
<1> USE ReportsDistinct, ConnectDistinct
<1>1. /\ TypeOK /\ TreadmillTypeOK /\ StreamLeft /\ Wires /\ PipeOrdered(Pipe) /\ CallOrdered
      /\ WorkReported /\ WorkAnswered /\ ReportedTrue /\ BeliefBacked
  BY DEF TInv, IInv
<1>2. /\ connector = "connecting" /\ open_conn(c) /\ connector' = "reading" /\ stream' = c
      /\ UNCHANGED <<inbox, call, slot, posted>>
  BY DEF connects, runner
<1>3. /\ conn[c] = "closed" /\ Forgotten(c)
      /\ conn' = [conn EXCEPT ![c] = IF up THEN "calling" ELSE "starting"]
      /\ mailbox' = IF up THEN mailbox \cup {Connect(c)} ELSE mailbox
      /\ UNCHANGED <<web, start, dispatched, completion, up, exit, runner_pid, coord_state, waited, timer,
                     registered, wire, reported, starts>>
  BY <1>2 DEF open_conn, db, server
<1>4. Next
  BY <1>2 DEF Next, Environment
<1>5. TypeOK'
  BY <1>1, <1>4, NextTyped
<1>6. inbox = <<>> /\ c # Nil /\ wire[c] = <<>> /\ Pipe = <<>>
  BY <1>1, <1>2, <1>3, ConnsAssumption DEF TreadmillTypeOK, StreamLeft, Wires, Pipe
<1>7. TreadmillTypeOK' /\ StreamLeft'
  BY <1>1, <1>2, <1>5, <1>6 DEF TreadmillTypeOK, StreamLeft
<1>8. Wires'
  BY <1>1, <1>3 DEF Wires, Forgotten, TypeOK
<1>9. Pipe' = <<>>
  <2>1. Pipe' = <<>> \o <<>>
    BY <1>2, <1>3, <1>6 DEF Pipe
  <2> QED
    BY <2>1
<1>10. Running' = Running
  BY <1>3 DEF Running
<1>11. PipeOrdered(Pipe)' /\ CallOrdered'
  <2>1. Pipe' = Pipe
    BY <1>6, <1>9
  <2>2. \A j \in Jobs : Terminate(j) \in mailbox' => Terminate(j) \in mailbox
    BY <1>3
  <2> QED
    BY <1>1, <1>2, <1>3, <1>10, <2>1, <2>2 DEF PipeOrdered, CallOrdered, NoStart, Trace, Taken, Called
<1>12. \A j \in Jobs, s \in JobReports : Update(j, s) \in mailbox' <=> Update(j, s) \in mailbox
  BY <1>3
<1>13. WorkReported' /\ WorkAnswered'
  BY <1>1, <1>2, <1>12 DEF WorkReported, WorkAnswered, Answered, Called
<1>14. ReportedTrue' /\ BeliefBacked'
  BY <1>1, <1>2, <1>3, <1>12 DEF ReportedTrue, Heard, Trace, LastOf, BeliefBacked, BackedBy
<1> QED
  BY <1>4, <1>7, <1>8, <1>11, <1>13, <1>14 DEF Rest

-----------------------------------------------------------------------------
(* Every step.                                                             *)

LEMMA KeptIsRest ==
  ASSUME TInv, Kept
  PROVE  Rest' /\ [Next]_vars
<1>1. TypeOK /\ TreadmillTypeOK
  BY DEF TInv, IInv
<1>2. [Next]_vars /\ TypeOK'
  BY <1>1, NextTyped DEF Kept
<1>3. inbox' \in Seq(RunnerMsgs) /\ Len(inbox') <= MaxInbox
  <2>1. inbox' = inbox \/ inbox' = <<>>
    BY DEF Kept, RunnerStep
  <2>2. inbox \in Seq(RunnerMsgs) /\ Len(inbox) <= MaxInbox
    BY <1>1 DEF TreadmillTypeOK
  <2>3. <<>> \in Seq(RunnerMsgs) /\ Len(<<>>) <= MaxInbox
    BY InboxAssumption
  <2>4. CASE inbox' = inbox
    BY <2>2, <2>4
  <2>5. CASE inbox' = <<>>
    BY <2>3, <2>5
  <2> QED
    BY <2>1, <2>4, <2>5
<1>4. stream' \in Conns \cup {Nil}
  BY <1>1 DEF Kept, RunnerStep, TreadmillTypeOK
<1>5. TreadmillTypeOK'
  BY <1>2, <1>3, <1>4 DEF Kept, TreadmillTypeOK, PostStates
<1>6. StreamLeft' /\ Wires' /\ PipeOrdered(Pipe)' /\ CallOrdered'
  BY RunnerPipe DEF Kept
<1> QED
  BY <1>2, <1>5, <1>6 DEF Kept, Rest

LEMMA RunsKeeps ==
  ASSUME TInv, runs \/ breaks
  PROVE  Kept
<1>1. ASSUME NEW j \in Jobs, start_job(j) \/ start_job_returns(j) \/ fails(j) \/ refuses(j)
      PROVE  Kept
  BY <1>1, StartJobKeeps, ReturnsKeeps, FailsKeeps, RefusesKeeps
<1>2. ASSUME NEW j \in Jobs, exits(j) \/ stop_job(j) \/ lets_go(j) \/ stop_job_returns(j)
      PROVE  Kept
  BY <1>2, ExitsKeeps, StopJobKeeps, LetsGoKeeps, StopReturnsKeeps
<1>3. ASSUME NEW j \in Jobs, NEW s \in {"booting", "ready"}, progress(j, s)
      PROVE  Kept
  BY <1>3, ProgressKeeps
<1> QED
  BY <1>1, <1>2, <1>3, CrashKeeps, BreaksKeeps DEF runs

LEMMA CoordinatorRest ==
  ASSUME TInv, coordinator
  PROVE  Rest' /\ [Next]_vars
<1>1. IInv /\ ReportsInv /\ TypeOK /\ Wires /\ ReportedTrue
  BY DEF TInv, IInv
<1>2. Next
  BY DEF coordinator, Next, Environment
<1>3. TypeOK'
  BY <1>1, <1>2, NextTyped
<1>4. CoordinatorStep
  BY <1>1, HandleIsStep, OutsideIsStep DEF coordinator
<1>5. UNCHANGED <<link, call, runner>>
  BY DEF coordinator
<1>6. Rest'
  BY <1>3, <1>4, <1>5, CoordinatorKeeps DEF Rest
<1> QED
  BY <1>2, <1>6

LEMMA StutterRest ==
  ASSUME TInv, UNCHANGED tvars
  PROVE  Rest'
<1>1. Rest /\ UNCHANGED <<vars, connector, stream, inbox, call, slot, posted>>
  BY DEF TInv, Rest, tvars, link, runner
<1>2. Pipe' = Pipe /\ Running' = Running
  BY <1>1 DEF Pipe, Running, vars
<1>3. (\A k : Trace(k)' <=> Trace(k)) /\ (\A k : Taken(k)' <=> Taken(k))
  BY <1>1 DEF Trace, Taken
<1>4. \A t, i : Called(t, i)' <=> Called(t, i)
  BY <1>1 DEF Called
<1>5. PipeOrdered(Pipe)' /\ CallOrdered'
  BY <1>1, <1>2, <1>3, <1>4 DEF Rest, PipeOrdered, CallOrdered, NoStart, vars
<1>6. TreadmillTypeOK' /\ StreamLeft' /\ Wires'
  BY <1>1 DEF Rest, TreadmillTypeOK, TypeOK, StreamLeft, Wires, vars
<1>7. WorkReported' /\ WorkAnswered' /\ ReportedTrue' /\ BeliefBacked'
  BY <1>1 DEF Rest, WorkReported, WorkAnswered, Answered, Called, ReportedTrue, Heard, Trace, BeliefBacked, vars
<1> QED
  BY <1>5, <1>6, <1>7 DEF Rest

\* Every step of the composition keeps the invariant, and is one that
\* BoardServer allows.
LEMMA TreadmillStep ==
  ASSUME TInv, [TreadmillNext]_tvars
  PROVE  TInv' /\ [Next]_vars
<1>1. Rest' /\ [Next]_vars
  <2>1. CASE coordinator
    BY <2>1, CoordinatorRest
  <2>2. ASSUME NEW c \in Conns, connects(c)
        PROVE  Rest' /\ [Next]_vars
    BY <2>2, ConnectsKeeps
  <2>3. CASE runs \/ breaks
    BY <2>3, RunsKeeps, KeptIsRest
  <2>4. CASE UNCHANGED tvars
    BY <2>4, StutterRest DEF tvars
  <2> QED
    BY <2>1, <2>2, <2>3, <2>4, DeliversKeeps, HandleEventKeeps, WaitedKeeps DEF TreadmillNext
<1>2. IInv' /\ ReportsInv'
  BY <1>1, NextInv, ReportsNext DEF TInv
<1> QED
  BY <1>1, <1>2 DEF TInv, Rest

LEMMA TreadmillStart ==
  ASSUME TreadmillInit
  PROVE  TInv
<1> USE DEF TreadmillInit
<1>1. TypeOK
  <2>1. timer \in NoTimer..Five /\ waited \in [Jobs -> 0..Saturated]
    BY TimesAssumption DEF NoTimer, Saturated
  <2>2. wire \in [Conns -> Seq(RunnerMsgs)]
    OBVIOUS
  <2> QED
    BY <2>1, <2>2 DEF TypeOK, Exits
<1>2. Running = {} /\ Keys(coord_state) = {}
  BY DEF Running, Keys
<1>3. RowsOrdered
  BY DEF RowsOrdered
<1>4. IInv
  BY <1>1, <1>2, <1>3 DEF IInv, Consistent, DownIsEmpty, ActiveConsistent, AtMostOneRunning, NoRunnerNoJobs,
                          WorkConserving
<1>5. ReportsInv
  BY ReportsInit
<1>6. TreadmillTypeOK /\ StreamLeft /\ Wires
  BY <1>1, ConnsAssumption, InboxAssumption DEF TreadmillTypeOK, StreamLeft, Wires
<1>7. Pipe = <<>>
  BY DEF Pipe
<1>8. \A j \in Jobs : ~Trace(j) /\ ~Taken(j)
  BY JobsAssumption DEF Trace, Taken
<1>9. \A t \in {"start_job", "started", "stop_job", "exited", "stopping"}, j \in Jobs : ~Called(t, j)
  BY CallsAssumption DEF Called, Calls
<1>10. PipeOrdered(Pipe) /\ CallOrdered
  BY <1>2, <1>7, <1>8, <1>9 DEF PipeOrdered, CallOrdered
<1>11. WorkReported /\ WorkAnswered
  BY <1>9, JobsAssumption DEF WorkReported, WorkAnswered
<1>12. ReportedTrue /\ BeliefBacked
  BY DEF ReportedTrue, BeliefBacked, LastOf
<1> QED
  BY <1>4, <1>5, <1>6, <1>10, <1>11, <1>12 DEF TInv

\* What is on the way, what the runner did and what each side knows of the other
\* fit together in every reachable state: the inductive invariant.
THEOREM TreadmillInvariant == TreadmillSpec => []TInv
BY TreadmillStart, TreadmillStep, PTL DEF TreadmillSpec

-----------------------------------------------------------------------------
(* What the invariant says of the two sides.                               *)

\* The coordinator, the connections and the runner stay within the values
\* their code works with.
THEOREM TreadmillTypeCorrect == TreadmillSpec => []TreadmillTypeOK
<1>1. TInv => TreadmillTypeOK
  BY DEF TInv
<1> QED
  BY <1>1, TreadmillInvariant, PTL

\* The runner has let go of a job that the coordinator records as finished:
\* the record stems from a report, and the report is made after the slot is
\* free.
THEOREM FinishedIsFreeHolds == TreadmillSpec => []FinishedIsFree
<1>1. TInv => FinishedIsFree
  <2> SUFFICES ASSUME TInv, NEW j \in Jobs, completion[j] = "finished", slot = j
               PROVE  FALSE
    BY DEF FinishedIsFree
  <2>1. "finished" \in posted[j]
    BY DEF TInv, BeliefBacked
  <2>2. posted[j] \in {{}, {"booting"}, {"booting", "ready"}, {"booting", "ready", "stopping"}}
    BY DEF TInv, WorkReported
  <2> QED
    BY <2>1, <2>2
<1> QED
  BY <1>1, TreadmillInvariant, PTL

\* While the runner works for a job, the coordinator believes no other one to
\* be starting or ready: what it believes was reported once, and the runner is
\* not asked for another job while the believed one runs.
THEOREM BelievedIsRealHolds == TreadmillSpec => []BelievedIsReal
<1>1. TInv => BelievedIsReal
  <2> SUFFICES ASSUME TInv, NEW j \in Jobs, NEW k \in Jobs,
                      slot = j, coord_state[k] \in {"starting", "ready"}
               PROVE  k = j
    BY DEF BelievedIsReal
  <2>1. BackedBy(coord_state[k]) \in posted[k]
    BY DEF TInv, BeliefBacked
  <2>2. Taken(k)
    BY <2>1 DEF Taken, BackedBy
  <2>3. k \in Running
    BY DEF TInv, IInv, Consistent, DownIsEmpty, ActiveConsistent, Keys
  <2>4. slot \in {k, Nil}
    BY <2>2, <2>3 DEF TInv, CallOrdered
  <2> QED
    BY <2>4, JobsAssumption
<1> QED
  BY <1>1, TreadmillInvariant, PTL

\* The coordinator keeps its promises with this runner at the other end.  In
\* BoardServer a runner reports by assumption in the order of its life; here the
\* connector and the runner post as they do, so no report of theirs ends the
\* server by an unmatched clause.
THEOREM CoordinatorKeepsPromises ==
  TreadmillSpec => [](ActiveConsistent /\ OneJobAtATime /\ NoRunnerNoJobs /\ WorkConserving /\ ReportsHaveClause)
<1>1. TInv => ActiveConsistent /\ OneJobAtATime /\ NoRunnerNoJobs /\ WorkConserving /\ ReportsHaveClause
  BY OneRunning DEF TInv, IInv, Consistent, ReportsInv
<1> QED
  BY <1>1, TreadmillInvariant, PTL

\* Whatever the connector and the runner do, crashes and broken streams
\* included, BoardServer lets its environment do: its theorems hold here.
THEOREM ImplementsBoardHolds == TreadmillSpec => ImplementsBoard
<1>1. TInv /\ [TreadmillNext]_tvars => [Next]_vars
  BY TreadmillStep
<1> QED
  BY <1>1, TreadmillInvariant, PTL DEF TreadmillSpec, ImplementsBoard

-----------------------------------------------------------------------------
(* The refinement of RunnerContract.                                       *)

LEMMA PostIsReport ==
  ASSUME NEW j \in Jobs, NEW s \in PostStates \ {"failed"}, InOrder(j, s), Post(j, s)
  PROVE  Runner!Report(j, s)
<1>1. posted' = [posted EXCEPT ![j] = @ \cup {s}]
  BY DEF Post
<1>2. CASE s = "booting"
  BY <1>1, <1>2 DEF InOrder, Runner!Report, Runner!Needs, Runner!Bars, Runner!Stages
<1>3. CASE s = "ready"
  BY <1>1, <1>3 DEF InOrder, Runner!Report, Runner!Needs, Runner!Bars, Runner!Stages
<1>4. CASE s = "stopping"
  BY <1>1, <1>4 DEF InOrder, Runner!Report, Runner!Needs, Runner!Bars, Runner!Stages
<1>5. CASE s = "finished"
  BY <1>1, <1>5 DEF InOrder, Runner!Report, Runner!Needs, Runner!Bars, Runner!Stages
<1> QED
  BY <1>2, <1>3, <1>4, <1>5 DEF PostStates

\* A report of a failure leaves the slot or frees it.
LEMMA PostFailed ==
  ASSUME NEW j \in Jobs, Post(j, "failed"), slot' = slot \/ (slot = j /\ slot' = Nil)
  PROVE  Runner!ContractNext
BY DEF Post, Runner!ContractNext, Runner!Fail

LEMMA TakesContract ==
  ASSUME TInv, NEW j \in Jobs, start_job(j)
  PROVE  Runner!ContractNext
<1>1. Called("start_job", j) /\ slot = Nil /\ slot' = j /\ UNCHANGED posted
  BY DEF start_job
<1>2. posted[j] = {}
  BY <1>1 DEF TInv, CallOrdered
<1> QED
  BY <1>1, <1>2 DEF Runner!ContractNext, Runner!Take

LEMMA ProgressContract ==
  ASSUME TInv, NEW j \in Jobs, NEW s \in {"booting", "ready"}, progress(j, s)
  PROVE  Runner!ContractNext
<1>1. /\ Called("started", j) /\ s \notin posted[j] /\ (s = "ready" => "booting" \in posted[j])
      /\ Post(j, s) /\ UNCHANGED slot
  BY DEF progress
<1>2. slot = j /\ posted[j] \in {{}, {"booting"}, {"booting", "ready"}}
  BY <1>1 DEF TInv, WorkReported
<1>3. InOrder(j, s)
  BY <1>1, <1>2 DEF InOrder
<1>4. Runner!Report(j, s)
  BY <1>1, <1>3, PostIsReport DEF PostStates
<1> QED
  BY <1>1, <1>2, <1>4 DEF Runner!ContractNext, Runner!Progress

LEMMA StopContract ==
  ASSUME TInv, NEW j \in Jobs, stop_job(j)
  PROVE  Runner!ContractNext
<1>1. Stops(j) /\ slot = j /\ Post(j, "stopping") /\ UNCHANGED slot
  BY DEF stop_job
<1>2. ~Called("started", j) /\ ~Called("stopping", j)
  <2>1. PICK t \in {"stop_job", "exited"} : Called(t, j)
    BY <1>1 DEF Stops
  <2> QED
    BY <2>1, CallIsOne
<1>3. InOrder(j, "stopping")
  BY <1>1, <1>2 DEF TInv, WorkReported, InOrder
<1>4. Runner!Report(j, "stopping")
  BY <1>1, <1>3, PostIsReport DEF PostStates
<1> QED
  BY <1>1, <1>4 DEF Runner!ContractNext, Runner!Progress

LEMMA StopReturnsContract ==
  ASSUME TInv, NEW j \in Jobs, stop_job_returns(j)
  PROVE  Runner!ContractNext
<1>1. Called("stopping", j) /\ slot # j /\ UNCHANGED slot
  BY DEF stop_job_returns, runner
<1>2. CASE Post(j, "finished")
  <2>1. InOrder(j, "finished")
    BY <1>1 DEF TInv, WorkReported, InOrder
  <2>2. Runner!Report(j, "finished")
    BY <1>2, <2>1, PostIsReport DEF PostStates
  <2> QED
    BY <1>1, <2>2 DEF Runner!ContractNext, Runner!Finish
<1>3. CASE Post(j, "failed")
  BY <1>1, <1>3, PostFailed
<1> QED
  BY <1>2, <1>3 DEF stop_job_returns

\* The steps that free the slot, or do nothing the contract tells apart.
LEMMA QuietContract ==
  ASSUME TInv, UNCHANGED posted, slot' \in {slot, Nil}
  PROVE  [Runner!ContractNext]_(Runner!contract)
<1>1. slot \in Jobs \cup {Nil}
  BY DEF TInv, TreadmillTypeOK
<1> QED
  BY <1>1 DEF Runner!contract, Runner!ContractNext, Runner!Release

\* Every step of the composition is one the contract allows, or none.
LEMMA ContractStep ==
  ASSUME TInv, [TreadmillNext]_tvars
  PROVE  [Runner!ContractNext]_(Runner!contract)
<1>1. ASSUME NEW j \in Jobs, fails(j) \/ refuses(j)
      PROVE  Runner!ContractNext
  <2>1. CASE fails(j)
    <3>1. slot = j
      BY <2>1 DEF fails, TInv, WorkReported
    <3> QED
      BY <2>1, <3>1, PostFailed DEF fails
  <2>2. CASE refuses(j)
    BY <2>2, PostFailed DEF refuses
  <2> QED
    BY <1>1, <2>1, <2>2
<1>2. CASE runs
  <2>1. ASSUME NEW j \in Jobs, lets_go(j) \/ start_job_returns(j) \/ exits(j)
        PROVE  UNCHANGED posted /\ slot' \in {slot, Nil}
    BY <2>1 DEF lets_go, start_job_returns, exits, runner
  <2>2. crashes => UNCHANGED posted /\ slot' \in {slot, Nil}
    BY DEF crashes
  <2> QED
    BY <1>1, <1>2, <2>1, <2>2, QuietContract, TakesContract, ProgressContract, StopContract, StopReturnsContract DEF runs
<1>3. CASE UNCHANGED runner
  BY <1>3, QuietContract DEF runner
<1>4. ASSUME NEW c \in Conns, connects(c)
      PROVE  UNCHANGED runner
  BY <1>4 DEF connects
<1>5. coordinator \/ delivers \/ handle_sse_event \/ breaks \/ waited_enough \/ UNCHANGED tvars => UNCHANGED runner
  BY DEF coordinator, delivers, handle_sse_event, breaks, waited_enough, tvars
<1> QED
  BY <1>2, <1>3, <1>4, <1>5 DEF TreadmillNext

\* Asked by this coordinator over these connections, the runner keeps its
\* contract: no job is started twice, and each is reported in the order of its
\* life.
THEOREM ImplementsRunnerHolds == TreadmillSpec => ImplementsRunner
<1>1. TreadmillInit => Runner!ContractInit
  BY DEF TreadmillInit, Runner!ContractInit
<1> QED
  BY <1>1, ContractStep, TreadmillInvariant, PTL DEF TreadmillSpec, ImplementsRunner, Runner!ContractSpec

=============================================================================
