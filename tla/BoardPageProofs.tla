-------------------------- MODULE BoardPageProofs --------------------------
(***************************************************************************)
(* The page of a board, proved for any jobs and any bounds: no job is lost *)
(* between the page's reads, its log is complete, and a page at rest shows *)
(* the board as it is.                                                     *)
(***************************************************************************)
EXTENDS BoardPage, FiniteSetTheorems, SequenceTheorems, TLAPS

-----------------------------------------------------------------------------
(* The inductive invariant.                                                *)

Effects == {"log", "tell", "connect", "disconnect", "schedule", "mark", "send", "start", "complete", "unregister",
            "notify", "sweep", "reply"}
Msgs    == {"connect", "down", "started", "ended", "timer", "cast", "page"}

\* Element e is in sequence q.
Has(q, e) == \E i \in 1..Len(q) : q[i] = e

\* The effects of a handler, or what is left of them.
Shape(q) ==
  \A i \in 1..Len(q) :
    /\ q[i] = "mark" => i = 1 /\ Len(q) > 1 /\ q[2] = "send"
    /\ q[i] = "send" => i = 1 \/ (i = 2 /\ q[1] = "mark")
    /\ q[i] = "unregister" /\ i > 1 => q[i - 1] = "complete"
    /\ q[i] = "tell" /\ i > 1 => q[i - 1] = "log"
    /\ q[i] = "reply" => Len(q) = 1
    /\ \A k \in 1..Len(q) : q[i] = q[k] /\ q[i] \in {"log", "connect", "disconnect"} => i = k

\* Of these messages there is one at most.
Single(q) == \A i, k \in 1..Len(q) : q[i] = q[k] /\ q[i] \in {"connect", "down", "page"} => i = k

Queues ==
  /\ todo \in Seq(Effects) /\ Shape(todo)
  /\ mail \in Seq(Msgs) /\ Single(mail)
  /\ ~server => todo = <<>> /\ mail = <<>>

\* The next effect of the running handler.
Doing(S) == todo # <<>> /\ Head(todo) \in S

\* The server's jobs, the registry and the table at each effect.
JobsPhase ==
  /\ ~Doing({"mark", "send"}) => active = registered
  /\ Doing({"mark", "send"}) => active = {}
  /\ Doing({"mark"}) => \A j \in registered : row[j] = "pending"
  /\ Doing({"unregister"}) => \A j \in registered : row[j] = "completed"
  /\ ~server => registered = {}

\* Where the connection is.
ConnPhase ==
  /\ Has(mail, "connect") \/ Has(todo, "connect") => alive /\ ~runner_pid
  /\ Has(mail, "down") \/ Has(todo, "disconnect") => ~alive /\ runner_pid
  /\ Has(todo, "connect") => ~Has(mail, "connect")
  /\ Has(todo, "disconnect") => ~Has(mail, "down")
  /\ ~server => ~alive /\ ~runner_pid

\* The log is numbered without a gap, and what is still to be logged fits: the
\* running handler, a connection that comes and one that goes log an event each.
One(b) == IF b THEN 1 ELSE 0
Owed == One(Has(todo, "log")) + 2 * One(Has(mail, "connect"))
          + One(alive /\ ~Has(mail, "connect")) + One(Has(mail, "down"))
LogPhase ==
  \E n \in 0..MaxLog :
    /\ log = 1..n
    /\ n + Owed <= MaxLog
    /\ Doing({"tell"}) => n > 0

\* The page's question and the server's answer.
Asks ==
  /\ Has(mail, "page") \/ Has(todo, "reply") => pc = "answer"
  /\ Has(todo, "reply") => ~Has(mail, "page")
  /\ pc \in {"subscribe", "log"} => mounting

\* From the query of the log on, every event that was told is at hand.
Follows ==
  /\ pc = "log" => subscribed
  /\ pc = "idle" \/ (pc # "closed" /\ ~mounting) =>
       subscribed /\ \A n \in told : n \in shown \/ LogEvent(n) \in ToSet(inbox)

\* Between the reads no job is lost.
Found(j) ==
  CASE pc \in {"filter", "active"} -> j \in view.pending \/ j \in registered \/ row[j] = "completed"
    [] pc = "completed" -> j \in view.pending \/ j \in view.active \/ row[j] = "completed"
    [] pc \in {"subscribe", "log", "idle"} -> j \in view.pending \/ j \in view.active \/ j \in view.completed
    [] OTHER -> TRUE
Finds == ~torn => \A j \in known : Found(j)

\* The page is about to be told, or has no claim to be.
Due ==
  \/ Update \in ToSet(inbox) \/ Has(todo, "notify") \/ creating # "none" \/ missed
  \/ ~server \/ Has(mail, "down")

\* The server is still to change what pages show.
Changing == {"connect", "disconnect", "schedule", "mark", "send", "complete", "unregister", "sweep"}
Asked == pc \notin {"closed", "connected", "answer"}
Behind(i) == pc = "answer" => \A k \in 1..Len(mail) : mail[k] = "page" => k < i
Announced ==
  /\ Asked /\ (\E e \in Changing : Has(todo, e)) => Due
  /\ pc \notin {"closed", "connected"} => \A i \in 1..Len(mail) : mail[i] = "cast" /\ Behind(i) => Due

\* Nothing the page has read is out of date.
Fresh ==
  Asked /\ ~Due =>
    /\ view.connected = (runner_pid /\ alive)
    /\ pc = "filter" => view.pending = In("pending")
    /\ pc \in {"active", "completed", "subscribe", "log", "idle"} => view.pending = Pending
    /\ pc \in {"completed", "subscribe", "log", "idle"} => view.active = registered
    /\ pc \in {"subscribe", "log", "idle"} => view.completed = In("completed")

\* The messages for the page.
Notes == {Update} \cup {LogEvent(n) : n \in log}

BInv ==
  /\ TypeOK /\ inbox \in Seq(Notes)
  /\ Queues /\ JobsPhase /\ ConnPhase /\ LogPhase
  /\ Asks /\ Follows /\ Finds
  /\ Announced /\ Fresh

-----------------------------------------------------------------------------
(* Queues.                                                                 *)

LEMMA TailIndex ==
  ASSUME NEW S, NEW q \in Seq(S), q # <<>>
  PROVE  /\ Tail(q) \in Seq(S) /\ Len(Tail(q)) = Len(q) - 1 /\ Len(q) \in Nat \ {0}
         /\ Head(q) = q[1] /\ Head(q) \in S
         /\ \A i \in 1..Len(Tail(q)) : i + 1 \in 1..Len(q) /\ Tail(q)[i] = q[i + 1]
BY HeadTailProperties

LEMMA TailHas ==
  ASSUME NEW S, NEW q \in Seq(S), q # <<>>, NEW e
  PROVE  /\ Has(Tail(q), e) => Has(q, e)
         /\ Has(q, e) => Head(q) = e \/ Has(Tail(q), e)
         /\ Has(q, Head(q))
<1>1. /\ Len(Tail(q)) = Len(q) - 1 /\ Len(q) \in Nat \ {0} /\ Head(q) = q[1]
      /\ \A i \in 1..Len(Tail(q)) : i + 1 \in 1..Len(q) /\ Tail(q)[i] = q[i + 1]
  BY TailIndex
<1>2. ASSUME Has(q, e)
      PROVE  Head(q) = e \/ Has(Tail(q), e)
  <2>1. PICK i \in 1..Len(q) : q[i] = e
    BY <1>2 DEF Has
  <2>2. CASE i = 1
    BY <1>1, <2>1, <2>2
  <2>3. CASE i # 1
    <3>1. i - 1 \in 1..Len(Tail(q)) /\ (i - 1) + 1 = i
      BY <1>1, <2>3
    <3>2. Tail(q)[i - 1] = q[i]
      BY <1>1, <3>1
    <3> QED
      BY <2>1, <3>1, <3>2 DEF Has
  <2> QED
    BY <2>2, <2>3
<1> QED
  BY <1>1, <1>2 DEF Has

LEMMA AppendHas ==
  ASSUME NEW S, NEW q \in Seq(S), NEW x, NEW e
  PROVE  Has(Append(q, x), e) <=> Has(q, e) \/ e = x
<1>1. /\ Len(Append(q, x)) = Len(q) + 1 /\ Len(q) \in Nat /\ Append(q, x)[Len(q) + 1] = x
      /\ \A i \in 1..Len(q) : Append(q, x)[i] = q[i]
  OBVIOUS
<1> QED
  BY <1>1 DEF Has

LEMMA EmptyHas == \A e : ~Has(<<>>, e)
BY DEF Has

LEMMA SingleTail ==
  ASSUME NEW q \in Seq(Msgs), q # <<>>, Single(q)
  PROVE  Single(Tail(q)) /\ (Head(q) \in {"connect", "down", "page"} => ~Has(Tail(q), Head(q)))
<1>1. /\ Len(Tail(q)) = Len(q) - 1 /\ Len(q) \in Nat \ {0} /\ Head(q) = q[1]
      /\ \A i \in 1..Len(Tail(q)) : i + 1 \in 1..Len(q) /\ Tail(q)[i] = q[i + 1]
  BY TailIndex
<1>2. ASSUME NEW i \in 1..Len(Tail(q)), NEW k \in 1..Len(Tail(q)),
             Tail(q)[i] = Tail(q)[k], Tail(q)[i] \in {"connect", "down", "page"}
      PROVE  i = k
  <2>1. i + 1 = k + 1
    BY <1>1, <1>2 DEF Single
  <2> QED
    BY <1>1, <2>1
<1>3. ASSUME NEW i \in 1..Len(Tail(q)), Tail(q)[i] = Head(q), Head(q) \in {"connect", "down", "page"}
      PROVE  FALSE
  <2>1. i + 1 = 1
    BY <1>1, <1>3 DEF Single
  <2> QED
    BY <1>1, <2>1
<1> QED
  BY <1>2, <1>3 DEF Single, Has

LEMMA SingleAppend ==
  ASSUME NEW q \in Seq(Msgs), NEW x \in Msgs, Single(q),
         x \in {"connect", "down", "page"} => ~Has(q, x)
  PROVE  Single(Append(q, x))
<1>1. /\ Len(Append(q, x)) = Len(q) + 1 /\ Len(q) \in Nat /\ Append(q, x)[Len(q) + 1] = x
      /\ \A i \in 1..Len(q) : Append(q, x)[i] = q[i]
  OBVIOUS
<1>2. \A i \in 1..Len(Append(q, x)) : i = Len(q) + 1 \/ i \in 1..Len(q)
  BY <1>1
<1> QED
  BY <1>1, <1>2 DEF Single, Has

-----------------------------------------------------------------------------
(* The effects of a handler.                                               *)

\* What is left once the first effect is performed.
LEMMA TailShape ==
  ASSUME NEW q \in Seq(Effects), q # <<>>, Shape(q)
  PROVE  /\ Shape(Tail(q))
         /\ Head(q) \in {"log", "connect", "disconnect"} => ~Has(Tail(q), Head(q))
         /\ Head(q) = "reply" => Tail(q) = <<>>
         /\ Tail(q) # <<>> =>
              /\ Head(Tail(q)) # "mark"
              /\ Head(Tail(q)) = "send" => Head(q) = "mark"
              /\ Head(Tail(q)) = "unregister" => Head(q) = "complete"
              /\ Head(Tail(q)) = "tell" => Head(q) = "log"
         /\ Head(q) = "mark" => Tail(q) # <<>> /\ Head(Tail(q)) = "send"
<1> DEFINE r == Tail(q)
<1>1. /\ r \in Seq(Effects) /\ Len(r) = Len(q) - 1 /\ Len(q) \in Nat \ {0} /\ Head(q) = q[1]
      /\ \A i \in 1..Len(r) : i + 1 \in 1..Len(q) /\ r[i] = q[i + 1]
  BY TailIndex
<1> HIDE DEF r
<1>2. \A i \in 1..Len(q) :
        /\ q[i] = "mark" => i = 1 /\ Len(q) > 1 /\ q[2] = "send"
        /\ q[i] = "send" => i = 1 \/ (i = 2 /\ q[1] = "mark")
        /\ q[i] = "unregister" /\ i > 1 => q[i - 1] = "complete"
        /\ q[i] = "tell" /\ i > 1 => q[i - 1] = "log"
        /\ q[i] = "reply" => Len(q) = 1
        /\ \A k \in 1..Len(q) : q[i] = q[k] /\ q[i] \in {"log", "connect", "disconnect"} => i = k
  BY DEF Shape
<1>3. ASSUME NEW i \in 1..Len(r)
      PROVE  /\ r[i] # "mark" /\ r[i] # "reply"
             /\ r[i] = "send" => i = 1 /\ q[1] = "mark"
             /\ r[i] = "unregister" => q[i] = "complete"
             /\ r[i] = "tell" => q[i] = "log"
             /\ i > 1 => q[i] = r[i - 1]
             /\ \A k \in 1..Len(r) : r[i] = r[k] /\ r[i] \in {"log", "connect", "disconnect"} => i = k
             /\ r[i] = q[1] => r[i] \notin {"log", "connect", "disconnect"}
  <2>1. i + 1 \in 1..Len(q) /\ r[i] = q[i + 1] /\ Len(q) > 1 /\ i + 1 > 1 /\ (i + 1) - 1 = i /\ i + 1 # 1
    BY <1>1
  <2>2. r[i] # "mark" /\ r[i] # "reply" /\ (r[i] = "send" => i = 1 /\ q[1] = "mark")
    BY <1>2, <2>1
  <2>3. (r[i] = "unregister" => q[i] = "complete") /\ (r[i] = "tell" => q[i] = "log")
    BY <1>2, <2>1
  <2>4. i > 1 => q[i] = r[i - 1]
    <3>1. i > 1 => i - 1 \in 1..Len(r) /\ (i - 1) + 1 = i
      BY <1>1
    <3> QED
      BY <1>1, <3>1
  <2>5. ASSUME NEW k \in 1..Len(r), r[i] = r[k], r[i] \in {"log", "connect", "disconnect"}
        PROVE  i = k
    <3>1. k + 1 \in 1..Len(q) /\ r[k] = q[k + 1]
      BY <1>1
    <3>2. i + 1 = k + 1
      BY <1>2, <2>1, <2>5, <3>1
    <3> QED
      BY <3>2
  <2>6. r[i] = q[1] => r[i] \notin {"log", "connect", "disconnect"}
    BY <1>1, <1>2, <2>1
  <2> QED
    BY <2>2, <2>3, <2>4, <2>5, <2>6
<1>4. Shape(r)
  BY <1>3 DEF Shape
<1>5. Head(q) \in {"log", "connect", "disconnect"} => ~Has(r, Head(q))
  BY <1>1, <1>3 DEF Has
<1>6. Head(q) = "reply" => r = <<>>
  <2>1. Head(q) = "reply" => Len(r) = 0
    BY <1>1, <1>2
  <2> QED
    BY <1>1, <2>1
<1>7. r # <<>> => Head(r) = r[1] /\ 1 \in 1..Len(r)
  BY <1>1
<1>8. Head(q) = "mark" => r # <<>> /\ Head(r) = "send"
  <2>1. Head(q) = "mark" => 1 \in 1..Len(r) /\ r[1] = "send"
    BY <1>1, <1>2
  <2> QED
    BY <1>7, <2>1
<1> QED
  BY <1>1, <1>3, <1>4, <1>5, <1>6, <1>7, <1>8 DEF r

\* schedule_jobs goes on to mark and to send.
LEMMA ScheduleShape ==
  ASSUME NEW q \in Seq(Effects), q # <<>>, Shape(q), Head(q) = "schedule"
  PROVE  /\ <<"mark", "send">> \o Tail(q) \in Seq(Effects) /\ Shape(<<"mark", "send">> \o Tail(q))
         /\ <<"mark", "send">> \o Tail(q) # <<>> /\ Head(<<"mark", "send">> \o Tail(q)) = "mark"
         /\ \A e : Has(<<"mark", "send">> \o Tail(q), e) => e \in {"mark", "send"} \/ Has(Tail(q), e)
         /\ \A e : Has(Tail(q), e) => Has(<<"mark", "send">> \o Tail(q), e)
<1> DEFINE r == Tail(q)
           t == <<"mark", "send">> \o Tail(q)
<1>1. /\ r \in Seq(Effects) /\ Len(r) = Len(q) - 1 /\ Len(q) \in Nat \ {0} /\ q[1] = "schedule"
      /\ \A i \in 1..Len(r) : i + 1 \in 1..Len(q) /\ r[i] = q[i + 1]
  BY TailIndex
<1>2. <<"mark", "send">> \in Seq(Effects) /\ Len(<<"mark", "send">>) = 2
  BY DEF Effects
<1>3. /\ t \in Seq(Effects) /\ Len(t) = Len(r) + 2 /\ Len(r) \in Nat
      /\ \A i \in 1..Len(t) : t[i] = IF i <= 2 THEN <<"mark", "send">>[i] ELSE r[i - 2]
  BY <1>1, <1>2, ConcatProperties
<1> HIDE DEF r, t
<1>4. t[1] = "mark" /\ t[2] = "send" /\ 1 \in 1..Len(t) /\ 2 \in 1..Len(t)
  BY <1>3
<1>5. \A i \in 1..Len(t) : i > 2 => i - 2 \in 1..Len(r) /\ i - 1 \in 1..Len(q) /\ t[i] = r[i - 2] /\ t[i] = q[i - 1]
  <2> SUFFICES ASSUME NEW i \in 1..Len(t), i > 2
               PROVE  i - 2 \in 1..Len(r) /\ i - 1 \in 1..Len(q) /\ t[i] = r[i - 2] /\ t[i] = q[i - 1]
    OBVIOUS
  <2>1. i - 2 \in 1..Len(r) /\ (i - 2) + 1 = i - 1
    BY <1>3
  <2> QED
    BY <1>1, <1>3, <2>1
<1>6. \A i \in 1..Len(r) : i + 2 \in 1..Len(t) /\ t[i + 2] = r[i]
  BY <1>3
<1>7. ASSUME NEW i \in 1..Len(t), i > 2
      PROVE  /\ t[i] # "mark" /\ t[i] # "send" /\ t[i] # "reply"
             /\ t[i] = "unregister" => t[i - 1] = "complete"
             /\ t[i] = "tell" => t[i - 1] = "log"
             /\ \A k \in 1..Len(t) : k > 2 /\ t[i] = t[k] /\ t[i] \in {"log", "connect", "disconnect"} => i = k
  <2>1. i - 1 \in 1..Len(q) /\ t[i] = q[i - 1] /\ i - 1 # 1 /\ Len(q) > 1 /\ i - 1 > 1 /\ (i - 1) - 1 = i - 2
    BY <1>1, <1>3, <1>5, <1>7
  <2>2. t[i] # "mark" /\ t[i] # "send" /\ t[i] # "reply"
    BY <1>1, <2>1 DEF Shape
  <2>3. (t[i] = "unregister" => q[i - 2] = "complete") /\ (t[i] = "tell" => q[i - 2] = "log")
    BY <2>1 DEF Shape
  <2>4. (t[i] = "unregister" => t[i - 1] = "complete") /\ (t[i] = "tell" => t[i - 1] = "log")
    <3>1. CASE i = 3
      <4>1. q[i - 2] = "schedule"
        BY <1>1, <3>1
      <4> QED
        BY <2>3, <4>1
    <3>2. CASE i # 3
      <4>1. i - 1 \in 1..Len(t) /\ i - 1 > 2 /\ (i - 1) - 1 = i - 2
        BY <1>3, <1>7, <3>2
      <4>2. t[i - 1] = q[i - 2]
        BY <1>5, <4>1
      <4> QED
        BY <2>3, <4>2
    <3> QED
      BY <3>1, <3>2
  <2>6. ASSUME NEW k \in 1..Len(t), k > 2, t[i] = t[k], t[i] \in {"log", "connect", "disconnect"}
        PROVE  i = k
    <3>1. k - 1 \in 1..Len(q) /\ t[k] = q[k - 1]
      BY <1>5, <2>6
    <3>2. i - 1 = k - 1
      BY <2>1, <2>6, <3>1 DEF Shape
    <3> QED
      BY <3>2, <1>3
  <2> QED
    BY <2>2, <2>4, <2>6
<1>8. \A i \in 1..Len(t) : i = 1 \/ i = 2 \/ i > 2
  BY <1>3
<1>9. Shape(t)
  <2>1. ASSUME NEW i \in 1..Len(t)
        PROVE  /\ t[i] = "mark" => i = 1 /\ Len(t) > 1 /\ t[2] = "send"
               /\ t[i] = "send" => i = 1 \/ (i = 2 /\ t[1] = "mark")
               /\ t[i] = "unregister" /\ i > 1 => t[i - 1] = "complete"
               /\ t[i] = "tell" /\ i > 1 => t[i - 1] = "log"
               /\ t[i] = "reply" => Len(t) = 1
    BY <1>3, <1>4, <1>7, <1>8
  <2>2. ASSUME NEW i \in 1..Len(t), NEW k \in 1..Len(t), t[i] = t[k], t[i] \in {"log", "connect", "disconnect"}
        PROVE  i = k
    BY <1>4, <1>7, <1>8, <2>2
  <2> QED
    BY <2>1, <2>2 DEF Shape
<1>10. \A e : Has(t, e) => e \in {"mark", "send"} \/ Has(r, e)
  BY <1>4, <1>5, <1>8 DEF Has
<1>11. \A e : Has(r, e) => Has(t, e)
  BY <1>6 DEF Has
<1>12. t # <<>> /\ Head(t) = "mark"
  BY <1>3, <1>4
<1> QED
  BY <1>3, <1>9, <1>10, <1>11, <1>12 DEF r, t

\* What the effects of a handler of msg are.
Handles(q, msg) ==
  /\ q \in Seq(Effects) /\ Shape(q)
  /\ Has(q, "log") => msg \in {"connect", "down"}
  /\ Has(q, "connect") => msg = "connect"
  /\ Has(q, "disconnect") => msg = "down"
  /\ Has(q, "reply") => msg = "page"
  /\ q # <<>> => Head(q) \notin {"mark", "send", "unregister", "tell"}
  /\ (\E e \in Changing : Has(q, e)) => Has(q, "notify") \/ msg = "cast"
  /\ msg = "down" => Has(q, "notify")

LEMMA HandlerShape ==
  ASSUME NEW msg \in Msgs
  PROVE  Handles(Handler(msg), msg)
<1> USE DEF Handles, Effects, Shape, Has, Changing
<1>1. Handles(<<>>, msg) \/ msg = "down"
  OBVIOUS
<1>2. Handles(<<"log", "tell", "connect", "schedule", "notify">>, "connect")
  OBVIOUS
<1>3. Handles(<<"notify", "start", "schedule">>, "started")
  OBVIOUS
<1>4. Handles(<<"notify", "complete", "unregister", "schedule">>, "ended")
  OBVIOUS
<1>5. Handles(<<"complete", "unregister", "notify">>, "timer")
  OBVIOUS
<1>6. Handles(<<"disconnect", "complete", "unregister", "log", "tell", "notify">>, "down")
  OBVIOUS
<1>7. Handles(<<"schedule">>, "cast")
  OBVIOUS
<1>8. Handles(<<"reply">>, "page")
  OBVIOUS
<1> HIDE DEF Handles, Effects, Shape, Has, Changing
<1> QED
  BY <1>1, <1>2, <1>3, <1>4, <1>5, <1>6, <1>7, <1>8 DEF Handler, Msgs

LEMMA StartShape == Handles(<<"notify", "sweep">>, "started") /\ Has(<<"notify", "sweep">>, "notify")
BY DEF Handles, Effects, Shape, Has, Changing

-----------------------------------------------------------------------------
(* What a step does to the queues of the server.                           *)

Takes     == /\ server /\ todo = <<>> /\ mail # <<>>
             /\ todo' = Handler(Head(mail)) /\ mail' = Tail(mail) /\ server' = server
Performs  == todo # <<>> /\ todo' = Tail(todo) /\ mail' = mail /\ server' = server
Schedules == /\ Doing({"schedule"})
             /\ todo' = <<"mark", "send">> \o Tail(todo) /\ mail' = mail /\ server' = server
Ends      == server' = FALSE /\ todo' = <<>> /\ mail' = <<>>
Starts    == ~server /\ server' = TRUE /\ todo' = <<"notify", "sweep">> /\ mail' = mail
Sends(x)  == /\ server /\ (x \in {"connect", "down", "page"} => ~Has(mail, x))
             /\ mail' = Append(mail, x) /\ todo' = todo /\ server' = server
Rests     == UNCHANGED <<todo, mail, server>>

\* The first effect was performed.
LEMMA Performed ==
  ASSUME Queues, todo # <<>>, todo' = Tail(todo)
  PROVE  /\ todo' \in Seq(Effects) /\ Shape(todo)' /\ Head(todo) \in Effects
         /\ \A e : Has(todo, e)' => Has(todo, e)
         /\ \A e : Has(todo, e) => Head(todo) = e \/ Has(todo, e)'
         /\ Has(todo, Head(todo))
         /\ Head(todo) \in {"log", "connect", "disconnect"} => ~Has(todo', Head(todo))
         /\ Head(todo) = "reply" => todo' = <<>>
         /\ ~Doing({"mark"})' /\ (Doing({"mark", "send"})' <=> Head(todo) = "mark")
         /\ Doing({"unregister"})' => Head(todo) = "complete"
         /\ Doing({"tell"})' => Head(todo) = "log"
<1>1. todo \in Seq(Effects) /\ Shape(todo)
  BY DEF Queues
<1>2. \A e : (Has(Tail(todo), e) => Has(todo, e)) /\ (Has(todo, e) => Head(todo) = e \/ Has(Tail(todo), e))
  BY <1>1, TailHas
<1>3. Has(todo, Head(todo)) /\ Head(todo) \in Effects /\ Tail(todo) \in Seq(Effects)
  BY <1>1, TailHas, TailIndex
<1> QED
  BY <1>1, <1>2, <1>3, TailShape DEF Doing

\* The next message was taken from the mailbox.
LEMMA Taken ==
  ASSUME Queues, mail # <<>>, mail' = Tail(mail)
  PROVE  /\ mail' \in Seq(Msgs) /\ Single(mail)' /\ Head(mail) \in Msgs
         /\ \A e : Has(mail, e)' => Has(mail, e)
         /\ \A e : Has(mail, e) => Head(mail) = e \/ Has(mail, e)'
         /\ Has(mail, Head(mail))
         /\ Head(mail) \in {"connect", "down", "page"} => ~Has(mail', Head(mail))
<1>1. mail \in Seq(Msgs) /\ Single(mail)
  BY DEF Queues
<1>2. \A e : (Has(Tail(mail), e) => Has(mail, e)) /\ (Has(mail, e) => Head(mail) = e \/ Has(Tail(mail), e))
  BY <1>1, TailHas
<1>3. Has(mail, Head(mail)) /\ Head(mail) \in Msgs /\ Tail(mail) \in Seq(Msgs)
  BY <1>1, TailHas, TailIndex
<1> QED
  BY <1>1, <1>2, <1>3, SingleTail

LEMMA Sent ==
  ASSUME Queues, NEW x \in Msgs, Sends(x)
  PROVE  mail' \in Seq(Msgs) /\ Single(mail)' /\ \A e : Has(mail, e)' <=> Has(mail, e) \/ e = x
<1>1. mail \in Seq(Msgs) /\ Single(mail)
  BY DEF Queues
<1> QED
  BY <1>1, AppendHas, SingleAppend DEF Sends

\* A handler was entered.
LEMMA Entered ==
  ASSUME Queues, Takes
  PROVE  Head(mail) \in Msgs /\ Handles(todo', Head(mail)) /\ ~Has(todo, "reply") /\ \A e : ~Has(todo, e)
BY Taken, HandlerShape, EmptyHas DEF Takes

LEMMA QueuesKept ==
  ASSUME Queues, Takes \/ Performs \/ Schedules \/ Ends \/ Starts \/ (\E x \in Msgs : Sends(x)) \/ Rests
  PROVE  Queues'
<1>1. CASE Takes
  BY <1>1, Entered, Taken DEF Queues, Handles, Takes
<1>2. CASE Performs
  BY <1>2, Performed DEF Queues, Performs
<1>3. CASE Schedules
  BY <1>3, ScheduleShape DEF Queues, Schedules, Doing
<1>4. CASE Ends
  BY <1>4 DEF Queues, Ends, Shape, Single
<1>5. CASE Starts
  BY <1>5, StartShape DEF Queues, Starts, Handles
<1>6. ASSUME NEW x \in Msgs, Sends(x)
      PROVE  Queues'
  BY <1>6, Sent DEF Queues, Sends
<1>7. CASE Rests
  BY <1>7 DEF Queues, Rests
<1> QED
  BY <1>1, <1>2, <1>3, <1>4, <1>5, <1>6, <1>7

\* The effects that leave the queue, and nothing more.
performs ==
  \/ notify_board_update \/ insert_event \/ log_event \/ runner_changes
  \/ mark_dispatched \/ send_start_job \/ job_started \/ complete_jobs \/ unregister \/ sweep
  \/ get_runner_connected

\* The page's steps but the question to the server.
reads ==
  \/ mount \/ pending_jobs \/ job_active \/ active_jobs
  \/ completed_jobs \/ subscribe \/ board_log \/ handle_info \/ leave

LEMMA PerformsQueues == performs => Performs
BY DEF performs, Performs, notify_board_update, insert_event, log_event, runner_changes, mark_dispatched,
       send_start_job, job_started, complete_jobs, unregister, sweep, get_runner_connected

LEMMA ReadsRest == reads => Rests /\ UNCHANGED <<creating, jobs_vars, conn_vars, log_vars>>
BY DEF reads, Rests, mount, pending_jobs, job_active, active_jobs, completed_jobs, subscribe, board_log,
       handle_info, leave, page_alone

\* What the messages other than those of connections and pages are.
Requests == {"started", "ended", "timer", "cast"}

LEMMA QueueKinds ==
  ASSUME BInv, [Next]_vars
  PROVE  \/ Takes /\ handle
         \/ Performs /\ (performs \/ schedule_jobs)
         \/ Schedules /\ schedule_jobs
         \/ Ends /\ raises
         \/ Starts /\ start_server
         \/ Sends("connect") /\ connect_runner
         \/ Sends("down") /\ runner_down
         \/ Sends("page") /\ runner_connected
         \/ \E x \in Requests : Sends(x) /\ (report \/ jobs_updated) /\ (x = "cast" => jobs_updated)
         \/ Rests /\ (instant_job \/ jobs_updated \/ tell_subscribers \/ runner_connected \/ reads \/ UNCHANGED vars)
<1>1. Queues /\ JobsPhase /\ ConnPhase /\ Asks
  BY DEF BInv
<1>2. handle => Takes
  BY DEF handle, Takes
<1>3. schedule_jobs => Schedules \/ Performs
  BY DEF schedule_jobs, Schedules, Performs, Doing
<1>4. raises => Ends
  BY DEF raises, Ends
<1>5. start_server => Starts
  BY DEF start_server, Starts
<1>6. connect_runner => Sends("connect")
  BY <1>1 DEF connect_runner, Sends, ConnPhase
<1>7. runner_down => Sends("down")
  BY <1>1 DEF runner_down, Sends, ConnPhase
<1>8. report => \E x \in Requests : Sends(x) /\ x # "cast"
  BY <1>1 DEF report, Sends, JobsPhase, Requests
<1>9. jobs_updated => Rests \/ Sends("cast")
  BY DEF jobs_updated, Sends, Rests
<1>10. instant_job \/ tell_subscribers \/ UNCHANGED vars => Rests
  BY DEF instant_job, tell_subscribers, Rests, vars
<1>11. runner_connected => Rests \/ Sends("page")
  BY <1>1 DEF runner_connected, page_alone, Sends, Rests, Asks
<1>12. server_step => handle \/ performs \/ schedule_jobs \/ raises
  BY DEF server_step, performs
<1>13. page => runner_connected \/ reads
  BY DEF page, reads
<1>14. "cast" \in Requests
  BY DEF Requests
<1> QED
  BY <1>2, <1>3, <1>4, <1>5, <1>6, <1>7, <1>8, <1>9, <1>10, <1>11, <1>12, <1>13, <1>14, PerformsQueues, ReadsRest DEF Next

LEMMA QueueStep ==
  ASSUME BInv, [Next]_vars
  PROVE  Queues'
BY QueueKinds, QueuesKept DEF BInv, Msgs, Requests

\* What else a step changes.
LEMMA Frames ==
  ASSUME [Next]_vars
  PROVE  /\ UNCHANGED conn_vars \/ runner_changes \/ raises \/ connect_runner \/ runner_down
         /\ UNCHANGED log_vars \/ insert_event \/ log_event
         /\ \/ UNCHANGED jobs_vars \/ schedule_jobs \/ mark_dispatched \/ send_start_job \/ job_started
            \/ complete_jobs \/ unregister \/ sweep \/ raises \/ instant_job
         /\ \/ UNCHANGED page_vars \/ notify_board_update \/ log_event \/ tell_subscribers
            \/ get_runner_connected \/ raises \/ runner_connected \/ reads
         /\ UNCHANGED creating \/ instant_job \/ jobs_updated \/ tell_subscribers
<1>1. CASE server_step
  BY <1>1 DEF server_step, handle, notify_board_update, insert_event, log_event, runner_changes, schedule_jobs,
              mark_dispatched, send_start_job, job_started, complete_jobs, unregister, sweep, get_runner_connected,
              raises, conn_vars, log_vars, jobs_vars, page_vars
<1>2. CASE start_server \/ connect_runner \/ runner_down \/ report \/ instant_job \/ jobs_updated \/ tell_subscribers
  BY <1>2 DEF start_server, connect_runner, runner_down, report, instant_job, jobs_updated, tell_subscribers,
              conn_vars, log_vars, jobs_vars, page_vars
<1>3. CASE page
  BY <1>3, ReadsRest DEF page, reads, runner_connected, page_alone
<1>4. CASE UNCHANGED vars
  BY <1>4 DEF vars, conn_vars, log_vars, jobs_vars, page_vars
<1> QED
  BY <1>1, <1>2, <1>3, <1>4 DEF Next

-----------------------------------------------------------------------------
(* The jobs, the connection and the log.                                   *)

\* The server's jobs, the registry and the table, typed and in their phase.
JobsInv ==
  /\ JobsPhase /\ waiting \subseteq active /\ active \subseteq registered /\ registered \subseteq Jobs
  /\ row \in [Jobs -> {"none", "pending", "dispatched", "completed"}]

LEMMA JobsKept ==
  ASSUME BInv, [Next]_vars
  PROVE  JobsInv'
<1>1. Queues /\ JobsInv
  BY DEF BInv, TypeOK, JobsInv
<1>2. CASE Takes /\ handle
  <2>1. ~Doing({"mark", "send"})' /\ ~Doing({"mark"})' /\ ~Doing({"unregister"})' /\ server'
    BY <1>1, <1>2, Entered DEF Handles, Doing, Takes
  <2>2. active = registered /\ UNCHANGED <<row, registered, active, waiting>>
    BY <1>1, <1>2 DEF JobsInv, JobsPhase, Takes, Doing, handle, jobs_vars
  <2> QED
    BY <1>1, <2>1, <2>2 DEF JobsInv, JobsPhase
<1>3. CASE Performs /\ (performs \/ schedule_jobs)
  <2>1. /\ ~Doing({"mark"})' /\ (Doing({"mark", "send"})' <=> Head(todo) = "mark")
        /\ Doing({"unregister"})' => Head(todo) = "complete"
        /\ todo # <<>> /\ server' = server
    BY <1>1, <1>3, Performed DEF Performs
  <2>2. /\ Head(todo) \notin {"mark", "send"} => active = registered
        /\ Head(todo) \in {"mark", "send"} => active = {}
        /\ Head(todo) = "mark" => \A j \in registered : row[j] = "pending"
        /\ Head(todo) = "unregister" => \A j \in registered : row[j] = "completed"
        /\ ~server => registered = {}
    BY <1>1, <2>1 DEF JobsInv, JobsPhase, Doing
  <2>3. CASE UNCHANGED jobs_vars /\ Head(todo) \notin {"mark", "send", "complete"}
    BY <1>1, <2>1, <2>2, <2>3 DEF JobsInv, JobsPhase, jobs_vars
  <2>4. CASE mark_dispatched
    <3>1. /\ Head(todo) = "mark" /\ UNCHANGED <<registered, active, waiting>>
          /\ row' = [j \in Jobs |-> IF j \in registered THEN "dispatched" ELSE row[j]]
      BY <2>4 DEF mark_dispatched
    <3> QED
      BY <1>1, <2>1, <2>2, <3>1 DEF JobsInv, JobsPhase
  <2>5. CASE send_start_job
    BY <1>1, <2>1, <2>2, <2>5 DEF send_start_job, JobsInv, JobsPhase
  <2>6. CASE job_started
    BY <1>1, <2>1, <2>2, <2>6 DEF job_started, JobsInv, JobsPhase
  <2>7. CASE complete_jobs
    <3>1. /\ Head(todo) = "complete" /\ UNCHANGED <<registered, active, waiting>>
          /\ row' = [j \in Jobs |-> IF j \in active THEN "completed" ELSE row[j]]
      BY <2>7 DEF complete_jobs
    <3> QED
      BY <1>1, <2>1, <2>2, <3>1 DEF JobsInv, JobsPhase
  <2>8. CASE unregister
    BY <1>1, <2>1, <2>2, <2>8 DEF unregister, JobsInv, JobsPhase
  <2>9. CASE sweep
    <3>1. /\ Head(todo) = "sweep" /\ UNCHANGED <<registered, active, waiting>>
          /\ row' = [j \in Jobs |-> IF row[j] = "dispatched" THEN "completed" ELSE row[j]]
      BY <2>9 DEF sweep
    <3> QED
      BY <1>1, <2>1, <2>2, <3>1 DEF JobsInv, JobsPhase
  <2>10. CASE schedule_jobs
    <3>1. todo' # <<"mark", "send">> \o Tail(todo)
      <4>1. todo \in Seq(Effects) /\ Shape(todo)
        BY <1>1 DEF Queues
      <4>2. Head(todo) = "schedule" /\ todo' = Tail(todo)
        BY <1>3, <2>10 DEF schedule_jobs, Performs
      <4> QED
        BY <2>1, <4>1, <4>2, ScheduleShape DEF Doing
    <3>2. Head(todo) = "schedule" /\ UNCHANGED jobs_vars
      BY <2>10, <3>1 DEF schedule_jobs, jobs_vars
    <3> QED
      BY <2>3, <3>2
  <2> QED
    BY <1>3, <2>3, <2>4, <2>5, <2>6, <2>7, <2>8, <2>9, <2>10
       DEF performs, notify_board_update, insert_event, log_event, runner_changes, get_runner_connected
<1>4. CASE Schedules /\ schedule_jobs
  <2>1. todo \in Seq(Effects) /\ Shape(todo) /\ todo # <<>> /\ Head(todo) = "schedule" /\ server' = server
    BY <1>1, <1>4 DEF Queues, Schedules, Doing
  <2>2. Doing({"mark", "send"})' /\ ~Doing({"unregister"})'
    BY <1>4, <2>1, ScheduleShape DEF Doing, Schedules
  <2>3. todo' # Tail(todo)
    <3>1. Tail(todo) # <<>> => Head(Tail(todo)) # "mark"
      BY <2>1, TailShape
    <3> QED
      BY <1>4, <2>1, <3>1, ScheduleShape DEF Schedules
  <2>4. PICK j \in Pending : registered' = registered \cup {j}
    BY <1>4, <2>3 DEF schedule_jobs
  <2>5. active = {} /\ UNCHANGED <<row, active, waiting>>
    BY <1>4, <2>3 DEF schedule_jobs
  <2>6. registered = {} /\ row[j] = "pending" /\ j \in Jobs /\ server
    BY <1>1, <2>1, <2>4, <2>5 DEF JobsInv, JobsPhase, Doing, Pending, In, Queues
  <2> QED
    BY <1>1, <2>1, <2>2, <2>4, <2>5, <2>6 DEF JobsInv, JobsPhase
<1>5. CASE Ends /\ raises
  BY <1>1, <1>5 DEF JobsInv, JobsPhase, Ends, raises, Doing
<1>6. CASE Starts /\ start_server
  <2>1. ~Doing({"mark", "send"})' /\ ~Doing({"mark"})' /\ ~Doing({"unregister"})'
    BY <1>6, StartShape DEF Handles, Doing, Starts
  <2>2. todo = <<>> /\ UNCHANGED <<row, registered, active, waiting>>
    BY <1>1, <1>6 DEF Queues, Starts, start_server, jobs_vars
  <2> QED
    BY <1>1, <1>6, <2>1, <2>2 DEF JobsInv, JobsPhase, Starts, Doing
<1>7. CASE instant_job /\ Rests
  <2>1. PICK k \in In("none") : row' = [row EXCEPT ![k] = "pending"]
    BY <1>7 DEF instant_job
  <2>2. UNCHANGED <<registered, active, waiting, todo, server>>
    BY <1>7 DEF instant_job, Rests
  <2>3. \A j \in Jobs : row[j] \in {"pending", "completed"} => row'[j] = row[j]
    BY <1>1, <2>1 DEF In, JobsInv
  <2> QED
    BY <1>1, <2>1, <2>2, <2>3 DEF JobsInv, JobsPhase, Doing, In
<1>8. CASE UNCHANGED jobs_vars /\ UNCHANGED <<todo, server>>
  BY <1>1, <1>8 DEF JobsInv, JobsPhase, jobs_vars, Doing
<1> QED
  <2>1. connect_runner \/ runner_down \/ report \/ jobs_updated \/ tell_subscribers \/ UNCHANGED vars => UNCHANGED jobs_vars
    BY DEF connect_runner, runner_down, report, jobs_updated, tell_subscribers, vars, jobs_vars
  <2>2. runner_connected => UNCHANGED jobs_vars
    BY DEF runner_connected, page_alone
  <2>3. \A x : Sends(x) => UNCHANGED <<todo, server>>
    BY DEF Sends
  <2>4. Rests => UNCHANGED <<todo, server>>
    BY DEF Rests
  <2> QED
    BY <1>2, <1>3, <1>4, <1>5, <1>6, <1>7, <1>8, <2>1, <2>2, <2>3, <2>4, QueueKinds, ReadsRest

LEMMA ConnKept ==
  ASSUME BInv, [Next]_vars
  PROVE  ConnPhase'
<1>1. Queues /\ ConnPhase
  BY DEF BInv
<1>2. CASE Takes /\ handle
  <2>1. UNCHANGED <<alive, runner_pid, server>> /\ server
    BY <1>2 DEF handle, conn_vars, Takes
  <2>2. /\ \A e : Has(mail, e)' => Has(mail, e)
        /\ Has(mail, Head(mail))
        /\ Head(mail) \in {"connect", "down"} => ~Has(mail', Head(mail))
    BY <1>1, <1>2, Taken DEF Takes
  <2>3. (Has(todo, "connect")' => Head(mail) = "connect") /\ (Has(todo, "disconnect")' => Head(mail) = "down")
    BY <1>1, <1>2, Entered DEF Handles
  <2> QED
    BY <1>1, <2>1, <2>2, <2>3 DEF ConnPhase
<1>3. CASE Performs /\ UNCHANGED conn_vars
  <2>1. \A e : Has(todo, e)' => Has(todo, e)
    BY <1>1, <1>3, Performed DEF Performs
  <2> QED
    BY <1>1, <1>3, <2>1 DEF ConnPhase, Performs, conn_vars
<1>4. CASE Performs /\ runner_changes
  <2>1. /\ \A e : Has(todo, e)' => Has(todo, e)
        /\ Has(todo, Head(todo)) /\ ~Has(todo', Head(todo))
        /\ mail' = mail /\ server' = server /\ alive' = alive
        /\ Head(todo) \in {"connect", "disconnect"} /\ runner_pid' = (Head(todo) = "connect")
    BY <1>1, <1>4, Performed DEF Performs, runner_changes
  <2>2. server
    BY <1>1, <1>4 DEF Queues, Performs
  <2>3. CASE Head(todo) = "connect"
    BY <1>1, <2>1, <2>2, <2>3 DEF ConnPhase
  <2>4. CASE Head(todo) = "disconnect"
    BY <1>1, <2>1, <2>2, <2>4 DEF ConnPhase
  <2> QED
    BY <2>1, <2>3, <2>4
<1>5. CASE Schedules /\ schedule_jobs
  <2>1. todo \in Seq(Effects) /\ Shape(todo) /\ todo # <<>> /\ Head(todo) = "schedule"
    BY <1>1, <1>5 DEF Queues, Schedules, Doing
  <2>2. \A e : Has(todo, e)' => e \in {"mark", "send"} \/ Has(todo, e)
    BY <1>1, <1>5, <2>1, ScheduleShape, TailHas DEF Schedules
  <2> QED
    BY <1>1, <1>5, <2>2 DEF ConnPhase, Schedules, schedule_jobs, conn_vars
<1>6. CASE Ends /\ raises
  BY <1>6, EmptyHas DEF ConnPhase, Ends, raises
<1>7. CASE Starts /\ start_server
  <2>1. ~Has(todo, "connect")' /\ ~Has(todo, "disconnect")'
    BY <1>7, StartShape DEF Handles, Starts
  <2> QED
    BY <1>1, <1>7, <2>1 DEF ConnPhase, Starts, start_server, conn_vars
<1>8. CASE Sends("connect") /\ connect_runner
  <2>1. \A e : Has(mail, e)' <=> Has(mail, e) \/ e = "connect"
    BY <1>1, <1>8, Sent DEF Msgs
  <2> QED
    BY <1>1, <1>8, <2>1 DEF ConnPhase, connect_runner, Sends
<1>9. CASE Sends("down") /\ runner_down
  <2>1. \A e : Has(mail, e)' <=> Has(mail, e) \/ e = "down"
    BY <1>1, <1>9, Sent DEF Msgs
  <2> QED
    BY <1>1, <1>9, <2>1 DEF ConnPhase, runner_down, Sends
<1>10. ASSUME NEW x \in Msgs \ {"connect", "down"}, Sends(x), UNCHANGED conn_vars
       PROVE  ConnPhase'
  <2>1. \A e : Has(mail, e)' <=> Has(mail, e) \/ e = x
    BY <1>1, <1>10, Sent
  <2> QED
    BY <1>1, <1>10, <2>1 DEF ConnPhase, Sends, conn_vars
<1>11. CASE Rests /\ UNCHANGED conn_vars
  BY <1>1, <1>11 DEF ConnPhase, Rests, conn_vars
<1> QED
  <2>1. \/ UNCHANGED conn_vars \/ runner_changes \/ raises \/ connect_runner \/ runner_down
    BY Frames
  <2>2. performs \/ schedule_jobs => UNCHANGED conn_vars \/ runner_changes
    BY DEF performs, notify_board_update, insert_event, log_event, mark_dispatched, send_start_job, job_started,
           complete_jobs, unregister, sweep, get_runner_connected, schedule_jobs, conn_vars
  <2>3. report \/ jobs_updated \/ runner_connected \/ instant_job \/ tell_subscribers \/ reads \/ UNCHANGED vars => UNCHANGED conn_vars
    BY ReadsRest DEF report, jobs_updated, runner_connected, page_alone, instant_job, tell_subscribers, vars, conn_vars
  <2> QED
    BY <1>2, <1>3, <1>4, <1>5, <1>6, <1>7, <1>8, <1>9, <1>10, <1>11, <2>2, <2>3, QueueKinds DEF Requests, Msgs

\* A numbered log is as large as its last number.
LEMMA LogSize ==
  ASSUME NEW n \in Nat
  PROVE  /\ Cardinality(1..n) = n /\ IsFiniteSet(1..n)
         /\ (1..n) \cup {n + 1} = 1..(n + 1)
<1>1. IsFiniteSet(1..n) /\ Cardinality(1..n) = n
  BY FS_Interval
<1> QED
  BY <1>1

\* An effect that is in the queue is counted there.
LEMMA CountHas ==
  ASSUME NEW q \in Seq(Effects)
  PROVE  Cardinality({i \in DOMAIN q : q[i] = "log"}) \in Nat
         /\ (Has(q, "log") => Cardinality({i \in DOMAIN q : q[i] = "log"}) >= 1)
<1> DEFINE C == {i \in DOMAIN q : q[i] = "log"}
<1>1. DOMAIN q = 1..Len(q) /\ Len(q) \in Nat
  OBVIOUS
<1>2. IsFiniteSet(C)
  <2>1. IsFiniteSet(1..Len(q))
    BY <1>1, FS_Interval
  <2> QED
    BY <1>1, <2>1, FS_Subset
<1>3. Cardinality(C) \in Nat /\ (Cardinality(C) = 0 <=> C = {})
  BY <1>2, FS_CardinalityType, FS_EmptySet
<1>4. Has(q, "log") => C # {}
  BY <1>1 DEF Has
<1> QED
  BY <1>3, <1>4

\* What is owed depends on the queues and the connection only.
LEMMA OwedKept ==
  ASSUME Has(todo, "log")' <=> Has(todo, "log"), Has(mail, "connect")' <=> Has(mail, "connect"),
         Has(mail, "down")' <=> Has(mail, "down"), alive' = alive
  PROVE  Owed' = Owed
BY DEF Owed, One

LEMMA LessFits ==
  ASSUME NEW n \in Nat, NEW m \in Nat, NEW a \in Nat, NEW b \in Nat, n + a <= m, b <= a
  PROVE  n + b <= m
OBVIOUS

LEMMA LogKept ==
  ASSUME BInv, [Next]_vars
  PROVE  LogPhase'
<1>1. Queues /\ ConnPhase /\ LogPhase /\ {alive, runner_pid} \subseteq BOOLEAN
  BY DEF BInv, TypeOK
<1>2. PICK n \in 0..MaxLog : /\ log = 1..n /\ n + Owed <= MaxLog
                             /\ Doing({"tell"}) => n > 0
  BY <1>1 DEF LogPhase
<1>3. n \in Nat /\ MaxLog \in Nat /\ Owed \in Nat /\ Owed' \in Nat
  <2>1. Owed \in Nat /\ Owed' \in Nat
    BY DEF Owed, One
  <2> QED
    BY <2>1, BoundsAssumption
<1>4. ASSUME log' = log, Owed' <= Owed, ~Doing({"tell"})'
      PROVE  LogPhase'
  <2>1. n + Owed' <= MaxLog
    BY <1>2, <1>3, <1>4, LessFits
  <2>2. log' = 1..n /\ n + Owed' <= MaxLog /\ (Doing({"tell"})' => n > 0)
    BY <1>2, <1>4, <2>1
  <2> QED
    BY <2>2 DEF LogPhase
<1>5. CASE Takes /\ handle
  <2>1. log' = log /\ alive' = alive
    BY <1>5 DEF handle, log_vars, conn_vars
  <2>2. /\ \A e : Has(mail, e)' => Has(mail, e)
        /\ \A e : Has(mail, e) => Head(mail) = e \/ Has(mail, e)'
        /\ Has(mail, Head(mail))
        /\ Head(mail) \in {"connect", "down"} => ~Has(mail', Head(mail))
    BY <1>1, <1>5, Taken DEF Takes
  <2>3. /\ Has(todo, "log")' => Head(mail) \in {"connect", "down"}
        /\ ~Doing({"tell"})' /\ ~Has(todo, "log")
    BY <1>1, <1>5, Entered DEF Handles, Doing
  <2>4. CASE Head(mail) = "connect"
    <3>1. /\ Has(mail, "connect") /\ ~Has(mail, "connect")' /\ alive
          /\ Has(mail, "down")' <=> Has(mail, "down")
      BY <1>1, <2>2, <2>4 DEF ConnPhase
    <3>2. Owed' <= Owed
      BY <2>1, <2>3, <3>1 DEF Owed, One
    <3> QED
      BY <1>4, <2>1, <2>3, <3>2
  <2>5. CASE Head(mail) = "down"
    <3>1. /\ Has(mail, "down") /\ ~Has(mail, "down")'
          /\ Has(mail, "connect")' <=> Has(mail, "connect")
      BY <2>2, <2>5
    <3>2. Owed' <= Owed
      BY <2>1, <2>3, <3>1 DEF Owed, One
    <3> QED
      BY <1>4, <2>1, <2>3, <3>2
  <2>6. CASE Head(mail) \notin {"connect", "down"}
    <3>1. /\ Has(mail, "down")' <=> Has(mail, "down")
          /\ Has(mail, "connect")' <=> Has(mail, "connect")
          /\ ~Has(todo, "log")'
      BY <2>2, <2>3, <2>6
    <3>2. Owed' = Owed
      BY <2>1, <2>3, <3>1, OwedKept
    <3> QED
      BY <1>3, <1>4, <2>1, <2>3, <3>2
  <2> QED
    BY <2>4, <2>5, <2>6
<1>6. CASE Performs /\ (performs \/ schedule_jobs)
  <2>1. /\ Has(todo, "log")' => Has(todo, "log")
        /\ Has(todo, "log") => Head(todo) = "log" \/ Has(todo, "log")'
        /\ Has(todo, Head(todo))
        /\ Head(todo) = "log" => ~Has(todo, "log")'
        /\ Doing({"tell"})' => Head(todo) = "log"
        /\ mail' = mail
    BY <1>1, <1>6, Performed DEF Performs
  <2>2. alive' = alive
    BY <1>6 DEF performs, notify_board_update, insert_event, log_event, runner_changes, mark_dispatched, send_start_job,
           job_started, complete_jobs, unregister, sweep, get_runner_connected, schedule_jobs, conn_vars
  <2>3. CASE insert_event
    <3>1. Head(todo) = "log" /\ log' = log \cup {Cardinality(log) + 1}
      BY <2>3 DEF insert_event
    <3>2. log' = 1..(n + 1)
      BY <1>2, <1>3, <3>1, LogSize
    <3>3. Owed' = Owed - 1
      BY <2>1, <2>2, <3>1 DEF Owed, One
    <3>4. n + 1 \in 0..MaxLog /\ (n + 1) + Owed' <= MaxLog /\ n + 1 > 0
      BY <1>2, <1>3, <3>3
    <3> QED
      BY <3>2, <3>4 DEF LogPhase
  <2>4. CASE ~insert_event
    <3>1. log' = log /\ Head(todo) # "log"
      BY <1>6, <2>4 DEF performs, notify_board_update, insert_event, log_event, runner_changes, mark_dispatched,
           send_start_job, job_started, complete_jobs, unregister, sweep, get_runner_connected, schedule_jobs, log_vars
    <3>2. Owed' = Owed
      BY <2>1, <2>2, <3>1, OwedKept
    <3> QED
      BY <1>3, <1>4, <2>1, <3>1, <3>2
  <2> QED
    BY <2>3, <2>4
<1>7. CASE Schedules /\ schedule_jobs
  <2>1. todo \in Seq(Effects) /\ Shape(todo) /\ todo # <<>> /\ Head(todo) = "schedule"
    BY <1>1, <1>7 DEF Queues, Schedules, Doing
  <2>2. Has(todo, "log")' <=> Has(todo, "log")
    <3>1. todo' = <<"mark", "send">> \o Tail(todo)
      BY <1>7 DEF Schedules
    <3>2. /\ Has(todo', "log") => "log" \in {"mark", "send"} \/ Has(Tail(todo), "log")
          /\ Has(Tail(todo), "log") => Has(todo', "log")
      <4>1. /\ \A e : Has(<<"mark", "send">> \o Tail(todo), e) => e \in {"mark", "send"} \/ Has(Tail(todo), e)
            /\ \A e : Has(Tail(todo), e) => Has(<<"mark", "send">> \o Tail(todo), e)
        BY <2>1, ScheduleShape
      <4> QED
        BY <3>1, <4>1
    <3>3. Has(Tail(todo), "log") <=> Has(todo, "log")
      BY <2>1, TailHas
    <3>4. Has(todo, "log")' <=> Has(todo', "log")
      BY DEF Has
    <3> QED
      BY <3>2, <3>3, <3>4
  <2>3. ~Doing({"tell"})'
    BY <1>7, <2>1, ScheduleShape DEF Schedules, Doing
  <2>4. log' = log /\ alive' = alive /\ mail' = mail
    BY <1>7 DEF schedule_jobs, log_vars, conn_vars, Schedules
  <2>5. Owed' = Owed
    BY <2>2, <2>4, OwedKept
  <2> QED
    BY <1>3, <1>4, <2>3, <2>4, <2>5
<1>8. CASE Ends /\ raises
  <2>1. log' = log /\ alive' = FALSE /\ mail' = <<>> /\ todo' = <<>>
    BY <1>8 DEF raises, Ends, log_vars
  <2>2. Owed' = 0 /\ ~Doing({"tell"})'
    BY <2>1, EmptyHas DEF Owed, One, Doing
  <2> QED
    BY <1>3, <1>4, <2>1, <2>2
<1>9. CASE Starts /\ start_server
  <2>1. ~Has(todo, "log")' /\ ~Doing({"tell"})'
    BY <1>9, StartShape DEF Handles, Starts, Doing
  <2>2. ~Has(todo, "log")
    BY <1>1, <1>9, EmptyHas DEF Queues, Starts
  <2>3. log' = log /\ alive' = alive /\ mail' = mail
    BY <1>9 DEF start_server, log_vars, conn_vars, Starts
  <2>4. Owed' = Owed
    BY <2>1, <2>2, <2>3, OwedKept
  <2> QED
    BY <1>3, <1>4, <2>1, <2>3, <2>4
<1>10. ASSUME todo' = todo, log' = log, n + Owed' <= MaxLog
       PROVE  LogPhase'
  <2>1. log' = 1..n /\ n + Owed' <= MaxLog /\ (Doing({"tell"})' => n > 0)
    BY <1>2, <1>10 DEF Doing
  <2> QED
    BY <2>1 DEF LogPhase
<1>11. CASE Sends("connect") /\ connect_runner
  <2>1. \A e : Has(mail, e)' <=> Has(mail, e) \/ e = "connect"
    BY <1>1, <1>11, Sent DEF Msgs
  <2>2. /\ Cardinality(log) + Cardinality({i \in DOMAIN todo : todo[i] = "log"}) + 2 =< MaxLog
        /\ ~alive /\ ~runner_pid /\ alive' = TRUE /\ todo' = todo /\ log' = log
    BY <1>11 DEF connect_runner, log_vars
  <2>3. ~Has(mail, "down")
    BY <1>1, <2>2 DEF ConnPhase
  <2>4. n + Cardinality({i \in DOMAIN todo : todo[i] = "log"}) + 2 <= MaxLog
    BY <1>2, <1>3, <2>2, LogSize
  <2>5. Owed' = One(Has(todo, "log")) + 2
    BY <2>1, <2>2, <2>3 DEF Owed, One
  <2>6. One(Has(todo, "log")) <= Cardinality({i \in DOMAIN todo : todo[i] = "log"})
        /\ One(Has(todo, "log")) \in Nat /\ Cardinality({i \in DOMAIN todo : todo[i] = "log"}) \in Nat
    BY <1>1, CountHas DEF Queues, One
  <2>7. n + Owed' <= MaxLog
    BY <1>3, <2>4, <2>5, <2>6
  <2> QED
    BY <1>10, <2>2, <2>7
<1>12. CASE Sends("down") /\ runner_down
  <2>1. \A e : Has(mail, e)' <=> Has(mail, e) \/ e = "down"
    BY <1>1, <1>12, Sent DEF Msgs
  <2>2. alive /\ runner_pid /\ alive' = FALSE /\ todo' = todo /\ log' = log
    BY <1>12 DEF runner_down, log_vars
  <2>3. ~Has(mail, "connect") /\ ~Has(mail, "down")
    BY <1>1, <2>2 DEF ConnPhase
  <2>4. Owed' = Owed
    BY <2>1, <2>2, <2>3 DEF Owed, One
  <2> QED
    BY <1>2, <1>3, <1>10, <2>2, <2>4
<1>13. ASSUME NEW x \in Msgs \ {"connect", "down"}, Sends(x), UNCHANGED <<log, alive>>
       PROVE  LogPhase'
  <2>1. \A e : Has(mail, e)' <=> Has(mail, e) \/ e = x
    BY <1>1, <1>13, Sent
  <2>2. Owed' = Owed
    BY <1>13, <2>1, OwedKept DEF Sends
  <2> QED
    BY <1>2, <1>3, <1>10, <1>13, <2>2 DEF Sends
<1>14. CASE Rests /\ UNCHANGED <<log, alive>>
  <2>1. Owed' = Owed
    BY <1>14 DEF Rests, Owed
  <2> QED
    BY <1>2, <1>3, <1>10, <1>14, <2>1 DEF Rests
<1> QED
  <2>1. report \/ jobs_updated \/ runner_connected \/ instant_job \/ tell_subscribers \/ reads \/ UNCHANGED vars
          => UNCHANGED <<log, alive>>
    BY ReadsRest DEF report, jobs_updated, runner_connected, page_alone, instant_job, tell_subscribers, vars,
                     conn_vars, log_vars
  <2> QED
    BY <1>5, <1>6, <1>7, <1>8, <1>9, <1>11, <1>12, <1>13, <1>14, <2>1, QueueKinds DEF Requests, Msgs

-----------------------------------------------------------------------------
(* Types.                                                                  *)

\* The event that is told is the last one of the log.
LEMMA LastEvent ==
  ASSUME BInv, log_event
  PROVE  Cardinality(log) \in log
<1>1. PICK n \in 0..MaxLog : log = 1..n /\ (Doing({"tell"}) => n > 0)
  BY DEF BInv, LogPhase
<1>2. n \in Nat /\ n > 0
  BY <1>1, BoundsAssumption DEF log_event, Doing
<1>3. Cardinality(log) = n
  BY <1>1, <1>2, LogSize
<1> QED
  BY <1>1, <1>2, <1>3

LEMMA LogTyped ==
  ASSUME BInv, [Next]_vars
  PROVE  log' \subseteq Events /\ told' \subseteq log' /\ log \subseteq log'
<1>1. log' \subseteq Events
  <2>1. PICK n \in 0..MaxLog : log' = 1..n
    BY LogKept DEF LogPhase
  <2> QED
    BY <2>1, BoundsAssumption DEF Events
<1>2. told \subseteq log
  BY DEF BInv, TypeOK
<1>3. CASE UNCHANGED log_vars
  BY <1>1, <1>2, <1>3 DEF log_vars
<1>4. CASE insert_event
  BY <1>1, <1>2, <1>4 DEF insert_event
<1>5. CASE log_event
  BY <1>1, <1>2, <1>5, LastEvent DEF log_event
<1> QED
  BY <1>3, <1>4, <1>5, Frames

\* What a message to the subscribers does to the page.
LEMMA DispatchTyped ==
  ASSUME inbox \in Seq(Notes), ~subscribed => inbox = <<>>, NEW m \in Notes, Dispatch(m), log' = log
  PROVE  inbox' \in Seq(Notes') /\ (~subscribed' => inbox' = <<>>)
         /\ UNCHANGED <<pc, mounting, subscribed, view, shown, known, torn>>
         /\ missed' \in BOOLEAN \cup {missed}
BY DEF Dispatch, Notes

Reading == {"closed", "connected", "answer", "pending", "filter", "active", "completed", "subscribe", "log", "idle"}
Views   == [connected : BOOLEAN, pending : SUBSET Jobs, active : SUBSET Jobs, completed : SUBSET Jobs]

LEMMA AfterTyped == \A step : After(step) \in Reading
BY DEF After, Reading

\* The page's own variables.
PageTyped ==
  /\ {mounting, subscribed, torn, missed} \subseteq BOOLEAN
  /\ pc \in Reading /\ known \subseteq Jobs /\ view \in Views
  /\ shown \subseteq log /\ inbox \in Seq(Notes) /\ (~subscribed => inbox = <<>>)

LEMMA BlankTyped == Blank \in Views
BY DEF Blank, Views

LEMMA PageKept ==
  ASSUME BInv, [Next]_vars
  PROVE  PageTyped'
<1>1. /\ PageTyped /\ {server, runner_pid, alive} \subseteq BOOLEAN
      /\ log \subseteq log' /\ registered \subseteq Jobs
  BY LogTyped DEF BInv, TypeOK, PageTyped, Reading, Views
<1>2. Notes \subseteq Notes' /\ inbox \in Seq(Notes')
  <2>1. Notes \subseteq Notes'
    BY <1>1 DEF Notes, Update, LogEvent
  <2> QED
    BY <1>1, <2>1 DEF PageTyped
<1>3. CASE UNCHANGED page_vars
  BY <1>1, <1>2, <1>3 DEF page_vars, PageTyped
<1>4. ASSUME NEW m \in Notes, Dispatch(m), log' = log
      PROVE  PageTyped'
  BY <1>1, <1>4, DispatchTyped DEF PageTyped
<1>5. CASE notify_board_update \/ tell_subscribers
  BY <1>4, <1>5 DEF notify_board_update, tell_subscribers, log_vars, Notes
<1>6. CASE log_event
  BY <1>4, <1>6, LastEvent DEF log_event, Notes
<1>7. CASE get_runner_connected
  <2>1. /\ view' = [view EXCEPT !.connected = runner_pid /\ alive] /\ pc' = After("connected")
        /\ UNCHANGED <<mounting, subscribed, inbox, shown, known, torn, missed>>
    BY <1>7 DEF get_runner_connected
  <2>2. view' \in Views
    BY <1>1, <2>1 DEF PageTyped, Views
  <2> QED
    BY <1>1, <1>2, <2>1, <2>2, AfterTyped DEF PageTyped
<1>8. ASSUME Closed
      PROVE  PageTyped'
  <2>1. inbox' = <<>> /\ view' = Blank
    BY <1>8 DEF Closed
  <2>2. inbox' \in Seq(Notes') /\ view' \in Views
    BY <2>1, BlankTyped
  <2> QED
    BY <1>8, <2>1, <2>2 DEF Closed, PageTyped, Reading
<1>9. CASE raises
  <2>1. CASE Closed
    BY <1>8, <2>1
  <2>2. CASE torn' = (pc # "closed") /\ UNCHANGED <<pc, mounting, subscribed, inbox, view, shown, known, missed>>
    BY <1>1, <1>2, <2>2 DEF PageTyped
  <2> QED
    BY <1>9, <2>1, <2>2 DEF raises
<1>10. CASE runner_connected
  <2>1. /\ pc' \in Reading /\ UNCHANGED <<mounting, subscribed, inbox, shown, known, torn, missed>>
        /\ view' = view \/ view' = [view EXCEPT !.connected = FALSE]
    BY <1>10, AfterTyped DEF runner_connected, Reading
  <2>2. view' \in Views
    BY <1>1, <2>1 DEF PageTyped, Views
  <2> QED
    BY <1>1, <1>2, <2>1, <2>2 DEF PageTyped
<1>11. CASE reads
  <2>1. log' = log
    BY <1>11, ReadsRest DEF log_vars
  <2>2. CASE mount
    BY <1>1, <1>2, <2>2 DEF mount, PageTyped, Reading
  <2>3. CASE pending_jobs
    <3>1. /\ view' = [view EXCEPT !.pending = In("pending")] /\ known' \subseteq Jobs /\ pc' \in Reading
          /\ UNCHANGED <<mounting, subscribed, inbox, shown, torn, missed>>
      BY <2>3, AfterTyped DEF pending_jobs
    <3>2. view' \in Views
      BY <1>1, <3>1 DEF PageTyped, Views, In
    <3> QED
      BY <1>1, <1>2, <3>1, <3>2 DEF PageTyped
  <2>4. CASE job_active \/ active_jobs \/ completed_jobs
    <3>1. /\ \/ view' = [view EXCEPT !.pending = @ \ registered]
             \/ view' = [view EXCEPT !.active = registered]
             \/ view' = [view EXCEPT !.completed = In("completed")]
          /\ pc' \in Reading
          /\ UNCHANGED <<mounting, subscribed, inbox, shown, known, torn, missed>>
      BY <2>4, AfterTyped DEF job_active, active_jobs, completed_jobs
    <3>2. view' \in Views
      BY <1>1, <3>1 DEF PageTyped, Views, In
    <3> QED
      BY <1>1, <1>2, <3>1, <3>2 DEF PageTyped
  <2>5. CASE subscribe
    BY <1>1, <1>2, <2>5, AfterTyped DEF subscribe, PageTyped
  <2>6. CASE board_log
    BY <1>1, <1>2, <2>1, <2>6, AfterTyped DEF board_log, PageTyped
  <2>7. CASE handle_info
    <3>1. inbox # <<>> /\ inbox' = Tail(inbox) /\ UNCHANGED <<subscribed, view, known>>
      BY <2>7 DEF handle_info
    <3>2. Head(inbox) \in Notes /\ inbox' \in Seq(Notes')
      BY <1>1, <1>2, <3>1, TailIndex DEF PageTyped
    <3>3. CASE Head(inbox).type = "update" /\ pc' = "connected" /\ mounting' = FALSE
               /\ torn' = FALSE /\ missed' = FALSE /\ UNCHANGED shown
      BY <1>1, <3>1, <3>2, <3>3 DEF PageTyped, Reading
    <3>4. CASE /\ Head(inbox).type = "log_event" /\ shown' = shown \cup {Head(inbox).event}
               /\ UNCHANGED <<pc, mounting, torn, missed>>
      <4>1. Head(inbox) # Update
        BY <3>4 DEF Update
      <4>2. PICK n \in log : Head(inbox) = LogEvent(n)
        BY <3>2, <4>1 DEF Notes
      <4>3. Head(inbox).event \in log
        BY <4>2 DEF LogEvent
      <4> QED
        BY <1>1, <3>1, <3>2, <3>4, <4>3 DEF PageTyped
    <3> QED
      BY <2>7, <3>3, <3>4 DEF handle_info
  <2>8. CASE leave
    BY <1>8, <2>8 DEF leave
  <2> QED
    BY <1>11, <2>2, <2>3, <2>4, <2>5, <2>6, <2>7, <2>8 DEF reads
<1> QED
  BY <1>3, <1>5, <1>6, <1>7, <1>9, <1>10, <1>11, Frames

LEMMA ServerTyped ==
  ASSUME BInv, [Next]_vars
  PROVE  {server', runner_pid', alive'} \subseteq BOOLEAN /\ creating' \in {"none", "row", "cast"}
<1>1. {server, runner_pid, alive} \subseteq BOOLEAN /\ creating \in {"none", "row", "cast"}
  BY DEF BInv, TypeOK
<1>2. server' \in BOOLEAN
  BY <1>1, QueueKinds DEF Takes, Performs, Schedules, Ends, Starts, Sends, Rests
<1>3. runner_pid' \in BOOLEAN /\ alive' \in BOOLEAN
  BY <1>1, Frames DEF conn_vars, runner_changes, raises, connect_runner, runner_down
<1>4. creating' \in {"none", "row", "cast"}
  BY <1>1, Frames DEF instant_job, jobs_updated, tell_subscribers
<1> QED
  BY <1>2, <1>3, <1>4

LEMMA TypeKept ==
  ASSUME BInv, [Next]_vars
  PROVE  TypeOK' /\ inbox' \in Seq(Notes')
<1>1. JobsInv' /\ PageTyped' /\ log' \subseteq Events /\ told' \subseteq log'
      /\ {server', runner_pid', alive'} \subseteq BOOLEAN /\ creating' \in {"none", "row", "cast"}
  BY JobsKept, PageKept, LogTyped, ServerTyped
<1>2. (ToSet(inbox) \subseteq {Update} \cup {LogEvent(n) : n \in log})'
  BY <1>1 DEF PageTyped, Notes, ToSet
<1> QED
  BY <1>1, <1>2 DEF TypeOK, JobsInv, PageTyped, Reading, Views

-----------------------------------------------------------------------------
(* The page: its question, its log and its lists.                          *)

LEMMA AfterIs ==
  /\ After("connected") = "pending" /\ After("pending") = "filter" /\ After("filter") = "active"
  /\ After("active") = "completed" /\ After("completed") = (IF mounting THEN "subscribe" ELSE "idle")
  /\ After("subscribe") = "log" /\ After("log") = "idle"
BY DEF After

\* The page's reads, by where they take it.
LEMMA ReadSteps ==
  ASSUME reads
  PROVE  /\ pc # "answer" /\ pc' # "answer"
         /\ pc' = "subscribe" => pc = "completed" /\ mounting
         /\ pc' = "log" => pc = "subscribe"
         /\ mounting' = mounting \/ pc' \in {"connected", "closed"}
BY AfterIs DEF reads, mount, pending_jobs, job_active, active_jobs, completed_jobs, subscribe, board_log,
               handle_info, leave, Closed

LEMMA AsksKept ==
  ASSUME BInv, [Next]_vars
  PROVE  Asks'
<1>1. Queues /\ Asks
  BY DEF BInv
<1>2. CASE Takes /\ handle
  <2>1. UNCHANGED <<pc, mounting>>
    BY <1>2 DEF handle, page_vars
  <2>2. Has(mail, "page")' => Has(mail, "page")
    BY <1>1, <1>2, Taken DEF Takes
  <2>3. Has(mail, Head(mail)) /\ (Head(mail) = "page" => ~Has(mail', "page"))
    BY <1>1, <1>2, Taken DEF Takes
  <2>4. Has(todo, "reply")' => Head(mail) = "page"
    BY <1>1, <1>2, Entered DEF Handles
  <2> QED
    BY <1>1, <2>1, <2>2, <2>3, <2>4 DEF Asks
<1>3. CASE Performs /\ (performs \/ schedule_jobs)
  <2>1. /\ Has(todo, "reply")' => Has(todo, "reply")
        /\ Has(todo, Head(todo))
        /\ Head(todo) = "reply" => todo' = <<>>
        /\ mail' = mail
    BY <1>1, <1>3, Performed DEF Performs
  <2>2. CASE get_runner_connected
    <3>1. Head(todo) = "reply" /\ pc' = "pending" /\ mounting' = mounting
      BY <2>2, AfterIs DEF get_runner_connected
    <3>2. ~Has(mail, "page") /\ ~Has(todo', "reply")
      BY <1>1, <2>1, <3>1, EmptyHas DEF Asks
    <3> QED
      BY <2>1, <3>1, <3>2 DEF Asks
  <2>3. CASE ~get_runner_connected
    <3>1. UNCHANGED <<pc, mounting>>
      BY <1>3, <2>3 DEF performs, notify_board_update, insert_event, log_event, runner_changes, mark_dispatched,
                        send_start_job, job_started, complete_jobs, unregister, sweep, schedule_jobs, page_vars, Dispatch
    <3> QED
      BY <1>1, <2>1, <3>1 DEF Asks
  <2> QED
    BY <2>2, <2>3
<1>4. CASE Schedules /\ schedule_jobs
  <2>1. todo \in Seq(Effects) /\ Shape(todo) /\ todo # <<>> /\ Head(todo) = "schedule"
    BY <1>1, <1>4 DEF Queues, Schedules, Doing
  <2>2. Has(todo, "reply")' => Has(todo, "reply")
    BY <1>4, <2>1, ScheduleShape, TailHas DEF Schedules
  <2> QED
    BY <1>1, <1>4, <2>2 DEF Asks, Schedules, schedule_jobs, page_vars
<1>5. CASE Ends /\ raises
  <2>1. ~Has(todo, "reply")' /\ ~Has(mail, "page")'
    BY <1>5, EmptyHas DEF Ends
  <2> QED
    BY <1>1, <1>5, <2>1 DEF Asks, raises, Closed
<1>6. CASE Starts /\ start_server
  <2>1. ~Has(todo, "reply")'
    BY <1>6, StartShape DEF Handles, Starts
  <2> QED
    BY <1>1, <1>6, <2>1 DEF Asks, start_server, page_vars
<1>7. ASSUME NEW x \in Msgs \ {"page"}, Sends(x), UNCHANGED page_vars
      PROVE  Asks'
  <2>1. \A e : Has(mail, e)' <=> Has(mail, e) \/ e = x
    BY <1>1, <1>7, Sent
  <2> QED
    BY <1>1, <1>7, <2>1 DEF Asks, Sends, page_vars
<1>8. CASE runner_connected
  <2>1. pc = "connected" /\ todo' = todo /\ mounting' = mounting
    BY <1>8 DEF runner_connected, page_alone
  <2>2. ~Has(todo, "reply") /\ ~Has(mail, "page")
    BY <1>1, <2>1 DEF Asks
  <2>3. pc' = "answer" \/ (mail' = mail /\ pc' = "pending")
    BY <1>8, <2>1, AfterIs DEF runner_connected
  <2> QED
    BY <2>1, <2>2, <2>3 DEF Asks
<1>9. CASE Rests /\ UNCHANGED <<pc, mounting>>
  BY <1>1, <1>9 DEF Asks, Rests
<1>10. CASE Rests /\ reads
  BY <1>1, <1>10, ReadSteps DEF Asks, Rests
<1> QED
  <2>1. connect_runner \/ runner_down \/ report \/ jobs_updated => UNCHANGED page_vars
    BY DEF connect_runner, runner_down, report, jobs_updated
  <2>2. instant_job \/ jobs_updated \/ tell_subscribers \/ UNCHANGED vars => UNCHANGED <<pc, mounting>>
    BY DEF instant_job, jobs_updated, tell_subscribers, Dispatch, page_vars, vars
  <2> QED
    BY <1>2, <1>3, <1>4, <1>5, <1>6, <1>7, <1>8, <1>9, <1>10, <2>1, <2>2, QueueKinds DEF Requests, Msgs

LEMMA InSet ==
  ASSUME NEW S, NEW q \in Seq(S)
  PROVE  \A e : e \in ToSet(q) <=> Has(q, e)
BY DEF ToSet, Has

LEMMA FollowsKept ==
  ASSUME BInv, [Next]_vars
  PROVE  Follows'
<1>1. Follows /\ Asks /\ inbox \in Seq(Notes) /\ inbox' \in Seq(Notes') /\ told \subseteq log
      /\ {mounting, subscribed, mounting', subscribed'} \subseteq BOOLEAN
  BY TypeKept DEF BInv, TypeOK
<1>2. CASE UNCHANGED page_vars /\ told' = told
  BY <1>1, <1>2 DEF Follows, page_vars
<1>3. ASSUME NEW m, Dispatch(m), told' = told \/ (\E n : m = LogEvent(n) /\ told' = told \cup {n})
      PROVE  Follows'
  <2>1. UNCHANGED <<pc, mounting, subscribed, shown>> /\ inbox' = IF subscribed THEN Append(inbox, m) ELSE inbox
    BY <1>3 DEF Dispatch
  <2>2. CASE subscribed
    <3>1. \A e : Has(inbox, e)' <=> Has(inbox, e) \/ e = m
      BY <1>1, <2>1, <2>2, AppendHas
    <3>2. \A e : e \in ToSet(inbox)' <=> e \in ToSet(inbox) \/ e = m
      BY <1>1, <3>1, InSet
    <3> QED
      BY <1>1, <1>3, <2>1, <3>2 DEF Follows
  <2>3. CASE ~subscribed
    BY <1>1, <2>1, <2>3 DEF Follows
  <2> QED
    BY <2>2, <2>3
<1>4. CASE notify_board_update \/ tell_subscribers \/ log_event
  BY <1>3, <1>4 DEF notify_board_update, tell_subscribers, log_event, log_vars
<1>5. CASE get_runner_connected
  <2>1. Has(todo, "reply")
    BY <1>5, Performed DEF get_runner_connected, BInv
  <2>2. pc = "answer" /\ pc' = "pending" /\ UNCHANGED <<mounting, subscribed, inbox, shown, told>>
    BY <1>1, <1>5, <2>1, AfterIs DEF get_runner_connected, Asks, log_vars
  <2> QED
    BY <1>1, <2>2 DEF Follows
<1>6. CASE raises
  <2>1. CASE Closed
    BY <2>1 DEF Closed, Follows
  <2>2. CASE UNCHANGED <<pc, mounting, subscribed, inbox, shown, told>>
    BY <1>1, <2>2 DEF Follows
  <2> QED
    BY <1>6, <2>1, <2>2 DEF raises, log_vars
<1>7. CASE runner_connected
  BY <1>1, <1>7, AfterIs DEF runner_connected, page_alone, log_vars, Follows
<1>8. CASE reads
  <2>1. told' = told
    BY <1>8, ReadsRest DEF log_vars
  <2>2. CASE mount
    BY <1>1, <2>1, <2>2 DEF mount, Follows
  <2>3. CASE pending_jobs \/ job_active \/ active_jobs \/ completed_jobs
    <3>1. /\ pc \in {"pending", "filter", "active", "completed"} /\ pc' # "log"
          /\ pc' = "idle" => ~mounting
          /\ UNCHANGED <<mounting, subscribed, inbox, shown>>
      BY <2>3, AfterIs DEF pending_jobs, job_active, active_jobs, completed_jobs
    <3> QED
      BY <1>1, <2>1, <3>1 DEF Follows
  <2>4. CASE subscribe
    <3>1. pc = "subscribe" /\ pc' = "log" /\ subscribed' = TRUE /\ mounting' = mounting
      BY <2>4, AfterIs DEF subscribe
    <3> QED
      BY <1>1, <3>1 DEF Follows, Asks
  <2>5. CASE board_log
    <3>1. pc = "log" /\ pc' = "idle" /\ subscribed' = subscribed /\ shown' = log /\ mounting' = mounting
      BY <2>5, AfterIs DEF board_log
    <3> QED
      BY <1>1, <2>1, <3>1 DEF Follows
  <2>6. CASE handle_info
    <3>1. inbox # <<>> /\ inbox' = Tail(inbox) /\ pc = "idle" /\ subscribed' = subscribed
      BY <2>6 DEF handle_info
    <3>2. \A e : Has(inbox, e) => Head(inbox) = e \/ Has(inbox, e)'
      BY <1>1, <3>1, TailHas
    <3>3. \A e : e \in ToSet(inbox) => Head(inbox) = e \/ e \in ToSet(inbox)'
      BY <1>1, <3>2, InSet
    <3>4. subscribed /\ \A n \in told : n \in shown \/ Head(inbox) = LogEvent(n) \/ LogEvent(n) \in ToSet(inbox)'
      BY <1>1, <3>1, <3>3 DEF Follows
    <3>5. \A n : LogEvent(n).type = "log_event" /\ LogEvent(n).event = n
      BY DEF LogEvent
    <3>6. CASE Head(inbox).type = "update" /\ UNCHANGED shown
      <4>1. \A n : Head(inbox) # LogEvent(n)
        BY <3>5, <3>6
      <4> QED
        BY <2>1, <3>1, <3>4, <3>6, <4>1, <2>6 DEF Follows, handle_info
    <3>7. CASE Head(inbox).type = "log_event" /\ shown' = shown \cup {Head(inbox).event} /\ UNCHANGED <<pc, mounting>>
      BY <2>1, <3>1, <3>4, <3>5, <3>7 DEF Follows
    <3> QED
      BY <2>6, <3>6, <3>7 DEF handle_info
  <2>7. CASE leave
    BY <2>7 DEF leave, Closed, Follows
  <2> QED
    BY <1>8, <2>2, <2>3, <2>4, <2>5, <2>6, <2>7 DEF reads
<1> QED
  <2>1. told' = told \/ log_event
    BY Frames DEF log_vars, insert_event
  <2> QED
    BY <1>2, <1>4, <1>5, <1>6, <1>7, <1>8, <2>1, Frames

\* A completed job stays completed, and a registered one stays so until it is
\* completed or its server dies.
LEMMA JobsMove ==
  ASSUME BInv, [Next]_vars
  PROVE  \A j \in Jobs : /\ row[j] = "completed" => row'[j] = "completed"
                         /\ ~raises /\ j \in registered => j \in registered' \/ row'[j] = "completed"
<1>1. JobsPhase /\ row \in [Jobs -> {"none", "pending", "dispatched", "completed"}]
  BY DEF BInv, TypeOK
<1>2. CASE UNCHANGED jobs_vars \/ schedule_jobs \/ send_start_job \/ job_started \/ raises
  <2>1. row' = row
    BY <1>2 DEF jobs_vars, schedule_jobs, send_start_job, job_started, raises
  <2>2. raises \/ registered \subseteq registered'
    BY <1>2 DEF jobs_vars, schedule_jobs, send_start_job, job_started
  <2> QED
    BY <2>1, <2>2
<1>3. CASE mark_dispatched
  <2>1. /\ registered' = registered /\ row' = [j \in Jobs |-> IF j \in registered THEN "dispatched" ELSE row[j]]
        /\ Doing({"mark"})
    BY <1>3 DEF mark_dispatched, Doing
  <2> QED
    BY <1>1, <2>1 DEF JobsPhase
<1>4. CASE complete_jobs
  BY <1>1, <1>4 DEF complete_jobs
<1>5. CASE sweep
  BY <1>1, <1>5 DEF sweep
<1>6. CASE unregister
  <2>1. row' = row /\ Doing({"unregister"})
    BY <1>6 DEF unregister, Doing
  <2> QED
    BY <1>1, <2>1 DEF JobsPhase
<1>7. CASE instant_job
  BY <1>1, <1>7 DEF instant_job, In
<1> QED
  BY <1>2, <1>3, <1>4, <1>5, <1>6, <1>7, Frames

LEMMA FindsKept ==
  ASSUME BInv, [Next]_vars
  PROVE  Finds'
<1>1. Finds /\ known \subseteq Jobs /\ view \in Views /\ row \in [Jobs -> {"none", "pending", "dispatched", "completed"}]
      /\ {torn, torn'} \subseteq BOOLEAN
  BY TypeKept DEF BInv, TypeOK, Views
<1>2. CASE UNCHANGED <<pc, view, known, torn>> /\ ~raises
  BY <1>1, <1>2, JobsMove DEF Finds, Found
<1>3. CASE raises
  <2>1. row' = row
    BY <1>3 DEF raises
  <2>2. CASE Closed
    BY <2>2 DEF Closed, Finds
  <2>3. CASE torn' = (pc # "closed") /\ pc' = pc
    BY <2>3 DEF Finds, Found
  <2> QED
    BY <1>3, <2>2, <2>3 DEF raises
<1>4. CASE get_runner_connected \/ runner_connected
  <2>1. pc' \in {"answer", "pending"}
    BY <1>4, AfterIs DEF get_runner_connected, runner_connected
  <2> QED
    BY <2>1 DEF Finds, Found
<1>5. CASE reads
  <2>1. UNCHANGED <<row, registered>>
    BY <1>5, ReadsRest DEF jobs_vars
  <2>2. CASE pending_jobs
    <3>1. /\ view' = [view EXCEPT !.pending = In("pending")] /\ pc' = "filter"
          /\ known' = {j \in Jobs : row[j] # "none" /\ ~(row[j] = "dispatched" /\ j \notin registered)}
      BY <2>2, AfterIs DEF pending_jobs
    <3>2. view'.pending = In("pending")
      BY <1>1, <3>1 DEF Views
    <3> QED
      BY <1>1, <2>1, <3>1, <3>2 DEF Finds, Found, In
  <2>3. CASE job_active
    <3>1. /\ view' = [view EXCEPT !.pending = @ \ registered] /\ pc = "filter" /\ pc' = "active"
          /\ UNCHANGED <<known, torn>>
      BY <2>3, AfterIs DEF job_active
    <3>2. view'.pending = view.pending \ registered
      BY <1>1, <3>1 DEF Views
    <3> QED
      BY <1>1, <2>1, <3>1, <3>2 DEF Finds, Found
  <2>4. CASE active_jobs
    <3>1. /\ view' = [view EXCEPT !.active = registered] /\ pc = "active" /\ pc' = "completed"
          /\ UNCHANGED <<known, torn>>
      BY <2>4, AfterIs DEF active_jobs
    <3>2. view'.pending = view.pending /\ view'.active = registered
      BY <1>1, <3>1 DEF Views
    <3> QED
      BY <1>1, <2>1, <3>1, <3>2 DEF Finds, Found
  <2>5. CASE completed_jobs
    <3>1. /\ view' = [view EXCEPT !.completed = In("completed")] /\ pc = "completed" /\ pc' \in {"subscribe", "idle"}
          /\ UNCHANGED <<known, torn>>
      BY <2>5, AfterIs DEF completed_jobs
    <3>2. view'.pending = view.pending /\ view'.active = view.active /\ view'.completed = In("completed")
      BY <1>1, <3>1 DEF Views
    <3> QED
      BY <1>1, <2>1, <3>1, <3>2 DEF Finds, Found, In
  <2>6. CASE subscribe \/ board_log
    <3>1. pc \in {"subscribe", "log"} /\ pc' \in {"log", "idle"} /\ UNCHANGED <<view, known, torn>>
      BY <2>6, AfterIs DEF subscribe, board_log
    <3> QED
      BY <1>1, <3>1 DEF Finds, Found
  <2>7. CASE handle_info
    <3>1. pc' = "connected" \/ UNCHANGED <<pc, view, known, torn>>
      BY <2>7 DEF handle_info
    <3> QED
      BY <1>1, <2>1, <3>1 DEF Finds, Found
  <2>8. CASE mount \/ leave
    <3>1. pc' \in {"connected", "closed"}
      BY <2>8 DEF mount, leave, Closed
    <3> QED
      BY <3>1 DEF Finds, Found
  <2> QED
    BY <1>5, <2>2, <2>3, <2>4, <2>5, <2>6, <2>7, <2>8 DEF reads
<1> QED
  <2>1. UNCHANGED page_vars \/ notify_board_update \/ log_event \/ tell_subscribers => UNCHANGED <<pc, view, known, torn>>
    BY DEF page_vars, notify_board_update, log_event, tell_subscribers, Dispatch
  <2> QED
    BY <1>2, <1>3, <1>4, <1>5, <2>1, Frames

-----------------------------------------------------------------------------
(* The page: its updates.                                                  *)

\* An update that is sent reaches the page, or is one it misses.
LEMMA DispatchDue ==
  ASSUME BInv, BInv => inbox' \in Seq(Notes'), Dispatch(Update), pc' # "closed"
  PROVE  Due'
<1>1. inbox \in Seq(Notes) /\ inbox' \in Seq(Notes')
  BY DEF BInv
<1>2. CASE subscribed
  <2>1. Has(inbox, Update)'
    BY <1>1, <1>2, AppendHas DEF Dispatch
  <2>2. Update \in ToSet(inbox)'
    BY <1>1, <2>1, InSet
  <2> QED
    BY <2>2 DEF Due
<1>3. CASE ~subscribed
  BY <1>3 DEF Dispatch, Due
<1> QED
  BY <1>2, <1>3

\* The page stays due an update until it begins to read anew.
LEMMA DueKept ==
  ASSUME BInv, [Next]_vars, Due, pc' \notin {"closed", "connected"}
  PROVE  Due'
<1>1. Queues /\ inbox \in Seq(Notes) /\ inbox' \in Seq(Notes')
  BY TypeKept DEF BInv
<1>2. \A e : (e \in ToSet(inbox) <=> Has(inbox, e)) /\ (e \in ToSet(inbox)' <=> Has(inbox, e)')
  BY <1>1, InSet
<1>3. ASSUME Dispatch(Update)
      PROVE  Due'
  BY <1>1, <1>3, DispatchDue
<1>4. CASE Update \in ToSet(inbox) \/ missed
  <2>1. CASE UNCHANGED <<inbox, missed>>
    BY <1>4, <2>1 DEF Due
  <2>2. ASSUME NEW m, Dispatch(m)
        PROVE  Due'
    <3>1. Has(inbox, Update) => Has(inbox, Update)'
      BY <1>1, <2>2, AppendHas DEF Dispatch
    <3> QED
      BY <1>2, <1>4, <2>2, <3>1 DEF Due, Dispatch
  <2>3. ~Closed
    BY DEF Closed
  <2>4. CASE handle_info
    <3>1. inbox # <<>> /\ inbox' = Tail(inbox) /\ Head(inbox).type = "log_event" /\ missed' = missed
      BY <2>4 DEF handle_info
    <3>2. Head(inbox) # Update
      BY <3>1 DEF Update
    <3>3. Has(inbox, Update) => Has(inbox, Update)'
      BY <1>1, <3>1, <3>2, TailHas
    <3> QED
      BY <1>2, <1>4, <3>1, <3>3 DEF Due
  <2>5. CASE reads /\ ~handle_info
    <3>1. UNCHANGED <<inbox, missed>>
      BY <2>3, <2>5 DEF reads, mount, pending_jobs, job_active, active_jobs, completed_jobs, subscribe, board_log, leave
    <3> QED
      BY <2>1, <3>1
  <2>6. UNCHANGED page_vars \/ get_runner_connected \/ raises \/ runner_connected => UNCHANGED <<inbox, missed>>
    BY <2>3 DEF page_vars, get_runner_connected, raises, runner_connected
  <2> QED
    BY <2>1, <2>2, <2>4, <2>5, <2>6, Frames DEF notify_board_update, log_event, tell_subscribers
<1>5. CASE creating # "none"
  <2>1. creating' # "none" \/ tell_subscribers
    BY <1>5, Frames DEF instant_job, jobs_updated
  <2> QED
    BY <1>3, <2>1 DEF Due, tell_subscribers
<1>6. CASE Has(todo, "notify")
  <2>1. todo # <<>> /\ server
    BY <1>1, <1>6, EmptyHas DEF Queues
  <2>2. CASE Performs /\ (performs \/ schedule_jobs)
    <3>1. Head(todo) = "notify" \/ Has(todo, "notify")'
      BY <1>1, <1>6, <2>2, Performed DEF Performs
    <3>2. Head(todo) = "notify" => notify_board_update
      BY <2>2 DEF performs, schedule_jobs, insert_event, log_event, runner_changes, mark_dispatched, send_start_job,
                  job_started, complete_jobs, unregister, sweep, get_runner_connected
    <3> QED
      BY <1>3, <3>1, <3>2 DEF Due, notify_board_update
  <2>3. CASE Schedules
    <3>1. todo \in Seq(Effects) /\ Shape(todo) /\ Head(todo) = "schedule"
      BY <1>1, <2>3 DEF Queues, Schedules, Doing
    <3>2. Has(todo, "notify")'
      BY <1>6, <2>1, <2>3, <3>1, ScheduleShape, TailHas DEF Schedules
    <3> QED
      BY <3>2 DEF Due
  <2>4. CASE Ends
    BY <2>4 DEF Ends, Due
  <2>5. CASE todo' = todo
    BY <1>6, <2>5 DEF Due
  <2> QED
    BY <2>1, <2>2, <2>3, <2>4, <2>5, QueueKinds DEF Takes, Starts, Sends, Rests
<1>7. CASE ~server
  <2>1. ~server' \/ Has(todo, "notify")'
    BY <1>1, <1>7, QueueKinds, StartShape DEF Takes, Performs, Schedules, Doing, Queues, Ends, Starts, Sends, Rests
  <2> QED
    BY <2>1 DEF Due
<1>8. CASE Has(mail, "down")
  <2>1. CASE Takes
    <3>1. Head(mail) = "down" \/ Has(mail, "down")'
      BY <1>1, <1>8, <2>1, Taken DEF Takes
    <3>2. Head(mail) = "down" => Has(todo, "notify")'
      BY <1>1, <2>1, Entered DEF Handles
    <3> QED
      BY <3>1, <3>2 DEF Due
  <2>2. CASE mail' = mail
    BY <1>8, <2>2 DEF Due
  <2>3. ASSUME NEW x \in Msgs, Sends(x)
        PROVE  Due'
    BY <1>1, <1>8, <2>3, Sent DEF Due
  <2>4. CASE Ends
    BY <2>4 DEF Ends, Due
  <2> QED
    BY <2>1, <2>2, <2>3, <2>4, QueueKinds DEF Performs, Schedules, Starts, Rests, Requests, Msgs
<1> QED
  BY <1>4, <1>5, <1>6, <1>7, <1>8 DEF Due

\* How the page comes to the reads after the server's answer.
LEMMA AskedStep ==
  ASSUME BInv, [Next]_vars
  PROVE  /\ Asked' => Asked \/ get_runner_connected \/ (runner_connected /\ ~server)
         /\ pc' \notin {"closed", "connected"} => pc \notin {"closed", "connected"} \/ runner_connected
         /\ pc = "answer" /\ pc' # "answer" => get_runner_connected \/ raises
         /\ get_runner_connected => pc = "answer" /\ ~Has(mail, "page") /\ todo' = <<>>
<1>1. ASSUME get_runner_connected
      PROVE  pc = "answer" /\ ~Has(mail, "page") /\ todo' = <<>>
  <2>1. Has(todo, "reply") /\ todo' = <<>>
    BY <1>1, Performed DEF BInv, get_runner_connected
  <2> QED
    BY <2>1 DEF BInv, Asks
<1>2. CASE UNCHANGED page_vars \/ notify_board_update \/ log_event \/ tell_subscribers
  <2>1. pc' = pc
    BY <1>2 DEF page_vars, notify_board_update, log_event, tell_subscribers, Dispatch
  <2> QED
    BY <1>1, <2>1 DEF Asked
<1>3. CASE raises
  BY <1>1, <1>3 DEF raises, Closed, Asked
<1>4. CASE runner_connected
  BY <1>1, <1>4 DEF runner_connected, Asked
<1>5. CASE reads
  <2>1. pc' \in {"closed", "connected"} \/ pc \notin {"closed", "connected", "answer"}
    BY <1>5 DEF reads, mount, pending_jobs, job_active, active_jobs, completed_jobs, subscribe, board_log,
                handle_info, leave, Closed
  <2> QED
    BY <1>1, <1>5, <2>1, ReadSteps DEF Asked
<1>6. CASE get_runner_connected
  BY <1>1, <1>6
<1> QED
  BY <1>2, <1>3, <1>4, <1>5, <1>6, Frames

\* Whoever is to change what pages show will tell this one.
LEMMA ChangesAnnounced ==
  ASSUME BInv, [Next]_vars, Asked', NEW e \in Changing, Has(todo, e)'
  PROVE  Due'
<1>1. Queues /\ Announced
  BY DEF BInv
<1>2. pc' \notin {"closed", "connected"}
  BY DEF Asked
<1>3. CASE Asked /\ \E f \in Changing : Has(todo, f)
  BY <1>1, <1>2, <1>3, DueKept DEF Announced
<1>4. CASE Asked /\ \A f \in Changing : ~Has(todo, f)
  <2>1. CASE Takes
    <3>1. Has(todo, "notify")' \/ Head(mail) = "cast"
      BY <1>1, <2>1, Entered DEF Handles
    <3>2. CASE Head(mail) = "cast"
      <4>1. mail \in Seq(Msgs) /\ mail # <<>>
        BY <1>1, <2>1 DEF Queues, Takes
      <4>2. 1 \in 1..Len(mail) /\ mail[1] = "cast"
        BY <3>2, <4>1, TailIndex
      <4>3. Behind(1) /\ pc \notin {"closed", "connected"}
        BY <1>4 DEF Behind, Asked
      <4>4. Due
        BY <1>1, <4>2, <4>3 DEF Announced
      <4> QED
        BY <1>2, <4>4, DueKept
    <3> QED
      BY <3>1, <3>2 DEF Due
  <2>2. CASE Performs
    BY <1>1, <1>4, <2>2, Performed DEF Performs
  <2>3. CASE Schedules
    <3>1. Has(todo, "schedule")
      BY <1>1, <2>3, TailHas DEF Schedules, Doing, Queues
    <3> QED
      BY <1>4, <3>1 DEF Changing
  <2>4. CASE Ends
    BY <2>4, EmptyHas DEF Ends
  <2>5. CASE Starts
    BY <2>5, StartShape DEF Starts, Due
  <2>6. CASE todo' = todo
    BY <1>4, <2>6
  <2> QED
    BY <2>1, <2>2, <2>3, <2>4, <2>5, <2>6, QueueKinds DEF Sends, Rests
<1>5. CASE get_runner_connected
  BY <1>5, AskedStep, EmptyHas
<1>6. CASE runner_connected /\ ~server
  BY <1>1, <1>6, EmptyHas DEF runner_connected, page_alone, Queues
<1> QED
  BY <1>3, <1>4, <1>5, <1>6, AskedStep

\* A cast that was not in the mailbox before the page's question comes with an update.
LEMMA CastsAnnounced ==
  ASSUME BInv, [Next]_vars, pc' \notin {"closed", "connected"},
         NEW i \in 1..Len(mail'), mail'[i] = "cast", Behind(i)'
  PROVE  Due'
<1>1. Queues /\ Announced /\ mail \in Seq(Msgs) /\ Len(mail) \in Nat
  BY DEF BInv, Queues
<1>2. pc' = "answer" => \A k \in 1..Len(mail') : mail'[k] = "page" => k < i
  BY DEF Behind
<1>3. CASE runner_connected
  <2>1. CASE server
    <3>1. mail' = Append(mail, "page") /\ pc' = "answer"
      BY <1>3, <2>1 DEF runner_connected
    <3>2. Len(mail') = Len(mail) + 1 /\ mail'[Len(mail) + 1] = "page"
      BY <1>1, <3>1
    <3> QED
      BY <1>1, <1>2, <3>1, <3>2
  <2>2. CASE ~server
    <3>1. mail' = <<>>
      BY <1>1, <1>3, <2>2 DEF runner_connected, Queues
    <3> QED
      BY <3>1
  <2> QED
    BY <2>1, <2>2
<1>4. ASSUME ~runner_connected, NEW k \in 1..Len(mail), mail[k] = "cast", Behind(k)
      PROVE  Due'
  <2>1. pc \notin {"closed", "connected"}
    BY <1>4, AskedStep
  <2>2. Due
    BY <1>1, <1>4, <2>1 DEF Announced
  <2> QED
    BY <2>2, DueKept
<1>5. ASSUME ~runner_connected
      PROVE  Due'
  <2>1. CASE Takes /\ handle
    <3>1. /\ Len(mail') = Len(mail) - 1 /\ i + 1 \in 1..Len(mail) /\ mail[i + 1] = "cast"
          /\ \A k \in 1..Len(mail') : mail'[k] = mail[k + 1]
      BY <1>1, <2>1, TailIndex DEF Takes
    <3>2. pc' = pc
      BY <2>1 DEF handle, page_vars
    <3>3. ASSUME pc = "answer", NEW k \in 1..Len(mail), mail[k] = "page"
          PROVE  k < i + 1
      <4>1. CASE k = 1
        BY <4>1
      <4>2. CASE k # 1
        <5>1. k - 1 \in 1..Len(mail') /\ (k - 1) + 1 = k
          BY <1>1, <3>1, <4>2
        <5>2. k - 1 < i
          BY <1>2, <3>1, <3>2, <3>3, <5>1
        <5> QED
          BY <5>2, <3>1
      <4> QED
        BY <4>1, <4>2
    <3>4. Behind(i + 1)
      BY <3>3 DEF Behind
    <3> QED
      BY <1>4, <1>5, <3>1, <3>4
  <2>2. CASE mail' = mail /\ ~raises
    <3>1. ASSUME pc = "answer", NEW k \in 1..Len(mail), mail[k] = "page"
          PROVE  k < i
      <4>1. Has(mail, "page")
        BY <3>1 DEF Has
      <4>2. pc' = "answer"
        BY <2>2, <3>1, <4>1, AskedStep
      <4> QED
        BY <1>2, <2>2, <3>1, <4>2
    <3>2. Behind(i)
      BY <3>1 DEF Behind
    <3> QED
      BY <1>4, <1>5, <2>2, <3>2
  <2>3. ASSUME NEW x \in Msgs, Sends(x), UNCHANGED pc, x = "cast" => jobs_updated
        PROVE  Due'
    <3>1. /\ Len(mail') = Len(mail) + 1 /\ mail'[Len(mail) + 1] = x
          /\ \A k \in 1..Len(mail) : mail'[k] = mail[k]
      BY <1>1, <2>3 DEF Sends
    <3>2. CASE i = Len(mail) + 1
      BY <2>3, <3>1, <3>2 DEF jobs_updated, Due
    <3>3. CASE i # Len(mail) + 1
      <4>1. i \in 1..Len(mail) /\ mail[i] = "cast" /\ \A k \in 1..Len(mail) : k \in 1..Len(mail')
        BY <1>1, <3>1, <3>3
      <4>2. Behind(i)
        BY <1>2, <2>3, <3>1, <4>1 DEF Behind
      <4> QED
        BY <1>4, <1>5, <4>1, <4>2
    <3> QED
      BY <3>2, <3>3
  <2>4. CASE Ends
    <3>1. mail' = <<>>
      BY <2>4 DEF Ends
    <3> QED
      BY <3>1
  <2>5. raises => Ends
    BY DEF raises, Ends
  <2>6. connect_runner \/ runner_down \/ report \/ jobs_updated => UNCHANGED pc
    BY DEF connect_runner, runner_down, report, jobs_updated, page_vars
  <2> QED
    BY <1>5, <2>1, <2>2, <2>3, <2>4, <2>5, <2>6, QueueKinds DEF Performs, Schedules, Starts, Rests, Requests, Msgs
<1> QED
  BY <1>3, <1>5

LEMMA AnnouncedKept ==
  ASSUME BInv, [Next]_vars
  PROVE  Announced'
<1>1. ASSUME Asked', \E e \in Changing : Has(todo, e)'
      PROVE  Due'
  BY <1>1, ChangesAnnounced
<1>2. ASSUME pc' \notin {"closed", "connected"}, NEW i \in 1..Len(mail'), mail'[i] = "cast", Behind(i)'
      PROVE  Due'
  BY <1>2, CastsAnnounced
<1> QED
  BY <1>1, <1>2 DEF Announced

\* A board that owes the page nothing does not change under it.
LEMMA BoardStands ==
  ASSUME BInv, [Next]_vars, Asked, ~Due, ~Due'
  PROVE  /\ row' = row /\ registered' = registered
         /\ (runner_pid /\ alive)' <=> (runner_pid /\ alive)
         /\ ~raises
<1>1. Queues /\ ~Has(todo, "notify") /\ creating = "none" /\ server /\ server' /\ ~Has(mail, "down")
  BY DEF BInv, Due
<1>2. \A e \in Changing : ~Has(todo, e)
  BY DEF BInv, Announced
<1>3. todo # <<>> => Head(todo) \notin Changing
  BY <1>1, <1>2, TailHas DEF Queues
<1>4. ~raises
  BY <1>1 DEF raises
<1>5. ~schedule_jobs /\ ~mark_dispatched /\ ~send_start_job /\ ~complete_jobs /\ ~unregister /\ ~sweep /\ ~runner_changes
  BY <1>3 DEF schedule_jobs, mark_dispatched, send_start_job, complete_jobs, unregister, sweep, runner_changes, Changing
<1>6. ~instant_job
  BY DEF instant_job, Due
<1>7. ~runner_down
  <2>1. runner_down => Sends("down") \/ Has(mail, "down")
    BY <1>1 DEF runner_down, Sends
  <2>2. Sends("down") => Has(mail, "down")'
    BY <1>1, Sent DEF Msgs
  <2> QED
    BY <1>1, <2>1, <2>2 DEF Due
<1>8. row' = row /\ registered' = registered
  BY <1>4, <1>5, <1>6, Frames DEF jobs_vars, job_started
<1>9. (runner_pid /\ alive)' <=> (runner_pid /\ alive)
  <2>1. UNCHANGED conn_vars \/ connect_runner
    BY <1>4, <1>5, <1>7, Frames
  <2>2. runner_pid' = runner_pid /\ (alive' = alive \/ ~runner_pid)
    BY <2>1 DEF conn_vars, connect_runner
  <2> QED
    BY <2>2
<1> QED
  BY <1>4, <1>8, <1>9

LEMMA FreshKept ==
  ASSUME BInv, [Next]_vars
  PROVE  Fresh'
<1> SUFFICES ASSUME Asked', ~Due'
             PROVE  /\ view'.connected = (runner_pid' /\ alive')
                    /\ pc' = "filter" => view'.pending = In("pending")'
                    /\ pc' \in {"active", "completed", "subscribe", "log", "idle"} => view'.pending = Pending'
                    /\ pc' \in {"completed", "subscribe", "log", "idle"} => view'.active = registered'
                    /\ pc' \in {"subscribe", "log", "idle"} => view'.completed = In("completed")'
  BY DEF Fresh
<1>1. view \in Views /\ {runner_pid, alive, runner_pid', alive'} \subseteq BOOLEAN
  BY ServerTyped DEF BInv, TypeOK, Views
<1>2. ~Due
  BY DueKept DEF Asked
<1>3. CASE get_runner_connected
  <2>1. view' = [view EXCEPT !.connected = runner_pid /\ alive] /\ pc' = "pending" /\ UNCHANGED conn_vars
    BY <1>3, AfterIs DEF get_runner_connected
  <2>2. view'.connected = (runner_pid /\ alive)
    BY <1>1, <2>1 DEF Views
  <2> QED
    BY <2>1, <2>2 DEF conn_vars
<1>4. CASE runner_connected /\ ~server
  BY <1>2, <1>4 DEF Due
<1>5. CASE Asked
  <2>1. /\ row' = row /\ registered' = registered /\ ~raises
        /\ (runner_pid' /\ alive') <=> (runner_pid /\ alive)
    BY <1>2, <1>5, BoardStands
  <2>2. (runner_pid' /\ alive') = (runner_pid /\ alive)
    BY <1>1, <2>1
  <2>3. In("pending")' = In("pending") /\ In("completed")' = In("completed") /\ Pending' = Pending
    BY <2>1 DEF In, Pending
  <2>4. /\ view.connected = (runner_pid /\ alive)
        /\ pc = "filter" => view.pending = In("pending")
        /\ pc \in {"active", "completed", "subscribe", "log", "idle"} => view.pending = Pending
        /\ pc \in {"completed", "subscribe", "log", "idle"} => view.active = registered
        /\ pc \in {"subscribe", "log", "idle"} => view.completed = In("completed")
    BY <1>2, <1>5 DEF BInv, Fresh
  <2>5. CASE pc' = pc /\ view' = view
    BY <2>1, <2>2, <2>3, <2>4, <2>5
  <2>6. CASE pending_jobs
    <3>1. view' = [view EXCEPT !.pending = In("pending")] /\ pc' = "filter"
      BY <2>6, AfterIs DEF pending_jobs
    <3>2. view'.pending = In("pending") /\ view'.connected = view.connected
      BY <1>1, <3>1 DEF Views
    <3> QED
      BY <2>2, <2>3, <2>4, <3>1, <3>2
  <2>7. CASE job_active
    <3>1. view' = [view EXCEPT !.pending = @ \ registered] /\ pc = "filter" /\ pc' = "active"
      BY <2>7, AfterIs DEF job_active
    <3>2. view'.pending = view.pending \ registered /\ view'.connected = view.connected
      BY <1>1, <3>1 DEF Views
    <3>3. view'.pending = Pending
      BY <2>4, <3>1, <3>2 DEF Pending
    <3> QED
      BY <2>2, <2>3, <2>4, <3>1, <3>2, <3>3
  <2>8. CASE active_jobs
    <3>1. view' = [view EXCEPT !.active = registered] /\ pc = "active" /\ pc' = "completed"
      BY <2>8, AfterIs DEF active_jobs
    <3>2. view'.pending = view.pending /\ view'.active = registered /\ view'.connected = view.connected
      BY <1>1, <3>1 DEF Views
    <3> QED
      BY <2>1, <2>2, <2>3, <2>4, <3>1, <3>2
  <2>9. CASE completed_jobs
    <3>1. view' = [view EXCEPT !.completed = In("completed")] /\ pc = "completed"
      BY <2>9 DEF completed_jobs
    <3>2. /\ view'.pending = view.pending /\ view'.active = view.active /\ view'.connected = view.connected
          /\ view'.completed = In("completed")
      BY <1>1, <3>1 DEF Views
    <3>3. pc' \in {"subscribe", "idle"}
      BY <2>9, AfterIs DEF completed_jobs
    <3> QED
      BY <2>1, <2>2, <2>3, <2>4, <3>1, <3>2, <3>3
  <2>10. CASE subscribe \/ board_log
    <3>1. view' = view /\ pc \in {"subscribe", "log"} /\ pc' \in {"log", "idle"}
      BY <2>10, AfterIs DEF subscribe, board_log
    <3> QED
      BY <2>1, <2>2, <2>3, <2>4, <3>1
  <2>11. CASE handle_info
    <3>1. pc' = "connected" \/ (pc' = pc /\ view' = view)
      BY <2>11 DEF handle_info
    <3> QED
      BY <2>5, <3>1 DEF Asked
  <2>12. ~mount /\ ~leave /\ ~runner_connected
    BY <1>5 DEF mount, leave, Closed, runner_connected, Asked
  <2>13. UNCHANGED page_vars \/ notify_board_update \/ log_event \/ tell_subscribers => pc' = pc /\ view' = view
    BY DEF page_vars, notify_board_update, log_event, tell_subscribers, Dispatch
  <2> QED
    BY <1>3, <2>1, <2>5, <2>6, <2>7, <2>8, <2>9, <2>10, <2>11, <2>12, <2>13, Frames DEF reads
<1> QED
  BY <1>3, <1>4, <1>5, AskedStep

-----------------------------------------------------------------------------
(* What always holds.                                                      *)

LEMMA BoardPageInit == Init => BInv
<1> SUFFICES ASSUME Init
             PROVE  BInv
  OBVIOUS
<1>1. /\ todo = <<>> /\ mail = <<>> /\ inbox = <<>> /\ registered = {} /\ active = {} /\ waiting = {}
      /\ server = FALSE /\ runner_pid = FALSE /\ alive = FALSE /\ creating = "none" /\ log = {} /\ told = {}
      /\ pc = "closed" /\ mounting = FALSE /\ subscribed = FALSE /\ view = Blank /\ shown = {}
      /\ known = {} /\ torn = FALSE /\ missed = FALSE
      /\ row \in [Jobs -> {"none", "pending", "dispatched", "completed"}]
  BY DEF Init
<1>2. ~Doing({"mark", "send"}) /\ ~Doing({"mark"}) /\ ~Doing({"unregister"}) /\ ~Doing({"tell"})
  BY <1>1 DEF Doing
<1>3. \A e : ~Has(todo, e) /\ ~Has(mail, e)
  BY <1>1, EmptyHas
<1>4. TypeOK /\ inbox \in Seq(Notes)
  <2>1. ToSet(inbox) = {}
    BY <1>1 DEF ToSet
  <2>2. view \in Views
    BY <1>1, BlankTyped
  <2>3. inbox \in Seq(Notes)
    BY <1>1
  <2> QED
    BY <1>1, <2>1, <2>2, <2>3 DEF TypeOK, Views
<1>5. Queues
  BY <1>1 DEF Queues, Shape, Single
<1>6. JobsPhase
  BY <1>1, <1>2 DEF JobsPhase
<1>7. ConnPhase
  BY <1>1, <1>3 DEF ConnPhase
<1>8. LogPhase
  <2>1. Owed = 0
    BY <1>1, <1>3 DEF Owed, One
  <2>2. 0 \in 0..MaxLog /\ 0 + Owed <= MaxLog /\ log = 1..0
    BY <1>1, <2>1, BoundsAssumption
  <2> QED
    BY <1>2, <2>2 DEF LogPhase
<1>9. Asks /\ Follows /\ Finds
  BY <1>1, <1>3 DEF Asks, Follows, Finds
<1>10. Announced /\ Fresh
  BY <1>1 DEF Announced, Fresh, Asked
<1> QED
  BY <1>4, <1>5, <1>6, <1>7, <1>8, <1>9, <1>10 DEF BInv

LEMMA BoardPageNext == BInv /\ [Next]_vars => BInv'
<1> SUFFICES ASSUME BInv, [Next]_vars
             PROVE  BInv'
  OBVIOUS
<1>1. TypeOK' /\ (inbox \in Seq(Notes))' /\ Queues' /\ JobsPhase' /\ ConnPhase' /\ LogPhase'
  BY TypeKept, QueueStep, JobsKept, ConnKept, LogKept DEF JobsInv
<1>2. Asks' /\ Follows' /\ Finds' /\ Announced' /\ Fresh'
  BY AsksKept, FollowsKept, FindsKept, AnnouncedKept, FreshKept
<1> QED
  BY <1>1, <1>2 DEF BInv

\* The inductive invariant of the page and the board holds in every reachable
\* state.
THEOREM BoardPageInvariant == Spec => []BInv
BY BoardPageInit, BoardPageNext, PTL DEF Spec

\* The types of the page and of the board's state: the server's list of jobs
\* never runs ahead of the registry, the log has its bound, and only a page
\* that subscribed is sent messages.
THEOREM BoardPageTypeCorrect == Spec => []TypeOK
<1>1. BInv => TypeOK
  BY DEF BInv
<1> QED
  BY <1>1, BoardPageInvariant, PTL

\* Whatever the handlers of the server do between update_board_state's reads,
\* a job that existed at the first one is in one of the page's three lists
\* after the last one.
THEOREM NoJobVanishesHolds == Spec => []NoJobVanishes
<1>1. BInv => NoJobVanishes
  <2> SUFFICES ASSUME BInv, pc \in {"subscribe", "log", "idle"}, ~torn, NEW j \in known
               PROVE  j \in view.pending \cup view.active \cup view.completed
    BY DEF NoJobVanishes
  <2>1. Found(j)
    BY DEF BInv, Finds
  <2> QED
    BY <2>1 DEF Found
<1> QED
  BY <1>1, BoardPageInvariant, PTL

\* Between mount's subscription and its query of the log, and in all the
\* handle_info that follow, no event that was told to the subscribers is lost
\* to the page.
THEOREM LogIsCompleteHolds == Spec => []LogIsComplete
<1>1. BInv => LogIsComplete
  BY DEF BInv, Follows, LogIsComplete
<1> QED
  BY <1>1, BoardPageInvariant, PTL

\* A page that waits for nothing, of a board that has nothing to do, shows that
\* board, although its reads ran between the effects of the server's handlers
\* and notify_board_update was called before the changes it announces.
THEOREM PageIsCurrentHolds == Spec => []PageIsCurrent
<1>1. BInv => PageIsCurrent
  <2> SUFFICES ASSUME BInv, pc = "idle", inbox = <<>>, server, todo = <<>>, mail = <<>>, creating = "none", ~missed
               PROVE  view = Board
    BY DEF PageIsCurrent
  <2>1. ToSet(inbox) = {}
    BY DEF ToSet
  <2>2. ~Due
    BY <2>1, EmptyHas DEF Due
  <2>3. /\ view.connected = (runner_pid /\ alive) /\ view.pending = Pending
        /\ view.active = registered /\ view.completed = In("completed")
    BY <2>2 DEF BInv, Fresh, Asked
  <2>4. view = [connected |-> view.connected, pending |-> view.pending,
                active |-> view.active, completed |-> view.completed]
    BY DEF BInv, TypeOK
  <2> QED
    BY <2>3, <2>4 DEF Board
<1> QED
  BY <1>1, BoardPageInvariant, PTL

\* How far a job has come.
Progress(state) ==
  CASE state = "none" -> 0 [] state = "pending" -> 1 [] state = "dispatched" -> 2 [] OTHER -> 3

\* No effect takes a job back, whichever handler, creation or restart it is
\* part of: Job.mark_dispatched and complete_jobs update rows by their number,
\* whatever the rows say by then.
JobsMoveForward == [][\A j \in Jobs : Progress(row[j]) <= Progress(row'[j])]_vars

\* The rows only move forward, because mark_dispatched is reached only while
\* the registered jobs are pending and a creation takes a row that is not there.
THEOREM JobsMoveForwardHolds == Spec => JobsMoveForward
<1>1. ASSUME BInv, [Next]_vars, NEW j \in Jobs
      PROVE  Progress(row[j]) <= Progress(row'[j])
  <2>1. JobsPhase /\ row \in [Jobs -> {"none", "pending", "dispatched", "completed"}]
    BY <1>1 DEF BInv, TypeOK
  <2>2. CASE row'[j] = row[j]
    BY <2>2 DEF Progress
  <2>3. CASE mark_dispatched
    <3>1. /\ Doing({"mark"}) /\ row' = [k \in Jobs |-> IF k \in registered THEN "dispatched" ELSE row[k]]
      BY <2>3 DEF mark_dispatched, Doing
    <3>2. row'[j] = row[j] \/ (row[j] = "pending" /\ row'[j] = "dispatched")
      BY <2>1, <3>1 DEF JobsPhase
    <3> QED
      BY <2>2, <3>2 DEF Progress
  <2>4. CASE complete_jobs \/ sweep
    <3>1. row'[j] \in {row[j], "completed"}
      BY <2>4 DEF complete_jobs, sweep
    <3> QED
      BY <2>1, <2>2, <3>1 DEF Progress
  <2>5. CASE instant_job
    <3>1. row'[j] = row[j] \/ (row[j] = "none" /\ row'[j] = "pending")
      BY <2>1, <2>5 DEF instant_job, In
    <3> QED
      BY <2>2, <3>1 DEF Progress
  <2>6. UNCHANGED jobs_vars \/ schedule_jobs \/ send_start_job \/ job_started \/ unregister \/ raises => row' = row
    BY DEF jobs_vars, schedule_jobs, send_start_job, job_started, unregister, raises
  <2> QED
    BY <1>1, <2>2, <2>3, <2>4, <2>5, <2>6, Frames
<1>2. BInv /\ [Next]_vars => [\A j \in Jobs : Progress(row[j]) <= Progress(row'[j])]_vars
  BY <1>1
<1> QED
  BY <1>2, BoardPageInvariant, PTL DEF Spec, JobsMoveForward

=============================================================================
