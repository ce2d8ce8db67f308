---------------------------- MODULE TunnelProofs ----------------------------
(***************************************************************************)
(* What the two ends of a tunnel receive is in the order it was sent, and  *)
(* upwards nothing is missing, for any number of bytes and any sizes of    *)
(* the streams.                                                            *)
(***************************************************************************)
EXTENDS Tunnel, TLAPS

\* The bytes of s follow byte a without a gap.
Run(s, a) == \A n \in 1..Len(s) : s[n] = a + n

\* A message on its way: what is in a WebSocket, and what a relay holds.
Msg(ws)         == IF ws = <<>> THEN <<>> ELSE ws[1]
Held(buf, busy) == IF busy THEN buf ELSE <<>>

\* Upwards: what the service has read or its stream holds is followed by what
\* the task has still to write of its message, the WebSocket's message, the
\* handler's and the client's stream, each while it can still arrive.
Received == got_up \o tcp_service
UpT == Held(tbuf, task = "write_all")
UpW == Msg(ws_up)
UpH == Held(hbuf, handler = "yield")
AfterT == Len(Received) + Len(UpT)
AfterW == AfterT + Len(UpW)
AfterH == AfterW + Len(UpH)

Arriving == service = "open" /\ task \in {"select", "send", "write_all"}

UpFacts ==
  /\ Run(Received, 0)
  /\ Arriving =>
       /\ Run(UpT, Len(Received))
       /\ Run(UpW, AfterT)
       /\ handler # "ended" => Run(UpH, AfterW) /\ Run(tcp_up, AfterH) /\ AfterH + Len(tcp_up) = sent_up

\* Downwards: the client has bytes up to a; the handler's message, the
\* WebSocket's, the task's and the service's stream follow.
Delivered == got_down \o tcp_client
DownH == Held(hbuf, handler = "write")
DownW == Msg(ws_down)
DownT == Held(tbuf, task = "send")

Increasing(s) == \A m, n \in 1..Len(s) : m < n => s[m] < s[n]
UpTo(s, a)    == \A n \in 1..Len(s) : s[n] <= a

DownFacts(a) ==
  handler # "ended" =>
    /\ UpTo(Delivered, a)
    /\ Run(DownH, a)
    /\ Run(DownW, a + Len(DownH))
    /\ task \notin {"close", "ended"} =>
         /\ Run(DownT, a + Len(DownH) + Len(DownW))
         /\ Run(tcp_down, a + Len(DownH) + Len(DownW) + Len(DownT))
         /\ a + Len(DownH) + Len(DownW) + Len(DownT) + Len(tcp_down) = sent_down

IInv ==
  /\ TypeOK
  /\ UpFacts
  /\ Increasing(Delivered)
  /\ \E a \in Nat : DownFacts(a)

-----------------------------------------------------------------------------
(* Sequences.                                                              *)

\* A read takes bytes from the front.
LEMMA Split ==
  ASSUME NEW s \in Seq(Nat), NEW n \in 0..Len(s)
  PROVE  /\ SubSeq(s, 1, n) \in Seq(Nat) /\ Len(SubSeq(s, 1, n)) = n
         /\ Rest(s, n) \in Seq(Nat) /\ Len(Rest(s, n)) = Len(s) - n
         /\ \A m \in 1..n : SubSeq(s, 1, n)[m] = s[m]
         /\ \A m \in 1..(Len(s) - n) : Rest(s, n)[m] = s[m + n]
BY DEF Rest

\* Reading splits a run in two.
LEMMA SplitRun ==
  ASSUME NEW s \in Seq(Nat), NEW n \in 0..Len(s), NEW a \in Nat, Run(s, a)
  PROVE  Run(SubSeq(s, 1, n), a) /\ Run(Rest(s, n), a + n)
<1> DEFINE h == SubSeq(s, 1, n)
           r == Rest(s, n)
<1>0. /\ h \in Seq(Nat) /\ Len(h) = n
      /\ r \in Seq(Nat) /\ Len(r) = Len(s) - n
      /\ \A m \in 1..n : h[m] = s[m]
      /\ \A m \in 1..(Len(s) - n) : r[m] = s[m + n]
  BY Split
<1>1. Len(s) \in Nat /\ \A m \in 1..Len(s) : s[m] = a + m
  BY DEF Run
<1>2. \A m \in 1..n : h[m] = a + m
  BY <1>0, <1>1
<1>3. ASSUME NEW m \in 1..(Len(s) - n) PROVE r[m] = a + n + m
  <2>1. m + n \in 1..Len(s)
    BY <1>1
  <2>2. s[m + n] = a + (m + n)
    BY <1>1, <2>1
  <2> QED BY <1>0, <1>1, <2>2
<1> QED BY <1>0, <1>2, <1>3 DEF Run

\* Writing joins them.
LEMMA JoinRun ==
  ASSUME NEW s \in Seq(Nat), NEW t \in Seq(Nat), NEW a \in Nat, Run(s, a), Run(t, a + Len(s))
  PROVE  s \o t \in Seq(Nat) /\ Len(s \o t) = Len(s) + Len(t) /\ Run(s \o t, a)
<1>1. s \o t \in Seq(Nat) /\ Len(s \o t) = Len(s) + Len(t)
  OBVIOUS
<1>2. ASSUME NEW n \in 1..Len(s \o t) PROVE (s \o t)[n] = a + n
  <2>0. Len(s) \in Nat /\ Len(t) \in Nat
    OBVIOUS
  <2>1. CASE n <= Len(s)
    <3>1. n \in 1..Len(s) /\ (s \o t)[n] = s[n]
      BY <1>1, <2>0, <2>1
    <3> QED BY <3>1 DEF Run
  <2>2. CASE n > Len(s)
    <3>1. n - Len(s) \in 1..Len(t) /\ (s \o t)[n] = t[n - Len(s)]
      BY <1>1, <2>0, <2>2
    <3>2. t[n - Len(s)] = a + Len(s) + (n - Len(s))
      BY <3>1 DEF Run
    <3> QED BY <2>0, <3>1, <3>2
  <2> QED BY <1>1, <2>0, <2>1, <2>2
<1> QED BY <1>1, <1>2 DEF Run

\* Sending extends a run.
LEMMA AppendRun ==
  ASSUME NEW s \in Seq(Nat), NEW a \in Nat, NEW b \in Nat, Run(s, a), b = a + Len(s) + 1
  PROVE  Append(s, b) \in Seq(Nat) /\ Len(Append(s, b)) = Len(s) + 1 /\ Run(Append(s, b), a)
<1>1. Append(s, b) \in Seq(Nat) /\ Len(Append(s, b)) = Len(s) + 1 /\ Len(s) \in Nat
  OBVIOUS
<1>2. ASSUME NEW n \in 1..Len(Append(s, b)) PROVE Append(s, b)[n] = a + n
  <2>1. CASE n <= Len(s)
    <3>1. n \in 1..Len(s) /\ Append(s, b)[n] = s[n]
      BY <1>1, <2>1
    <3> QED BY <3>1 DEF Run
  <2>2. CASE n = Len(s) + 1
    BY <1>1, <2>2
  <2> QED BY <1>1, <2>1, <2>2
<1> QED BY <1>1, <1>2 DEF Run

\* A write continues what was delivered.
LEMMA JoinIncreasing ==
  ASSUME NEW s \in Seq(Nat), NEW t \in Seq(Nat), NEW a \in Nat, Increasing(s), UpTo(s, a), Run(t, a)
  PROVE  Increasing(s \o t) /\ UpTo(s \o t, a + Len(t))
<1>0. /\ s \o t \in Seq(Nat) /\ Len(s \o t) = Len(s) + Len(t) /\ Len(s) \in Nat /\ Len(t) \in Nat
      /\ s \in [1..Len(s) -> Nat]
  OBVIOUS
<1>1. ASSUME NEW n \in 1..Len(s) PROVE n \in 1..Len(s \o t) /\ (s \o t)[n] = s[n] /\ s[n] <= a /\ s[n] \in Nat
  BY <1>0 DEF UpTo
<1>2. ASSUME NEW n \in 1..Len(s \o t), n > Len(s) PROVE (s \o t)[n] = a + (n - Len(s))
  <2>1. n - Len(s) \in 1..Len(t) /\ (s \o t)[n] = t[n - Len(s)]
    BY <1>0, <1>2
  <2> QED BY <2>1 DEF Run
<1>3. ASSUME NEW n \in 1..Len(s \o t) PROVE (s \o t)[n] <= a + Len(t)
  <2>1. CASE n <= Len(s)
    BY <1>0, <1>1, <2>1
  <2>2. CASE n > Len(s)
    BY <1>0, <1>2, <2>2
  <2> QED BY <1>0, <2>1, <2>2
<1>4. ASSUME NEW m \in 1..Len(s \o t), NEW n \in 1..Len(s \o t), m < n PROVE (s \o t)[m] < (s \o t)[n]
  <2>1. CASE n <= Len(s)
    <3>1. m \in 1..Len(s) /\ n \in 1..Len(s)
      BY <1>0, <1>4, <2>1
    <3> QED BY <1>1, <1>4, <3>1 DEF Increasing
  <2>2. CASE m <= Len(s) /\ n > Len(s)
    BY <1>0, <1>1, <1>2, <2>2
  <2>3. CASE m > Len(s)
    <3>1. n > Len(s)
      BY <1>0, <1>4, <2>3
    <3>2. (s \o t)[m] = a + (m - Len(s)) /\ (s \o t)[n] = a + (n - Len(s))
      BY <1>2, <2>3, <3>1
    <3> QED BY <1>0, <1>4, <3>2
  <2> QED BY <1>0, <2>1, <2>2, <2>3
<1> QED BY <1>3, <1>4 DEF Increasing, UpTo

\* A message of a WebSocket.
LEMMA Message ==
  ASSUME NEW ws \in Seq(Seq(Nat)), Len(ws) <= 1
  PROVE  /\ Msg(ws) \in Seq(Nat)
         /\ ws # <<>> => Head(ws) = Msg(ws)
         /\ \A s \in Seq(Nat) : Msg(<<s>>) = s /\ <<s>> # <<>> /\ <<s>> \in Seq(Seq(Nat)) /\ Len(<<s>>) = 1
BY DEF Msg

LEMMA ConcatNats ==
  ASSUME NEW s \in Seq(Nat), NEW t \in Seq(Nat), NEW u \in Seq(Nat)
  PROVE  (s \o t) \o u = s \o (t \o u)
OBVIOUS

\* What a read may take.
LEMMA ReadBounds ==
  ASSUME NEW s \in Seq(Nat), NEW eof \in BOOLEAN, NEW n \in Read(s, eof)
  PROVE  n \in 0..Len(s)
BY BufferAssumption DEF Read

-----------------------------------------------------------------------------
(* Types.                                                                  *)

LEMMA TypesStep == TypeOK /\ [Next]_vars => TypeOK'
<1> SUFFICES ASSUME TypeOK, [Next]_vars PROVE TypeOK'
  OBVIOUS
<1> USE BytesAssumption DEF serv
<1>0. CASE UNCHANGED vars
  BY <1>0 DEF TypeOK, vars
<1>1. CASE client_sends
  BY <1>1 DEF TypeOK, client_sends, hand, tsk
<1>2. CASE client_reads
  BY <1>2 DEF TypeOK, client_reads, peers, hand, tsk
<1>3. CASE service_sends
  BY <1>3 DEF TypeOK, service_sends, hand, tsk
<1>4. CASE client_closes
  BY <1>4 DEF TypeOK, client_closes, hand, tsk
<1>5. CASE service_closes
  BY <1>5 DEF TypeOK, service_closes, hand, tsk
<1>6. CASE handler_read
  <2>1. PICK n \in Read(tcp_up, client = "closed") : hbuf' = SubSeq(tcp_up, 1, n) /\ tcp_up' = Rest(tcp_up, n)
    BY <1>6 DEF handler_read
  <2>2. hbuf' \in Seq(Nat) /\ tcp_up' \in Seq(Nat)
    BY <2>1, ReadBounds, Split DEF TypeOK
  <2> QED BY <1>6, <2>2 DEF TypeOK, handler_read, HandlerStep, peers, tsk
<1>7. CASE handler_yield
  <2>1. ws_up' \in Seq(Seq(Nat)) /\ Len(ws_up') <= 1
    BY <1>7, Message DEF TypeOK, handler_yield
  <2> QED BY <1>7, <2>1 DEF TypeOK, handler_yield, HandlerStep, peers, tsk
<1>8. CASE handler_next
  <2>1. hbuf' \in Seq(Nat)
    BY <1>8, Message DEF TypeOK, handler_next
  <2> QED BY <1>8, <2>1 DEF TypeOK, handler_next, HandlerStep, peers, tsk
<1>9. CASE handler_write
  <2>1. tcp_client' \in Seq(Nat)
    <3>1. CASE hbuf = <<>> /\ UNCHANGED tcp_client
      BY <3>1 DEF TypeOK
    <3>2. CASE \E n \in 1..(Window - Len(tcp_client)) :
                 n <= Len(hbuf) /\ tcp_client' = tcp_client \o SubSeq(hbuf, 1, n)
      <4>1. PICK n \in Nat : n <= Len(hbuf) /\ tcp_client' = tcp_client \o SubSeq(hbuf, 1, n)
        BY <3>2
      <4>2. SubSeq(hbuf, 1, n) \in Seq(Nat)
        <5>1. hbuf \in Seq(Nat) /\ n \in 0..Len(hbuf)
          BY <4>1 DEF TypeOK
        <5> QED BY <5>1, Split
      <4> QED BY <4>1, <4>2 DEF TypeOK
    <3> QED BY <1>9, <3>1, <3>2 DEF handler_write
  <2> QED BY <1>9, <2>1 DEF TypeOK, handler_write, HandlerStep, peers, tsk
<1>10. CASE handler_ends
  BY <1>10 DEF TypeOK, handler_ends, HandlerStep, peers, tsk
<1>11. CASE task_read
  <2>1. PICK n \in Read(tcp_down, service = "closed") : tbuf' = SubSeq(tcp_down, 1, n) /\ tcp_down' = Rest(tcp_down, n)
    BY <1>11 DEF task_read
  <2>2. tbuf' \in Seq(Nat) /\ tcp_down' \in Seq(Nat)
    BY <2>1, ReadBounds, Split DEF TypeOK
  <2> QED BY <1>11, <2>2 DEF TypeOK, task_read, TaskStep, peers, hand
<1>12. CASE task_send
  <2>1. ws_down' \in Seq(Seq(Nat)) /\ Len(ws_down') <= 1
    BY <1>12, Message DEF TypeOK, task_send
  <2> QED BY <1>12, <2>1 DEF TypeOK, task_send, TaskStep, peers, hand
<1>13. CASE task_next
  <2>1. tbuf' \in Seq(Nat)
    BY <1>13, Message DEF TypeOK, task_next
  <2> QED BY <1>13, <2>1 DEF TypeOK, task_next, TaskStep, peers, hand
<1>14. CASE task_write_all
  <2>1. tcp_service' \in Seq(Nat) /\ tbuf' \in Seq(Nat)
    <3>0. tbuf \in Seq(Nat) /\ tcp_service \in Seq(Nat) /\ <<>> \in Seq(Nat)
      BY DEF TypeOK
    <3>1. CASE UNCHANGED tcp_service /\ tbuf' \in {tbuf, <<>>}
      BY <3>0, <3>1
    <3>2. CASE \E n \in 1..(Window - Len(tcp_service)) :
                 /\ n <= Len(tbuf)
                 /\ tcp_service' = tcp_service \o SubSeq(tbuf, 1, n)
                 /\ tbuf' = Rest(tbuf, n)
      <4>0. Window \in Nat /\ Len(tcp_service) \in Nat /\ Len(tbuf) \in Nat
        BY <3>0, BufferAssumption
      <4>1. PICK n \in 1..(Window - Len(tcp_service)) :
              /\ n <= Len(tbuf)
              /\ tcp_service' = tcp_service \o SubSeq(tbuf, 1, n)
              /\ tbuf' = Rest(tbuf, n)
        BY <3>2
      <4>2. n \in 0..Len(tbuf)
        BY <4>0, <4>1
      <4>3. SubSeq(tbuf, 1, n) \in Seq(Nat) /\ Rest(tbuf, n) \in Seq(Nat)
        BY <3>0, <4>2, Split
      <4> QED BY <3>0, <4>1, <4>3
    <3> QED BY <1>14, <3>1, <3>2 DEF task_write_all
  <2> QED BY <1>14, <2>1 DEF TypeOK, task_write_all, TaskStep, peers, hand
<1>15. CASE task_close
  BY <1>15 DEF TypeOK, task_close, TaskStep, peers, hand
<1>16. CASE tell
  BY <1>16 DEF TypeOK, tell, TaskStep, peers, hand
<1>17. CASE task_shutdown
  BY <1>17 DEF TypeOK, task_shutdown, TaskStep, peers, hand
<1>18. CASE task_breaks
  BY <1>18 DEF TypeOK, task_breaks, TaskStep, peers, hand
<1>19. CASE service_reads
  BY <1>19 DEF TypeOK, service_reads, peers, hand, tsk
<1> QED BY <1>0, <1>1, <1>2, <1>3, <1>4, <1>5, <1>6, <1>7, <1>8, <1>9, <1>10, <1>11, <1>12, <1>13, <1>14, <1>15,
           <1>16, <1>17, <1>18, <1>19 DEF Next, handles, relays

-----------------------------------------------------------------------------
(* Upwards.                                                                *)

\* A step that moves no byte on the way up, or ends the way.
LEMMA UpKept ==
  ASSUME UpFacts, Received' = Received,
         Arriving' => /\ Arriving
                      /\ UpT' = UpT /\ UpW' = UpW
                      /\ handler' # "ended" => /\ handler # "ended"
                                               /\ UpH' = UpH /\ tcp_up' = tcp_up /\ sent_up' = sent_up
  PROVE  UpFacts'
BY DEF UpFacts, AfterT, AfterW, AfterH

LEMMA UpStep ==
  ASSUME TypeOK, TypeOK', UpFacts, [Next]_vars
  PROVE  UpFacts'
<1>0. /\ UpT \in Seq(Nat) /\ UpW \in Seq(Nat) /\ UpH \in Seq(Nat) /\ tcp_up \in Seq(Nat)
      /\ got_up \in Seq(Nat) /\ tcp_service \in Seq(Nat) /\ Received \in Seq(Nat)
      /\ tbuf \in Seq(Nat) /\ hbuf \in Seq(Nat)
      /\ sent_up \in Nat
  BY BytesAssumption, Message DEF TypeOK, UpT, UpW, UpH, Held, Received
<1>1. /\ Len(Received) \in Nat /\ Len(UpT) \in Nat /\ Len(UpW) \in Nat /\ Len(UpH) \in Nat
      /\ Len(tcp_up) \in Nat
      /\ AfterT \in Nat /\ AfterW \in Nat /\ AfterH \in Nat
  BY <1>0 DEF AfterT, AfterW, AfterH
<1>2. Len(<<>>) = 0 /\ <<>> \in Seq(Nat) /\ \A a : Run(<<>>, a)
  BY DEF Run
<1>3. CASE client_sends
  <2>1. /\ UpT' = UpT /\ UpW' = UpW /\ UpH' = UpH /\ Received' = Received /\ Arriving' = Arriving
        /\ handler' = handler /\ handler # "ended"
        /\ sent_up' = sent_up + 1 /\ tcp_up' = Append(tcp_up, sent_up + 1)
    BY <1>3 DEF client_sends, hand, tsk, UpT, UpW, UpH, Held, Arriving, Received, serv
  <2>2. CASE Arriving
    <3>1. Run(tcp_up, AfterH) /\ sent_up + 1 = AfterH + Len(tcp_up) + 1
      BY <1>1, <2>1, <2>2 DEF UpFacts
    <3>2. Run(tcp_up', AfterH) /\ Len(tcp_up') = Len(tcp_up) + 1
      BY <1>0, <1>1, <2>1, <3>1, AppendRun
    <3> QED BY <1>1, <2>1, <2>2, <3>1, <3>2 DEF UpFacts, AfterT, AfterW, AfterH
  <2> QED BY <2>1, <2>2, UpKept
<1>4. CASE handler_read
  <2>1. PICK n \in Read(tcp_up, client = "closed") : hbuf' = SubSeq(tcp_up, 1, n) /\ tcp_up' = Rest(tcp_up, n)
    BY <1>4 DEF handler_read
  <2>2. /\ n \in 0..Len(tcp_up) /\ Len(hbuf') = n /\ Len(tcp_up') = Len(tcp_up) - n
    BY <1>0, <2>1, ReadBounds, Split
  <2>3. /\ UpT' = UpT /\ UpW' = UpW /\ UpH = <<>> /\ UpH' = hbuf' /\ Received' = Received /\ Arriving' = Arriving
        /\ handler # "ended" /\ sent_up' = sent_up
    BY <1>4 DEF handler_read, HandlerStep, peers, tsk, UpT, UpW, UpH, Held, Arriving, Received, serv
  <2>4. CASE Arriving
    <3>1. AfterH = AfterW /\ Run(tcp_up, AfterW) /\ AfterW + Len(tcp_up) = sent_up
      BY <1>1, <1>2, <2>3, <2>4 DEF UpFacts, AfterH
    <3>2. Run(hbuf', AfterW) /\ Run(tcp_up', AfterW + n)
      BY <1>0, <1>1, <2>1, <2>2, <3>1, SplitRun
    <3>3. AfterT' = AfterT /\ AfterW' = AfterW /\ AfterH' = AfterW + n
      BY <2>2, <2>3 DEF AfterT, AfterW, AfterH
    <3> QED BY <1>1, <2>2, <2>3, <2>4, <3>1, <3>2, <3>3 DEF UpFacts
  <2> QED BY <2>3, <2>4, UpKept
<1>5. CASE handler_yield
  <2>1. ws_up' = <<hbuf>> /\ Msg(ws_up') = hbuf
    BY <1>0, <1>5, Message DEF handler_yield, TypeOK
  <2>2. /\ UpT' = UpT /\ UpW = <<>> /\ UpW' = hbuf /\ UpH = hbuf /\ UpH' = <<>>
        /\ Received' = Received /\ Arriving' = Arriving
        /\ handler # "ended" /\ sent_up' = sent_up /\ tcp_up' = tcp_up
    BY <1>5, <2>1 DEF handler_yield, HandlerStep, peers, tsk, UpT, UpW, UpH, Msg, Held, Arriving, Received, serv
  <2>3. CASE Arriving
    <3>1. AfterW = AfterT /\ AfterT' = AfterT /\ AfterW' = AfterH /\ AfterH' = AfterH
      BY <1>0, <1>1, <1>2, <2>2 DEF AfterT, AfterW, AfterH
    <3> QED BY <1>2, <2>2, <2>3, <3>1 DEF UpFacts
  <2> QED BY <2>2, <2>3, UpKept
<1>6. CASE handler_ends
  <2>1. /\ UpT' = UpT /\ UpW' = UpW /\ Received' = Received /\ Arriving' = Arriving /\ handler' = "ended"
    BY <1>6 DEF handler_ends, HandlerStep, peers, tsk, UpT, UpW, Held, Arriving, Received, serv
  <2> QED BY <2>1, UpKept
<1>7. CASE task_next
  <2>1. tbuf' = UpW
    BY <1>7, Message DEF task_next, TypeOK, UpW
  <2>2. /\ UpT = <<>> /\ UpT' = UpW /\ UpW' = <<>> /\ UpH' = UpH
        /\ Received' = Received /\ Arriving' = Arriving
        /\ handler' = handler /\ sent_up' = sent_up /\ tcp_up' = tcp_up
    BY <1>7, <2>1 DEF task_next, TaskStep, peers, hand, UpT, UpW, UpH, Msg, Held, Arriving, Received, serv
  <2>3. CASE Arriving
    <3>1. AfterT = Len(Received) /\ AfterT' = AfterW /\ AfterW' = AfterW /\ AfterH' = AfterH
      BY <1>1, <1>2, <2>2 DEF AfterT, AfterW, AfterH
    <3> QED BY <1>2, <2>2, <2>3, <3>1 DEF UpFacts
  <2> QED BY <2>2, <2>3, UpKept
<1>8. CASE task_write_all
  <2>1. /\ UpT = tbuf /\ UpT' = tbuf' /\ UpW' = UpW /\ UpH' = UpH
        /\ Arriving' = Arriving /\ Arriving = (service = "open")
        /\ handler' = handler /\ sent_up' = sent_up /\ tcp_up' = tcp_up /\ got_up' = got_up
    BY <1>8 DEF task_write_all, TaskStep, peers, hand, UpT, UpW, UpH, Held, Arriving
  <2>2. CASE \E n \in 1..(Window - Len(tcp_service)) :
               /\ service = "open" /\ n <= Len(tbuf)
               /\ tcp_service' = tcp_service \o SubSeq(tbuf, 1, n)
               /\ tbuf' = Rest(tbuf, n)
    <3>1. PICK n \in 0..Len(tbuf) : tcp_service' = tcp_service \o SubSeq(tbuf, 1, n) /\ tbuf' = Rest(tbuf, n)
      <4>1. Window \in Nat /\ Len(tcp_service) \in Nat /\ Len(tbuf) \in Nat
        BY <1>0, BufferAssumption
      <4>2. PICK k \in 1..(Window - Len(tcp_service)) :
              /\ k <= Len(tbuf)
              /\ tcp_service' = tcp_service \o SubSeq(tbuf, 1, k)
              /\ tbuf' = Rest(tbuf, k)
        BY <2>2
      <4>3. k \in 0..Len(tbuf)
        BY <4>1, <4>2
      <4> QED BY <4>2, <4>3
    <3> DEFINE x == SubSeq(tbuf, 1, n)
    <3>2. x \in Seq(Nat) /\ Len(x) = n /\ Len(tbuf') = Len(tbuf) - n /\ tbuf' \in Seq(Nat)
      BY <1>0, <3>1, Split
    <3>3. Run(Received, 0) /\ Run(tbuf, Len(Received))
      BY <2>1, <2>2 DEF UpFacts
    <3>4. Run(x, Len(Received)) /\ Run(tbuf', Len(Received) + n)
      BY <1>0, <1>1, <3>1, <3>3, SplitRun
    <3> HIDE DEF x
    <3>5. Received' = Received \o x
      <4>1. Received' = got_up \o (tcp_service \o x)
        BY <2>1, <3>1 DEF Received, x
      <4>2. got_up \in Seq(Nat) /\ tcp_service \in Seq(Nat) /\ x \in Seq(Nat)
        BY <1>0, <3>2
      <4>3. (got_up \o tcp_service) \o x = got_up \o (tcp_service \o x)
        BY <4>2, ConcatNats
      <4> QED BY <4>1, <4>3 DEF Received
    <3>6. 0 + Len(Received) = Len(Received)
      BY <1>1
    <3>7. Run(Received', 0) /\ Len(Received') = Len(Received) + n
      BY <1>0, <3>2, <3>3, <3>4, <3>5, <3>6, JoinRun
    <3>8. AfterT' = AfterT /\ AfterW' = AfterW /\ AfterH' = AfterH
      <4>1. AfterT' = AfterT
        <5>1. AfterT' = (Len(Received) + n) + (Len(tbuf) - n) /\ AfterT = Len(Received) + Len(tbuf)
          BY <2>1, <3>2, <3>7 DEF AfterT
        <5>2. Len(Received) \in Nat /\ Len(tbuf) \in Nat /\ n \in Nat
          BY <1>0, <1>1
        <5> QED BY <5>1, <5>2
      <4> QED BY <2>1, <4>1 DEF AfterW, AfterH
    <3> QED BY <2>1, <2>2, <3>4, <3>7, <3>8 DEF UpFacts
  <2>3. CASE service = "closed" /\ UNCHANGED tcp_service
    BY <2>1, <2>3, UpKept DEF Received
  <2>4. CASE service = "open" /\ tbuf' = tbuf /\ UNCHANGED tcp_service
    BY <2>1, <2>4, UpKept DEF Received
  <2> QED BY <1>8, <2>2, <2>3, <2>4 DEF task_write_all
<1>9. CASE task_shutdown \/ task_breaks \/ task_close
  <2>1. Received' = Received /\ ~Arriving'
    BY <1>9 DEF task_shutdown, task_breaks, task_close, TaskStep, Arriving, Received, serv
  <2> QED BY <2>1, UpKept
<1>10. CASE service_closes
  <2>1. Received' = Received /\ ~Arriving'
    BY <1>10 DEF service_closes, Arriving, Received, serv
  <2> QED BY <2>1, UpKept
<1>11. CASE service_reads
  <2>1. Received' = Received
    <3>1. got_up' = got_up \o tcp_service /\ tcp_service' = <<>>
      BY <1>11 DEF service_reads
    <3> QED BY <1>0, <3>1 DEF Received
  <2>2. /\ UpT' = UpT /\ UpW' = UpW /\ UpH' = UpH /\ tcp_up' = tcp_up /\ sent_up' = sent_up
        /\ Arriving' = Arriving /\ handler' = handler
    BY <1>11 DEF service_reads, peers, hand, tsk, UpT, UpW, UpH, Held, Arriving
  <2> QED BY <2>1, <2>2, UpKept
<1>12. CASE \/ client_reads \/ service_sends \/ client_closes \/ handler_next \/ handler_write
            \/ task_read \/ task_send \/ tell \/ UNCHANGED vars
  <2>1. /\ UpT' = UpT /\ UpW' = UpW /\ UpH' = UpH
        /\ Received' = Received /\ tcp_up' = tcp_up /\ sent_up' = sent_up
        /\ Arriving' = Arriving /\ (handler' # "ended" => handler # "ended")
    <3> USE DEF UpT, UpW, UpH, Held, Arriving, Received, serv, peers, hand, tsk
    <3>1. CASE client_reads
      BY <3>1 DEF client_reads
    <3>2. CASE service_sends
      BY <3>2 DEF service_sends
    <3>3. CASE client_closes
      BY <3>3 DEF client_closes
    <3>4. CASE handler_next
      BY <3>4 DEF handler_next, HandlerStep
    <3>5. CASE handler_write
      BY <3>5 DEF handler_write, HandlerStep
    <3>6. CASE task_read
      BY <3>6 DEF task_read, TaskStep
    <3>7. CASE task_send
      BY <3>7 DEF task_send, TaskStep
    <3>8. CASE tell
      BY <3>8 DEF tell, TaskStep
    <3>9. CASE UNCHANGED vars
      BY <3>9 DEF vars
    <3> QED BY <1>12, <3>1, <3>2, <3>3, <3>4, <3>5, <3>6, <3>7, <3>8, <3>9
  <2> QED BY <2>1, UpKept
<1> QED BY <1>3, <1>4, <1>5, <1>6, <1>7, <1>8, <1>9, <1>10, <1>11, <1>12 DEF Next, handles, relays

-----------------------------------------------------------------------------
(* Downwards.                                                              *)

\* A step that moves no byte on the way down, or ends the way.
LEMMA DownKept ==
  ASSUME NEW a \in Nat, DownFacts(a), Delivered' = Delivered,
         handler' # "ended" =>
           /\ handler # "ended"
           /\ DownH' = DownH /\ DownW' = DownW
           /\ task' \notin {"close", "ended"} =>
                /\ task \notin {"close", "ended"}
                /\ DownT' = DownT /\ tcp_down' = tcp_down /\ sent_down' = sent_down
  PROVE  DownFacts(a)'
BY DEF DownFacts

LEMMA DownStep ==
  ASSUME TypeOK, TypeOK', Increasing(Delivered), NEW a \in Nat, DownFacts(a), [Next]_vars
  PROVE  Increasing(Delivered)' /\ \E b \in Nat : DownFacts(b)'
<1>0. /\ DownH \in Seq(Nat) /\ DownW \in Seq(Nat) /\ DownT \in Seq(Nat) /\ tcp_down \in Seq(Nat)
      /\ got_down \in Seq(Nat) /\ tcp_client \in Seq(Nat) /\ tbuf \in Seq(Nat) /\ hbuf \in Seq(Nat)
      /\ Delivered \in Seq(Nat) /\ sent_down \in Nat
  BY BytesAssumption, Message DEF TypeOK, DownT, DownW, DownH, Held, Delivered
<1>1. /\ Len(DownH) \in Nat /\ Len(DownW) \in Nat /\ Len(DownT) \in Nat /\ Len(tcp_down) \in Nat
      /\ Len(hbuf) \in Nat
  BY <1>0
<1>2. Len(<<>>) = 0 /\ \A b : Run(<<>>, b)
  BY DEF Run
<1>3. CASE service_sends
  <2>1. /\ DownH' = DownH /\ DownW' = DownW /\ DownT' = DownT /\ Delivered' = Delivered
        /\ handler' = handler /\ task' = task
        /\ sent_down' = sent_down + 1 /\ tcp_down' = Append(tcp_down, sent_down + 1)
    BY <1>3 DEF service_sends, hand, tsk, DownH, DownW, DownT, Held, Delivered
  <2> DEFINE e == a + Len(DownH) + Len(DownW) + Len(DownT)
  <2>2. CASE handler # "ended" /\ task \notin {"close", "ended"}
    <3>1. Run(tcp_down, e) /\ e + Len(tcp_down) = sent_down /\ e \in Nat
      BY <1>1, <2>2 DEF DownFacts
    <3>2. Run(tcp_down', e) /\ Len(tcp_down') = Len(tcp_down) + 1
      <4> HIDE DEF e
      <4>1. sent_down + 1 \in Nat /\ sent_down + 1 = e + Len(tcp_down) + 1
        <5>1. e + Len(tcp_down) = sent_down /\ sent_down \in Nat /\ e \in Nat /\ Len(tcp_down) \in Nat
          BY <1>0, <1>1, <3>1
        <5> QED BY ONLY <5>1
      <4> QED BY <1>0, <2>1, <3>1, <4>1, AppendRun
    <3>3. DownFacts(a)'
      BY <1>1, <2>1, <2>2, <3>1, <3>2 DEF DownFacts
    <3> QED BY <2>1, <3>3 DEF Increasing
  <2>3. CASE handler = "ended" \/ task \in {"close", "ended"}
    BY <2>1, <2>3, DownKept DEF Increasing
  <2> QED BY <2>2, <2>3
<1>4. CASE task_read
  <2>1. PICK n \in Read(tcp_down, service = "closed") : tbuf' = SubSeq(tcp_down, 1, n) /\ tcp_down' = Rest(tcp_down, n)
    BY <1>4 DEF task_read
  <2>2. /\ n \in 0..Len(tcp_down) /\ Len(tbuf') = n /\ Len(tcp_down') = Len(tcp_down) - n
    BY <1>0, <2>1, ReadBounds, Split
  <2>3. /\ DownH' = DownH /\ DownW' = DownW /\ DownT = <<>> /\ DownT' = tbuf' /\ Delivered' = Delivered
        /\ handler' = handler /\ task \notin {"close", "ended"} /\ sent_down' = sent_down
    BY <1>4 DEF task_read, TaskStep, peers, hand, DownH, DownW, DownT, Held, Delivered
  <2> DEFINE e == a + Len(DownH) + Len(DownW)
  <2>4. CASE handler # "ended"
    <3>1. Run(tcp_down, e) /\ e + Len(tcp_down) = sent_down /\ e \in Nat
      BY <1>1, <1>2, <2>3, <2>4 DEF DownFacts
    <3>2. Run(tbuf', e) /\ Run(tcp_down', e + n)
      <4> HIDE DEF e
      <4> QED BY <1>0, <2>1, <2>2, <3>1, SplitRun
    <3>3. DownFacts(a)'
      BY <1>1, <2>2, <2>3, <2>4, <3>1, <3>2 DEF DownFacts
    <3> QED BY <2>3, <3>3 DEF Increasing
  <2> QED BY <2>3, <2>4, DownKept DEF Increasing
<1>5. CASE task_send
  <2>1. Msg(ws_down') = tbuf
    BY <1>0, <1>5, Message DEF task_send, TypeOK
  <2>2. /\ DownH' = DownH /\ DownW = <<>> /\ DownW' = tbuf /\ DownT = tbuf /\ DownT' = <<>> /\ Delivered' = Delivered
        /\ handler' = handler /\ task \notin {"close", "ended"} /\ sent_down' = sent_down /\ tcp_down' = tcp_down
    BY <1>5, <2>1 DEF task_send, TaskStep, peers, hand, DownH, DownW, DownT, Msg, Held, Delivered
  <2>3. CASE handler # "ended"
    <3>1. DownFacts(a)'
      BY <1>0, <1>1, <1>2, <2>2, <2>3 DEF DownFacts
    <3> QED BY <2>2, <3>1 DEF Increasing
  <2> QED BY <2>2, <2>3, DownKept DEF Increasing
<1>6. CASE handler_next
  <2>1. hbuf' = DownW
    BY <1>6, Message DEF handler_next, TypeOK, DownW
  <2>2. /\ DownH = <<>> /\ DownH' = DownW /\ DownW' = <<>> /\ DownT' = DownT /\ Delivered' = Delivered
        /\ handler # "ended" /\ task' = task /\ sent_down' = sent_down /\ tcp_down' = tcp_down
    BY <1>6, <2>1 DEF handler_next, HandlerStep, peers, tsk, DownH, DownW, DownT, Msg, Held, Delivered
  <2>3. DownFacts(a)'
    BY <1>0, <1>1, <1>2, <2>2 DEF DownFacts
  <2> QED BY <2>2, <2>3 DEF Increasing
<1>7. CASE handler_write
  <2>1. /\ DownH = hbuf /\ DownH' = <<>> /\ DownW' = DownW /\ DownT' = DownT
        /\ handler # "ended" /\ handler' # "ended" /\ task' = task
        /\ sent_down' = sent_down /\ tcp_down' = tcp_down /\ got_down' = got_down
    BY <1>7 DEF handler_write, HandlerStep, peers, tsk, DownH, DownW, DownT, Held
  <2>0. PICK b \in Nat : b = a + Len(hbuf)
    BY <1>1
  <2>2. /\ UpTo(Delivered, a) /\ Run(hbuf, a) /\ Run(DownW, b)
        /\ task \notin {"close", "ended"} =>
             /\ Run(DownT, b + Len(DownW))
             /\ Run(tcp_down, b + Len(DownW) + Len(DownT))
             /\ b + Len(DownW) + Len(DownT) + Len(tcp_down) = sent_down
    BY <2>0, <2>1 DEF DownFacts
  <2>3. Increasing(Delivered') /\ UpTo(Delivered', b)
    <3>1. CASE hbuf = <<>> /\ UNCHANGED tcp_client
      <4>1. Delivered' = Delivered /\ b = a
        BY <1>2, <2>0, <2>1, <3>1 DEF Delivered
      <4> QED BY <2>2, <4>1
    <3>2. CASE \E n \in 1..(Window - Len(tcp_client)) :
                 n <= Len(hbuf) /\ tcp_client' = tcp_client \o SubSeq(hbuf, 1, n)
      <4>1. PICK n \in 0..Len(hbuf) : tcp_client' = tcp_client \o SubSeq(hbuf, 1, n)
        <5>1. Window \in Nat /\ Len(tcp_client) \in Nat
          BY <1>0, BufferAssumption
        <5>2. PICK k \in 1..(Window - Len(tcp_client)) :
                k <= Len(hbuf) /\ tcp_client' = tcp_client \o SubSeq(hbuf, 1, k)
          BY <3>2
        <5>3. k \in 0..Len(hbuf)
          BY <1>1, <5>1, <5>2
        <5> QED BY <5>2, <5>3
      <4>2. SubSeq(hbuf, 1, n) \in Seq(Nat) /\ Len(SubSeq(hbuf, 1, n)) = n /\ Run(SubSeq(hbuf, 1, n), a)
        BY <1>0, <2>2, Split, SplitRun
      <4>3. Delivered' = Delivered \o SubSeq(hbuf, 1, n)
        <5> DEFINE x == SubSeq(hbuf, 1, n)
        <5>1. x \in Seq(Nat) /\ got_down \in Seq(Nat) /\ tcp_client \in Seq(Nat)
          BY <1>0, <4>2
        <5>2. Delivered' = got_down \o (tcp_client \o x)
          BY <2>1, <4>1 DEF Delivered
        <5> HIDE DEF x
        <5>3. (got_down \o tcp_client) \o x = got_down \o (tcp_client \o x)
          BY <5>1, ConcatNats
        <5>4. Delivered' = Delivered \o x
          BY <5>2, <5>3 DEF Delivered
        <5> QED BY <5>4 DEF x
      <4>4. Increasing(Delivered') /\ UpTo(Delivered', a + n)
        BY <1>0, <2>2, <4>2, <4>3, JoinIncreasing
      <4>5. Delivered' \in Seq(Nat)
        BY <1>0, <4>2, <4>3
      <4> QED BY <1>1, <2>0, <4>4, <4>5 DEF UpTo
    <3> QED BY <1>7, <3>1, <3>2 DEF handler_write
  <2>4. b \in Nat /\ Len(DownH') = 0 /\ Run(DownH', b)
    BY <1>1, <1>2, <2>1
  <2>5. DownFacts(b)'
    <3>1. b + Len(DownH') = b /\ b + Len(DownH') + Len(DownW') = b + Len(DownW)
          /\ b + Len(DownH') + Len(DownW') + Len(DownT') = b + Len(DownW) + Len(DownT)
      BY <1>1, <2>1, <2>4
    <3> QED BY <2>1, <2>2, <2>3, <2>4, <3>1 DEF DownFacts
  <2> QED BY <2>3, <2>4, <2>5
<1>8. CASE handler_ends
  <2>1. handler' = "ended" /\ Delivered' = Delivered
    BY <1>8 DEF handler_ends, HandlerStep, Delivered
  <2> QED BY <2>1, DownKept DEF Increasing
<1>9. CASE client_reads
  <2>1. Delivered' = Delivered
    BY <1>0, <1>9 DEF client_reads, Delivered
  <2>2. /\ DownH' = DownH /\ DownW' = DownW /\ DownT' = DownT
        /\ handler' = handler /\ task' = task /\ sent_down' = sent_down /\ tcp_down' = tcp_down
    BY <1>9 DEF client_reads, peers, hand, tsk, DownH, DownW, DownT, Held
  <2> QED BY <2>1, <2>2, DownKept DEF Increasing
<1>10. CASE \/ client_sends \/ client_closes \/ service_reads \/ service_closes \/ handler_read \/ handler_yield
            \/ task_next \/ task_write_all \/ task_close \/ tell \/ task_shutdown \/ task_breaks \/ UNCHANGED vars
  <2>1. /\ DownH' = DownH /\ DownW' = DownW /\ Delivered' = Delivered
        /\ handler' # "ended" => handler # "ended"
        /\ task' \notin {"close", "ended"} =>
             /\ task \notin {"close", "ended"}
             /\ DownT' = DownT /\ tcp_down' = tcp_down /\ sent_down' = sent_down
    <3> USE DEF DownH, DownW, DownT, Held, Delivered, peers, hand, tsk
    <3>1. CASE client_sends
      BY <3>1 DEF client_sends
    <3>2. CASE client_closes
      BY <3>2 DEF client_closes
    <3>3. CASE service_closes
      BY <3>3 DEF service_closes
    <3>4. CASE handler_read
      BY <3>4 DEF handler_read, HandlerStep
    <3>5. CASE handler_yield
      BY <3>5 DEF handler_yield, HandlerStep
    <3>6. CASE task_next
      BY <3>6 DEF task_next, TaskStep
    <3>7. CASE task_write_all
      BY <3>7 DEF task_write_all, TaskStep
    <3>8. CASE task_close
      BY <3>8 DEF task_close, TaskStep
    <3>9. CASE tell
      BY <3>9 DEF tell, TaskStep
    <3>10. CASE task_shutdown
      BY <3>10 DEF task_shutdown, TaskStep
    <3>11. CASE task_breaks
      BY <3>11 DEF task_breaks, TaskStep
    <3>12. CASE UNCHANGED vars
      BY <3>12 DEF vars
    <3>13. CASE service_reads
      BY <3>13 DEF service_reads
    <3> QED BY <1>10, <3>1, <3>2, <3>3, <3>4, <3>5, <3>6, <3>7, <3>8, <3>9, <3>10, <3>11, <3>12, <3>13
  <2> QED BY <2>1, DownKept DEF Increasing
<1> QED BY <1>3, <1>4, <1>5, <1>6, <1>7, <1>8, <1>9, <1>10 DEF Next, handles, relays

-----------------------------------------------------------------------------

LEMMA Invariant == Spec => []IInv
<1>1. Init => IInv
  <2> SUFFICES ASSUME Init PROVE IInv
    OBVIOUS
  <2>1. TypeOK
    <3>1. <<>> \in Seq(Nat) /\ <<>> \in Seq(Seq(Nat)) /\ Len(<<>>) = 0
      OBVIOUS
    <3>2. ws_up = <<>> /\ ws_down = <<>>
      BY DEF Init
    <3>3. ws_up \in Seq(Seq(Nat)) /\ Len(ws_up) <= 1 /\ ws_down \in Seq(Seq(Nat)) /\ Len(ws_down) <= 1
      BY <3>1, <3>2
    <3>4. sent_up \in 0..Up /\ sent_down \in 0..Down
      BY BytesAssumption DEF Init
    <3>5. /\ got_up \in Seq(Nat) /\ got_down \in Seq(Nat)
          /\ tcp_up \in Seq(Nat) /\ tcp_down \in Seq(Nat)
          /\ tcp_client \in Seq(Nat) /\ tcp_service \in Seq(Nat)
          /\ hbuf \in Seq(Nat) /\ tbuf \in Seq(Nat)
      BY <3>1 DEF Init
    <3> QED BY <3>3, <3>4, <3>5 DEF Init, TypeOK
  <2>2. UpFacts
    BY DEF Init, Received, UpFacts, Run, UpT, UpW, UpH, AfterT, AfterW, AfterH, Held, Msg
  <2>3. Delivered = <<>>
    BY DEF Init, Delivered
  <2>4. Increasing(Delivered)
    BY <2>3 DEF Increasing
  <2>5. DownFacts(0)
    BY <2>3 DEF Init, DownFacts, Run, UpTo, DownH, DownW, DownT, Held, Msg
  <2> QED BY <2>1, <2>2, <2>4, <2>5 DEF IInv
<1>2. IInv /\ [Next]_vars => IInv'
  <2> SUFFICES ASSUME IInv, [Next]_vars PROVE IInv'
    OBVIOUS
  <2>1. TypeOK'
    BY TypesStep DEF IInv
  <2>2. UpFacts'
    BY <2>1, UpStep DEF IInv
  <2>3. Increasing(Delivered)' /\ \E b \in Nat : DownFacts(b)'
    <3>1. PICK a \in Nat : DownFacts(a)
      BY DEF IInv
    <3> QED BY <2>1, <3>1, DownStep DEF IInv
  <2> QED BY <2>1, <2>2, <2>3 DEF IInv
<1> QED BY <1>1, <1>2, PTL DEF Spec

\* Every variable keeps its type.
THEOREM TypeCorrect == Spec => []TypeOK
<1>1. IInv => TypeOK
  BY DEF IInv
<1> QED BY <1>1, Invariant, PTL

\* What the service receives is a beginning of what the client sent, however
\* many bytes it sends and however the reads cut them into messages.
THEOREM UploadIntactHolds == Spec => []UploadIntact
<1>1. IInv => UploadIntact
  <2> SUFFICES ASSUME IInv PROVE UploadIntact
    OBVIOUS
  <2>1. got_up \in Seq(Nat) /\ tcp_service \in Seq(Nat) /\ Len(got_up) \in Nat /\ Len(tcp_service) \in Nat
    BY DEF IInv, TypeOK
  <2>2. \A n \in 1..Len(Received) : Received[n] = n
    BY DEF IInv, UpFacts, Run
  <2>3. ASSUME NEW n \in 1..Len(got_up) PROVE got_up[n] = n
    <3>1. n \in 1..Len(Received) /\ Received[n] = got_up[n]
      BY <2>1 DEF Received
    <3> QED BY <2>2, <3>1
  <2> QED BY <2>1, <2>3 DEF UploadIntact
<1> QED BY <1>1, Invariant, PTL

\* What the client receives, and what its stream holds, is in the order it was
\* sent and nothing comes twice, though a write may lose bytes.
THEOREM DownloadInOrderHolds == Spec => []DownloadInOrder
<1>1. IInv => DownloadInOrder
  <2> SUFFICES ASSUME IInv PROVE DownloadInOrder
    OBVIOUS
  <2>1. Delivered \in Seq(Nat) /\ DOMAIN Delivered = 1..Len(Delivered)
    BY DEF IInv, TypeOK, Delivered
  <2> QED BY <2>1 DEF IInv, Increasing, Delivered, DownloadInOrder
<1> QED BY <1>1, Invariant, PTL

=============================================================================
