------------------------------- MODULE Tunnel -------------------------------
(***************************************************************************)
(* One tunnel: a client's TCP stream, the /accept handler of               *)
(* rendezvous-server, a WebSocket, the connection_task of rendezvous-proxy *)
(* and the TCP stream of the service, once all of them are connected.      *)
(* Both relays are loops of one select: while one of them writes or sends  *)
(* it does not read.  Bytes are their positions in what was sent; upwards  *)
(* is from the client to the service.                                      *)
(***************************************************************************)
EXTENDS Naturals, Sequences

CONSTANTS
  Up, Down,\* bounds: bytes sent by the client, by the service
  Buffer,  \* bound: bytes the stream to a relay holds; a WebSocket holds one message
  Window   \* bound: bytes the stream to the client, or to the service, holds

ASSUME BytesAssumption  == Up \in Nat /\ Down \in Nat
ASSUME BufferAssumption == Buffer \in Nat \ {0} /\ Window \in Nat \ {0}

VARIABLES
  reads, takes,    \* the client, the service reads what it is sent
  client, service, \* TCP peers: "open" or "closed"
  sent_up, sent_down, got_up, got_down,
  tcp_up, tcp_down,\* bytes in the stream to the server, to the proxy
  tcp_client, tcp_service,\* bytes in the stream to the client, to the service, not yet read
  ws_up, ws_down,  \* messages in the WebSocket
  handler,         \* server: the /accept handler
  hbuf,            \* server: the message it is sending or writing
  task,            \* proxy: connection_task
  tbuf,            \* proxy: the message it is sending or writing
  told             \* proxy: Shutdown is in the connection's channel

vars == <<reads, takes, client, service, sent_up, sent_down, got_up, got_down, tcp_up, tcp_down,
          tcp_client, tcp_service, ws_up, ws_down, handler, hbuf, task, tbuf, told>>
peers == <<reads, takes, client, service, sent_up, sent_down>>
hand  == <<handler, hbuf>>
tsk   == <<task, tbuf, told>>
serv  == <<got_up, tcp_service>>

TypeOK ==
  /\ reads \in BOOLEAN /\ takes \in BOOLEAN
  /\ client \in {"open", "closed"} /\ service \in {"open", "closed"}
  /\ sent_up \in 0..Up /\ sent_down \in 0..Down
  /\ got_up \in Seq(Nat) /\ got_down \in Seq(Nat)
  /\ tcp_up \in Seq(Nat) /\ tcp_down \in Seq(Nat)
  /\ tcp_client \in Seq(Nat) /\ tcp_service \in Seq(Nat)
  /\ hbuf \in Seq(Nat) /\ tbuf \in Seq(Nat)
  /\ ws_up \in Seq(Seq(Nat)) /\ Len(ws_up) <= 1
  /\ ws_down \in Seq(Seq(Nat)) /\ Len(ws_down) <= 1
  /\ handler \in {"select", "yield", "write", "ended"}
  /\ task \in {"select", "send", "write_all", "close", "ended"}
  /\ told \in BOOLEAN

Init ==
  /\ reads \in BOOLEAN /\ takes \in BOOLEAN
  /\ client = "open" /\ service = "open"
  /\ sent_up = 0 /\ sent_down = 0
  /\ got_up = <<>> /\ got_down = <<>>
  /\ tcp_up = <<>> /\ tcp_down = <<>> /\ tcp_client = <<>> /\ tcp_service = <<>>
  /\ ws_up = <<>> /\ ws_down = <<>>
  /\ handler = "select" /\ hbuf = <<>>
  /\ task = "select" /\ tbuf = <<>> /\ told = FALSE

\* A read returns some of the bytes that are there, or none at the end.
Read(stream, eof) ==
  IF stream # <<>> THEN {n \in 1..Buffer : n <= Len(stream)} ELSE IF eof THEN {0} ELSE {}

Rest(s, n) == SubSeq(s, n + 1, Len(s))

-----------------------------------------------------------------------------
(* The TCP peers: external.                                                *)

client_sends ==
  /\ client = "open" /\ handler # "ended"
  /\ sent_up < Up /\ Len(tcp_up) < Buffer
  /\ sent_up' = sent_up + 1
  /\ tcp_up' = Append(tcp_up, sent_up')
  /\ UNCHANGED <<reads, takes, client, service, sent_down, got_down, tcp_down, tcp_client, ws_up, ws_down,
                 hand, serv, tsk>>

client_reads ==
  /\ reads /\ tcp_client # <<>>
  /\ got_down' = got_down \o tcp_client
  /\ tcp_client' = <<>>
  /\ UNCHANGED <<peers, tcp_up, tcp_down, ws_up, ws_down, hand, serv, tsk>>

service_sends ==
  /\ service = "open" /\ task # "ended"
  /\ sent_down < Down /\ Len(tcp_down) < Buffer
  /\ sent_down' = sent_down + 1
  /\ tcp_down' = Append(tcp_down, sent_down')
  /\ UNCHANGED <<reads, takes, client, service, sent_up, got_down, tcp_up, tcp_client, ws_up, ws_down,
                 hand, serv, tsk>>

service_reads ==
  /\ takes /\ service = "open" /\ tcp_service # <<>>
  /\ got_up' = got_up \o tcp_service
  /\ tcp_service' = <<>>
  /\ UNCHANGED <<peers, got_down, tcp_up, tcp_down, tcp_client, ws_up, ws_down, hand, tsk>>

\* Each side may close its stream.
client_closes ==
  /\ client = "open"
  /\ client' = "closed"
  /\ UNCHANGED <<reads, takes, service, sent_up, sent_down, got_down, tcp_up, tcp_down, tcp_client, ws_up,
                 ws_down, hand, serv, tsk>>

service_closes ==
  /\ service = "open"
  /\ service' = "closed"
  /\ UNCHANGED <<reads, takes, client, sent_up, sent_down, got_down, tcp_up, tcp_down, tcp_client, ws_up,
                 ws_down, hand, serv, tsk>>

-----------------------------------------------------------------------------
(* The /accept handler.  A definition whose name ends in "_Mutant..." is a *)
(* wrong version of the next one; only the mutation checks listed in       *)
(* PROJECT.json use it.                                                    *)

HandlerStep == UNCHANGED <<peers, got_down, tcp_down, serv, tsk>>

\* The end of the client's stream reads as a message without bytes.
handler_read ==
  /\ handler = "select"
  /\ \E n \in Read(tcp_up, client = "closed") :
       /\ hbuf' = SubSeq(tcp_up, 1, n)
       /\ tcp_up' = Rest(tcp_up, n)
  /\ handler' = "yield"
  /\ UNCHANGED <<tcp_client, ws_up, ws_down>> /\ HandlerStep

\* Does not wait for room.
handler_yield_MutantTry ==
  /\ handler = "yield"
  /\ ws_up' = IF ws_up = <<>> THEN <<hbuf>> ELSE ws_up
  /\ handler' = "select"
  /\ hbuf' = <<>>
  /\ UNCHANGED <<tcp_up, tcp_client, ws_down>> /\ HandlerStep

handler_yield ==
  /\ handler = "yield"
  /\ ws_up = <<>>
  /\ ws_up' = <<hbuf>>
  /\ handler' = "select"
  /\ hbuf' = <<>>
  /\ UNCHANGED <<tcp_up, tcp_client, ws_down>> /\ HandlerStep

handler_next ==
  /\ handler = "select"
  /\ ws_down # <<>>
  /\ hbuf' = Head(ws_down)
  /\ ws_down' = <<>>
  /\ handler' = "write"
  /\ UNCHANGED <<tcp_up, tcp_client, ws_up>> /\ HandlerStep

\* Writes again what did not fit, from its start.
handler_write_MutantAgain ==
  /\ handler = "write"
  /\ LET room == Window - Len(tcp_client) IN
       /\ room > 0
       /\ \E n \in 1..room :
            /\ n <= Len(hbuf)
            /\ tcp_client' = tcp_client \o SubSeq(hbuf, 1, n)
            /\ handler' = IF n = Len(hbuf) THEN "select" ELSE "write"
  /\ UNCHANGED <<hbuf, tcp_up, ws_up, ws_down>> /\ HandlerStep

\* write, not write_all: what does not fit is lost.
handler_write ==
  /\ handler = "write"
  /\ \/ hbuf = <<>> /\ UNCHANGED tcp_client
     \/ \E n \in 1..(Window - Len(tcp_client)) :
          /\ n <= Len(hbuf)
          /\ tcp_client' = tcp_client \o SubSeq(hbuf, 1, n)
  /\ handler' = "select"
  /\ hbuf' = <<>>
  /\ UNCHANGED <<tcp_up, ws_up, ws_down>> /\ HandlerStep

\* The WebSocket ends after its messages, or fails to send: the client is
\* disconnected.  A closed client fails a write or a read, which is unwrapped.
handler_ends ==
  /\ \/ task = "ended" /\ handler = "select" /\ ws_down = <<>>
     \/ task = "ended" /\ handler = "yield"
     \/ client = "closed" /\ handler \in {"select", "write"}
  /\ handler' = "ended"
  /\ hbuf' = <<>>
  /\ UNCHANGED <<tcp_up, tcp_client, ws_up, ws_down>> /\ HandlerStep

-----------------------------------------------------------------------------
(* The connection_task.                                                    *)

TaskStep == UNCHANGED <<peers, got_down, tcp_up, tcp_client, hand>>

task_read ==
  /\ task = "select"
  /\ \E n \in Read(tcp_down, service = "closed") :
       /\ tbuf' = SubSeq(tcp_down, 1, n)
       /\ tcp_down' = Rest(tcp_down, n)
  /\ task' = "send"
  /\ UNCHANGED <<serv, ws_up, ws_down, told>> /\ TaskStep

task_send ==
  /\ task = "send"
  /\ handler # "ended"
  /\ ws_down = <<>>
  /\ ws_down' = <<tbuf>>
  /\ tbuf' = <<>>
  /\ task' = "select"
  /\ UNCHANGED <<serv, tcp_down, ws_up, told>> /\ TaskStep

task_next ==
  /\ task = "select"
  /\ ws_up # <<>>
  /\ tbuf' = Head(ws_up)
  /\ ws_up' = <<>>
  /\ task' = "write_all"
  /\ UNCHANGED <<serv, tcp_down, ws_down, told>> /\ TaskStep

\* write, not write_all: what does not fit is lost.
task_write_all_MutantWrite ==
  /\ task = "write_all"
  /\ \/ service = "closed" /\ UNCHANGED tcp_service
     \/ tbuf = <<>> /\ UNCHANGED tcp_service
     \/ \E n \in 1..(Window - Len(tcp_service)) :
          /\ service = "open" /\ n <= Len(tbuf)
          /\ tcp_service' = tcp_service \o SubSeq(tbuf, 1, n)
  /\ tbuf' = <<>>
  /\ task' = "select"
  /\ UNCHANGED <<got_up, tcp_down, ws_up, ws_down, told>> /\ TaskStep

\* One write of write_all: it waits for room in the service's stream until all
\* bytes are written.  A service that closed loses them.
task_write_all ==
  /\ task = "write_all"
  /\ \/ service = "closed" /\ tbuf' = <<>> /\ UNCHANGED tcp_service
     \/ service = "open" /\ tbuf = <<>> /\ UNCHANGED <<tbuf, tcp_service>>
     \/ \E n \in 1..(Window - Len(tcp_service)) :
          /\ service = "open" /\ n <= Len(tbuf)
          /\ tcp_service' = tcp_service \o SubSeq(tbuf, 1, n)
          /\ tbuf' = Rest(tbuf, n)
  /\ task' = IF tbuf' = <<>> THEN "select" ELSE "write_all"
  /\ UNCHANGED <<got_up, tcp_down, ws_up, ws_down, told>> /\ TaskStep

\* The owner sends Shutdown.
tell ==
  /\ ~told
  /\ told' = TRUE
  /\ UNCHANGED <<serv, tcp_down, ws_up, ws_down, task, tbuf>> /\ TaskStep

\* Continues the loop.
task_shutdown_MutantContinues ==
  /\ task = "select"
  /\ told
  /\ told' = FALSE
  /\ UNCHANGED <<serv, tcp_down, ws_up, ws_down, task, tbuf>> /\ TaskStep

\* Shutdown is received in the select only.
task_shutdown ==
  /\ task = "select"
  /\ told
  /\ task' = "close"
  /\ UNCHANGED <<serv, tcp_down, ws_up, ws_down, tbuf, told>> /\ TaskStep

\* The server's end of the WebSocket, or a service that fails a read or a write.
task_breaks ==
  /\ \/ handler = "ended" /\ task = "select" /\ ws_up = <<>>
     \/ handler = "ended" /\ task = "send"
     \/ service = "closed" /\ task \in {"select", "write_all"}
  /\ tbuf' = <<>>
  /\ task' = "close"
  /\ UNCHANGED <<serv, tcp_down, ws_up, ws_down, told>> /\ TaskStep

\* ws_client.close: the close frame goes the way of the messages.
task_close ==
  /\ task = "close"
  /\ ws_down = <<>> \/ handler = "ended"
  /\ task' = "ended"
  /\ UNCHANGED <<serv, tcp_down, ws_up, ws_down, tbuf, told>> /\ TaskStep

-----------------------------------------------------------------------------

handles == handler_read \/ handler_yield \/ handler_next \/ handler_write
relays  == task_read \/ task_send \/ task_next \/ task_write_all \/ task_close

HandlerMustEnd == handler_ends /\ task = "ended"
TaskMustEnd    == task_breaks /\ handler = "ended"

Next ==
  \/ client_sends \/ client_reads \/ client_closes \/ service_sends \/ service_reads \/ service_closes
  \/ handles \/ handler_ends
  \/ relays \/ tell \/ task_shutdown \/ task_breaks

Spec == Init /\ [][Next]_vars

\* Both relays are polled, and select polls its branches in random order: a
\* branch that is ready again and again is taken.  A peer that reads goes on
\* reading; a client with ~reads and a service with ~takes never read, and what
\* is written to them waits for room.  Nothing obliges a peer to send or to
\* close, a stream to fail or the owner to shut down.
Fairness ==
  /\ WF_vars(client_reads) /\ WF_vars(service_reads)
  /\ WF_vars(handles) /\ SF_vars(handler_read) /\ SF_vars(handler_next) /\ WF_vars(HandlerMustEnd)
  /\ WF_vars(relays) /\ SF_vars(task_read) /\ SF_vars(task_next) /\ SF_vars(task_shutdown)
  /\ WF_vars(TaskMustEnd)

FairSpec == Spec /\ Fairness

-----------------------------------------------------------------------------
(* Properties.                                                             *)

\* The tunnel ends, from either side.
Ended == task = "ended" \/ handler = "ended"

\* Both relays send and neither reads: the WebSocket is full both ways.
BothSend == handler = "yield" /\ ws_up # <<>> /\ task \in {"send", "close"} /\ ws_down # <<>>

\* The handler waits for room in the stream of a client that does not read.
Stalled == handler = "write" /\ hbuf # <<>> /\ ~reads /\ Len(tcp_client) = Window

\* The task waits in write_all for room in the stream of a service that does
\* not read.
ServiceStalled ==
  task = "write_all" /\ tbuf # <<>> /\ ~takes /\ service = "open" /\ Len(tcp_service) = Window

\* The task is outside its select and nothing it waits for comes.
TaskBlocked ==
  \/ BothSend
  \/ Stalled /\ task \in {"send", "close"} /\ ws_down # <<>>
  \/ ServiceStalled

\* What the service receives is a beginning of what the client sent, whatever
\* the sizes of reads and messages and wherever either side closes.
UploadIntact == got_up = [n \in 1..Len(got_up) |-> n]

\* What the client receives is in the order it was sent, nothing twice; bytes
\* may be missing (handler_write).
DownloadInOrder ==
  LET d == got_down \o tcp_client IN \A m, n \in DOMAIN d : m < n => d[m] < d[n]

\* In the end every byte the client sent has reached a service that reads,
\* unless the service closes, the tunnel ends, the relays block each other
\* (BothSend), or the handler stops reading because it waits for a client that
\* does not read (Stalled).  The client sends at most Up bytes, so this is
\* sent_up = b ~> Len(got_up) >= b for each of them.
UploadArrives ==
  <>[](takes => Len(got_up) = sent_up \/ Ended \/ service = "closed" \/ BothSend \/ Stalled)

\* In the end a connection that was told to shut down has ended, its WebSocket
\* closed, or is blocked for good where it does not receive Shutdown: sending to
\* a handler that sends, sending to one whose client does not read, or in
\* write_all to a service that does not read.  Shutdown is never taken back, so
\* this is told ~> [](...).
ShutdownEnds == <>[](told => task = "ended" \/ TaskBlocked)

=============================================================================
