----------------------------- MODULE Rendezvous -----------------------------
(***************************************************************************)
(* The rendezvous server (rendezvous-server) and the proxies that reach it *)
(* from behind a NAT (rendezvous-proxy).  A proxy listens by an SSE        *)
(* request: the server takes a port from its pool, binds it and keeps the  *)
(* TCP connections it accepts there until the proxy, told of each by an    *)
(* event, fetches it with a WebSocket request.  What a tunnel carries is   *)
(* the subject of Tunnel.                                                  *)
(*                                                                         *)
(* Each section under the server's mutex, and each section of a proxy      *)
(* between two awaits, is one step.  The server is not restarted.          *)
(***************************************************************************)
EXTENDS Naturals, Sequences, FiniteSets

CONSTANTS
  Proxies,  \* RendezvousProxy values, each with its client_id
  Kept,     \* bound: proxies whose caller neither asks for the address nor stops them
  Clients,  \* TCP connections made to public ports
  Ports     \* the server's port range

ASSUME KeptAssumption == Kept \subseteq Proxies /\ Proxies # {}
ASSUME PortsAssumption == Ports \subseteq Nat \ {0} /\ IsFiniteSet(Ports)

VARIABLES
  pool,        \* server: listen_port_pool, shuffled
  listeners,   \* server: listeners, the handle is the position
  serving,     \* server: handles whose SSE response is still generated
  streams_cnt, \* server: connecting_streams_cnt
  connecting,  \* server: connecting_streams, id -> client
  relayed,     \* server: streams held by /accept handlers, id -> client
  client, at,  \* a client's connection; the listener it was queued at
  goal,        \* the proxy whose address the client dialled
  events,      \* SSE events on their way to the proxy
  owner,       \* proxy: what its caller does
  listener,    \* proxy: sse_loop
  cur,         \* proxy: the listener its SSE stream belongs to, or 0
  cmd,         \* proxy: Shutdown is in the listener's command channel
  public_addr, \* proxy: the port, or 0
  notified,    \* proxy: the Notified future awaited has been woken
  table,       \* proxy: connections, the ids of their streams
  joining,     \* proxy: the connection that shutdown waits for, or 0
  conn         \* proxies: connection tasks, id -> state

vars == <<pool, listeners, serving, streams_cnt, connecting, relayed, client, at, goal, events, owner,
          listener, cur, cmd, public_addr, notified, table, joining, conn>>
server == <<pool, listeners, serving, streams_cnt, connecting, relayed>>
net    == <<client, at, goal, events>>
caller == <<owner, joining>>
sse    == <<listener, cur>>
addr   == <<public_addr, notified>>
tasks  == <<table, conn>>

\* Handles and ids are bounded by what can be taken or accepted.
Ids == 1..Cardinality(Clients)
Handles == 1..Cardinality(Ports)

TypeOK ==
  /\ pool \subseteq Ports
  /\ listeners \in Seq(Proxies \X Ports)
  /\ serving \subseteq DOMAIN listeners
  /\ streams_cnt \in Nat
  /\ DOMAIN connecting \subseteq Nat /\ \A i \in DOMAIN connecting : connecting[i] \in Clients
  /\ DOMAIN relayed \subseteq Nat /\ \A i \in DOMAIN relayed : relayed[i] \in Clients
  /\ client \in [Clients -> {"idle", "queued", "accepted", "closed"}]
  /\ goal \in [Clients -> Proxies]
  /\ at \in [Clients -> Nat]
  /\ events \in [Proxies -> Seq(({"listening"} \X Ports) \cup ({"new"} \X Nat))]
  /\ owner \in [Proxies -> {"none", "check", "wait", "running", "join_listener", "drain", "done", "error",
                            "panicked"}]
  /\ listener \in [Proxies -> {"none", "new", "connecting", "streaming", "waiting", "ended", "failed"}]
  /\ cur \in [Proxies -> Nat]
  /\ cmd \in [Proxies -> BOOLEAN]
  /\ public_addr \in [Proxies -> Nat]
  /\ notified \in [Proxies -> BOOLEAN]
  /\ table \in [Proxies -> SUBSET Nat]
  /\ joining \in [Proxies -> Nat]
  /\ DOMAIN conn \subseteq Nat
  /\ \A i \in DOMAIN conn : conn[i] \in Proxies \X {"dialing", "upgrading", "relaying", "ended"}

Init ==
  /\ pool = Ports
  /\ listeners = <<>> /\ serving = {}
  /\ streams_cnt = 0 /\ connecting = <<>> /\ relayed = <<>>
  /\ client = [c \in Clients |-> "idle"] /\ at = [c \in Clients |-> 0]
  /\ goal = [c \in Clients |-> CHOOSE x \in Proxies : TRUE]
  /\ events = [x \in Proxies |-> <<>>]
  /\ owner = [x \in Proxies |-> "none"]
  /\ listener = [x \in Proxies |-> "none"]
  /\ cur = [x \in Proxies |-> 0]
  /\ cmd = [x \in Proxies |-> FALSE]
  /\ public_addr = [x \in Proxies |-> 0] /\ notified = [x \in Proxies |-> FALSE]
  /\ table = [x \in Proxies |-> {}] /\ joining = [x \in Proxies |-> 0]
  /\ conn = <<>>

Put(f, k, v) == [i \in DOMAIN f \cup {k} |-> IF i = k THEN v ELSE f[i]]
Drop(f, k)   == [i \in DOMAIN f \ {k} |-> f[i]]

-----------------------------------------------------------------------------
(* The server.  A definition whose name ends in "_Mutant..." is a wrong    *)
(* version of the next one; only the mutation checks listed in             *)
(* PROJECT.json use it.                                                    *)

\* The port stays in the pool; SO_REUSEPORT lets it be bound again.
listen_MutantKeeps(x, port) ==
  /\ listener[x] = "connecting"
  /\ port \in pool
  /\ UNCHANGED pool
  /\ listeners' = Append(listeners, <<x, port>>)
  /\ LET h == Len(listeners) + 1 IN
       /\ serving' = serving \cup {h}
       /\ cur' = [cur EXCEPT ![x] = h]
  /\ events' = [events EXCEPT ![x] = <<<<"listening", port>>>>]
  /\ listener' = [listener EXCEPT ![x] = "streaming"]
  /\ UNCHANGED <<streams_cnt, connecting, relayed, client, at, goal, caller, cmd, addr, tasks>>

\* GET /listen: a port is taken, bound and announced.
listen(x, port) ==
  /\ listener[x] = "connecting"
  /\ port \in pool
  /\ pool' = pool \ {port}
  /\ listeners' = Append(listeners, <<x, port>>)
  /\ LET h == Len(listeners) + 1 IN
       /\ serving' = serving \cup {h}
       /\ cur' = [cur EXCEPT ![x] = h]
  /\ events' = [events EXCEPT ![x] = <<<<"listening", port>>>>]
  /\ listener' = [listener EXCEPT ![x] = "streaming"]
  /\ UNCHANGED <<streams_cnt, connecting, relayed, client, at, goal, caller, cmd, addr, tasks>>

\* The port cannot be bound and is lost, or none is left: the handler panics,
\* and the proxy sees its stream fail.
listen_fails(x) ==
  /\ listener[x] = "connecting"
  /\ IF pool = {} THEN UNCHANGED pool ELSE \E port \in pool : pool' = pool \ {port}
  /\ listener' = [listener EXCEPT ![x] = "waiting"]
  /\ UNCHANGED <<listeners, serving, streams_cnt, connecting, relayed, net, caller, cur, cmd, addr, tasks>>

\* An event for the SSE stream of listener h, if its proxy still reads it.
Yield(h, e) ==
  LET x == listeners[h][1] IN IF cur[x] = h THEN [events EXCEPT ![x] = Append(@, e)] ELSE events

\* The generator of an SSE response accepts a connection, keeps the stream and
\* yields an event, whether or not anyone reads it.
accept(h, c) ==
  /\ h \in serving
  /\ client[c] = "queued" /\ at[c] = h
  /\ streams_cnt' = streams_cnt + 1
  /\ connecting' = Put(connecting, streams_cnt', c)
  /\ client' = [client EXCEPT ![c] = "accepted"]
  /\ events' = Yield(h, <<"new", streams_cnt'>>)
  /\ UNCHANGED <<pool, listeners, serving, relayed, at, goal, caller, sse, cmd, addr, tasks>>

\* A generator ends: it is dropped with the connection of a proxy that went
\* away, or accept fails and it panics.  Its listener stays bound.
generator_ends(h) ==
  /\ h \in serving
  /\ serving' = serving \ {h}
  /\ UNCHANGED <<pool, listeners, streams_cnt, connecting, relayed, net, caller, sse, cmd, addr, tasks>>

\* GET /accept: the stream leaves the table and is relayed; if it is not there
\* the handler panics and the proxy's request fails.
connect(i) ==
  /\ i \in DOMAIN conn /\ conn[i][2] = "upgrading"
  /\ connecting' = Drop(connecting, i)
  /\ IF i \in DOMAIN connecting
     THEN /\ conn' = [conn EXCEPT ![i][2] = "relaying"]
          /\ relayed' = Put(relayed, i, connecting[i])
     ELSE /\ conn' = [conn EXCEPT ![i][2] = "ended"]
          /\ UNCHANGED relayed
  /\ UNCHANGED <<pool, listeners, serving, streams_cnt, net, caller, sse, cmd, addr, table>>

-----------------------------------------------------------------------------
(* Clients: external.                                                      *)

\* A client dials the address of the listener h; the kernel queues it at any
\* socket bound to that port.
dial(c, h, g) ==
  /\ client[c] = "idle"
  /\ listeners[g][2] = listeners[h][2]
  /\ client' = [client EXCEPT ![c] = "queued"]
  /\ at' = [at EXCEPT ![c] = g]
  /\ goal' = [goal EXCEPT ![c] = listeners[h][1]]
  /\ UNCHANGED <<server, events, caller, sse, cmd, addr, tasks>>

-----------------------------------------------------------------------------
(* The caller of a proxy: a runner, or main.                               *)

\* start, then public_addr.  main, which does not ask for the address, is a
\* caller whose time is up at once.
start(x) ==
  /\ owner[x] = "none"
  /\ listener' = [listener EXCEPT ![x] = "new"]
  /\ owner' = [owner EXCEPT ![x] = IF x \in Kept THEN "running" ELSE "check"]
  /\ UNCHANGED <<server, net, joining, cur, cmd, addr, tasks>>

\* public_addr: the address is set.
addr_some(x) ==
  /\ owner[x] = "check"
  /\ public_addr[x] # 0
  /\ owner' = [owner EXCEPT ![x] = "running"]
  /\ UNCHANGED <<server, net, joining, sse, cmd, addr, tasks>>

\* The future is created after the lock has been released.
addr_wait_MutantLate(x) ==
  /\ owner[x] = "check"
  /\ public_addr[x] = 0
  /\ owner' = [owner EXCEPT ![x] = "wait"]
  /\ notified' = [notified EXCEPT ![x] = FALSE]
  /\ \/ UNCHANGED <<public_addr, events>>
     \/ /\ events[x] # <<>> /\ Head(events[x])[1] = "listening"
        /\ public_addr' = [public_addr EXCEPT ![x] = Head(events[x])[2]]
        /\ events' = [events EXCEPT ![x] = Tail(@)]
  /\ UNCHANGED <<server, client, at, goal, joining, sse, cmd, tasks>>

\* Not set: the future is created under the lock, awaited without.
addr_wait(x) ==
  /\ owner[x] = "check"
  /\ public_addr[x] = 0
  /\ owner' = [owner EXCEPT ![x] = "wait"]
  /\ notified' = [notified EXCEPT ![x] = FALSE]
  /\ UNCHANGED <<server, net, joining, sse, cmd, public_addr, tasks>>

addr_woken(x) ==
  /\ owner[x] = "wait"
  /\ notified[x]
  /\ owner' = [owner EXCEPT ![x] = "check"]
  /\ UNCHANGED <<server, net, joining, sse, cmd, addr, tasks>>

\* The time is up: the last look at the address, under the lock.
addr_timeout(x) ==
  /\ owner[x] \in {"check", "wait"}
  /\ owner' = [owner EXCEPT ![x] = "running"]
  /\ UNCHANGED <<server, net, joining, sse, cmd, addr, tasks>>

\* shutdown: the listener is told first; its channel is closed if it failed.
shutdown(x) ==
  /\ owner[x] = "running" /\ x \notin Kept
  /\ owner' = [owner EXCEPT ![x] = IF listener[x] = "failed" THEN "panicked" ELSE "join_listener"]
  /\ cmd' = [cmd EXCEPT ![x] = listener[x] # "failed"]
  /\ UNCHANGED <<server, net, joining, sse, addr, tasks>>

\* Does not wait for the listener's end.
join_listener_MutantDrainsFirst(x) ==
  /\ owner[x] = "join_listener"
  /\ owner' = [owner EXCEPT ![x] = "drain"]
  /\ UNCHANGED <<server, net, joining, sse, cmd, addr, tasks>>

join_listener(x) ==
  /\ owner[x] = "join_listener"
  /\ \/ listener[x] = "ended" /\ owner' = [owner EXCEPT ![x] = "drain"]
     \/ listener[x] = "failed" /\ owner' = [owner EXCEPT ![x] = "error"]
  /\ UNCHANGED <<server, net, joining, sse, cmd, addr, tasks>>

\* A connection is taken out of the table and told to shut down.
drain(x, i) ==
  /\ owner[x] = "drain"
  /\ joining[x] = 0
  /\ i \in table[x]
  /\ table' = [table EXCEPT ![x] = @ \ {i}]
  /\ joining' = [joining EXCEPT ![x] = i]
  /\ UNCHANGED <<server, net, owner, sse, cmd, addr, conn>>

join_connection(x) ==
  /\ joining[x] # 0
  /\ conn[joining[x]][2] = "ended"
  /\ joining' = [joining EXCEPT ![x] = 0]
  /\ UNCHANGED <<server, net, owner, sse, cmd, addr, tasks>>

drained(x) ==
  /\ owner[x] = "drain"
  /\ joining[x] = 0
  /\ table[x] = {}
  /\ owner' = [owner EXCEPT ![x] = "done"]
  /\ UNCHANGED <<server, net, joining, sse, cmd, addr, tasks>>

-----------------------------------------------------------------------------
(* A proxy's listener task: sse_loop.                                      *)

\* The client is built, or the loop returns SSEClientBuilderError.  Whether it
\* can be built does not change later.
sse_build(x) ==
  /\ listener[x] = "new"
  /\ \E s \in {"connecting", "failed"} : listener' = [listener EXCEPT ![x] = s]
  /\ UNCHANGED <<server, net, caller, cur, cmd, addr, tasks>>

\* Shutdown does not keep the outer loop from reconnecting.
sse_shutdown_MutantReconnects(x) ==
  /\ listener[x] \in {"connecting", "streaming"}
  /\ cmd[x]
  /\ cmd' = [cmd EXCEPT ![x] = FALSE]
  /\ listener' = [listener EXCEPT ![x] = "waiting"]
  /\ cur' = [cur EXCEPT ![x] = 0]
  /\ events' = [events EXCEPT ![x] = <<>>]
  /\ UNCHANGED <<server, client, at, goal, caller, addr, tasks>>

\* Shutdown is received in the inner loop only.
sse_shutdown(x) ==
  /\ listener[x] \in {"connecting", "streaming"}
  /\ cmd[x]
  /\ cmd' = [cmd EXCEPT ![x] = FALSE]
  /\ listener' = [listener EXCEPT ![x] = "ended"]
  /\ cur' = [cur EXCEPT ![x] = 0]
  /\ events' = [events EXCEPT ![x] = <<>>]
  /\ UNCHANGED <<server, client, at, goal, caller, addr, tasks>>

\* The stream errs, or nothing was heard for sse_keepalive_timeout: what was on
\* its way is lost.
sse_breaks(x) ==
  /\ listener[x] \in {"connecting", "streaming"}
  /\ listener' = [listener EXCEPT ![x] = "waiting"]
  /\ cur' = [cur EXCEPT ![x] = 0]
  /\ events' = [events EXCEPT ![x] = <<>>]
  /\ UNCHANGED <<server, client, at, goal, caller, cmd, addr, tasks>>

\* sse_reconnect_wait is over.
sse_reconnect(x) ==
  /\ listener[x] = "waiting"
  /\ listener' = [listener EXCEPT ![x] = "connecting"]
  /\ UNCHANGED <<server, net, caller, cur, cmd, addr, tasks>>

Event(x, kind) ==
  /\ events[x] # <<>>
  /\ Head(events[x])[1] = kind
  /\ events' = [events EXCEPT ![x] = Tail(@)]

\* Listening: the address is set and waiters are notified under its lock.
listening(x) ==
  /\ Event(x, "listening")
  /\ public_addr' = [public_addr EXCEPT ![x] = Head(events[x])[2]]
  /\ notified' = [notified EXCEPT ![x] = @ \/ owner[x] = "wait"]
  /\ UNCHANGED <<server, client, at, goal, caller, sse, cmd, tasks>>

\* Ignored while another connection is open.
handle_new_connection_event_MutantBusy(x) ==
  /\ Event(x, "new")
  /\ LET i == Head(events[x])[2] IN
       IF \E k \in table[x] : conn[k][2] # "ended"
       THEN UNCHANGED tasks
       ELSE /\ conn' = Put(conn, i, <<x, "dialing">>)
            /\ table' = [table EXCEPT ![x] = @ \cup {i}]
  /\ UNCHANGED <<server, client, at, goal, caller, sse, cmd, addr>>

\* NewConnection: a task is spawned and entered under the table's lock.
handle_new_connection_event(x) ==
  /\ Event(x, "new")
  /\ LET i == Head(events[x])[2] IN
       /\ conn' = Put(conn, i, <<x, "dialing">>)
       /\ table' = [table EXCEPT ![x] = @ \cup {i}]
  /\ UNCHANGED <<server, client, at, goal, caller, sse, cmd, addr>>

-----------------------------------------------------------------------------
(* A connection task.                                                      *)

\* The TCP service is dialled first; if that fails the stream stays with the
\* server.
dial_service(i) ==
  /\ i \in DOMAIN conn /\ conn[i][2] = "dialing"
  /\ \E s \in {"upgrading", "ended"} : conn' = [conn EXCEPT ![i][2] = s]
  /\ UNCHANGED <<server, net, caller, sse, cmd, addr, table>>

\* The WebSocket request fails on its way, or after the server took the stream
\* out of its table.
connect_fails(i) ==
  /\ i \in DOMAIN conn /\ conn[i][2] = "upgrading"
  /\ conn' = [conn EXCEPT ![i][2] = "ended"]
  /\ \/ UNCHANGED <<connecting, relayed>>
     \/ /\ i \in DOMAIN connecting
        /\ connecting' = Drop(connecting, i)
        /\ relayed' = Put(relayed, i, connecting[i])
  /\ UNCHANGED <<pool, listeners, serving, streams_cnt, net, caller, sse, cmd, addr, table>>

\* Shutdown is received, or a stream fails, or the server has closed its side:
\* the WebSocket is closed.
relay_ends(i) ==
  /\ i \in DOMAIN conn /\ conn[i][2] = "relaying"
  /\ conn' = [conn EXCEPT ![i][2] = "ended"]
  /\ UNCHANGED <<server, net, caller, sse, cmd, addr, table>>

\* Only what must end it.
relay_must_end(i) == relay_ends(i) /\ (i \notin DOMAIN relayed \/ \E x \in Proxies : joining[x] = i)

\* The server's half: the WebSocket has ended, or an error of the client's
\* stream is unwrapped.  The client is disconnected.
server_relay_ends(i) ==
  /\ i \in DOMAIN relayed
  /\ relayed' = Drop(relayed, i)
  /\ client' = [client EXCEPT ![relayed[i]] = "closed"]
  /\ UNCHANGED <<pool, listeners, serving, streams_cnt, connecting, at, goal, events, caller, sse, cmd,
                 addr, tasks>>

-----------------------------------------------------------------------------

callers(x) ==
  \/ addr_some(x) \/ addr_wait(x) \/ addr_woken(x) \/ join_listener(x) \/ join_connection(x) \/ drained(x)
  \/ \E i \in Ids : drain(x, i)
sse_loop(x) == sse_build(x) \/ sse_reconnect(x) \/ listening(x) \/ handle_new_connection_event(x)
listens(x) == listen_fails(x) \/ \E port \in Ports : listen(x, port)
connection_task(i) == dial_service(i) \/ connect(i) \/ connect_fails(i)

Next ==
  \/ \E x \in Proxies :
       \/ start(x) \/ callers(x) \/ addr_timeout(x) \/ shutdown(x)
       \/ sse_loop(x) \/ sse_shutdown(x) \/ sse_breaks(x) \/ listens(x)
  \/ \E c \in Clients, h \in DOMAIN listeners : accept(h, c) \/ \E g \in DOMAIN listeners : dial(c, h, g)
  \/ \E h \in DOMAIN listeners : generator_ends(h)
  \/ \E i \in Ids : connection_task(i) \/ relay_ends(i) \/ server_relay_ends(i)

Spec == Init /\ [][Next]_vars

\* Every task that can proceed is polled, connecting ends one way or the other,
\* and a relay is not blocked in a send or in write_all (Tunnel shows when it
\* is).  Nothing obliges a stream to break, a caller to shut down or a client
\* to dial.  A listener that keeps being cut off and reconnects still
\* receives Shutdown: select polls its branches in random order.
Fairness ==
  /\ \A x \in Proxies :
       /\ WF_vars(callers(x)) /\ WF_vars(addr_timeout(x))
       /\ WF_vars(sse_loop(x)) /\ SF_vars(sse_shutdown(x)) /\ WF_vars(listens(x))
  /\ \A h \in Handles : WF_vars(\E c \in Clients : accept(h, c))
  /\ \A i \in Ids :
       /\ WF_vars(connection_task(i)) /\ WF_vars(relay_must_end(i))
       /\ WF_vars(i \in DOMAIN conn /\ conn[i][2] = "ended" /\ server_relay_ends(i))

FairSpec == Spec /\ Fairness

-----------------------------------------------------------------------------
(* Properties.                                                             *)

\* A client reaches the proxy whose address it dialled, and no other, although
\* ports and stream ids are handed out by one server to all proxies and
\* listeners outlive the requests that made them.
TunnelsMatch == \A i \in DOMAIN relayed : i \in DOMAIN conn /\ conn[i][1] = goal[relayed[i]]

\* No lost wake-up: while public_addr sleeps and the address is set, its future
\* has been notified.
NoLostWakeup == \A x \in Proxies : owner[x] = "wait" /\ public_addr[x] # 0 => notified[x]

\* When shutdown has returned Ok, the proxy has no task left: a connection
\* announced while shutdown ran was either refused or is gone as well.
ShutdownIsComplete ==
  \A x \in Proxies : owner[x] = "done" =>
    listener[x] = "ended" /\ \A i \in DOMAIN conn : conn[i][1] = x => conn[i][2] = "ended"

\* shutdown returns, whatever the listener was doing when it was called.
ShutdownReturns ==
  \A x \in Proxies : owner[x] = "join_listener" ~> owner[x] \in {"done", "error"}

\* A client queued at the port of a live SSE stream is connected to the
\* service, unless it gives up, the stream breaks or the proxy is shut down, or
\* the connection made for this client's own stream, which is then still in the
\* server's table, has failed.  What became of other clients' connections is no
\* excuse.
ClientIsServed ==
  \A c \in Clients, x \in Proxies :
    (client[c] = "queued" /\ cur[x] = at[c])
      ~> \/ c \in {relayed[i] : i \in DOMAIN relayed} \/ client[c] = "closed"
         \/ cur[x] # at[c] \/ at[c] \notin serving
         \/ \E i \in DOMAIN conn \cap DOMAIN connecting : connecting[i] = c /\ conn[i] = <<x, "ended">>

=============================================================================
