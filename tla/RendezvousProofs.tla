-------------------------- MODULE RendezvousProofs --------------------------
(***************************************************************************)
(* Each client reaches the proxy it dialled, no wake-up of public_addr is  *)
(* lost and a shutdown leaves nothing behind, for any number of proxies,   *)
(* clients and ports.                                                      *)
(***************************************************************************)
EXTENDS Rendezvous, TLAPS

AnEvent == ({"listening"} \X Ports) \cup ({"new"} \X Nat)

\* The ids announced by the events of s.
News(s) == {i \in Nat : \E n \in 1..Len(s) : s[n] = <<"new", i>>}

\* No two listeners have a port in common, and none has a port of the pool.
PortsDiffer ==
  \A h \in DOMAIN listeners :
    /\ listeners[h][2] \notin pool
    /\ \A g \in DOMAIN listeners : listeners[g][2] = listeners[h][2] => g = h

\* A client that dialled is queued at the listener of the proxy it meant.
Dialled == \A c \in Clients :
  client[c] # "idle" => at[c] \in DOMAIN listeners /\ listeners[at[c]][1] = goal[c]

\* Ids are handed out once, to clients that dialled.
IdsKnown ==
  /\ \A i \in DOMAIN connecting : i \in 1..streams_cnt /\ client[connecting[i]] # "idle"
  /\ \A i \in DOMAIN relayed : i \in 1..streams_cnt /\ client[relayed[i]] # "idle"
  /\ \A i \in DOMAIN conn : i \in 1..streams_cnt
  /\ \A x \in Proxies : News(events[x]) \subseteq 1..streams_cnt

\* i is not the id of a client that dialled another proxy than x.
MayHave(x, i) ==
  /\ i \in DOMAIN connecting => goal[connecting[i]] = x
  /\ i \in DOMAIN relayed => goal[relayed[i]] = x

\* An id is announced to one proxy, whose connection it becomes.
IdsOwned ==
  /\ \A x \in Proxies : \A i \in News(events[x]) : MayHave(x, i)
  /\ \A i \in DOMAIN conn : MayHave(conn[i][1], i)
  /\ \A i \in DOMAIN relayed : i \in DOMAIN conn

\* A connection that has not ended is in its proxy's table or waited for.
Held == \A i \in DOMAIN conn :
  conn[i][2] # "ended" => i \in table[conn[i][1]] \/ joining[conn[i][1]] = i

\* A listener that ended takes no events, and one not started has no owner.
Quiet == \A x \in Proxies :
  /\ owner[x] = "none" => listener[x] = "none"
  /\ listener[x] # "streaming" => cur[x] = 0 /\ events[x] = <<>>
  /\ owner[x] \in {"drain", "done"} => listener[x] = "ended"
  /\ owner[x] = "done" => table[x] = {} /\ joining[x] = 0

IInv ==
  /\ TypeOK
  /\ PortsDiffer
  /\ Dialled
  /\ IdsKnown
  /\ IdsOwned
  /\ Held
  /\ Quiet
  /\ NoLostWakeup

-----------------------------------------------------------------------------
(* Events, tables.                                                         *)

LEMMA NoNews ==
  /\ <<>> \in Seq(AnEvent) /\ News(<<>>) = {}
  /\ \A p \in Ports : <<<<"listening", p>>>> \in Seq(AnEvent) /\ News(<<<<"listening", p>>>>) = {}
<1>1. <<>> \in Seq(AnEvent) /\ Len(<<>>) = 0
  OBVIOUS
<1>2. ASSUME NEW p \in Ports
      PROVE  <<<<"listening", p>>>> \in Seq(AnEvent) /\ News(<<<<"listening", p>>>>) = {}
  <2> DEFINE e == <<"listening", p>>
  <2>1. e \in AnEvent /\ \A i \in Nat : e # <<"new", i>>
    BY DEF AnEvent
  <2> HIDE DEF e
  <2>2. <<e>> \in Seq(AnEvent) /\ Len(<<e>>) = 1 /\ <<e>>[1] = e
    BY <2>1
  <2>3. News(<<e>>) = {}
    BY <2>1, <2>2 DEF News
  <2> QED BY <2>2, <2>3 DEF e
<1> QED BY <1>1, <1>2 DEF News

LEMMA NewsAppend ==
  ASSUME NEW s \in Seq(AnEvent), NEW i \in Nat
  PROVE  Append(s, <<"new", i>>) \in Seq(AnEvent) /\ News(Append(s, <<"new", i>>)) \subseteq News(s) \cup {i}
<1> DEFINE e == <<"new", i>>
<1>1. e \in AnEvent /\ \A k \in Nat : e = <<"new", k>> => k = i
  BY DEF AnEvent
<1> HIDE DEF e
<1>2. /\ Append(s, e) \in Seq(AnEvent) /\ Len(Append(s, e)) = Len(s) + 1 /\ Len(s) \in Nat
      /\ Append(s, e)[Len(s) + 1] = e /\ \A n \in 1..Len(s) : Append(s, e)[n] = s[n]
  BY <1>1
<1>3. ASSUME NEW k \in News(Append(s, e)) PROVE k \in News(s) \cup {i}
  <2>1. PICK n \in 1..Len(Append(s, e)) : Append(s, e)[n] = <<"new", k>>
    BY DEF News
  <2>2. CASE n \in 1..Len(s)
    BY <1>2, <2>1, <2>2 DEF News
  <2>3. CASE n = Len(s) + 1
    BY <1>1, <1>2, <2>1, <2>3 DEF News
  <2> QED BY <1>2, <2>2, <2>3
<1> QED BY <1>2, <1>3 DEF e

LEMMA NewsTail ==
  ASSUME NEW s \in Seq(AnEvent), s # <<>>
  PROVE  /\ Tail(s) \in Seq(AnEvent) /\ News(Tail(s)) \subseteq News(s)
         /\ Head(s)[1] = "new" => Head(s)[2] \in News(s)
         /\ Head(s)[1] = "listening" => Head(s)[2] \in Ports
<1>1. /\ Tail(s) \in Seq(AnEvent) /\ Len(s) \in Nat /\ Len(s) > 0 /\ Len(Tail(s)) = Len(s) - 1
      /\ \A n \in 1..Len(Tail(s)) : Tail(s)[n] = s[n + 1]
      /\ Head(s) = s[1] /\ s[1] \in AnEvent
  OBVIOUS
<1>2. ASSUME NEW k \in News(Tail(s)) PROVE k \in News(s)
  <2>1. PICK n \in 1..Len(Tail(s)) : Tail(s)[n] = <<"new", k>>
    BY DEF News
  <2>2. n + 1 \in 1..Len(s) /\ s[n + 1] = <<"new", k>>
    BY <1>1, <2>1
  <2> QED BY <2>2 DEF News
<1>3. Head(s)[1] = "new" => Head(s)[2] \in News(s)
  <2> SUFFICES ASSUME s[1][1] = "new" PROVE s[1][2] \in News(s)
    BY <1>1
  <2>1. s[1] = <<"new", s[1][2]>> /\ s[1][2] \in Nat
    BY <1>1 DEF AnEvent
  <2>2. 1 \in 1..Len(s)
    BY <1>1
  <2> QED BY <2>1, <2>2 DEF News
<1>4. Head(s)[1] = "listening" => Head(s)[2] \in Ports
  BY <1>1 DEF AnEvent
<1> QED BY <1>1, <1>2, <1>3, <1>4

LEMMA DropFact ==
  ASSUME NEW f, NEW k
  PROVE  DOMAIN Drop(f, k) = DOMAIN f \ {k} /\ \A i \in DOMAIN Drop(f, k) : Drop(f, k)[i] = f[i]
BY DEF Drop

\* A connection task goes on to state s.
ConnStep(i, s) ==
  /\ DOMAIN conn' = DOMAIN conn
  /\ \A k \in DOMAIN conn : conn'[k] = IF k = i THEN <<conn[i][1], s>> ELSE conn[k]

LEMMA ConnFact ==
  ASSUME TypeOK, NEW i \in DOMAIN conn, NEW s, conn' = [conn EXCEPT ![i][2] = s]
  PROVE  ConnStep(i, s)
<1>1. conn[i] \in Proxies \X {"dialing", "upgrading", "relaying", "ended"}
  BY DEF TypeOK
<1>2. [conn[i] EXCEPT ![2] = s] = <<conn[i][1], s>>
  BY <1>1
<1>3. conn' = [conn EXCEPT ![i] = [conn[i] EXCEPT ![2] = s]]
  OBVIOUS
<1> QED BY <1>2, <1>3 DEF ConnStep

\* A table of values of S.
Table(f, S) == DOMAIN f \subseteq Nat /\ \A i \in DOMAIN f : f[i] \in S

LEMMA TableFact ==
  ASSUME NEW f, NEW S, Table(f, S)
  PROVE  /\ \A k : Table(Drop(f, k), S)
         /\ \A k \in Nat, v \in S : Table(Put(f, k, v), S)
<1>1. ASSUME NEW k PROVE Table(Drop(f, k), S)
  <2>1. DOMAIN Drop(f, k) = DOMAIN f \ {k} /\ \A i \in DOMAIN Drop(f, k) : Drop(f, k)[i] = f[i]
    BY DropFact
  <2> QED BY <2>1, Zenon DEF Table
<1>2. ASSUME NEW k \in Nat, NEW v \in S PROVE Table(Put(f, k, v), S)
  <2>1. /\ DOMAIN Put(f, k, v) = DOMAIN f \cup {k}
        /\ \A i \in DOMAIN Put(f, k, v) : Put(f, k, v)[i] = IF i = k THEN v ELSE f[i]
    BY DEF Put
  <2> QED BY <2>1, Zenon DEF Table
<1> QED BY <1>1, <1>2

AConn == Proxies \X {"dialing", "upgrading", "relaying", "ended"}

LEMMA TablesTyped ==
  ASSUME TypeOK
  PROVE  Table(connecting, Clients) /\ Table(relayed, Clients) /\ Table(conn, AConn)
BY DEF TypeOK, Table, AConn

LEMMA ConnTyped ==
  ASSUME TypeOK, NEW i \in DOMAIN conn, NEW t \in {"dialing", "upgrading", "relaying", "ended"}, ConnStep(i, t)
  PROVE  Table(conn', AConn)
<1>1. DOMAIN conn \subseteq Nat /\ \A k \in DOMAIN conn : conn[k] \in AConn
  BY TablesTyped DEF Table
<1>2. <<conn[i][1], t>> \in AConn
  BY <1>1 DEF AConn
<1> QED BY <1>1, <1>2 DEF Table, ConnStep

LEMMA ListenerFact ==
  ASSUME TypeOK, NEW h \in DOMAIN listeners
  PROVE  h \in Nat \ {0} /\ listeners[h][1] \in Proxies /\ listeners[h][2] \in Ports
<1>1. listeners \in Seq(Proxies \X Ports)
  BY DEF TypeOK
<1>2. h \in Nat \ {0} /\ listeners[h] \in Proxies \X Ports
  BY <1>1
<1> QED BY <1>2

LEMMA EventsTyped == ASSUME TypeOK PROVE events \in [Proxies -> Seq(AnEvent)]
BY DEF TypeOK, AnEvent

-----------------------------------------------------------------------------
(* Types.                                                                  *)

LEMMA TypesStep == TypeOK /\ [Next]_vars => TypeOK'
<1> SUFFICES ASSUME TypeOK, [Next]_vars PROVE TypeOK'
  OBVIOUS
<1> USE DEF server, net, caller, sse, addr, tasks
<1>1. CASE UNCHANGED vars
  BY <1>1 DEF TypeOK, vars
<1>2. ASSUME NEW x \in Proxies, start(x) PROVE TypeOK'
  BY <1>2 DEF TypeOK, start
<1>3. ASSUME NEW x \in Proxies, addr_some(x) PROVE TypeOK'
  BY <1>3 DEF TypeOK, addr_some
<1>4. ASSUME NEW x \in Proxies, addr_wait(x) PROVE TypeOK'
  BY <1>4 DEF TypeOK, addr_wait
<1>5. ASSUME NEW x \in Proxies, addr_woken(x) PROVE TypeOK'
  BY <1>5 DEF TypeOK, addr_woken
<1>6. ASSUME NEW x \in Proxies, addr_timeout(x) PROVE TypeOK'
  BY <1>6 DEF TypeOK, addr_timeout
<1>7. ASSUME NEW x \in Proxies, shutdown(x) PROVE TypeOK'
  BY <1>7 DEF TypeOK, shutdown
<1>8. ASSUME NEW x \in Proxies, join_listener(x) PROVE TypeOK'
  BY <1>8 DEF TypeOK, join_listener
<1>9. ASSUME NEW x \in Proxies, join_connection(x) PROVE TypeOK'
  BY <1>9 DEF TypeOK, join_connection
<1>10. ASSUME NEW x \in Proxies, drained(x) PROVE TypeOK'
  BY <1>10 DEF TypeOK, drained
<1>11. ASSUME NEW x \in Proxies, sse_build(x) PROVE TypeOK'
  BY <1>11 DEF TypeOK, sse_build
<1>12. ASSUME NEW x \in Proxies, sse_reconnect(x) PROVE TypeOK'
  BY <1>12 DEF TypeOK, sse_reconnect
<1>13. ASSUME NEW x \in Proxies, listen_fails(x) PROVE TypeOK'
  BY <1>13 DEF TypeOK, listen_fails
<1>14. ASSUME NEW x \in Proxies, sse_shutdown(x) PROVE TypeOK'
  BY <1>14, NoNews DEF TypeOK, sse_shutdown, AnEvent
<1>15. ASSUME NEW x \in Proxies, sse_breaks(x) PROVE TypeOK'
  BY <1>15, NoNews DEF TypeOK, sse_breaks, AnEvent
<1>16. ASSUME NEW x \in Proxies, NEW i \in Ids, drain(x, i) PROVE TypeOK'
  <2>1. i \in Nat
    BY DEF TypeOK, drain, Ids
  <2> QED BY <1>16, <2>1 DEF TypeOK, drain
<1>17. ASSUME NEW x \in Proxies, NEW port \in Ports, listen(x, port) PROVE TypeOK'
  <2> DEFINE ev == <<<<"listening", port>>>>
  <2>1. ev \in Seq(AnEvent)
    BY NoNews
  <2>2. <<x, port>> \in Proxies \X Ports
    OBVIOUS
  <2>3. /\ listeners' = Append(listeners, <<x, port>>)
        /\ serving' = serving \cup {Len(listeners) + 1} /\ cur' = [cur EXCEPT ![x] = Len(listeners) + 1]
    BY <1>17 DEF listen
  <2>4. /\ listeners' \in Seq(Proxies \X Ports) /\ Len(listeners') = Len(listeners) + 1 /\ Len(listeners) \in Nat
        /\ DOMAIN listeners = 1..Len(listeners) /\ DOMAIN listeners' = 1..Len(listeners')
    BY <2>2, <2>3 DEF TypeOK
  <2>5. serving' \subseteq DOMAIN listeners' /\ cur' \in [Proxies -> Nat]
    BY <2>3, <2>4 DEF TypeOK
  <2>6. events' \in [Proxies -> Seq(AnEvent)]
    <3>1. events' = [events EXCEPT ![x] = ev]
      BY <1>17 DEF listen
    <3> HIDE DEF ev
    <3> QED BY <2>1, <3>1 DEF TypeOK, AnEvent
  <2> QED BY <1>17, <2>4, <2>5, <2>6 DEF TypeOK, listen, AnEvent
<1>18. ASSUME NEW x \in Proxies, listening(x) PROVE TypeOK'
  <2>1. Tail(events[x]) \in Seq(AnEvent) /\ Head(events[x])[2] \in Ports
    BY <1>18, NewsTail DEF TypeOK, listening, Event, AnEvent
  <2>2. Head(events[x])[2] \in Nat
    BY <2>1, PortsAssumption
  <2> QED BY <1>18, <2>1, <2>2 DEF TypeOK, listening, Event, AnEvent
<1>19. ASSUME NEW x \in Proxies, handle_new_connection_event(x) PROVE TypeOK'
  <2>1. Tail(events[x]) \in Seq(AnEvent) /\ Head(events[x])[2] \in Nat
    <3>1. events[x] \in Seq(AnEvent) /\ events[x] # <<>> /\ Head(events[x])[1] = "new"
      BY <1>19, EventsTyped DEF handle_new_connection_event, Event
    <3> QED BY <3>1, NewsTail DEF News
  <2>2. PICK i \in Nat : conn' = Put(conn, i, <<x, "dialing">>) /\ table' = [table EXCEPT ![x] = table[x] \cup {i}]
    BY <1>19, <2>1 DEF handle_new_connection_event
  <2>3. events' \in [Proxies -> Seq(AnEvent)]
    <3>1. events' = [events EXCEPT ![x] = Tail(events[x])]
      BY <1>19 DEF handle_new_connection_event, Event
    <3> QED BY <2>1, <3>1, EventsTyped
  <2>4. <<x, "dialing">> \in AConn
    BY DEF AConn
  <2>5. Table(conn', AConn)
    BY <2>2, <2>4, TablesTyped, TableFact
  <2>6. table' \in [Proxies -> SUBSET Nat]
    BY <2>2 DEF TypeOK
  <2> QED BY <1>19, <2>3, <2>5, <2>6 DEF TypeOK, handle_new_connection_event, AnEvent, AConn, Table
<1>20. ASSUME NEW c \in Clients, NEW h \in DOMAIN listeners, accept(h, c) PROVE TypeOK'
  <2>1. streams_cnt + 1 \in Nat /\ streams_cnt' = streams_cnt + 1 /\ connecting' = Put(connecting, streams_cnt + 1, c)
    BY <1>20 DEF TypeOK, accept
  <2>2. Table(connecting', Clients)
    BY <2>1, TablesTyped, TableFact
  <2>3. events' \in [Proxies -> Seq(AnEvent)]
    <3>1. events \in [Proxies -> Seq(AnEvent)] /\ listeners[h][1] \in Proxies
      BY EventsTyped, ListenerFact
    <3>2. Append(events[listeners[h][1]], <<"new", streams_cnt + 1>>) \in Seq(AnEvent)
      BY <2>1, <3>1, NewsAppend
    <3> QED BY <1>20, <2>1, <3>1, <3>2 DEF accept, Yield
  <2> QED BY <1>20, <2>1, <2>2, <2>3 DEF TypeOK, accept, AnEvent, Table
<1>21. ASSUME NEW c \in Clients, NEW h \in DOMAIN listeners, NEW g \in DOMAIN listeners, dial(c, h, g) PROVE TypeOK'
  <2>1. g \in Nat /\ listeners[h][1] \in Proxies
    BY ListenerFact
  <2> QED BY <1>21, <2>1 DEF TypeOK, dial
<1>22. ASSUME NEW h \in DOMAIN listeners, generator_ends(h) PROVE TypeOK'
  BY <1>22 DEF TypeOK, generator_ends
<1>23. ASSUME NEW i \in Ids, dial_service(i) PROVE TypeOK'
  <2>1. PICK s \in {"upgrading", "ended"} : i \in DOMAIN conn /\ conn' = [conn EXCEPT ![i][2] = s]
    BY <1>23 DEF dial_service
  <2>2. Table(conn', AConn)
    BY <2>1, ConnFact, ConnTyped
  <2> QED BY <1>23, <2>2 DEF TypeOK, Table, AConn, dial_service
<1>24. ASSUME NEW i \in Ids, relay_ends(i) PROVE TypeOK'
  <2>1. Table(conn', AConn)
    BY <1>24, ConnFact, ConnTyped DEF relay_ends
  <2> QED BY <1>24, <2>1 DEF TypeOK, Table, AConn, relay_ends
<1>25. ASSUME NEW i \in Ids, connect(i) PROVE TypeOK'
  <2>1. Table(conn', AConn)
    BY <1>25, ConnFact, ConnTyped DEF connect
  <2>2. Table(connecting', Clients) /\ Table(relayed', Clients)
    <3>1. i \in Nat /\ (i \in DOMAIN connecting => connecting[i] \in Clients)
      BY <1>25, TablesTyped DEF Table, connect
    <3> QED BY <1>25, <3>1, TablesTyped, TableFact DEF connect
  <2> QED BY <1>25, <2>1, <2>2 DEF TypeOK, Table, AConn, connect
<1>26. ASSUME NEW i \in Ids, connect_fails(i) PROVE TypeOK'
  <2>1. Table(conn', AConn)
    BY <1>26, ConnFact, ConnTyped DEF connect_fails
  <2>2. Table(connecting', Clients) /\ Table(relayed', Clients)
    <3>1. i \in Nat /\ (i \in DOMAIN connecting => connecting[i] \in Clients)
      BY <1>26, TablesTyped DEF Table, connect_fails
    <3> QED BY <1>26, <3>1, TablesTyped, TableFact DEF connect_fails
  <2> QED BY <1>26, <2>1, <2>2 DEF TypeOK, Table, AConn, connect_fails
<1>27. ASSUME NEW i \in Ids, server_relay_ends(i) PROVE TypeOK'
  <2>1. Table(relayed', Clients)
    BY <1>27, TablesTyped, TableFact DEF server_relay_ends
  <2> QED BY <1>27, <2>1 DEF TypeOK, Table, AConn, server_relay_ends
<1> QED BY <1>1, <1>2, <1>3, <1>4, <1>5, <1>6, <1>7, <1>8, <1>9, <1>10, <1>11, <1>12, <1>13, <1>14,
           <1>15, <1>16, <1>17, <1>18, <1>19, <1>20, <1>21, <1>22, <1>23, <1>24, <1>25, <1>26, <1>27
           DEF Next, callers, sse_loop, listens, connection_task

-----------------------------------------------------------------------------
(* Ports and clients.                                                      *)

\* The steps of a caller and of a loop that move no client and no event.
Control(x) ==
  \/ start(x) \/ addr_some(x) \/ addr_wait(x) \/ addr_woken(x) \/ addr_timeout(x)
  \/ shutdown(x) \/ join_listener(x) \/ join_connection(x) \/ drained(x) \/ \E i \in Ids : drain(x, i)
  \/ sse_build(x) \/ sse_reconnect(x)

\* The steps that take an event, or lose all of them.
Hears(x) == listening(x) \/ sse_shutdown(x) \/ sse_breaks(x)

LEMMA Steps ==
  Next => \/ \E x \in Proxies : \/ Control(x) \/ Hears(x) \/ handle_new_connection_event(x)
                                \/ listen_fails(x) \/ \E port \in Ports : listen(x, port)
          \/ \E c \in Clients, h \in DOMAIN listeners : accept(h, c)
          \/ \E c \in Clients, h \in DOMAIN listeners, g \in DOMAIN listeners : dial(c, h, g)
          \/ \E h \in DOMAIN listeners : generator_ends(h)
          \/ \E i \in Ids : \/ dial_service(i) \/ relay_ends(i) \/ connect(i) \/ connect_fails(i)
                            \/ server_relay_ends(i)
BY DEF Next, callers, sse_loop, listens, connection_task, Control, Hears

data == <<pool, listeners, streams_cnt, connecting, relayed, client, at, goal>>

LEMMA ControlKeeps == ASSUME NEW x \in Proxies, Control(x) PROVE UNCHANGED <<data, events, conn>>
<1> USE DEF server, net, caller, sse, addr, tasks, data
<1>1. CASE start(x) \/ addr_some(x) \/ addr_wait(x) \/ addr_woken(x) \/ addr_timeout(x)
  BY <1>1 DEF start, addr_some, addr_wait, addr_woken, addr_timeout
<1>2. CASE shutdown(x) \/ join_listener(x) \/ join_connection(x) \/ drained(x) \/ \E i \in Ids : drain(x, i)
  BY <1>2 DEF shutdown, join_listener, join_connection, drained, drain
<1>3. CASE sse_build(x) \/ sse_reconnect(x)
  BY <1>3 DEF sse_build, sse_reconnect
<1> QED BY <1>1, <1>2, <1>3 DEF Control

LEMMA HearsKeeps == ASSUME NEW x \in Proxies, Hears(x) PROVE UNCHANGED <<data, conn>>
BY DEF Hears, listening, sse_shutdown, sse_breaks, server, net, caller, sse, addr, tasks, data

\* A port leaves the pool before it is bound.
LEMMA PortsStep ==
  ASSUME TypeOK, PortsDiffer, [Next]_vars
  PROVE  PortsDiffer'
<1> USE DEF server, net, caller, sse, addr, tasks
<1>1. CASE \E x \in Proxies, port \in Ports : listen(x, port)
  <2>1. PICK x \in Proxies, port \in Ports : listen(x, port)
    BY <1>1
  <2>2. port \in pool /\ pool' = pool \ {port} /\ listeners' = Append(listeners, <<x, port>>)
    BY <2>1 DEF listen
  <2> DEFINE k == Len(listeners) + 1
  <2>3. /\ DOMAIN listeners' = DOMAIN listeners \cup {k} /\ k \notin DOMAIN listeners
        /\ \A h \in DOMAIN listeners : listeners'[h] = listeners[h]
        /\ listeners'[k][2] = port
    <3>1. listeners \in Seq(Proxies \X Ports) /\ <<x, port>> \in Proxies \X Ports
      BY DEF TypeOK
    <3> QED BY <2>2, <3>1
  <2> HIDE DEF k
  <2>4. \A h \in DOMAIN listeners : listeners[h][2] # port
    BY <2>2 DEF PortsDiffer
  <2> QED BY <2>2, <2>3, <2>4 DEF PortsDiffer
<1>2. CASE pool' \subseteq pool /\ listeners' = listeners
  BY <1>2 DEF PortsDiffer
<1>3. ASSUME NEW x \in Proxies, \/ Control(x) \/ Hears(x) \/ handle_new_connection_event(x) \/ listen_fails(x)
      PROVE  PortsDiffer'
  BY <1>2, <1>3, ControlKeeps, HearsKeeps DEF data, handle_new_connection_event, listen_fails
<1>4. ASSUME NEW i \in Ids, dial_service(i) \/ relay_ends(i) \/ connect(i) \/ connect_fails(i) \/ server_relay_ends(i)
      PROVE  PortsDiffer'
  BY <1>2, <1>4 DEF dial_service, relay_ends, connect, connect_fails, server_relay_ends
<1>5. ASSUME NEW h \in DOMAIN listeners, generator_ends(h) PROVE PortsDiffer'
  BY <1>2, <1>5 DEF generator_ends
<1>6. ASSUME NEW c \in Clients, NEW h \in DOMAIN listeners, accept(h, c) PROVE PortsDiffer'
  BY <1>2, <1>6 DEF accept
<1>7. ASSUME NEW c \in Clients, NEW h \in DOMAIN listeners, NEW g \in DOMAIN listeners, dial(c, h, g) PROVE PortsDiffer'
  BY <1>2, <1>7 DEF dial
<1>8. CASE UNCHANGED vars
  BY <1>2, <1>8 DEF vars
<1> QED BY <1>1, <1>3, <1>4, <1>5, <1>6, <1>7, <1>8, Steps

\* A port is bound by one listener only, so the kernel queues a client where it
\* wants to go.
LEMMA DialledStep ==
  ASSUME TypeOK, PortsDiffer, Dialled, IdsKnown, [Next]_vars
  PROVE  Dialled'
<1> USE DEF server, net, caller, sse, addr, tasks
<1>1. CASE \E x \in Proxies, port \in Ports : listen(x, port)
  <2>1. PICK x \in Proxies, port \in Ports : listen(x, port)
    BY <1>1
  <2>2. /\ listeners' = Append(listeners, <<x, port>>)
        /\ UNCHANGED <<client, at, goal>>
    BY <2>1 DEF listen
  <2>3. \A h \in DOMAIN listeners : h \in DOMAIN listeners' /\ listeners'[h] = listeners[h]
    <3>1. listeners \in Seq(Proxies \X Ports) /\ <<x, port>> \in Proxies \X Ports
      BY DEF TypeOK
    <3> QED BY <2>2, <3>1
  <2> QED BY <2>2, <2>3 DEF Dialled
<1>2. CASE /\ UNCHANGED <<listeners, at, goal>>
           /\ \A c \in Clients : client'[c] # "idle" => client[c] # "idle"
  BY <1>2 DEF Dialled
<1>3. ASSUME NEW x \in Proxies, \/ Control(x) \/ Hears(x) \/ handle_new_connection_event(x) \/ listen_fails(x)
      PROVE  Dialled'
  BY <1>2, <1>3, ControlKeeps, HearsKeeps DEF data, handle_new_connection_event, listen_fails
<1>4. ASSUME NEW i \in Ids, dial_service(i) \/ relay_ends(i) \/ connect(i) \/ connect_fails(i)
      PROVE  Dialled'
  BY <1>2, <1>4 DEF dial_service, relay_ends, connect, connect_fails
<1>5. ASSUME NEW i \in Ids, server_relay_ends(i) PROVE Dialled'
  <2>1. relayed[i] \in Clients /\ client[relayed[i]] # "idle" /\ client' = [client EXCEPT ![relayed[i]] = "closed"]
    BY <1>5, TablesTyped DEF server_relay_ends, IdsKnown, Table
  <2>2. UNCHANGED <<listeners, at, goal>>
    BY <1>5 DEF server_relay_ends
  <2>3. client \in [Clients -> {"idle", "queued", "accepted", "closed"}]
    BY DEF TypeOK
  <2> QED BY <1>2, <2>1, <2>2, <2>3
<1>6. ASSUME NEW h \in DOMAIN listeners, generator_ends(h) PROVE Dialled'
  BY <1>2, <1>6 DEF generator_ends
<1>7. ASSUME NEW c \in Clients, NEW h \in DOMAIN listeners, accept(h, c) PROVE Dialled'
  <2>1. client[c] = "queued" /\ client' = [client EXCEPT ![c] = "accepted"] /\ UNCHANGED <<listeners, at, goal>>
    BY <1>7 DEF accept
  <2>2. client \in [Clients -> {"idle", "queued", "accepted", "closed"}]
    BY DEF TypeOK
  <2> QED BY <1>2, <2>1, <2>2
<1>8. ASSUME NEW c \in Clients, NEW h \in DOMAIN listeners, NEW g \in DOMAIN listeners, dial(c, h, g) PROVE Dialled'
  <2>1. g = h
    BY <1>8 DEF dial, PortsDiffer
  <2>2. /\ client' = [client EXCEPT ![c] = "queued"] /\ at' = [at EXCEPT ![c] = g]
        /\ goal' = [goal EXCEPT ![c] = listeners[h][1]] /\ listeners' = listeners
    BY <1>8 DEF dial
  <2>3. /\ client \in [Clients -> {"idle", "queued", "accepted", "closed"}]
        /\ at \in [Clients -> Nat] /\ goal \in [Clients -> Proxies]
    BY DEF TypeOK
  <2> QED BY <2>1, <2>2, <2>3 DEF Dialled
<1>9. CASE UNCHANGED vars
  BY <1>2, <1>9 DEF vars
<1> QED BY <1>1, <1>3, <1>4, <1>5, <1>6, <1>7, <1>8, <1>9, Steps

-----------------------------------------------------------------------------
(* Ids.                                                                    *)

\* No id is announced that was not before.
NoNewIds == \A y \in Proxies : News(events'[y]) \subseteq News(events[y])

LEMMA HearsNews == ASSUME TypeOK, NEW x \in Proxies, Hears(x) PROVE NoNewIds
<1>0. events \in [Proxies -> Seq(AnEvent)]
  BY EventsTyped
<1>1. CASE listening(x)
  <2>1. events[x] # <<>> /\ events' = [events EXCEPT ![x] = Tail(events[x])]
    BY <1>1 DEF listening, Event
  <2> QED BY <1>0, <2>1, NewsTail DEF NoNewIds
<1>2. CASE sse_shutdown(x) \/ sse_breaks(x)
  <2>1. events' = [events EXCEPT ![x] = <<>>]
    BY <1>2 DEF sse_shutdown, sse_breaks
  <2> QED BY <1>0, <2>1, NoNews DEF NoNewIds
<1> QED BY <1>1, <1>2 DEF Hears

LEMMA ListenNews == ASSUME TypeOK, NEW x \in Proxies, NEW port \in Ports, listen(x, port) PROVE NoNewIds
<1> DEFINE ev == <<<<"listening", port>>>>
<1>1. events \in [Proxies -> Seq(AnEvent)] /\ events' = [events EXCEPT ![x] = ev] /\ News(ev) = {}
  BY EventsTyped, NoNews DEF listen
<1> HIDE DEF ev
<1> QED BY <1>1 DEF NoNewIds

LEMMA NewConnection ==
  ASSUME TypeOK, NEW x \in Proxies, handle_new_connection_event(x)
  PROVE  /\ NoNewIds
         /\ \E i \in News(events[x]) : /\ DOMAIN conn' = DOMAIN conn \cup {i} /\ conn'[i] = <<x, "dialing">>
                                       /\ \A k \in DOMAIN conn \ {i} : conn'[k] = conn[k]
                                       /\ table' = [table EXCEPT ![x] = table[x] \cup {i}]
<1>1. /\ events \in [Proxies -> Seq(AnEvent)]
      /\ events[x] # <<>> /\ Head(events[x])[1] = "new" /\ events' = [events EXCEPT ![x] = Tail(events[x])]
  BY EventsTyped DEF handle_new_connection_event, Event
<1>2. NoNewIds
  BY <1>1, NewsTail DEF NoNewIds
<1>3. PICK i \in News(events[x]) : conn' = Put(conn, i, <<x, "dialing">>) /\ table' = [table EXCEPT ![x] = table[x] \cup {i}]
  BY <1>1, NewsTail DEF handle_new_connection_event
<1> QED BY <1>2, <1>3 DEF Put

LEMMA AcceptNews ==
  ASSUME TypeOK, NEW c \in Clients, NEW h \in DOMAIN listeners, accept(h, c)
  PROVE  \A y \in Proxies : \A i \in News(events'[y]) :
           i \in News(events[y]) \/ (i = streams_cnt + 1 /\ y = listeners[h][1])
<1>1. /\ events \in [Proxies -> Seq(AnEvent)] /\ listeners[h][1] \in Proxies /\ streams_cnt + 1 \in Nat
      /\ streams_cnt' = streams_cnt + 1 /\ events' = Yield(h, <<"new", streams_cnt'>>)
  <2>0. streams_cnt \in Nat
    BY DEF TypeOK
  <2>1. streams_cnt + 1 \in Nat
    BY <2>0
  <2> QED BY <2>1, EventsTyped, ListenerFact DEF accept
<1>2. PICK x \in Proxies : x = listeners[h][1]
  BY <1>1
<1>3. PICK k \in Nat : k = streams_cnt + 1
  BY <1>1
<1> DEFINE ev == <<"new", k>>
<1>4. events' = events \/ events' = [events EXCEPT ![x] = Append(events[x], ev)]
  BY <1>1, <1>2, <1>3 DEF Yield
<1>5. News(Append(events[x], ev)) \subseteq News(events[x]) \cup {k}
  BY <1>1, NewsAppend
<1> HIDE DEF ev
<1> QED BY <1>1, <1>2, <1>3, <1>4, <1>5

\* connecting, relayed and conn after a step of one connection.
LEMMA ConnectionStep ==
  ASSUME TypeOK, NEW i \in Ids, dial_service(i) \/ relay_ends(i) \/ connect(i) \/ connect_fails(i)
  PROVE  /\ i \in DOMAIN conn /\ conn[i][2] # "ended" /\ \E t : ConnStep(i, t)
         /\ DOMAIN connecting' \subseteq DOMAIN connecting /\ \A k \in DOMAIN connecting' : connecting'[k] = connecting[k]
         /\ \A k \in DOMAIN relayed' :
              \/ k \in DOMAIN relayed /\ relayed'[k] = relayed[k]
              \/ k = i /\ k \in DOMAIN connecting /\ relayed'[k] = connecting[k]
         /\ UNCHANGED <<streams_cnt, client, goal, events, table, joining>>
<1> USE DEF server, net, caller
<1>1. CASE dial_service(i)
  <2>1. PICK t \in {"upgrading", "ended"} : i \in DOMAIN conn /\ conn' = [conn EXCEPT ![i][2] = t]
    BY <1>1 DEF dial_service
  <2> QED BY <1>1, <2>1, ConnFact DEF dial_service
<1>2. CASE relay_ends(i)
  BY <1>2, ConnFact DEF relay_ends
<1>3. CASE connect(i)
  <2>1. i \in DOMAIN conn /\ conn[i][2] # "ended" /\ \E t : ConnStep(i, t)
    BY <1>3, ConnFact DEF connect
  <2>2. connecting' = Drop(connecting, i)
        /\ (relayed' = relayed \/ (i \in DOMAIN connecting /\ relayed' = Put(relayed, i, connecting[i])))
    BY <1>3 DEF connect
  <2> QED BY <1>3, <2>1, <2>2 DEF connect, Drop, Put
<1>4. CASE connect_fails(i)
  <2>1. i \in DOMAIN conn /\ conn[i][2] # "ended" /\ \E t : ConnStep(i, t)
    BY <1>4, ConnFact DEF connect_fails
  <2>2. \/ connecting' = connecting /\ relayed' = relayed
        \/ /\ i \in DOMAIN connecting
           /\ connecting' = Drop(connecting, i) /\ relayed' = Put(relayed, i, connecting[i])
    BY <1>4 DEF connect_fails
  <2> QED BY <1>4, <2>1, <2>2 DEF connect_fails, Drop, Put
<1> QED BY <1>1, <1>2, <1>3, <1>4

LEMMA RelayEndsStep ==
  ASSUME NEW i \in Ids, server_relay_ends(i)
  PROVE  /\ DOMAIN relayed' \subseteq DOMAIN relayed /\ \A k \in DOMAIN relayed' : relayed'[k] = relayed[k]
         /\ client' = [client EXCEPT ![relayed[i]] = "closed"]
         /\ UNCHANGED <<streams_cnt, connecting, goal, events, conn, table, joining>>
BY DEF server_relay_ends, Drop, caller, tasks

\* The steps that change nothing of what follows.
LEMMA OtherSteps ==
  ASSUME \/ UNCHANGED vars
         \/ \E x \in Proxies : Control(x) \/ listen_fails(x)
         \/ \E h \in DOMAIN listeners : generator_ends(h)
  PROVE  UNCHANGED <<streams_cnt, connecting, relayed, client, goal, events, conn>>
<1>1. CASE \E x \in Proxies : Control(x)
  BY <1>1, ControlKeeps DEF data
<1>2. CASE \E x \in Proxies : listen_fails(x)
  BY <1>2 DEF listen_fails, net, tasks
<1>3. CASE \E h \in DOMAIN listeners : generator_ends(h)
  BY <1>3 DEF generator_ends, net, tasks
<1>4. CASE UNCHANGED vars
  BY <1>4 DEF vars
<1> QED BY <1>1, <1>2, <1>3, <1>4

\* An id is handed out once.
LEMMA IdsKnownStep ==
  ASSUME TypeOK, IdsKnown, [Next]_vars
  PROVE  IdsKnown'
<1>0. /\ streams_cnt \in Nat /\ client \in [Clients -> {"idle", "queued", "accepted", "closed"}]
      /\ \A i \in DOMAIN connecting : connecting[i] \in Clients
      /\ \A i \in DOMAIN relayed : relayed[i] \in Clients
  BY DEF TypeOK
<1>1. CASE UNCHANGED <<streams_cnt, connecting, relayed, client, conn>> /\ NoNewIds
  BY <1>1 DEF IdsKnown, NoNewIds
<1>2. ASSUME NEW x \in Proxies, Hears(x) PROVE IdsKnown'
  BY <1>1, <1>2, HearsKeeps, HearsNews DEF data
<1>3. ASSUME NEW x \in Proxies, NEW port \in Ports, listen(x, port) PROVE IdsKnown'
  BY <1>1, <1>3, ListenNews DEF listen, tasks
<1>4. ASSUME NEW x \in Proxies, handle_new_connection_event(x) PROVE IdsKnown'
  <2>1. PICK i \in News(events[x]) : DOMAIN conn' = DOMAIN conn \cup {i}
    BY <1>4, NewConnection
  <2>2. NoNewIds /\ UNCHANGED <<streams_cnt, connecting, relayed, client>>
    BY <1>4, NewConnection DEF handle_new_connection_event, server
  <2> QED BY <2>1, <2>2 DEF IdsKnown, NoNewIds
<1>5. ASSUME NEW c \in Clients, NEW h \in DOMAIN listeners, accept(h, c) PROVE IdsKnown'
  <2>1. /\ streams_cnt' = streams_cnt + 1 /\ client' = [client EXCEPT ![c] = "accepted"]
        /\ DOMAIN connecting' = DOMAIN connecting \cup {streams_cnt + 1} /\ connecting'[streams_cnt + 1] = c
        /\ \A i \in DOMAIN connecting \ {streams_cnt + 1} : connecting'[i] = connecting[i]
        /\ UNCHANGED <<relayed, conn>>
    BY <1>5 DEF accept, Put, tasks
  <2>2. \A y \in Proxies : \A i \in News(events'[y]) : i \in News(events[y]) \/ i = streams_cnt + 1
    BY <1>5, AcceptNews
  <2>3. \A i \in 1..streams_cnt : i \in 1..streams_cnt'
    BY <1>0, <2>1
  <2>4. streams_cnt + 1 \in 1..streams_cnt'
    BY <1>0, <2>1
  <2> QED BY <1>0, <2>1, <2>2, <2>3, <2>4 DEF IdsKnown
<1>6. ASSUME NEW c \in Clients, NEW h \in DOMAIN listeners, NEW g \in DOMAIN listeners, dial(c, h, g) PROVE IdsKnown'
  BY <1>0, <1>6 DEF dial, IdsKnown, server, tasks
<1>7. ASSUME NEW i \in Ids, dial_service(i) \/ relay_ends(i) \/ connect(i) \/ connect_fails(i) PROVE IdsKnown'
  <2>1. DOMAIN conn' = DOMAIN conn
    BY <1>7, ConnectionStep DEF ConnStep
  <2> QED BY <1>7, <2>1, ConnectionStep DEF IdsKnown
<1>8. ASSUME NEW i \in Ids, server_relay_ends(i) PROVE IdsKnown'
  BY <1>0, <1>8, RelayEndsStep DEF IdsKnown
<1>9. CASE UNCHANGED <<streams_cnt, connecting, relayed, client, events, conn>>
  BY <1>1, <1>9 DEF NoNewIds
<1> QED BY <1>2, <1>3, <1>4, <1>5, <1>6, <1>7, <1>8, <1>9, OtherSteps, Steps

\* An id belongs to the proxy whose listener the client is queued at.
LEMMA IdsOwnedStep ==
  ASSUME TypeOK, Dialled, IdsKnown, IdsOwned, [Next]_vars
  PROVE  IdsOwned'
<1>0. /\ streams_cnt \in Nat /\ goal \in [Clients -> Proxies]
      /\ \A i \in DOMAIN connecting : connecting[i] \in Clients
      /\ \A i \in DOMAIN relayed : relayed[i] \in Clients
      /\ \A i \in DOMAIN conn : conn[i][1] \in Proxies
  BY DEF TypeOK
<1>1. CASE UNCHANGED <<connecting, relayed, goal, conn>> /\ NoNewIds
  BY <1>1 DEF IdsOwned, NoNewIds, MayHave
<1>2. ASSUME NEW x \in Proxies, Hears(x) PROVE IdsOwned'
  BY <1>1, <1>2, HearsKeeps, HearsNews DEF data
<1>3. ASSUME NEW x \in Proxies, NEW port \in Ports, listen(x, port) PROVE IdsOwned'
  BY <1>1, <1>3, ListenNews DEF listen, tasks
<1>4. ASSUME NEW x \in Proxies, handle_new_connection_event(x) PROVE IdsOwned'
  <2>1. PICK i \in News(events[x]) : /\ DOMAIN conn' = DOMAIN conn \cup {i} /\ conn'[i] = <<x, "dialing">>
                                     /\ \A k \in DOMAIN conn \ {i} : conn'[k] = conn[k]
    BY <1>4, NewConnection
  <2>2. NoNewIds /\ UNCHANGED <<connecting, relayed, goal>>
    BY <1>4, NewConnection DEF handle_new_connection_event, server
  <2>3. \A y \in Proxies : \A k : MayHave(y, k)' = MayHave(y, k)
    BY <2>2 DEF MayHave
  <2>4. \A y \in Proxies : \A k \in News(events'[y]) : MayHave(y, k)'
    BY <2>2, <2>3 DEF IdsOwned, NoNewIds
  <2>5. \A k \in DOMAIN conn' : conn'[k][1] \in Proxies /\ MayHave(conn'[k][1], k)
    BY <1>0, <2>1 DEF IdsOwned
  <2>6. \A k \in DOMAIN conn' : MayHave(conn[k][1], k)'
    BY <2>2, <2>5 DEF MayHave
  <2> QED BY <2>1, <2>2, <2>4, <2>6 DEF IdsOwned
<1>5. ASSUME NEW c \in Clients, NEW h \in DOMAIN listeners, accept(h, c) PROVE IdsOwned'
  <2>0. PICK n \in Nat : n = streams_cnt + 1
    BY <1>0
  <2>1. /\ DOMAIN connecting' = DOMAIN connecting \cup {n} /\ connecting'[n] = c
        /\ \A i \in DOMAIN connecting \ {n} : connecting'[i] = connecting[i]
        /\ UNCHANGED <<relayed, conn, goal>>
    BY <1>5, <2>0 DEF accept, Put, tasks
  <2>2. \A y \in Proxies : \A i \in News(events'[y]) : i \in News(events[y]) \/ (i = n /\ y = listeners[h][1])
    BY <1>5, <2>0, AcceptNews
  <2>3. goal[c] = listeners[h][1]
    BY <1>5 DEF accept, Dialled
  <2>4. n \notin 1..streams_cnt
    BY <1>0, <2>0
  <2>5. /\ n \notin DOMAIN connecting /\ n \notin DOMAIN relayed /\ n \notin DOMAIN conn
        /\ \A y \in Proxies : n \notin News(events[y])
    BY <2>4 DEF IdsKnown
  <2>6. \A y \in Proxies : \A k : k # n /\ MayHave(y, k) => MayHave(y, k)'
    BY <2>1 DEF MayHave
  <2>7. MayHave(listeners[h][1], n)'
    <3> SUFFICES (n \in DOMAIN connecting' => goal'[connecting'[n]] = listeners'[h][1]) /\ n \notin DOMAIN relayed'
      BY DEF MayHave
    <3> QED BY <1>5, <2>1, <2>3, <2>5 DEF accept
  <2>8. listeners' = listeners
    BY <1>5 DEF accept
  <2>9. \A y \in Proxies : \A i \in News(events'[y]) : MayHave(y, i)'
    <3> SUFFICES ASSUME NEW y \in Proxies, NEW i \in News(events'[y]) PROVE MayHave(y, i)'
      OBVIOUS
    <3>1. CASE i \in News(events[y])
      BY <2>5, <2>6, <3>1 DEF IdsOwned
    <3>2. CASE i = n /\ y = listeners[h][1]
      BY <2>7, <2>8, <3>2
    <3> QED BY <2>2, <3>1, <3>2
  <2>10. \A k \in DOMAIN conn' : MayHave(conn[k][1], k)'
    <3> SUFFICES ASSUME NEW k \in DOMAIN conn PROVE MayHave(conn[k][1], k)'
      BY <2>1
    <3>1. PICK y \in Proxies : y = conn[k][1]
      BY <1>0
    <3>2. k # n /\ MayHave(y, k)
      BY <2>5, <3>1 DEF IdsOwned
    <3>3. MayHave(y, k)' /\ conn' = conn
      BY <2>1, <2>6, <3>2
    <3> QED BY <3>1, <3>3
  <2> QED BY <2>1, <2>9, <2>10 DEF IdsOwned
<1>6. ASSUME NEW c \in Clients, NEW h \in DOMAIN listeners, NEW g \in DOMAIN listeners, dial(c, h, g) PROVE IdsOwned'
  <2>1. client[c] = "idle" /\ goal' = [goal EXCEPT ![c] = listeners[h][1]] /\ UNCHANGED <<connecting, relayed, conn, events>>
    BY <1>6 DEF dial, server, tasks
  <2>2. \A y \in Proxies : \A k : MayHave(y, k) => MayHave(y, k)'
    <3>1. \A d \in Clients \ {c} : goal'[d] = goal[d]
      BY <1>0, <2>1
    <3>2. /\ \A k \in DOMAIN connecting : connecting[k] \in Clients \ {c}
          /\ \A k \in DOMAIN relayed : relayed[k] \in Clients \ {c}
      BY <1>0, <2>1 DEF IdsKnown
    <3>3. connecting' = connecting /\ relayed' = relayed
      BY <2>1
    <3> QED BY <3>1, <3>2, <3>3 DEF MayHave
  <2> QED BY <1>0, <2>1, <2>2 DEF IdsOwned
<1>7. ASSUME NEW i \in Ids, dial_service(i) \/ relay_ends(i) \/ connect(i) \/ connect_fails(i) PROVE IdsOwned'
  <2>1. i \in DOMAIN conn /\ DOMAIN conn' = DOMAIN conn /\ \A k \in DOMAIN conn : conn'[k][1] = conn[k][1]
    <3>1. PICK t : i \in DOMAIN conn /\ ConnStep(i, t)
      BY <1>7, ConnectionStep
    <3> QED BY <3>1 DEF ConnStep
  <2>2. \A y \in Proxies : \A k : MayHave(y, k) => MayHave(y, k)'
    BY <1>7, ConnectionStep DEF MayHave
  <2>3. \A k \in DOMAIN relayed' : k \in DOMAIN relayed \/ k = i
    BY <1>7, ConnectionStep
  <2>4. events' = events
    BY <1>7, ConnectionStep
  <2> QED BY <1>0, <2>1, <2>2, <2>3, <2>4 DEF IdsOwned
<1>8. ASSUME NEW i \in Ids, server_relay_ends(i) PROVE IdsOwned'
  BY <1>8, RelayEndsStep DEF IdsOwned, MayHave
<1>9. CASE UNCHANGED <<connecting, relayed, goal, events, conn>>
  BY <1>1, <1>9 DEF NoNewIds
<1> QED BY <1>2, <1>3, <1>4, <1>5, <1>6, <1>7, <1>8, <1>9, OtherSteps, Steps

-----------------------------------------------------------------------------
(* Shutting down.                                                          *)

\* A task leaves the table only to be waited for.
LEMMA HeldStep ==
  ASSUME TypeOK, IdsKnown, Held, [Next]_vars
  PROVE  Held'
<1>0. /\ table \in [Proxies -> SUBSET Nat] /\ joining \in [Proxies -> Nat]
      /\ \A i \in DOMAIN conn : conn[i][1] \in Proxies
  BY DEF TypeOK
<1> USE DEF server, net, caller, sse, addr, tasks
<1>1. CASE UNCHANGED <<table, joining, conn>>
  BY <1>1 DEF Held
<1>2. ASSUME NEW x \in Proxies, NEW i \in Ids, drain(x, i) PROVE Held'
  <2>1. /\ joining[x] = 0 /\ table' = [table EXCEPT ![x] = @ \ {i}] /\ joining' = [joining EXCEPT ![x] = i]
        /\ conn' = conn
    BY <1>2 DEF drain
  <2>2. 0 \notin DOMAIN conn
    BY DEF IdsKnown
  <2> QED BY <1>0, <2>1, <2>2 DEF Held
<1>3. ASSUME NEW x \in Proxies, join_connection(x) PROVE Held'
  <2>1. /\ conn[joining[x]][2] = "ended" /\ joining' = [joining EXCEPT ![x] = 0] /\ UNCHANGED <<table, conn>>
    BY <1>3 DEF join_connection
  <2> QED BY <1>0, <2>1 DEF Held
<1>4. ASSUME NEW x \in Proxies, handle_new_connection_event(x) PROVE Held'
  <2>1. PICK i \in News(events[x]) : /\ DOMAIN conn' = DOMAIN conn \cup {i} /\ conn'[i] = <<x, "dialing">>
                                     /\ \A k \in DOMAIN conn \ {i} : conn'[k] = conn[k]
                                     /\ table' = [table EXCEPT ![x] = table[x] \cup {i}]
    BY <1>4, NewConnection
  <2>2. joining' = joining
    BY <1>4 DEF handle_new_connection_event
  <2>3. i \in table'[x] /\ \A y \in Proxies : table[y] \subseteq table'[y]
    <3>1. DOMAIN table = Proxies
      BY <1>0
    <3>2. table' = [table EXCEPT ![x] = table[x] \cup {i}]
      BY <2>1, Zenon
    <3>3. \A y \in Proxies : table'[y] = IF y = x THEN table[y] \cup {i} ELSE table[y]
      BY <3>1, <3>2
    <3> QED BY <3>3
  <2>4. conn'[i][1] = x
    BY <2>1
  <2> QED BY <1>0, <2>1, <2>2, <2>3, <2>4 DEF Held
<1>5. ASSUME NEW i \in Ids, dial_service(i) \/ relay_ends(i) \/ connect(i) \/ connect_fails(i) PROVE Held'
  <2>1. PICK t : i \in DOMAIN conn /\ conn[i][2] # "ended" /\ ConnStep(i, t)
    BY <1>5, ConnectionStep
  <2>2. table' = table /\ joining' = joining
    BY <1>5, ConnectionStep
  <2> QED BY <2>1, <2>2 DEF Held, ConnStep
<1>6. ASSUME NEW i \in Ids, server_relay_ends(i) PROVE Held'
  BY <1>1, <1>6 DEF server_relay_ends
<1>7. ASSUME NEW x \in Proxies,
             \/ start(x) \/ addr_some(x) \/ addr_wait(x) \/ addr_woken(x) \/ addr_timeout(x)
             \/ shutdown(x) \/ join_listener(x) \/ drained(x) \/ sse_build(x) \/ sse_reconnect(x)
             \/ listen_fails(x)
      PROVE  Held'
  BY <1>1, <1>7 DEF start, addr_some, addr_wait, addr_woken, addr_timeout, shutdown, join_listener, drained,
                    sse_build, sse_reconnect, listen_fails
<1>8. ASSUME NEW x \in Proxies, Hears(x) \/ \E port \in Ports : listen(x, port) PROVE Held'
  BY <1>1, <1>8 DEF Hears, listening, sse_shutdown, sse_breaks, listen
<1>9. ASSUME NEW c \in Clients, NEW h \in DOMAIN listeners, accept(h, c) PROVE Held'
  BY <1>1, <1>9 DEF accept
<1>10. ASSUME NEW c \in Clients, NEW h \in DOMAIN listeners, NEW g \in DOMAIN listeners, dial(c, h, g) PROVE Held'
  BY <1>1, <1>10 DEF dial
<1>11. ASSUME NEW h \in DOMAIN listeners, generator_ends(h) PROVE Held'
  BY <1>1, <1>11 DEF generator_ends
<1>12. CASE UNCHANGED vars
  BY <1>1, <1>12 DEF vars
<1> QED BY <1>2, <1>3, <1>4, <1>5, <1>6, <1>7, <1>8, <1>9, <1>10, <1>11, <1>12, Steps DEF Control

\* A listener takes events only while it has a stream, and does not start again.
LEMMA QuietStep ==
  ASSUME TypeOK, Quiet, [Next]_vars
  PROVE  Quiet'
<1>0. /\ owner \in [Proxies -> {"none", "check", "wait", "running", "join_listener", "drain", "done", "error",
                               "panicked"}]
      /\ listener \in [Proxies -> {"none", "new", "connecting", "streaming", "waiting", "ended", "failed"}]
      /\ cur \in [Proxies -> Nat] /\ joining \in [Proxies -> Nat] /\ table \in [Proxies -> SUBSET Nat]
      /\ events \in [Proxies -> Seq(AnEvent)]
  BY EventsTyped DEF TypeOK
<1> USE DEF server, net, caller, sse, addr, tasks
<1>1. CASE UNCHANGED <<owner, listener, cur, events, table, joining>>
  BY <1>1 DEF Quiet
<1>2. ASSUME NEW x \in Proxies, start(x) PROVE Quiet'
  BY <1>0, <1>2 DEF start, Quiet
<1>3. ASSUME NEW x \in Proxies, shutdown(x) PROVE Quiet'
  BY <1>0, <1>3 DEF shutdown, Quiet
<1>4. ASSUME NEW x \in Proxies, join_listener(x) PROVE Quiet'
  BY <1>0, <1>4 DEF join_listener, Quiet
<1>5. ASSUME NEW x \in Proxies, drained(x) PROVE Quiet'
  BY <1>0, <1>5 DEF drained, Quiet
<1>6. ASSUME NEW x \in Proxies, sse_build(x) PROVE Quiet'
  BY <1>0, <1>6 DEF sse_build, Quiet
<1>7. ASSUME NEW x \in Proxies, sse_reconnect(x) PROVE Quiet'
  BY <1>0, <1>7 DEF sse_reconnect, Quiet
<1>8. ASSUME NEW x \in Proxies, listen_fails(x) PROVE Quiet'
  <2>1. /\ listener[x] = "connecting" /\ listener' = [listener EXCEPT ![x] = "waiting"]
        /\ UNCHANGED <<owner, cur, events, table, joining>>
    BY <1>8 DEF listen_fails
  <2> QED BY <1>0, <2>1 DEF Quiet
<1>9. ASSUME NEW x \in Proxies, sse_shutdown(x) PROVE Quiet'
  BY <1>0, <1>9 DEF sse_shutdown, Quiet
<1>10. ASSUME NEW x \in Proxies, sse_breaks(x) PROVE Quiet'
  BY <1>0, <1>10 DEF sse_breaks, Quiet
<1>11. ASSUME NEW x \in Proxies, addr_some(x) PROVE Quiet'
  BY <1>0, <1>11 DEF addr_some, Quiet
<1>12. ASSUME NEW x \in Proxies, addr_wait(x) PROVE Quiet'
  BY <1>0, <1>12 DEF addr_wait, Quiet
<1>13. ASSUME NEW x \in Proxies, addr_woken(x) PROVE Quiet'
  BY <1>0, <1>13 DEF addr_woken, Quiet
<1>14. ASSUME NEW x \in Proxies, addr_timeout(x) PROVE Quiet'
  BY <1>0, <1>14 DEF addr_timeout, Quiet
<1>15. ASSUME NEW x \in Proxies, join_connection(x) PROVE Quiet'
  BY <1>0, <1>15 DEF join_connection, Quiet
<1>16. ASSUME NEW x \in Proxies, NEW i \in Ids, drain(x, i) PROVE Quiet'
  BY <1>0, <1>16 DEF drain, Quiet
<1>17. ASSUME NEW x \in Proxies, listening(x) PROVE Quiet'
  <2>1. /\ events[x] # <<>> /\ events' = [events EXCEPT ![x] = Tail(@)]
        /\ UNCHANGED <<owner, listener, cur, table, joining>>
    BY <1>17 DEF listening, Event
  <2> QED BY <1>0, <2>1 DEF Quiet
<1>18. ASSUME NEW x \in Proxies, handle_new_connection_event(x) PROVE Quiet'
  <2>1. /\ events[x] # <<>> /\ events' = [events EXCEPT ![x] = Tail(@)]
        /\ UNCHANGED <<owner, listener, cur, joining>>
    BY <1>18 DEF handle_new_connection_event, Event
  <2>2. \A y \in Proxies \ {x} : table'[y] = table[y]
    BY <1>0, <1>18 DEF handle_new_connection_event
  <2> QED BY <1>0, <2>1, <2>2 DEF Quiet
<1>19. ASSUME NEW x \in Proxies, NEW port \in Ports, listen(x, port) PROVE Quiet'
  <2>1. /\ listener[x] = "connecting" /\ listener' = [listener EXCEPT ![x] = "streaming"]
        /\ UNCHANGED <<owner, table, joining>>
        /\ \A y \in Proxies \ {x} : cur'[y] = cur[y] /\ events'[y] = events[y]
    BY <1>0, <1>19 DEF listen
  <2> QED BY <1>0, <2>1 DEF Quiet
<1>20. ASSUME NEW c \in Clients, NEW h \in DOMAIN listeners, accept(h, c) PROVE Quiet'
  <2>1. UNCHANGED <<owner, listener, cur, table, joining>> /\ h # 0 /\ listeners[h][1] \in Proxies
    BY <1>20, ListenerFact DEF accept
  <2>2. \A y \in Proxies : events'[y] = events[y] \/ cur[y] # 0
    BY <1>0, <1>20, <2>1 DEF accept, Yield
  <2> QED BY <2>1, <2>2 DEF Quiet
<1>21. ASSUME NEW c \in Clients, NEW h \in DOMAIN listeners, NEW g \in DOMAIN listeners, dial(c, h, g) PROVE Quiet'
  BY <1>1, <1>21 DEF dial
<1>22. ASSUME NEW h \in DOMAIN listeners, generator_ends(h) PROVE Quiet'
  BY <1>1, <1>22 DEF generator_ends
<1>23. ASSUME NEW i \in Ids, dial_service(i) \/ relay_ends(i) \/ connect(i) \/ connect_fails(i) \/ server_relay_ends(i)
      PROVE  Quiet'
  BY <1>1, <1>23 DEF dial_service, relay_ends, connect, connect_fails, server_relay_ends
<1>24. CASE UNCHANGED vars
  BY <1>1, <1>24 DEF vars
<1> QED BY <1>2, <1>3, <1>4, <1>5, <1>6, <1>7, <1>8, <1>9, <1>10, <1>11, <1>12, <1>13, <1>14, <1>15,
           <1>16, <1>17, <1>18, <1>19, <1>20, <1>21, <1>22, <1>23, <1>24, Steps DEF Control, Hears

\* The future is made and the waiters are woken under the lock of the address.
LEMMA WakeupStep ==
  ASSUME TypeOK, NoLostWakeup, [Next]_vars
  PROVE  NoLostWakeup'
<1>0. /\ owner \in [Proxies -> {"none", "check", "wait", "running", "join_listener", "drain", "done", "error",
                               "panicked"}]
      /\ public_addr \in [Proxies -> Nat] /\ notified \in [Proxies -> BOOLEAN]
  BY DEF TypeOK
<1> USE DEF server, net, caller, sse, addr, tasks
<1>1. CASE UNCHANGED <<owner, public_addr, notified>>
  BY <1>1 DEF NoLostWakeup
<1>2. ASSUME NEW x \in Proxies, start(x) PROVE NoLostWakeup'
  BY <1>0, <1>2 DEF start, NoLostWakeup
<1>3. ASSUME NEW x \in Proxies, addr_some(x) PROVE NoLostWakeup'
  BY <1>0, <1>3 DEF addr_some, NoLostWakeup
<1>4. ASSUME NEW x \in Proxies, addr_wait(x) PROVE NoLostWakeup'
  BY <1>0, <1>4 DEF addr_wait, NoLostWakeup
<1>5. ASSUME NEW x \in Proxies, addr_woken(x) PROVE NoLostWakeup'
  BY <1>0, <1>5 DEF addr_woken, NoLostWakeup
<1>6. ASSUME NEW x \in Proxies, addr_timeout(x) PROVE NoLostWakeup'
  BY <1>0, <1>6 DEF addr_timeout, NoLostWakeup
<1>7. ASSUME NEW x \in Proxies, shutdown(x) PROVE NoLostWakeup'
  BY <1>0, <1>7 DEF shutdown, NoLostWakeup
<1>8. ASSUME NEW x \in Proxies, join_listener(x) PROVE NoLostWakeup'
  BY <1>0, <1>8 DEF join_listener, NoLostWakeup
<1>9. ASSUME NEW x \in Proxies, drained(x) PROVE NoLostWakeup'
  BY <1>0, <1>9 DEF drained, NoLostWakeup
<1>10. ASSUME NEW x \in Proxies, listening(x) PROVE NoLostWakeup'
  <2>1. owner' = owner /\ notified' = [notified EXCEPT ![x] = @ \/ owner[x] = "wait"]
        /\ \A y \in Proxies \ {x} : public_addr'[y] = public_addr[y]
    BY <1>0, <1>10 DEF listening
  <2>2. ASSUME NEW y \in Proxies, owner[y] = "wait", public_addr'[y] # 0 PROVE notified'[y]
    <3>1. CASE y = x
      <4>1. notified'[x] = (notified[x] \/ owner[x] = "wait")
        BY <1>0, <2>1
      <4> QED BY <2>2, <3>1, <4>1
    <3>2. CASE y # x
      <4>1. notified'[y] = notified[y] /\ public_addr'[y] = public_addr[y]
        BY <1>0, <2>1, <3>2
      <4> QED BY <2>2, <4>1 DEF NoLostWakeup
    <3> QED BY <3>1, <3>2
  <2> QED BY <2>1, <2>2 DEF NoLostWakeup
<1>11. ASSUME NEW x \in Proxies,
             \/ join_connection(x) \/ sse_build(x) \/ sse_reconnect(x) \/ sse_shutdown(x) \/ sse_breaks(x)
             \/ listen_fails(x) \/ handle_new_connection_event(x)
             \/ (\E i \in Ids : drain(x, i)) \/ (\E port \in Ports : listen(x, port))
      PROVE  NoLostWakeup'
  BY <1>1, <1>11 DEF join_connection, sse_build, sse_reconnect, sse_shutdown, sse_breaks, listen_fails,
                     handle_new_connection_event, drain, listen
<1>12. ASSUME NEW c \in Clients, NEW h \in DOMAIN listeners, NEW g \in DOMAIN listeners, dial(c, h, g) PROVE NoLostWakeup'
  BY <1>1, <1>12 DEF dial
<1>13. ASSUME NEW c \in Clients, NEW h \in DOMAIN listeners, accept(h, c) PROVE NoLostWakeup'
  BY <1>1, <1>13 DEF accept
<1>14. ASSUME NEW h \in DOMAIN listeners, generator_ends(h) PROVE NoLostWakeup'
  BY <1>1, <1>14 DEF generator_ends
<1>15. ASSUME NEW i \in Ids, dial_service(i) \/ relay_ends(i) \/ connect(i) \/ connect_fails(i) \/ server_relay_ends(i)
      PROVE  NoLostWakeup'
  BY <1>1, <1>15 DEF dial_service, relay_ends, connect, connect_fails, server_relay_ends
<1>16. CASE UNCHANGED vars
  BY <1>1, <1>16 DEF vars
<1> QED BY <1>2, <1>3, <1>4, <1>5, <1>6, <1>7, <1>8, <1>9, <1>10, <1>11, <1>12, <1>13, <1>14, <1>15,
           <1>16, Steps DEF Control, Hears

-----------------------------------------------------------------------------

LEMMA Invariant == Spec => []IInv
<1>1. Init => IInv
  <2> SUFFICES ASSUME Init PROVE IInv
    OBVIOUS
  <2> USE DEF Init
  <2>0. DOMAIN <<>> = {} /\ <<>> \in Seq(Proxies \X Ports) /\ <<>> \in Seq(AnEvent) /\ News(<<>>) = {}
    BY NoNews
  <2>1. TypeOK
    <3>1. (CHOOSE x \in Proxies : TRUE) \in Proxies
      BY KeptAssumption
    <3>2. events \in [Proxies -> Seq(AnEvent)] /\ listeners \in Seq(Proxies \X Ports)
      BY <2>0
    <3>3. DOMAIN connecting = {} /\ DOMAIN relayed = {} /\ DOMAIN conn = {} /\ serving \subseteq DOMAIN listeners
      BY <2>0
    <3> QED BY <3>1, <3>2, <3>3 DEF TypeOK, AnEvent
  <2>2. PortsDiffer /\ Dialled /\ IdsKnown /\ IdsOwned /\ Held
    BY <2>0 DEF PortsDiffer, Dialled, IdsKnown, IdsOwned, Held
  <2>3. Quiet /\ NoLostWakeup
    BY DEF Quiet, NoLostWakeup
  <2> QED BY <2>1, <2>2, <2>3 DEF IInv
<1>2. IInv /\ [Next]_vars => IInv'
  BY TypesStep, PortsStep, DialledStep, IdsKnownStep, IdsOwnedStep, HeldStep, QuietStep, WakeupStep DEF IInv
<1> QED BY <1>1, <1>2, PTL DEF Spec

\* Every variable keeps its type.
THEOREM TypeCorrect == Spec => []TypeOK
<1>1. IInv => TypeOK
  BY DEF IInv
<1> QED BY <1>1, Invariant, PTL

\* A client reaches the proxy whose address it dialled, and no other.
THEOREM TunnelsMatchHolds == Spec => []TunnelsMatch
<1>1. IInv => TunnelsMatch
  BY DEF IInv, IdsOwned, MayHave, TunnelsMatch
<1> QED BY <1>1, Invariant, PTL

\* public_addr is woken when the address is set.
THEOREM NoLostWakeupHolds == Spec => []NoLostWakeup
<1>1. IInv => NoLostWakeup
  BY DEF IInv
<1> QED BY <1>1, Invariant, PTL

\* A shutdown that returned Ok leaves no task of the proxy behind.
THEOREM ShutdownIsCompleteHolds == Spec => []ShutdownIsComplete
<1>1. IInv => ShutdownIsComplete
  <2> SUFFICES ASSUME IInv, NEW x \in Proxies, owner[x] = "done"
               PROVE  listener[x] = "ended" /\ \A i \in DOMAIN conn : conn[i][1] = x => conn[i][2] = "ended"
    BY DEF ShutdownIsComplete
  <2>1. listener[x] = "ended" /\ table[x] = {} /\ joining[x] = 0
    BY DEF IInv, Quiet
  <2>2. 0 \notin DOMAIN conn
    BY DEF IInv, IdsKnown
  <2> QED BY <2>1, <2>2 DEF IInv, Held
<1> QED BY <1>1, Invariant, PTL

=============================================================================
