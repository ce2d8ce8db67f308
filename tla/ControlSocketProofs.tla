------------------------ MODULE ControlSocketProofs ------------------------
(***************************************************************************)
(* A puppet is woken for its answer and takes no answer to another         *)
(* question, for any number of puppets started one after the other.        *)
(***************************************************************************)
EXTENDS ControlSocket, TLAPS

Message == Requests \cup {<<0, "ready">>}
Reply   == {0, 1} \X Responses

\* The main task has asked and not yet taken the answer.
Open == {"send", "check", "wait"}

\* What the stages of the main task say about its requests.
StageFacts ==
  /\ pc = "exited" <=> client = "none"
  /\ pc # "exited" => epoch \in Conns
  /\ server \in {"serving", "handling"} => accepted \in Conns
  /\ pc = "begin" => id = 0
  /\ pc = "keyed" => id = 1
  /\ pc \in Open => /\ id \in {0, 1} /\ id \in DOMAIN table
                    /\ kind = "ssh_keys" => id = 0

AnswersTo(k) == IF k = "ssh_keys" THEN {"keys", "no_keys"} ELSE {"config", "not_found"}

\* A message of this puppet is an event, an earlier request or the open one.
Asked(m) == m[2] = "ready" \/ m[1] \in 0..(id - 1) \/ (m[1] = id /\ pc \in {"check", "wait"} /\ m[2] = kind)

\* An answer to this puppet is one to an earlier request or to the open one.
Answered(m) == m[1] \in 0..(id - 1) \/ (m[1] = id /\ pc \in {"check", "wait"} /\ m[2] \in AnswersTo(kind))

\* What is on its way between this puppet and the control socket.
LaterUnused == \A c \in Conns : c > epoch => up[c] = <<>> /\ down[c] = <<>>
UpFacts     == pc # "exited" => \A n \in 1..Len(up[epoch]) : Asked(up[epoch][n])
DownFacts   == pc # "exited" => \A n \in 1..Len(down[epoch]) : Answered(down[epoch][n])
CmdFacts    == pc # "exited" /\ cmd # <<>> /\ cmd # <<"Shutdown">> => Asked(cmd[1])
ReqFacts    == pc # "exited" /\ server = "handling" /\ accepted = epoch => Asked(req)

WireFacts == LaterUnused /\ UpFacts /\ DownFacts /\ CmdFacts /\ ReqFacts

\* Taking the first message leaves some of the others.
LEMMA TailElements ==
  ASSUME NEW S, NEW s \in Seq(S), s # <<>>
  PROVE  /\ Head(s) = s[1] /\ Head(s) \in S /\ Tail(s) \in Seq(S)
         /\ \A n \in 1..Len(Tail(s)) : Tail(s)[n] = s[n + 1] /\ n + 1 \in 1..Len(s)
OBVIOUS

\* Sending adds one message.
LEMMA AppendElements ==
  ASSUME NEW S, NEW s \in Seq(S), NEW e \in S
  PROVE  /\ Append(s, e) \in Seq(S)
         /\ \A n \in 1..Len(Append(s, e)) : (n \in 1..Len(s) /\ Append(s, e)[n] = s[n]) \/ Append(s, e)[n] = e
OBVIOUS

IInv ==
  /\ TypeOK
  /\ StageFacts
  /\ WireFacts
  /\ AnswersMatch
  /\ NoLostWakeup

\* A step of the job keeps the invariant.
LEMMA JobInv == ASSUME IInv, job_ready \/ job_stop \/ job_drop \/ job_join PROVE IInv'
<1>1. /\ UNCHANGED <<transport, task, wire, ends, pc, asking, client, cmd>>
      /\ job' \in {"starting", "running", "stopping", "stopped", "dropped"}
  BY DEF job_ready, job_stop, job_drop, job_join, RunnerStep
<1> USE <1>1 DEF task, wire, ends, asking
<1>2. TypeOK' BY DEF IInv, TypeOK
<1>3. StageFacts' BY DEF IInv, StageFacts
<1>4. WireFacts' BY DEF IInv, WireFacts, LaterUnused, UpFacts, DownFacts, CmdFacts, ReqFacts, Asked, Answered
<1>5. AnswersMatch' BY DEF IInv, AnswersMatch
<1>6. NoLostWakeup' BY DEF IInv, NoLostWakeup
<1> QED BY <1>2, <1>3, <1>4, <1>5, <1>6 DEF IInv

\* A step of the control socket task keeps it.
LEMMA TaskType == ASSUME TypeOK, StageFacts, serves \/ answer PROVE TypeOK'
<1> USE DEF TypeOK, TaskStep, wire, ends, asking, runner
<1>1. CASE accept
  BY <1>1, StartsAssumption DEF accept
<1>2. CASE receive
  <2>1. accepted \in Conns
    BY <1>2 DEF receive, StageFacts
  <2>2. up[accepted] \in Seq(Requests \cup {<<0, "ready">>}) /\ up[accepted] # <<>>
    BY <1>2, <2>1 DEF receive
  <2>3. Tail(up[accepted]) \in Seq(Requests \cup {<<0, "ready">>})
    BY <2>2, TailElements
  <2>4. Head(up[accepted]) \in Requests \/ Head(up[accepted])[2] = "ready"
    BY <2>2, TailElements
  <2>5. up' \in [Conns -> Seq(Requests \cup {<<0, "ready">>})]
    BY <1>2, <2>3 DEF receive
  <2>6. req' \in Requests /\ server' \in {"serving", "handling"}
    BY <1>2, <2>4 DEF receive
  <2> QED BY <1>2, <2>5, <2>6 DEF receive
<1>3. CASE end_of_stream \/ command
  BY <1>3 DEF end_of_stream, command
<1>4. CASE answer
  <2>1. accepted \in Conns
    BY <1>4 DEF answer, StageFacts
  <2>2. handle_request(req[2]) \in Responses /\ req[1] \in {0, 1}
    BY DEF handle_request, Responses, Requests
  <2>3. Append(down[accepted], <<req[1], handle_request(req[2])>>) \in Seq({0, 1} \X Responses)
    BY <2>1, <2>2, AppendElements
  <2>4. down' \in [Conns -> Seq({0, 1} \X Responses)]
    BY <1>4, <2>3 DEF answer
  <2> QED BY <1>4, <2>4 DEF answer
<1> QED BY <1>1, <1>2, <1>3, <1>4 DEF serves

\* A step of the puppet's main task, or of its target, keeps the types.
LEMMA PuppetType ==
  ASSUME TypeOK, StageFacts, start \/ dies \/ loses_power \/ stream_fails \/ ctrl_c \/ decides \/ runs
  PROVE  TypeOK'
<1> USE DEF TypeOK, wire, ends, asking, runner, task, Stages
<1>1. CASE start
  <2>1. epoch' \in 0..MaxStarts /\ accepted' <= epoch'
    BY <1>1, StartsAssumption DEF start
  <2>2. DOMAIN table' = {}
    BY <1>1 DEF start
  <2>3. id' \in 0..2 /\ cmd' = <<>>
    BY <1>1 DEF start
  <2> QED BY <1>1, <2>1, <2>2, <2>3 DEF start
<1>2. CASE dies \/ panics \/ join
  <2>1. epoch \in Conns
    BY <1>2 DEF dies, panics, join, StageFacts
  <2> QED BY <1>2, <2>1 DEF dies, panics, join, Exit
<1>3. CASE ctrl_c \/ check \/ wake
  BY <1>3 DEF ctrl_c, check, wake
<1>4. ASSUME NEW k \in Kinds, request(k) PROVE TypeOK'
  <2>1. id \in {0, 1}
    BY <1>4 DEF request, StageFacts, Kinds
  <2>2. DOMAIN table' \subseteq {0, 1} /\ \A i \in DOMAIN table' : table'[i] \in Responses \cup {"none"}
    BY <1>4, <2>1 DEF request
  <2> QED BY <1>4, <2>2 DEF request
<1>5. CASE shutdown
  BY <1>5 DEF shutdown
<1>6. CASE report_ready \/ send
  <2>1. PICK m \in Requests \cup {<<0, "ready">>} : Send(m)
    BY <1>6 DEF report_ready, send, Requests, StageFacts, Open
  <2>2. epoch \in Conns
    BY <1>6 DEF report_ready, send, StageFacts
  <2>3. Append(up[epoch], m) \in Seq(Requests \cup {<<0, "ready">>})
    BY <2>2, AppendElements
  <2>4. up' \in [Conns -> Seq(Requests \cup {<<0, "ready">>})]
    BY <2>1, <2>3 DEF Send
  <2>5. cmd' \in {<<>>, <<"Shutdown">>} \cup {<<r>> : r \in Requests \cup {<<0, "ready">>}}
    BY <2>1 DEF Send
  <2> QED BY <1>6, <2>4, <2>5 DEF report_ready, send
<1>7. CASE answered
  <2>1. id \in {0, 1} /\ id' = id + 1
    BY <1>7 DEF answered, StageFacts, Open
  <2> QED BY <1>7, <2>1 DEF answered
<1>8. CASE loses_power
  BY <1>8 DEF loses_power
<1>9. CASE stream_fails
  <2>1. Dead \subseteq Conns
    BY StartsAssumption DEF Dead, Conns
  <2> QED BY <1>9, <2>1 DEF stream_fails
<1> QED BY <1>1, <1>2, <1>3, <1>4, <1>5, <1>6, <1>7, <1>8, <1>9 DEF decides, runs

\* A step of the puppet's client task keeps the types.
LEMMA ClientType == ASSUME TypeOK, StageFacts, clients PROVE TypeOK'
<1> USE DEF TypeOK, wire, ends, asking, runner, task
<1>1. CASE client_receive
  <2>1. epoch \in Conns
    BY <1>1 DEF client_receive, StageFacts
  <2>2. down[epoch] \in Seq({0, 1} \X Responses) /\ down[epoch] # <<>>
    BY <1>1, <2>1 DEF client_receive
  <2>3. Tail(down[epoch]) \in Seq({0, 1} \X Responses) /\ Head(down[epoch]) \in {0, 1} \X Responses
    BY <2>2, TailElements
  <2>4. down' \in [Conns -> Seq({0, 1} \X Responses)]
    BY <1>1, <2>3 DEF client_receive
  <2>5. DOMAIN table' \subseteq {0, 1} /\ \A i \in DOMAIN table' : table'[i] \in Responses \cup {"none"}
    BY <1>1, <2>3 DEF client_receive
  <2> QED BY <1>1, <2>4, <2>5 DEF client_receive
<1>2. CASE client_end_of_stream \/ client_shutdown
  BY <1>2 DEF client_end_of_stream, client_shutdown
<1>3. CASE client_send
  <2>1. epoch \in Conns
    BY <1>3 DEF client_send, StageFacts
  <2>2. Head(cmd) \in Requests \cup {<<0, "ready">>}
    BY <1>3 DEF client_send
  <2>3. Append(up[epoch], Head(cmd)) \in Seq(Requests \cup {<<0, "ready">>})
    BY <2>1, <2>2, AppendElements
  <2> QED BY <1>3, <2>3 DEF client_send
<1> QED BY <1>1, <1>2, <1>3 DEF clients

\* A step of the control socket task keeps the rest of the invariant.
LEMMA TaskInv == ASSUME IInv, serves \/ answer PROVE IInv'
<1> USE DEF TaskStep, runner, ends, asking, wire
<1>1. TypeOK'
  BY TaskType DEF IInv
<1>2. UNCHANGED <<epoch, pc, id, kind, table, notified, client, cmd>>
  BY DEF serves, answer, accept, receive, end_of_stream, command
<1>3. AnswersMatch' /\ NoLostWakeup'
  BY <1>2 DEF IInv, AnswersMatch, NoLostWakeup
<1>4. server' \in {"serving", "handling"} => accepted' \in Conns
  <2>1. CASE accept
    BY <2>1, StartsAssumption DEF accept, IInv, TypeOK, Conns
  <2>2. CASE receive \/ end_of_stream \/ command \/ answer
    BY <2>2 DEF receive, end_of_stream, command, answer, IInv, StageFacts
  <2> QED BY <2>1, <2>2 DEF serves
<1>5. StageFacts'
  BY <1>2, <1>4 DEF IInv, StageFacts
<1>6. WireFacts'
  <2>1. CASE accept \/ end_of_stream \/ command
    BY <2>1, <1>2 DEF accept, end_of_stream, command, IInv, WireFacts, LaterUnused, UpFacts, DownFacts, CmdFacts, ReqFacts, Asked, Answered
  <2>2. CASE receive
    <3>1. accepted \in Conns /\ accepted <= epoch /\ epoch \in Nat
      BY <2>2 DEF receive, IInv, StageFacts, TypeOK
    <3>2. up[accepted] \in Seq(Requests \cup {<<0, "ready">>}) /\ up[accepted] # <<>>
      BY <2>2, <3>1 DEF receive, IInv, TypeOK
    <3>3. /\ Head(up[accepted]) = up[accepted][1] /\ 1 \in 1..Len(up[accepted])
          /\ \A n \in 1..Len(Tail(up[accepted])) :
               Tail(up[accepted])[n] = up[accepted][n + 1] /\ n + 1 \in 1..Len(up[accepted])
      BY <3>2, TailElements
    <3>4. up'[accepted] = Tail(up[accepted]) /\ \A c \in Conns : c # accepted => up'[c] = up[c]
      BY <2>2, <3>1 DEF receive, IInv, TypeOK
    <3>5. /\ server' = "handling" => server = "handling" \/ req' = Head(up[accepted])
          /\ UNCHANGED <<accepted, down>> /\ server # "handling"
      BY <2>2 DEF receive
    <3>6. pc # "exited" => epoch \in Conns
      BY DEF IInv, StageFacts
    <3> USE DEF IInv, WireFacts
    <3>7. LaterUnused' BY <1>2, <3>1, <3>4, <3>5 DEF LaterUnused, Conns
    <3>8. UpFacts'
      <4> SUFFICES ASSUME pc # "exited", NEW n \in 1..Len(up'[epoch]) PROVE Asked(up'[epoch][n])
        BY <1>2 DEF UpFacts, Asked
      <4>1. CASE epoch = accepted
        BY <4>1, <3>3, <3>4 DEF UpFacts
      <4>2. CASE epoch # accepted
        BY <4>2, <3>4, <3>6 DEF UpFacts
      <4> QED BY <4>1, <4>2
    <3>9. DownFacts' BY <1>2, <3>5 DEF DownFacts, Answered
    <3>10. CmdFacts' BY <1>2 DEF CmdFacts, Asked
    <3>11. ReqFacts' BY <1>2, <3>3, <3>5 DEF ReqFacts, UpFacts, Asked
    <3> QED BY <3>7, <3>8, <3>9, <3>10, <3>11
  <2>3. CASE answer
    <3>1. accepted \in Conns /\ accepted <= epoch /\ epoch \in Nat
      BY <2>3 DEF answer, IInv, StageFacts, TypeOK
    <3>2. handle_request(req[2]) \in AnswersTo(req[2]) /\ req[2] \in Kinds /\ req[1] \in {0, 1}
          /\ handle_request(req[2]) \in Responses
      BY DEF handle_request, AnswersTo, IInv, TypeOK, Requests, Responses, Kinds
    <3>3. down[accepted] \in Seq({0, 1} \X Responses)
      BY <3>1 DEF IInv, TypeOK
    <3> DEFINE m == <<req[1], handle_request(req[2])>>
    <3>4. \A n \in 1..Len(Append(down[accepted], m)) :
            \/ n \in 1..Len(down[accepted]) /\ Append(down[accepted], m)[n] = down[accepted][n]
            \/ Append(down[accepted], m)[n] = m
      BY <3>2, <3>3, AppendElements
    <3>5. down' = down \/ (down'[accepted] = Append(down[accepted], m) /\ \A c \in Conns : c # accepted => down'[c] = down[c])
      BY <2>3, <3>1 DEF answer, IInv, TypeOK
    <3>6. UNCHANGED <<accepted, up, req>> /\ server' # "handling" /\ server = "handling"
      BY <2>3 DEF answer
    <3>7. pc # "exited" /\ accepted = epoch => Answered(m)
      BY <3>2, <3>6 DEF IInv, WireFacts, LaterUnused, UpFacts, DownFacts, CmdFacts, ReqFacts, Asked, Answered, Kinds
    <3>8. pc # "exited" => epoch \in Conns
      BY DEF IInv, StageFacts
    <3> HIDE DEF m
    <3> USE DEF IInv, WireFacts
    <3>9. LaterUnused' BY <1>2, <3>1, <3>5, <3>6 DEF LaterUnused, Conns
    <3>10. UpFacts' /\ CmdFacts' /\ ReqFacts' BY <1>2, <3>6 DEF UpFacts, CmdFacts, ReqFacts, Asked
    <3>11. DownFacts' BY <1>2, <3>4, <3>5, <3>7, <3>8 DEF DownFacts, Answered
    <3> QED BY <3>9, <3>10, <3>11
  <2> QED BY <2>1, <2>2, <2>3 DEF serves
<1> QED BY <1>1, <1>3, <1>5, <1>6 DEF IInv

\* A step of the puppet's main task, or of its target, keeps it.
LEMMA PuppetInv ==
  ASSUME IInv, start \/ dies \/ loses_power \/ stream_fails \/ ctrl_c \/ decides \/ runs
  PROVE  IInv'
<1>0. TypeOK'
  BY PuppetType DEF IInv
<1> USE <1>0 DEF runner, ends, asking, wire, task
<1>1. CASE start
  <2>1. StageFacts'
    BY <1>1 DEF start, IInv, StageFacts, TypeOK, Conns, Open
  <2>2. AnswersMatch' /\ NoLostWakeup'
    BY <1>1 DEF start, AnswersMatch, NoLostWakeup
  <2>3. up[epoch'] = <<>> /\ down[epoch'] = <<>> /\ accepted # epoch'
    BY <1>1 DEF start, IInv, TypeOK, WireFacts, LaterUnused, Conns
  <2>4. WireFacts'
    <3> USE DEF IInv, WireFacts
    <3>1. LaterUnused' BY <1>1 DEF start, LaterUnused, TypeOK, Conns
    <3>2. UpFacts' /\ DownFacts'
      BY <1>1, <2>3 DEF start, UpFacts, DownFacts
    <3>3. CmdFacts' /\ ReqFacts'
      BY <1>1, <2>3 DEF start, CmdFacts, ReqFacts
    <3> QED BY <3>1, <3>2, <3>3
  <2> QED BY <2>1, <2>2, <2>4 DEF IInv
<1>2. CASE dies \/ panics \/ join \/ loses_power
  <2>1. /\ UNCHANGED <<epoch, up, down, server, accepted, id, kind, table, notified>>
        /\ pc' = "exited" /\ client' = "none"
    BY <1>2 DEF dies, panics, join, loses_power, Exit
  <2> QED
    BY <2>1 DEF IInv, StageFacts, WireFacts, LaterUnused, UpFacts, DownFacts, CmdFacts, ReqFacts, AnswersMatch,
                NoLostWakeup, Open
<1>3. CASE ctrl_c \/ shutdown
  <2>1. /\ UNCHANGED <<epoch, up, down, server, accepted, req, id, kind, table, notified, client>>
        /\ pc \in {"ctrl_c", "shutdown"} /\ pc' \in {"shutdown", "join"} /\ cmd' \in {cmd, <<"Shutdown">>}
    BY <1>3 DEF ctrl_c, shutdown
  <2> QED BY <2>1 DEF IInv, StageFacts, WireFacts, LaterUnused, UpFacts, DownFacts, CmdFacts, ReqFacts, Asked, Answered, AnswersMatch, NoLostWakeup, Open
<1>4. ASSUME NEW k \in Kinds, request(k) PROVE IInv'
  <2>1. /\ UNCHANGED <<epoch, up, down, server, accepted, req, id, client, cmd>>
        /\ kind' = k /\ pc \in {"begin", "keyed"} /\ pc' = "send" /\ id \in {0, 1}
        /\ k = "ssh_keys" => id = 0
    BY <1>4 DEF request, IInv, StageFacts
  <2>2. id' \in DOMAIN table' /\ table'[id'] = "none"
    BY <1>4 DEF request
  <2> QED BY <2>1, <2>2 DEF IInv, StageFacts, WireFacts, LaterUnused, UpFacts, DownFacts, CmdFacts, ReqFacts, Asked, Answered, AnswersMatch, NoLostWakeup, Open
<1>5. CASE report_ready \/ send
  <2> DEFINE m == IF send THEN <<id, kind>> ELSE <<0, "ready">>
  <2>1. /\ UNCHANGED <<epoch, down, server, accepted, req, id, kind, table, notified, client>>
        /\ IF send THEN pc = "send" /\ pc' = "check" ELSE pc \in {"begin", "keyed", "configured"} /\ pc' = "ctrl_c"
        /\ Send(m)
    BY <1>5 DEF report_ready, send
  <2>2. epoch \in Conns /\ m \in Requests \cup {<<0, "ready">>}
    BY <2>1 DEF IInv, StageFacts, TypeOK, Requests, Open
  <2>3. up[epoch] \in Seq(Requests \cup {<<0, "ready">>})
    BY <2>2 DEF IInv, TypeOK
  <2>4. \A n \in 1..Len(Append(up[epoch], m)) :
          \/ n \in 1..Len(up[epoch]) /\ Append(up[epoch], m)[n] = up[epoch][n]
          \/ Append(up[epoch], m)[n] = m
    BY <2>2, <2>3, AppendElements
  <2>5. \/ cmd' = cmd /\ up'[epoch] = Append(up[epoch], m) /\ \A c \in Conns : c # epoch => up'[c] = up[c]
        \/ cmd' = <<m>> /\ up' = up
    BY <2>1, <2>2 DEF Send, IInv, TypeOK
  <2>6. m[2] = "ready" \/ (m[1] = id' /\ pc' = "check" /\ m[2] = kind')
    BY <2>1
  <2>7. StageFacts' /\ AnswersMatch' /\ NoLostWakeup'
    BY <2>1 DEF IInv, StageFacts, AnswersMatch, NoLostWakeup, Open
  <2> HIDE DEF m
  <2>8. WireFacts'
    <3> USE DEF IInv, WireFacts
    <3>1. LaterUnused' BY <2>1, <2>2, <2>5 DEF LaterUnused, TypeOK, Conns
    <3>2. UpFacts' BY <2>1, <2>4, <2>5, <2>6 DEF UpFacts, Asked
    <3>3. DownFacts' BY <2>1 DEF DownFacts, Answered
    <3>4. CmdFacts' BY <2>1, <2>5, <2>6 DEF CmdFacts, Asked
    <3>5. ReqFacts' BY <2>1 DEF ReqFacts, Asked
    <3> QED BY <3>1, <3>2, <3>3, <3>4, <3>5
  <2> QED BY <2>7, <2>8 DEF IInv
<1>7. CASE check \/ wake
  <2>1. /\ UNCHANGED <<epoch, up, down, server, accepted, req, id, kind, table, client, cmd>>
        /\ \/ pc = "check" /\ table[id] = "none" /\ pc' = "wait"
           \/ pc = "wait" /\ pc' = "check"
    BY <1>7 DEF check, wake
  <2> QED BY <2>1 DEF IInv, StageFacts, WireFacts, LaterUnused, UpFacts, DownFacts, CmdFacts, ReqFacts, Asked, Answered, AnswersMatch, NoLostWakeup, Open
<1>8. CASE answered
  <2>1. /\ UNCHANGED <<epoch, up, down, server, accepted, req, kind, client, cmd>>
        /\ pc = "check" /\ id' = id + 1 /\ id \in Nat
        /\ pc' = IF kind = "ssh_keys" THEN "keyed" ELSE "configured"
    BY <1>8 DEF answered, IInv, TypeOK
  <2> QED BY <2>1 DEF IInv, StageFacts, WireFacts, LaterUnused, UpFacts, DownFacts, CmdFacts, ReqFacts, Asked, Answered, AnswersMatch, NoLostWakeup, Open
<1>9. CASE stream_fails
  <2>1. UNCHANGED <<epoch, up, down, server, accepted, req, pc, id, kind, table, notified, client, cmd>>
    BY <1>9 DEF stream_fails
  <2> QED BY <2>1 DEF IInv, StageFacts, WireFacts, LaterUnused, UpFacts, DownFacts, CmdFacts, ReqFacts, Asked, Answered, AnswersMatch, NoLostWakeup, Open
<1> QED BY <1>1, <1>2, <1>3, <1>4, <1>5, <1>7, <1>8, <1>9 DEF decides, runs

\* A step of the puppet's client task keeps it.
LEMMA ClientInv == ASSUME IInv, clients PROVE IInv'
<1>0. TypeOK'
  BY ClientType DEF IInv
<1> USE <1>0 DEF runner, ends, asking, wire, task
<1>1. CASE client_receive
  <2>1. epoch \in Conns /\ pc # "exited"
    BY <1>1 DEF client_receive, IInv, StageFacts
  <2>2. down[epoch] \in Seq({0, 1} \X Responses) /\ down[epoch] # <<>>
    BY <1>1, <2>1 DEF client_receive, IInv, TypeOK
  <2>3. /\ Head(down[epoch]) = down[epoch][1] /\ 1 \in 1..Len(down[epoch])
        /\ \A n \in 1..Len(Tail(down[epoch])) : Tail(down[epoch])[n] = down[epoch][n + 1] /\ n + 1 \in 1..Len(down[epoch])
    BY <2>2, TailElements
  <2>4. down'[epoch] = Tail(down[epoch]) /\ \A c \in Conns : c # epoch => down'[c] = down[c]
    BY <1>1, <2>1 DEF client_receive, IInv, TypeOK
  <2>5. UNCHANGED <<epoch, up, server, accepted, req, pc, id, kind, client, cmd>>
    BY <1>1 DEF client_receive
  <2>6. WireFacts'
    <3> USE DEF IInv, WireFacts
    <3>1. LaterUnused' BY <2>1, <2>4, <2>5 DEF LaterUnused, TypeOK, Conns
    <3>2. UpFacts' /\ CmdFacts' /\ ReqFacts' BY <2>5 DEF UpFacts, CmdFacts, ReqFacts, Asked
    <3>3. DownFacts'
      <4> SUFFICES ASSUME NEW n \in 1..Len(down'[epoch]) PROVE Answered(down'[epoch][n])
        BY <2>5 DEF DownFacts, Answered
      <4> QED BY <2>1, <2>3, <2>4 DEF DownFacts
    <3> QED BY <3>1, <3>2, <3>3
  <2>7. Answered(Head(down[epoch]))
    BY <2>1, <2>3 DEF IInv, WireFacts, DownFacts
  <2>8. /\ DOMAIN table' = DOMAIN table
        /\ \/ id \notin DOMAIN table
           \/ UNCHANGED <<table, notified>>
           \/ table'[id] = table[id] /\ notified' = (notified \/ pc = "wait")
           \/ /\ Head(down[epoch])[1] = id /\ table'[id] = Head(down[epoch])[2]
              /\ notified' = (notified \/ pc = "wait")
    BY <1>1 DEF client_receive, IInv, TypeOK
  <2>9. StageFacts'
    BY <2>5, <2>8 DEF IInv, StageFacts
  <2>10. id \in Nat
    BY DEF IInv, TypeOK
  <2>11. AnswersMatch'
    BY <2>5, <2>7, <2>8, <2>10 DEF IInv, StageFacts, Open, AnswersMatch, Answered, AnswersTo
  <2>12. NoLostWakeup'
    BY <2>5, <2>8 DEF IInv, StageFacts, Open, NoLostWakeup
  <2> QED BY <2>6, <2>9, <2>11, <2>12 DEF IInv
<1>2. CASE client_end_of_stream \/ client_shutdown
  <2>1. /\ UNCHANGED <<epoch, up, down, server, accepted, req, pc, id, kind, table, notified>>
        /\ client # "none" /\ client' # "none" /\ cmd' \in {cmd, <<>>}
    BY <1>2 DEF client_end_of_stream, client_shutdown
  <2> QED BY <2>1 DEF IInv, StageFacts, WireFacts, LaterUnused, UpFacts, DownFacts, CmdFacts, ReqFacts, Asked, Answered, AnswersMatch, NoLostWakeup, Open
<1>3. CASE client_send
  <2>1. /\ epoch \in Conns /\ pc # "exited" /\ cmd' = <<>> /\ cmd # <<>> /\ cmd # <<"Shutdown">>
        /\ UNCHANGED <<epoch, down, server, accepted, req, pc, id, kind, table, notified, client>>
    BY <1>3 DEF client_send, IInv, StageFacts
  <2>2. Head(cmd) = cmd[1] /\ cmd[1] \in Requests \cup {<<0, "ready">>}
    BY <2>1 DEF IInv, TypeOK
  <2>3. up[epoch] \in Seq(Requests \cup {<<0, "ready">>})
    BY <2>1 DEF IInv, TypeOK
  <2>4. \A n \in 1..Len(Append(up[epoch], cmd[1])) :
          \/ n \in 1..Len(up[epoch]) /\ Append(up[epoch], cmd[1])[n] = up[epoch][n]
          \/ Append(up[epoch], cmd[1])[n] = cmd[1]
    BY <2>2, <2>3, AppendElements
  <2>5. up' = up \/ (up'[epoch] = Append(up[epoch], cmd[1]) /\ \A c \in Conns : c # epoch => up'[c] = up[c])
    BY <1>3, <2>1, <2>2 DEF client_send, IInv, TypeOK
  <2>6. WireFacts'
    <3> USE DEF IInv, WireFacts
    <3>1. LaterUnused'
      <4>1. epoch \in Nat BY DEF TypeOK
      <4> QED BY <2>1, <2>5, <4>1 DEF LaterUnused, Conns
    <3>2. UpFacts' BY <2>1, <2>4, <2>5 DEF UpFacts, CmdFacts, Asked
    <3>3. DownFacts' /\ CmdFacts' /\ ReqFacts' BY <2>1 DEF DownFacts, CmdFacts, ReqFacts, Asked, Answered
    <3> QED BY <3>1, <3>2, <3>3
  <2>7. StageFacts' /\ AnswersMatch' /\ NoLostWakeup'
    BY <2>1 DEF IInv, StageFacts, AnswersMatch, NoLostWakeup, Open
  <2> QED BY <2>6, <2>7 DEF IInv
<1> QED BY <1>1, <1>2, <1>3 DEF clients

\* The invariant holds in every reachable state.
LEMMA Invariant == Spec => []IInv
<1>1. Init => IInv
  <2> SUFFICES ASSUME Init PROVE IInv
    OBVIOUS
  <2>1. TypeOK
    <3>1. up \in [Conns -> Seq(Requests \cup {<<0, "ready">>})] /\ down \in [Conns -> Seq({0, 1} \X Responses)]
      BY DEF Init
    <3>2. DOMAIN table = {} /\ req \in Requests
      BY DEF Init, Requests, Kinds
    <3>3. accepted \in 0..MaxStarts /\ epoch \in 0..MaxStarts /\ accepted <= epoch
      BY StartsAssumption DEF Init
    <3>4. cmd \in {<<>>, <<"Shutdown">>} \cup {<<m>> : m \in Requests \cup {<<0, "ready">>}}
      BY DEF Init
    <3> HIDE DEF Requests, Responses, Conns
    <3>5. \A i \in DOMAIN table : table[i] \in Responses \cup {"none"}
      BY <3>2
    <3>6. /\ transport \in {"unix", "tcp"} /\ job = "starting" /\ server = "listening" /\ reset = {} /\ gone = {}
          /\ pc = "exited" /\ id = 0 /\ kind = "ssh_keys" /\ notified = FALSE /\ client = "none"
      BY DEF Init
    <3>7. reset \subseteq gone /\ gone \subseteq Conns
      BY <3>6
    <3>8. id \in 0..2 /\ kind \in Kinds /\ pc \in Stages
      BY <3>6 DEF Kinds, Stages
    <3>9. DOMAIN table \subseteq {0, 1}
      BY <3>2
    <3>10. /\ job \in {"starting", "running", "stopping", "stopped", "dropped"} /\ notified \in BOOLEAN
           /\ server \in {"listening", "serving", "handling", "panicked", "ended"}
           /\ client \in {"none", "running", "panicked", "ended"}
      BY <3>6
    <3> QED BY <3>1, <3>2, <3>3, <3>4, <3>5, <3>6, <3>7, <3>8, <3>9, <3>10, Zenon DEF TypeOK
  <2>2. StageFacts /\ AnswersMatch /\ NoLostWakeup
    BY DEF Init, StageFacts, AnswersMatch, NoLostWakeup, Open
  <2>3. WireFacts
    BY DEF Init, WireFacts, LaterUnused, UpFacts, DownFacts, CmdFacts, ReqFacts
  <2> QED BY <2>1, <2>2, <2>3 DEF IInv
<1>2. IInv /\ [Next]_vars => IInv'
  <2> SUFFICES ASSUME IInv, [Next]_vars PROVE IInv'
    OBVIOUS
  <2>1. CASE UNCHANGED vars
    BY <2>1 DEF vars, IInv, TypeOK, StageFacts, WireFacts, LaterUnused, UpFacts, DownFacts, CmdFacts, ReqFacts, Asked, Answered, AnswersMatch, NoLostWakeup
  <2>2. CASE Next
    BY <2>2, JobInv, TaskInv, PuppetInv, ClientInv DEF Next
  <2> QED BY <2>1, <2>2
<1> QED BY <1>1, <1>2, PTL DEF Spec

\* Every variable keeps its type: in particular a puppet makes two requests at
\* most, and its table holds their answers only.
THEOREM TypeCorrect == Spec => []TypeOK
BY Invariant, PTL DEF IInv

\* The answer in the table is one to the question asked: every message between
\* a puppet and the task belongs to the puppet's own connection and carries
\* the open request's id only if it carries its kind.
THEOREM AnswersMatchHolds == Spec => []AnswersMatch
BY Invariant, PTL DEF IInv

\* A main task that sleeps on an answered request has been woken.
THEOREM NoLostWakeupHolds == Spec => []NoLostWakeup
BY Invariant, PTL DEF IInv

=============================================================================
