---------------------------- MODULE StreamsProofs ----------------------------
(***************************************************************************)
(* For any number of clients, targets, descriptors, ids and disturbances:  *)
(* a descriptor number in use belongs to the one stream that holds it.     *)
(***************************************************************************)
EXTENDS Streams, TLAPS

-----------------------------------------------------------------------------
(* Frames, what is at hand, and tables.                                     *)

LEMMA FrameTyped ==
    /\ \A type \in {"Open", "OpenOk", "Data", "Close", "Error"}, i \in Nat,
          q \in Requests \cup {NoRequest} : [type |-> type, id |-> i, of |-> q] \in Frame
    /\ \A type \in {"Open", "OpenOk", "Data", "Close", "Error"}, i \in Nat : Bare(type, i) \in Frame
    /\ \A f \in Frame : f.id \in Nat /\ f.of \in Requests \cup {NoRequest}
BY DEF Frame, Bare

LEMMA HandTyped ==
    /\ \A at \in ReaderStep, rs \in SUBSET Requests, q \in Requests \cup {NoRequest} :
          Holding(at, rs, q) \in Hand
    /\ \A h \in Hand : /\ h.at \in ReaderStep /\ h.reqs \in SUBSET Requests
                       /\ h.of \in Requests \cup {NoRequest}
BY DEF Hand, Holding

LEMMA TaskTyped ==
    /\ Idle \in Task /\ Idle.at = "idle"
    /\ \A f \in Frame : Reply(f) \in Task /\ Reply(f).at = "reply"
    /\ \A f \in Frame, q \in Requests : [at |-> "write", req |-> q, frame |-> f] \in Task
    /\ \A t \in Task : t.frame \in Frame
BY FrameTyped DEF Task, Idle, Reply

LEMMA SeqTyped ==
    ASSUME NEW S, NEW q \in Seq(S)
    PROVE  /\ \A f \in S : Append(q, f) \in Seq(S)
           /\ q # <<>> => Head(q) \in S /\ Tail(q) \in Seq(S)
           /\ <<>> \in Seq(S)
OBVIOUS

LEMMA EmptyTyped == ASSUME NEW S PROVE <<>> \in Seq(S)
OBVIOUS

LEMMA ExceptTyped ==
    ASSUME NEW S, NEW T, NEW f \in [S -> T], NEW x, NEW y, x \in S => y \in T
    PROVE  [f EXCEPT ![x] = y] \in [S -> T]
OBVIOUS

-----------------------------------------------------------------------------
(* Types, in the groups of vars, and what holds of a thread that has got    *)
(* past a step.                                                             *)

ProcessTyped ==
    /\ up \in BOOLEAN /\ starts \in Nat /\ nextId \in Nat

ProxyTyped ==
    /\ pc \in [Requests -> ProxyStep]
    /\ session \in [Requests -> Sessions \cup {None}]
    /\ id \in [Requests -> Nat]
    /\ flags \in [Requests -> SUBSET Flag]

ClientsTyped ==
    /\ fd \in [Requests -> Fds \cup {None}]
    /\ shut \in [Requests -> BOOLEAN]
    /\ fds \in [Fds -> Requests \cup {NoRequest}]

ControllerTyped ==
    /\ streams \in [Sessions -> SUBSET Requests]
    /\ alive \in [Sessions -> BOOLEAN]
    /\ hand \in [Sessions -> Hand]

ChannelTyped ==
    /\ sessions \in Nat
    /\ link \in [Sessions -> BOOLEAN]
    /\ toAgent \in [Sessions -> Seq(Frame)]
    /\ toController \in [Sessions -> Seq(Frame)]

AgentTyped ==
    /\ agentUp \in BOOLEAN /\ connected \in BOOLEAN
    /\ conn \in Sessions \cup {None}
    /\ targets \in SUBSET Requests
    /\ task \in Task

ServeTyped ==
    /\ serving \in [Requests -> ServingStep]
    /\ relay \in [Requests -> Requests \cup {NoRequest}]

SocketsTyped ==
    /\ tfd \in [Requests -> TargetFds \cup {None}]
    /\ tshut \in [Requests -> BOOLEAN]
    /\ tfds \in [TargetFds -> Requests \cup {NoRequest}]

OutsideTyped ==
    /\ left \in [Requests -> BOOLEAN] /\ ended \in [Requests -> BOOLEAN]
    /\ asking \in [Requests -> BOOLEAN] /\ answering \in [Requests -> BOOLEAN]

HistoryTyped ==
    /\ answered \in SUBSET Requests
    /\ spurned \in SUBSET Requests
    /\ slipped \in BOOLEAN

DisturbedTyped == disturbed \in Nat

\* A thread has a descriptor once it needs one.
Grounded ==
    /\ \A r \in Requests : pc[r] = "absent" => shut[r]
    /\ \A r \in Requests : pc[r] # "absent" => fd[r] \in Fds
    /\ \A r \in Requests :
          serving[r] \in {"added", "reading", "receiving", "relaying", "notifying"}
          => tfd[r] \in TargetFds
    /\ task.at = "write" => task.req \in Requests

Typed == TypeOK /\ Grounded

LEMMA Parts ==
    TypeOK <=> /\ ProcessTyped /\ ProxyTyped /\ ClientsTyped /\ ControllerTyped /\ ChannelTyped
               /\ AgentTyped /\ ServeTyped /\ SocketsTyped /\ OutsideTyped /\ HistoryTyped
               /\ DisturbedTyped
BY DEF TypeOK, ProcessTyped, ProxyTyped, ClientsTyped, ControllerTyped, ChannelTyped, AgentTyped,
       ServeTyped, SocketsTyped, OutsideTyped, HistoryTyped, DisturbedTyped

LEMMA UnregisteredTyped ==
    ASSUME TypeOK, NEW s, NEW r
    PROVE  [streams EXCEPT ![s] = Unregistered(s, r)] \in [Sessions -> SUBSET Requests]
<1>1. s \in Sessions => Unregistered(s, r) \in SUBSET Requests
  BY DEF TypeOK, Unregistered
<1> QED BY <1>1, ExceptTyped DEF TypeOK

LEMMA ToAgentTyped ==
    ASSUME TypeOK, NEW s, NEW frame \in Frame, NEW ok, ToAgent(s, frame, ok)
    PROVE  toAgent' \in [Sessions -> Seq(Frame)] /\ alive' \in [Sessions -> BOOLEAN]
<1>1. toAgent \in [Sessions -> Seq(Frame)] /\ alive \in [Sessions -> BOOLEAN]
  BY DEF TypeOK
<1>2. s \in Sessions => Append(toAgent[s], frame) \in Seq(Frame)
  BY <1>1, SeqTyped
<1>3. [toAgent EXCEPT ![s] = Append(@, frame)] \in [Sessions -> Seq(Frame)]
  BY <1>1, <1>2, ExceptTyped
<1>4. [alive EXCEPT ![s] = FALSE] \in [Sessions -> BOOLEAN]
  BY <1>1
<1> QED BY <1>1, <1>3, <1>4 DEF ToAgent

LEMMA ToControllerTyped ==
    ASSUME TypeOK, NEW frame \in Frame, NEW ok, ToController(frame, ok)
    PROVE  toController' \in [Sessions -> Seq(Frame)] /\ connected' \in BOOLEAN
<1>1. toController \in [Sessions -> Seq(Frame)] /\ connected \in BOOLEAN
  BY DEF TypeOK
<1>2. conn \in Sessions => Append(toController[conn], frame) \in Seq(Frame)
  BY <1>1, SeqTyped
<1>3. [toController EXCEPT ![conn] = Append(@, frame)] \in [Sessions -> Seq(Frame)]
  BY <1>1, <1>2, ExceptTyped
<1> QED BY <1>1, <1>3 DEF ToController

LEMMA CloseClientsTyped ==
    ASSUME TypeOK, NEW rs, CloseClients(rs)
    PROVE  /\ shut' \in [Requests -> BOOLEAN] /\ fds' \in [Fds -> Requests \cup {NoRequest}]
           /\ fd' = fd /\ \A r \in Requests : shut[r] => shut'[r]
BY Zenon DEF TypeOK, CloseClients

LEMMA CloseTargetsTyped ==
    ASSUME TypeOK, NEW rs, CloseTargets(rs)
    PROVE  /\ tshut' \in [Requests -> BOOLEAN]
           /\ tfds' \in [TargetFds -> Requests \cup {NoRequest}]
           /\ targets' \in SUBSET Requests /\ \A r \in Requests : tshut[r] => tshut'[r]
<1>1. tshut' \in [Requests -> BOOLEAN] /\ \A r \in Requests : tshut[r] => tshut'[r]
  BY Zenon DEF TypeOK, CloseTargets
<1>2. tfds' \in [TargetFds -> Requests \cup {NoRequest}]
  BY Zenon DEF TypeOK, CloseTargets
<1> QED BY <1>1, <1>2 DEF TypeOK, CloseTargets

LEMMA WriteClientTyped ==
    ASSUME TypeOK, NEW r \in Requests, NEW bytes \in SUBSET (Requests \cup {NoRequest}), NEW ok,
           WriteClient(r, bytes, ok)
    PROVE  HistoryTyped'
BY DEF TypeOK, HistoryTyped, WriteClient, history

LEMMA WriteTargetTyped ==
    ASSUME TypeOK, NEW r \in Requests, NEW ok, WriteTarget(r, ok)
    PROVE  HistoryTyped'
BY DEF TypeOK, HistoryTyped, WriteTarget

LEMMA EndTargetTyped ==
    ASSUME TypeOK, NEW r \in Requests, EndTarget(r), UNCHANGED tfd
    PROVE  SocketsTyped' /\ targets' \in SUBSET Requests /\ serving' \in [Requests -> ServingStep]
<1>1. CASE \E q \in Live(id[r]) : CloseTargets({q}) /\ Serve(r, "notifying")
  BY <1>1, CloseTargetsTyped DEF TypeOK, SocketsTyped, Serve, ServingStep
<1>2. CASE Live(id[r]) = {} /\ Serve(r, "over") /\ UNCHANGED <<targets, tshut, tfds>>
  BY <1>2 DEF TypeOK, SocketsTyped, Serve, ServingStep
<1> QED BY <1>1, <1>2 DEF EndTarget


-----------------------------------------------------------------------------
(* Every step keeps the types.                                              *)

LEMMA AcceptTyped ==
    ASSUME Typed, NEW r \in Requests, Accept(r)
    PROVE  Typed'
BY DEF Typed, TypeOK, Grounded, Accept, Goto, process, controller, channel, agent, serve, sockets,
   history, ProxyStep

LEMMA RejectTyped ==
    ASSUME Typed, NEW r \in Requests, Reject(r)
    PROVE  Typed'
BY CloseClientsTyped DEF Typed, TypeOK, Grounded, Reject, Goto, process, controller, channel,
   agent, serve, sockets, outside, history, ProxyStep

LEMMA SelectTyped ==
    ASSUME Typed, NEW r \in Requests, Select(r)
    PROVE  Typed'
<1>1. NextId \in Nat
  BY BoundsAssumption DEF Typed, TypeOK, NextId
<1>2. streams' \in [Sessions -> SUBSET Requests] /\ session' \in [Requests -> Sessions \cup {None}]
  BY DEF Typed, TypeOK, Select
<1> QED BY <1>1, <1>2 DEF Typed, TypeOK, Grounded, Select, Goto, clients, channel, agent, serve,
              sockets, outside, history, ProxyStep

LEMMA SendOpenTyped ==
    ASSUME Typed, NEW r \in Requests, SendOpen(r)
    PROVE  Typed'
<1>1. [type |-> "Open", id |-> id[r], of |-> r] \in Frame
  BY FrameTyped DEF Typed, TypeOK
<1>2. toAgent' \in [Sessions -> Seq(Frame)] /\ alive' \in [Sessions -> BOOLEAN]
  BY <1>1, ToAgentTyped DEF Typed, SendOpen
<1>3. streams' \in [Sessions -> SUBSET Requests]
  <2>1. [streams EXCEPT ![session[r]] = Unregistered(session[r], r)] \in [Sessions -> SUBSET Requests]
    BY UnregisteredTyped DEF Typed
  <2> QED BY <2>1 DEF Typed, TypeOK, SendOpen
<1>4. pc' \in [Requests -> ProxyStep] /\ \A q \in Requests : pc'[q] = "absent" <=> pc[q] = "absent"
  BY DEF Typed, TypeOK, SendOpen, Goto, ProxyStep
<1> QED BY <1>2, <1>3, <1>4 DEF Typed, TypeOK, Grounded, SendOpen, process, clients, agent, serve,
              sockets, outside, history

LEMMA GiveUpTyped ==
    ASSUME Typed, NEW r \in Requests, GiveUp(r)
    PROVE  Typed'
BY DEF Typed, TypeOK, Grounded, GiveUp, Goto, Unregistered, process, clients, channel, agent,
   serve, sockets, outside, history, ProxyStep

LEMMA RefuseTyped ==
    ASSUME Typed, NEW r \in Requests, Refuse(r)
    PROVE  Typed'
<1>1. HistoryTyped'
  BY WriteClientTyped DEF Typed, Refuse
<1>2. /\ shut' \in [Requests -> BOOLEAN] /\ fds' \in [Fds -> Requests \cup {NoRequest}]
      /\ fd' = fd /\ \A q \in Requests : shut[q] => shut'[q]
  BY CloseClientsTyped DEF Typed, Refuse
<1> QED BY <1>1, <1>2 DEF Typed, TypeOK, Grounded, HistoryTyped, Refuse, Goto, process, controller,
              channel, agent, serve, sockets, outside, ProxyStep

LEMMA GreetTyped ==
    ASSUME Typed, NEW r \in Requests, Greet(r)
    PROVE  Typed'
<1>1. HistoryTyped'
  BY WriteClientTyped DEF Typed, Greet
<1>2. pc' \in [Requests -> ProxyStep] /\ \A q \in Requests : pc'[q] = "absent" <=> pc[q] = "absent"
  BY DEF Typed, TypeOK, Greet, Goto, ProxyStep
<1> QED BY <1>1, <1>2 DEF Typed, TypeOK, Grounded, HistoryTyped, Greet, process, clients, controller,
              channel, agent, serve, sockets, outside

LEMMA SendHeaderTyped ==
    ASSUME Typed, NEW r \in Requests, SendHeader(r)
    PROVE  Typed'
<1>1. [type |-> "Data", id |-> id[r], of |-> r] \in Frame
  BY FrameTyped DEF Typed, TypeOK
<1>2. toAgent' \in [Sessions -> Seq(Frame)] /\ alive' \in [Sessions -> BOOLEAN]
  BY <1>1, ToAgentTyped DEF Typed, SendHeader
<1>3. pc' \in [Requests -> ProxyStep] /\ \A q \in Requests : pc'[q] = "absent" <=> pc[q] = "absent"
  <2>1. pc[r] = "waiting" /\ \E step \in {"copying", "over"} : pc' = [pc EXCEPT ![r] = step]
    BY DEF SendHeader, Leave, Goto
  <2> QED BY <2>1 DEF Typed, TypeOK, ProxyStep
<1>4. /\ shut' \in [Requests -> BOOLEAN] /\ fds' \in [Fds -> Requests \cup {NoRequest}]
      /\ fd' = fd /\ \A q \in Requests : shut[q] => shut'[q]
  BY CloseClientsTyped DEF Typed, TypeOK, SendHeader, Leave, clients
<1>5. streams' \in [Sessions -> SUBSET Requests]
  <2>1. [streams EXCEPT ![session[r]] = Unregistered(session[r], r)] \in [Sessions -> SUBSET Requests]
    BY UnregisteredTyped DEF Typed
  <2> QED BY <2>1 DEF Typed, TypeOK, SendHeader, Leave
<1> QED BY <1>2, <1>3, <1>4, <1>5 DEF Typed, TypeOK, Grounded, SendHeader, process, agent, serve,
              sockets, outside, history

LEMMA CopyTyped ==
    ASSUME Typed, NEW r \in Requests, Copy(r)
    PROVE  Typed'
<1> DEFINE q == fds[fd[r]]
<1>1. pc' \in [Requests -> ProxyStep] /\ \A p \in Requests : pc'[p] = "absent" <=> pc[p] = "absent"
  BY DEF Typed, TypeOK, Copy, Goto, ProxyStep
<1>2. /\ toAgent' \in [Sessions -> Seq(Frame)] /\ alive' \in [Sessions -> BOOLEAN]
      /\ asking' \in [Requests -> BOOLEAN] /\ slipped' \in BOOLEAN
  <2>1. CASE UNCHANGED <<alive, toAgent, asking, slipped>>
    BY <2>1 DEF Typed, TypeOK
  <2>2. CASE /\ asking' = [asking EXCEPT ![q] = FALSE]
             /\ slipped' = (slipped \/ q # r)
             /\ \E ok \in BOOLEAN : ToAgent(session[r], [type |-> "Data", id |-> id[r], of |-> q], ok)
    <3>1. q \in Requests \cup {NoRequest} /\ id[r] \in Nat
      BY DEF Typed, TypeOK, Grounded, Copy
    <3>2. [type |-> "Data", id |-> id[r], of |-> q] \in Frame
      BY <3>1, FrameTyped
    <3> QED BY <2>2, <3>2, ToAgentTyped DEF Typed, TypeOK
  <2> QED BY <2>1, <2>2 DEF Copy
<1> QED BY <1>1, <1>2 DEF Typed, TypeOK, Grounded, Copy, process, clients, agent, serve, sockets

LEMMA SendCloseTyped ==
    ASSUME Typed, NEW r \in Requests, SendClose(r)
    PROVE  Typed'
BY FrameTyped, ToAgentTyped, CloseClientsTyped DEF Typed, TypeOK, Grounded, SendClose, Leave,
   Goto, Unregistered, process, agent, serve, sockets, outside, history, ProxyStep

LEMMA ReadFrameTyped ==
    ASSUME Typed, NEW s \in Sessions, ReadFrame(s)
    PROVE  Typed'
BY FrameTyped, HandTyped, SeqTyped, CloseClientsTyped DEF Typed, TypeOK, Grounded, ReadFrame,
   Found, process, agent, serve, sockets, outside, history, ReaderStep, Flag

LEMMA WriteDataTyped ==
    ASSUME Typed, NEW s \in Sessions, WriteData(s)
    PROVE  Typed'
<1>1. PICK q \in hand[s].reqs, ok \in BOOLEAN :
         /\ WriteClient(q, {hand[s].of}, ok)
         /\ hand' = [hand EXCEPT ![s] = IF ok THEN Holding("reading", {}, NoRequest)
                                        ELSE Holding("reply", {q}, NoRequest)]
  BY DEF WriteData
<1>2. q \in Requests /\ {hand[s].of} \in SUBSET (Requests \cup {NoRequest})
  BY HandTyped DEF Typed, TypeOK
<1>3. HistoryTyped'
  BY <1>1, <1>2, WriteClientTyped DEF Typed
<1>4. Holding("reading", {}, NoRequest) \in Hand /\ Holding("reply", {q}, NoRequest) \in Hand
  BY <1>2, HandTyped DEF ReaderStep
<1>5. hand' \in [Sessions -> Hand]
  BY <1>1, <1>4 DEF Typed, TypeOK
<1> QED BY <1>3, <1>5 DEF Typed, TypeOK, Grounded, HistoryTyped, WriteData, process, proxy, clients,
              channel, agent, serve, sockets, outside

LEMMA ReplyCloseTyped ==
    ASSUME Typed, NEW s \in Sessions, ReplyClose(s)
    PROVE  Typed'
<1>1. PICK q \in hand[s].reqs :
         /\ \E ok \in BOOLEAN : ToAgent(s, Bare("Close", id[q]), ok)
         /\ streams' = [streams EXCEPT ![s] = Unregistered(s, q)]
         /\ CloseClients({q})
  BY DEF ReplyClose
<1>2. q \in Requests
  BY HandTyped DEF Typed, TypeOK
<1>3. Bare("Close", id[q]) \in Frame
  BY <1>2, FrameTyped DEF Typed, TypeOK
<1>4. toAgent' \in [Sessions -> Seq(Frame)] /\ alive' \in [Sessions -> BOOLEAN]
  BY <1>1, <1>3, ToAgentTyped DEF Typed
<1>5. streams' \in [Sessions -> SUBSET Requests]
  BY <1>1 DEF Typed, TypeOK, Unregistered
<1>6. /\ shut' \in [Requests -> BOOLEAN] /\ fds' \in [Fds -> Requests \cup {NoRequest}]
      /\ fd' = fd /\ \A p \in Requests : shut[p] => shut'[p]
  BY <1>1, CloseClientsTyped DEF Typed
<1>7. hand' \in [Sessions -> Hand]
  BY HandTyped DEF Typed, TypeOK, ReplyClose, ReaderStep
<1> QED BY <1>4, <1>5, <1>6, <1>7 DEF Typed, TypeOK, Grounded, ReplyClose, process, proxy, agent,
              serve, sockets, outside, history

LEMMA StopReadingTyped ==
    ASSUME Typed, NEW s \in Sessions, StopReading(s)
    PROVE  Typed'
BY HandTyped DEF Typed, TypeOK, Grounded, StopReading, process, clients, channel, agent, serve,
   sockets, outside, history, ReaderStep, Flag

LEMMA SweepTyped ==
    ASSUME Typed, NEW s \in Sessions, Sweep(s)
    PROVE  Typed'
BY HandTyped, CloseClientsTyped DEF Typed, TypeOK, Grounded, Sweep, process, proxy, channel,
   agent, serve, sockets, outside, history, ReaderStep

LEMMA ConnectTyped ==
    ASSUME Typed, Connect
    PROVE  Typed'
<1>1. sessions' \in Sessions /\ sessions' \in Nat
  BY BoundsAssumption DEF Typed, TypeOK, Connect, Sessions
<1>2. alive' \in [Sessions -> BOOLEAN] /\ link' \in [Sessions -> BOOLEAN]
  BY Zenon DEF Connect
<1>3. hand' \in [Sessions -> Hand]
  BY HandTyped DEF Typed, TypeOK, Connect, ReaderStep
<1> QED BY <1>1, <1>2, <1>3 DEF Typed, TypeOK, Grounded, Connect, process, proxy, clients, serve,
              sockets, outside, history

LEMMA TakeFrameTyped ==
    ASSUME Typed, TakeFrame
    PROVE  Typed'
<1> DEFINE f == Head(toAgent[conn])
<1>1. f \in Frame /\ toAgent' \in [Sessions -> Seq(Frame)]
  <2>1. conn \in Sessions /\ toAgent[conn] \in Seq(Frame) /\ toAgent[conn] # <<>>
    BY DEF Typed, TypeOK, TakeFrame
  <2>2. Head(toAgent[conn]) \in Frame /\ Tail(toAgent[conn]) \in Seq(Frame)
    BY <2>1, SeqTyped
  <2> QED BY <2>1, <2>2, ExceptTyped DEF Typed, TypeOK, TakeFrame
<1>2. f.id \in Nat /\ Bare("Error", f.id) \in Frame /\ Bare("Close", f.id) \in Frame
  BY <1>1, FrameTyped
<1>3. \A q \in Live(f.id) : q \in Requests
  BY DEF Typed, TypeOK, Live
<1>4. /\ task' \in Task /\ (task'.at = "write" => task'.req \in Requests)
      /\ serving' \in [Requests -> ServingStep]
      /\ \A q \in Requests : serving'[q] = serving[q] \/ serving'[q] = "opening"
      /\ SocketsTyped' /\ targets' \in SUBSET Requests
  <2>1. CASE f.type = "Open" /\ serving' = [serving EXCEPT ![f.of] = "opening"]
             /\ UNCHANGED <<task, targets, tshut, tfds>>
    BY <2>1 DEF Typed, TypeOK, Grounded, TakeFrame, SocketsTyped, ServingStep
  <2>2. CASE /\ \/ \E q \in Live(f.id) : task' = [at |-> "write", req |-> q, frame |-> f]
                \/ Live(f.id) = {} /\ task' = Reply(Bare("Error", f.id))
             /\ UNCHANGED <<serving, targets, tshut, tfds>>
    <3>1. task' \in Task /\ (task'.at = "write" => task'.req \in Requests)
      BY <2>2, <1>1, <1>2, <1>3, TaskTyped
    <3> QED BY <2>2, <3>1 DEF Typed, TypeOK, TakeFrame, SocketsTyped
  <2>3. CASE /\ \/ \E q \in Live(f.id) :
                     CloseTargets({q}) /\ task' = Reply(Bare("Close", f.id))
                \/ Live(f.id) = {} /\ UNCHANGED <<task, targets, tshut, tfds>>
             /\ UNCHANGED serving
    <3>1. SocketsTyped' /\ targets' \in SUBSET Requests
      BY <2>3, CloseTargetsTyped DEF Typed, TypeOK, TakeFrame, SocketsTyped
    <3>2. task' \in Task /\ (task'.at = "write" => task'.req \in Requests)
      BY <2>3, <1>2, TaskTyped DEF Typed, TypeOK, Grounded
    <3> QED BY <2>3, <3>1, <3>2 DEF Typed, TypeOK
  <2> QED BY <2>1, <2>2, <2>3 DEF TakeFrame
<1> QED BY <1>1, <1>4 DEF Typed, TypeOK, Grounded, TakeFrame, SocketsTyped, process, proxy, clients,
              controller, outside, history

LEMMA FeedTargetTyped ==
    ASSUME Typed, FeedTarget
    PROVE  Typed'
<1>1. task \in Task /\ task.req \in Requests /\ task.frame \in Frame
  BY TaskTyped DEF Typed, TypeOK, Grounded, FeedTarget
<1>2. HistoryTyped'
  BY <1>1, WriteTargetTyped DEF Typed, FeedTarget
<1>3. Reply(Bare("Close", task.frame.id)) \in Task /\ Reply(Bare("Close", task.frame.id)).at = "reply"
      /\ Idle \in Task /\ Idle.at = "idle"
  BY <1>1, FrameTyped, TaskTyped
<1>4. task' \in Task /\ task'.at # "write"
  BY <1>3 DEF FeedTarget
<1>5. SocketsTyped' /\ targets' \in SUBSET Requests
  BY CloseTargetsTyped DEF Typed, TypeOK, FeedTarget, SocketsTyped
<1> QED BY <1>2, <1>4, <1>5 DEF Typed, TypeOK, Grounded, HistoryTyped, SocketsTyped, FeedTarget,
              process, proxy, clients, controller, channel, serve, outside

LEMMA SendReplyTyped ==
    ASSUME Typed, SendReply
    PROVE  Typed'
BY FrameTyped, TaskTyped, ToControllerTyped DEF Typed, TypeOK, Grounded, SendReply, process,
   proxy, clients, controller, serve, sockets, outside, history

LEMMA DisconnectTyped ==
    ASSUME Typed, Disconnect
    PROVE  Typed'
BY CloseTargetsTyped DEF Typed, TypeOK, Grounded, Disconnect, process, proxy, clients, controller,
   serve, outside, history, None

LEMMA RefuseOpenTyped ==
    ASSUME Typed, NEW r \in Requests, RefuseOpen(r)
    PROVE  Typed'
BY FrameTyped, ToControllerTyped DEF Typed, TypeOK, Grounded, RefuseOpen, Serve, process, proxy,
   clients, controller, sockets, outside, history, ServingStep

LEMMA OpenTargetTyped ==
    ASSUME Typed, NEW r \in Requests, OpenTarget(r)
    PROVE  Typed'
BY DEF Typed, TypeOK, Grounded, OpenTarget, Serve, process, proxy, clients, controller, channel,
   history, ServingStep

LEMMA SendOpenOkTyped ==
    ASSUME Typed, NEW r \in Requests, SendOpenOk(r)
    PROVE  Typed'
BY FrameTyped, ToControllerTyped DEF Typed, TypeOK, Grounded, SendOpenOk, Serve, process, proxy,
   clients, controller, sockets, outside, history, ServingStep

LEMMA LoopOrEndTyped ==
    ASSUME Typed, NEW r \in Requests, LoopOrEnd(r)
    PROVE  Typed'
<1>1. /\ SocketsTyped' /\ targets' \in SUBSET Requests /\ serving' \in [Requests -> ServingStep]
  <2>1. CASE EndTarget(r)
    BY <2>1, EndTargetTyped DEF Typed, LoopOrEnd
  <2>2. CASE Serve(r, "receiving") /\ UNCHANGED <<targets, tshut, tfds>>
    BY <2>2 DEF Typed, TypeOK, LoopOrEnd, Serve, ServingStep, SocketsTyped
  <2> QED BY <2>1, <2>2 DEF LoopOrEnd
<1>2. \A q \in Requests : serving'[q] # serving[q] => q = r
  BY DEF Typed, TypeOK, LoopOrEnd, EndTarget, Serve
<1> QED BY <1>1, <1>2 DEF Typed, TypeOK, Grounded, LoopOrEnd, SocketsTyped, process, proxy, clients,
              controller, channel, outside, history

LEMMA ReceiveTyped ==
    ASSUME Typed, NEW r \in Requests, Receive(r)
    PROVE  Typed'
<1>1. /\ SocketsTyped' /\ targets' \in SUBSET Requests /\ serving' \in [Requests -> ServingStep]
  BY EndTargetTyped DEF Typed, TypeOK, Receive, Serve, ServingStep, SocketsTyped
<1>2. \A q \in Requests : serving'[q] # serving[q] => q = r
  BY DEF Typed, TypeOK, Receive, EndTarget, Serve
<1>3. tfd[r] \in TargetFds /\ tfds[tfd[r]] \in Requests \cup {NoRequest}
  BY DEF Typed, TypeOK, Grounded, Receive
<1>4. relay' \in [Requests -> Requests \cup {NoRequest}] /\ answering' \in [Requests -> BOOLEAN]
      /\ slipped' \in BOOLEAN
  BY <1>3 DEF Typed, TypeOK, Receive
<1> QED BY <1>1, <1>2, <1>3, <1>4 DEF Typed, TypeOK, Grounded, Receive, SocketsTyped, process, proxy,
              clients, controller, channel

LEMMA RelayTyped ==
    ASSUME Typed, NEW r \in Requests, Relay(r)
    PROVE  Typed'
<1>1. [type |-> "Data", id |-> id[r], of |-> relay[r]] \in Frame
  BY FrameTyped DEF Typed, TypeOK
<1>2. toController' \in [Sessions -> Seq(Frame)] /\ connected' \in BOOLEAN
  BY <1>1, ToControllerTyped DEF Typed, Relay
<1>3. /\ SocketsTyped' /\ targets' \in SUBSET Requests /\ serving' \in [Requests -> ServingStep]
  <2>1. CASE EndTarget(r)
    BY <2>1, EndTargetTyped DEF Typed, Relay
  <2>2. CASE Serve(r, "reading") /\ UNCHANGED <<targets, tshut, tfds>>
    BY <2>2 DEF Typed, TypeOK, Relay, Serve, ServingStep, SocketsTyped
  <2> QED BY <2>1, <2>2 DEF Relay
<1>4. \A q \in Requests : serving'[q] # serving[q] => q = r
  BY DEF Typed, TypeOK, Relay, EndTarget, Serve
<1> QED BY <1>2, <1>3, <1>4 DEF Typed, TypeOK, Grounded, Relay, SocketsTyped, process, proxy,
              clients, controller, outside, history

LEMMA NotifyCloseTyped ==
    ASSUME Typed, NEW r \in Requests, NotifyClose(r)
    PROVE  Typed'
BY FrameTyped, ToControllerTyped DEF Typed, TypeOK, Grounded, NotifyClose, Serve, process, proxy,
   clients, controller, sockets, outside, history, ServingStep

LEMMA ClientLeavesTyped ==
    ASSUME Typed, NEW r \in Requests, ClientLeaves(r)
    PROVE  Typed'
BY DEF Typed, TypeOK, Grounded, ClientLeaves, process, proxy, clients, controller, channel, agent,
   serve, sockets, history

LEMMA TargetEndsTyped ==
    ASSUME Typed, NEW r \in Requests, TargetEnds(r)
    PROVE  Typed'
BY DEF Typed, TypeOK, Grounded, TargetEnds, process, proxy, clients, controller, channel, agent,
   serve, sockets, history

LEMMA BreakTyped ==
    ASSUME Typed, Break
    PROVE  Typed'
<1>1. toAgent' \in [Sessions -> Seq(Frame)] /\ toController' \in [Sessions -> Seq(Frame)]
  <2>1. toAgent \in [Sessions -> Seq(Frame)] /\ toController \in [Sessions -> Seq(Frame)]
    BY DEF Typed, TypeOK
  <2>2. <<>> \in Seq(Frame)
    BY EmptyTyped
  <2>3. /\ [toAgent EXCEPT ![conn] = <<>>] \in [Sessions -> Seq(Frame)]
        /\ [toController EXCEPT ![conn] = <<>>] \in [Sessions -> Seq(Frame)]
    BY <2>1, <2>2, ExceptTyped
  <2> QED BY <2>1, <2>3 DEF Break
<1>2. link' \in [Sessions -> BOOLEAN] /\ disturbed' \in Nat
  BY DEF Typed, TypeOK, Break, Disturb
<1> QED BY <1>1, <1>2 DEF Typed, TypeOK, Grounded, Break, process, proxy, clients, controller,
              agent, serve, sockets, outside, history

LEMMA ControllerEndsTyped ==
    ASSUME Typed, disturbed' \in Nat, ControllerEnds
    PROVE  Typed'
<1>1. Holding("unused", {}, NoRequest) \in Hand /\ Holding("over", {}, NoRequest) \in Hand
  BY HandTyped DEF ReaderStep
<1>2. hand' \in [Sessions -> Hand]
  BY <1>1 DEF ControllerEnds
<1>3. pc' \in [Requests -> ProxyStep] /\ \A r \in Requests : pc'[r] = "absent" <=> pc[r] = "absent"
  BY DEF Typed, TypeOK, ControllerEnds, ProxyStep
<1>4. toController' \in [Sessions -> Seq(Frame)]
  BY DEF ControllerEnds
<1> QED BY <1>2, <1>3, <1>4 DEF Typed, TypeOK, Grounded, ControllerEnds, agent, serve, sockets,
              outside, history

LEMMA AgentEndsTyped ==
    ASSUME Typed, disturbed' \in Nat, AgentEnds
    PROVE  Typed'
<1>1. toAgent' \in [Sessions -> Seq(Frame)]
  BY DEF AgentEnds
<1>2. task' \in Task /\ task'.at # "write"
  BY TaskTyped DEF AgentEnds
<1>3. serving' \in [Requests -> ServingStep] /\ \A r \in Requests : serving'[r] \in {"none", "over"}
  BY DEF AgentEnds, ServingStep
<1> QED BY <1>1, <1>2, <1>3 DEF Typed, TypeOK, Grounded, AgentEnds, process, proxy, clients,
              outside, history, controller

LEMMA StartControllerTyped ==
    ASSUME Typed, StartController
    PROVE  Typed'
BY DEF Typed, TypeOK, Grounded, StartController, proxy, clients, controller, channel, agent,
   serve, sockets, outside, history

LEMMA StartAgentTyped ==
    ASSUME Typed, StartAgent
    PROVE  Typed'
BY DEF Typed, TypeOK, Grounded, StartAgent, process, proxy, clients, controller, channel, serve,
   sockets, outside, history

-----------------------------------------------------------------------------
(* Who holds what: a request is opened once, so a descriptor of the agent   *)
(* is given to it once.                                                     *)

Early == {"absent", "accepted", "registered"}

OpenAt(s, i, r) ==
    /\ i \in 1..Len(toAgent[s])
    /\ toAgent[s][i].type = "Open"
    /\ toAgent[s][i].of = r

OpenedOnce ==
    /\ \A r \in Requests : pc[r] \in Early => serving[r] = "none"
    /\ \A r \in Requests : serving[r] \in {"none", "opening"} => tshut[r]
    /\ \A r \in Requests, s \in Sessions, i \in Nat :
          OpenAt(s, i, r) => serving[r] = "none" /\ pc[r] \notin Early
    /\ \A r \in Requests, s1 \in Sessions, s2 \in Sessions, i \in Nat, j \in Nat :
          OpenAt(s1, i, r) /\ OpenAt(s2, j, r) => s1 = s2 /\ i = j

OwnClients ==
    \A r \in Requests, d \in Fds : fds[d] = r <=> (~shut[r] /\ fd[r] = d)
OwnTargets ==
    \A r \in Requests, d \in TargetFds : tfds[d] = r <=> (~tshut[r] /\ tfd[r] = d)

Owned == OpenedOnce /\ OwnClients /\ OwnTargets

\* What almost every step does to the threads, to the Open frames under way,
\* and to the two tables of descriptors.
Later == \A r \in Requests : pc'[r] \in Early => pc[r] \in Early
Steady ==
    \A r \in Requests :
        /\ serving'[r] = "none" <=> serving[r] = "none"
        /\ serving'[r] = "opening" => serving[r] = "opening"
Stays == \A r \in Requests : tshut[r] /\ serving'[r] \in {"none", "opening"} => tshut'[r]
NoNewOpens ==
    \A r \in Requests, s \in Sessions, i \in Nat : OpenAt(s, i, r)' => OpenAt(s, i, r)
ClientsClose == UNCHANGED <<fd, shut, fds>> \/ \E rs \in SUBSET Requests : CloseClients(rs)
TargetsClose ==
    \/ UNCHANGED <<tfd, tshut, tfds>>
    \/ UNCHANGED tfd /\ \E rs \in SUBSET Requests : CloseTargets(rs)

LEMMA OpenedOnceKept ==
    ASSUME OpenedOnce, Later, Steady, Stays, NoNewOpens
    PROVE  OpenedOnce'
<1>1. (\A r \in Requests : pc[r] \in Early => serving[r] = "none")'
  BY DEF OpenedOnce, Later, Steady
<1>2. (\A r \in Requests : serving[r] \in {"none", "opening"} => tshut[r])'
  BY DEF OpenedOnce, Steady, Stays
<1>3. (\A r \in Requests, s \in Sessions, i \in Nat :
         OpenAt(s, i, r) => serving[r] = "none" /\ pc[r] \notin Early)'
  BY DEF OpenedOnce, NoNewOpens, Steady, Later
<1>4. (\A r \in Requests, s1 \in Sessions, s2 \in Sessions, i \in Nat, j \in Nat :
         OpenAt(s1, i, r) /\ OpenAt(s2, j, r) => s1 = s2 /\ i = j)'
  BY DEF OpenedOnce, NoNewOpens
<1> QED BY <1>1, <1>2, <1>3, <1>4 DEF OpenedOnce

LEMMA OwnClientsKept ==
    ASSUME Typed, OwnClients, ClientsClose
    PROVE  OwnClients'
<1>1. CASE UNCHANGED <<fd, shut, fds>>
  BY <1>1 DEF OwnClients
<1>2. CASE \E rs \in SUBSET Requests : CloseClients(rs)
  <2>1. PICK rs \in SUBSET Requests : CloseClients(rs)
    BY <1>2
  <2>2. \A r \in Requests, d \in Fds :
          fds'[d] = r <=> (fds[d] = r /\ ~\E q \in rs : ~shut[q] /\ fd[q] = d)
    BY <2>1, NoRequestAssumption, Zenon DEF CloseClients
  <2>3. \A r \in Requests : shut'[r] <=> (shut[r] \/ r \in rs)
    BY <2>1, Zenon DEF CloseClients
  <2>4. fd' = fd
    BY <2>1 DEF CloseClients
  <2> QED BY <2>2, <2>3, <2>4 DEF OwnClients
<1> QED BY <1>1, <1>2 DEF ClientsClose

LEMMA OwnTargetsKept ==
    ASSUME Typed, OwnTargets, TargetsClose
    PROVE  OwnTargets'
<1>1. CASE UNCHANGED <<tfd, tshut, tfds>>
  BY <1>1 DEF OwnTargets
<1>2. CASE UNCHANGED tfd /\ \E rs \in SUBSET Requests : CloseTargets(rs)
  <2>1. PICK rs \in SUBSET Requests : CloseTargets(rs)
    BY <1>2
  <2>2. \A r \in Requests, d \in TargetFds :
          tfds'[d] = r <=> (tfds[d] = r /\ ~\E q \in rs : ~tshut[q] /\ tfd[q] = d)
    BY <2>1, NoRequestAssumption, Zenon DEF CloseTargets
  <2>3. \A r \in Requests : tshut'[r] <=> (tshut[r] \/ r \in rs)
    BY <2>1, Zenon DEF CloseTargets
  <2> QED BY <1>2, <2>2, <2>3 DEF OwnTargets
<1> QED BY <1>1, <1>2 DEF TargetsClose

Calm == Later /\ Steady /\ Stays /\ NoNewOpens /\ ClientsClose /\ TargetsClose

LEMMA CalmKeeps == Typed /\ Owned /\ Calm => Owned'
BY OpenedOnceKept, OwnClientsKept, OwnTargetsKept DEF Owned, Calm

LEMMA Appended ==
    ASSUME NEW S, NEW q \in Seq(S), NEW x
    PROVE  /\ Len(Append(q, x)) = Len(q) + 1
           /\ \A j \in 1..Len(q) : Append(q, x)[j] = q[j]
           /\ Append(q, x)[Len(q) + 1] = x
<1>1. q \in Seq(S \cup {x}) /\ x \in S \cup {x}
  OBVIOUS
<1> QED BY <1>1

LEMMA BareType == \A type, i : Bare(type, i).type = type
BY DEF Bare

LEMMA ServeSteady ==
    ASSUME Typed, NEW r \in Requests, serving[r] \notin {"none", "opening"},
           NEW step \in ServingStep \ {"none", "opening"}, Serve(r, step)
    PROVE  Steady
BY DEF Typed, TypeOK, Steady, Serve, ServingStep

\* A frame that is not an Open opens nothing.
LEMMA ToAgentOpensNothing ==
    ASSUME Typed, NEW s, NEW frame, frame.type # "Open", NEW ok, ToAgent(s, frame, ok)
    PROVE  NoNewOpens
<1> SUFFICES ASSUME NEW r \in Requests, NEW t \in Sessions, NEW i \in Nat, OpenAt(t, i, r)'
             PROVE  OpenAt(t, i, r)
  BY DEF NoNewOpens
<1>1. toAgent \in [Sessions -> Seq(Frame)]
  BY DEF Typed, TypeOK
<1>2. CASE toAgent' = toAgent
  BY <1>2 DEF OpenAt
<1>3. CASE toAgent' = [toAgent EXCEPT ![s] = Append(@, frame)]
  <2>1. t # s => toAgent'[t] = toAgent[t]
    BY <1>1, <1>3
  <2>2. t = s => toAgent'[t] = Append(toAgent[t], frame)
    BY <1>1, <1>3
  <2>3. toAgent[t] \in Seq(Frame)
    BY <1>1
  <2>4. CASE t = s
    <3>1. /\ Len(Append(toAgent[t], frame)) = Len(toAgent[t]) + 1
          /\ \A j \in 1..Len(toAgent[t]) : Append(toAgent[t], frame)[j] = toAgent[t][j]
          /\ Append(toAgent[t], frame)[Len(toAgent[t]) + 1] = frame
      BY <2>3, Appended
    <3>2. Len(toAgent[t]) \in Nat
      BY <2>3
    <3>3. i \in 1..Len(toAgent[t]) + 1 /\ Append(toAgent[t], frame)[i].type = "Open"
      BY <2>2, <2>4, <3>1 DEF OpenAt
    <3>4. i \in 1..Len(toAgent[t])
      BY <3>1, <3>2, <3>3
    <3> QED BY <2>2, <2>4, <3>1, <3>4 DEF OpenAt
  <2> QED BY <2>1, <2>4 DEF OpenAt
<1> QED BY <1>2, <1>3 DEF ToAgent

LEMMA CloseTargetsShut ==
    ASSUME Typed, NEW rs, CloseTargets(rs)
    PROVE  Stays
BY CloseTargetsTyped DEF Typed, Stays


LEMMA RejectCalm ==
    ASSUME Typed, NEW r \in Requests, Reject(r)
    PROVE  Calm
BY DEF Typed, TypeOK, Calm, Later, Steady, Stays, NoNewOpens, OpenAt, ClientsClose, TargetsClose,
   Reject, Goto, channel, serve, sockets, Early

LEMMA SelectCalm ==
    ASSUME Typed, NEW r \in Requests, Select(r)
    PROVE  Calm
BY DEF Typed, TypeOK, Calm, Later, Steady, Stays, NoNewOpens, OpenAt, ClientsClose, TargetsClose,
   Select, Goto, clients, channel, serve, sockets, Early

LEMMA GiveUpCalm ==
    ASSUME Typed, NEW r \in Requests, GiveUp(r)
    PROVE  Calm
BY DEF Typed, TypeOK, Calm, Later, Steady, Stays, NoNewOpens, OpenAt, ClientsClose, TargetsClose,
   GiveUp, Goto, Unregistered, clients, channel, serve, sockets, Early

LEMMA RefuseCalm ==
    ASSUME Typed, NEW r \in Requests, Refuse(r)
    PROVE  Calm
BY DEF Typed, TypeOK, Calm, Later, Steady, Stays, NoNewOpens, OpenAt, ClientsClose, TargetsClose,
   Refuse, Goto, channel, serve, sockets, Early

LEMMA GreetCalm ==
    ASSUME Typed, NEW r \in Requests, Greet(r)
    PROVE  Calm
BY DEF Typed, TypeOK, Calm, Later, Steady, Stays, NoNewOpens, OpenAt, ClientsClose, TargetsClose,
   Greet, Goto, clients, channel, serve, sockets, Early

LEMMA SendHeaderCalm ==
    ASSUME Typed, NEW r \in Requests, SendHeader(r)
    PROVE  Calm
<1>1. Later
  BY DEF Typed, TypeOK, Later, SendHeader, Leave, Goto, Early, proxy, serve
<1>2. Steady
  BY DEF Typed, TypeOK, Steady, SendHeader, Leave, Goto, serve
<1>3. Stays
  BY CloseTargetsShut, HandTyped DEF Stays, SendHeader, Leave, Goto, sockets
<1>4. NoNewOpens
  BY ToAgentOpensNothing, BareType DEF NoNewOpens, OpenAt, SendHeader, Leave, Goto, channel
<1>5. ClientsClose
  BY HandTyped DEF Typed, TypeOK, ClientsClose, SendHeader, Leave, Goto, clients
<1>6. TargetsClose
  BY DEF Typed, TypeOK, TargetsClose, SendHeader, Leave, Goto, sockets
<1> QED BY <1>1, <1>2, <1>3, <1>4, <1>5, <1>6 DEF Calm

LEMMA CopyCalm ==
    ASSUME Typed, NEW r \in Requests, Copy(r)
    PROVE  Calm
<1>1. Later
  BY DEF Typed, TypeOK, Later, Copy, Goto, Early, proxy, serve
<1>2. Steady
  BY DEF Typed, TypeOK, Steady, Copy, Goto, serve
<1>3. Stays
  BY CloseTargetsShut, HandTyped DEF Stays, Copy, Goto, sockets
<1>4. NoNewOpens
  BY ToAgentOpensNothing, BareType DEF NoNewOpens, OpenAt, Copy, Goto, channel
<1>5. ClientsClose
  BY HandTyped DEF Typed, TypeOK, ClientsClose, Copy, Goto, clients
<1>6. TargetsClose
  BY DEF Typed, TypeOK, TargetsClose, Copy, Goto, sockets
<1> QED BY <1>1, <1>2, <1>3, <1>4, <1>5, <1>6 DEF Calm

LEMMA SendCloseCalm ==
    ASSUME Typed, NEW r \in Requests, SendClose(r)
    PROVE  Calm
<1>1. Later
  BY DEF Typed, TypeOK, Later, SendClose, Leave, Goto, Early, proxy, serve
<1>2. Steady
  BY DEF Typed, TypeOK, Steady, SendClose, Leave, Goto, serve
<1>3. Stays
  BY CloseTargetsShut, HandTyped DEF Stays, SendClose, Leave, Goto, sockets
<1>4. NoNewOpens
  BY ToAgentOpensNothing, BareType DEF SendClose
<1>5. ClientsClose
  BY HandTyped DEF Typed, TypeOK, ClientsClose, SendClose, Leave, Goto, clients
<1>6. TargetsClose
  BY DEF Typed, TypeOK, TargetsClose, SendClose, Leave, Goto, sockets
<1> QED BY <1>1, <1>2, <1>3, <1>4, <1>5, <1>6 DEF Calm

LEMMA ReadFrameCalm ==
    ASSUME Typed, NEW s \in Sessions, ReadFrame(s)
    PROVE  Calm
BY HandTyped DEF Typed, TypeOK, Calm, Later, Steady, Stays, NoNewOpens, OpenAt, ClientsClose,
   TargetsClose, ReadFrame, Found, serve, sockets

LEMMA WriteDataCalm ==
    ASSUME Typed, NEW s \in Sessions, WriteData(s)
    PROVE  Calm
BY DEF Typed, TypeOK, Calm, Later, Steady, Stays, NoNewOpens, OpenAt, ClientsClose, TargetsClose,
   WriteData, proxy, clients, channel, serve, sockets

LEMMA ReplyCloseCalm ==
    ASSUME Typed, NEW s \in Sessions, ReplyClose(s)
    PROVE  Calm
<1>1. Later
  BY DEF Typed, TypeOK, Later, ReplyClose, Early, proxy, serve
<1>2. Steady
  BY DEF Typed, TypeOK, Steady, ReplyClose, serve
<1>3. Stays
  BY CloseTargetsShut, HandTyped DEF Stays, ReplyClose, sockets
<1>4. NoNewOpens
  BY ToAgentOpensNothing, BareType DEF ReplyClose
<1>5. ClientsClose
  BY HandTyped DEF Typed, TypeOK, ClientsClose, ReplyClose, clients
<1>6. TargetsClose
  BY DEF Typed, TypeOK, TargetsClose, ReplyClose, sockets
<1> QED BY <1>1, <1>2, <1>3, <1>4, <1>5, <1>6 DEF Calm

LEMMA StopReadingCalm ==
    ASSUME Typed, NEW s \in Sessions, StopReading(s)
    PROVE  Calm
BY DEF Typed, TypeOK, Calm, Later, Steady, Stays, NoNewOpens, OpenAt, ClientsClose, TargetsClose,
   StopReading, clients, channel, serve, sockets

LEMMA SweepCalm ==
    ASSUME Typed, NEW s \in Sessions, Sweep(s)
    PROVE  Calm
BY HandTyped DEF Typed, TypeOK, Calm, Later, Steady, Stays, NoNewOpens, OpenAt, ClientsClose,
   TargetsClose, Sweep, proxy, channel, serve, sockets

LEMMA ConnectCalm ==
    ASSUME Typed, Connect
    PROVE  Calm
BY DEF Typed, TypeOK, Calm, Later, Steady, Stays, NoNewOpens, OpenAt, ClientsClose, TargetsClose,
   Connect, proxy, clients, serve, sockets

LEMMA FeedTargetCalm ==
    ASSUME Typed, FeedTarget
    PROVE  Calm
BY CloseTargetsShut DEF Typed, TypeOK, Calm, Later, Steady, Stays, NoNewOpens, OpenAt,
   ClientsClose, TargetsClose, FeedTarget, Live, proxy, clients, channel, serve

LEMMA SendReplyCalm ==
    ASSUME Typed, SendReply
    PROVE  Calm
BY DEF Typed, TypeOK, Calm, Later, Steady, Stays, NoNewOpens, OpenAt, ClientsClose, TargetsClose,
   SendReply, proxy, clients, serve, sockets

LEMMA DisconnectCalm ==
    ASSUME Typed, Disconnect
    PROVE  Calm
BY CloseTargetsShut DEF Typed, TypeOK, Calm, Later, Steady, Stays, NoNewOpens, OpenAt,
   ClientsClose, TargetsClose, Disconnect, proxy, clients, serve

LEMMA RefuseOpenCalm ==
    ASSUME Typed, NEW r \in Requests, RefuseOpen(r)
    PROVE  Calm
<1>1. Later
  BY DEF Typed, TypeOK, Later, RefuseOpen, Serve, Early, proxy, serve
<1>2. Steady
  BY DEF Typed, TypeOK, Steady, RefuseOpen, Serve, serve
<1>3. Stays
  BY CloseTargetsShut, HandTyped DEF Stays, RefuseOpen, Serve, sockets
<1>4. NoNewOpens
  BY ToAgentOpensNothing, BareType DEF NoNewOpens, OpenAt, RefuseOpen, Serve, channel
<1>5. ClientsClose
  BY HandTyped DEF Typed, TypeOK, ClientsClose, RefuseOpen, Serve, clients
<1>6. TargetsClose
  BY DEF Typed, TypeOK, TargetsClose, RefuseOpen, Serve, sockets
<1> QED BY <1>1, <1>2, <1>3, <1>4, <1>5, <1>6 DEF Calm

LEMMA SendOpenOkCalm ==
    ASSUME Typed, NEW r \in Requests, SendOpenOk(r)
    PROVE  Calm
<1>1. Later
  BY DEF Typed, TypeOK, Later, SendOpenOk, Serve, Early, proxy, serve
<1>2. Steady
  BY DEF Typed, TypeOK, Steady, SendOpenOk, Serve, serve
<1>3. Stays
  BY CloseTargetsShut, HandTyped DEF Stays, SendOpenOk, Serve, sockets
<1>4. NoNewOpens
  BY ToAgentOpensNothing, BareType DEF NoNewOpens, OpenAt, SendOpenOk, Serve, channel
<1>5. ClientsClose
  BY HandTyped DEF Typed, TypeOK, ClientsClose, SendOpenOk, Serve, clients
<1>6. TargetsClose
  BY DEF Typed, TypeOK, TargetsClose, SendOpenOk, Serve, sockets
<1> QED BY <1>1, <1>2, <1>3, <1>4, <1>5, <1>6 DEF Calm

LEMMA LoopOrEndCalm ==
    ASSUME Typed, NEW r \in Requests, LoopOrEnd(r)
    PROVE  Calm
<1>1. Later
  BY DEF Typed, TypeOK, Later, LoopOrEnd, EndTarget, Serve, Live, Early, proxy, serve
<1>2. Steady
  BY ServeSteady DEF LoopOrEnd, EndTarget, ServingStep
<1>3. Stays
  BY CloseTargetsShut, HandTyped DEF Stays, LoopOrEnd, EndTarget, Serve, Live, sockets
<1>4. NoNewOpens
  BY ToAgentOpensNothing, BareType DEF NoNewOpens, OpenAt, LoopOrEnd, EndTarget, Serve, Live, channel
<1>5. ClientsClose
  BY HandTyped DEF Typed, TypeOK, ClientsClose, LoopOrEnd, EndTarget, Serve, Live, clients
<1>6. TargetsClose
  <2>1. Live(id[r]) \in SUBSET Requests /\ UNCHANGED tfd
    BY DEF Typed, TypeOK, Live, LoopOrEnd
  <2>2. EndTarget(r) \/ UNCHANGED <<tshut, tfds>>
    BY DEF LoopOrEnd
  <2> QED BY <2>1, <2>2 DEF EndTarget, TargetsClose
<1> QED BY <1>1, <1>2, <1>3, <1>4, <1>5, <1>6 DEF Calm

LEMMA ReceiveCalm ==
    ASSUME Typed, NEW r \in Requests, Receive(r)
    PROVE  Calm
<1>1. Later
  BY DEF Typed, TypeOK, Later, Receive, EndTarget, Serve, Live, Early, proxy, serve
<1>2. Steady
  BY ServeSteady DEF Receive, EndTarget, ServingStep
<1>3. Stays
  BY CloseTargetsShut, HandTyped DEF Stays, Receive, EndTarget, Serve, Live, sockets
<1>4. NoNewOpens
  BY ToAgentOpensNothing, BareType DEF NoNewOpens, OpenAt, Receive, EndTarget, Serve, Live, channel
<1>5. ClientsClose
  BY HandTyped DEF Typed, TypeOK, ClientsClose, Receive, EndTarget, Serve, Live, clients
<1>6. TargetsClose
  <2>1. Live(id[r]) \in SUBSET Requests /\ UNCHANGED tfd
    BY DEF Typed, TypeOK, Live, Receive
  <2>2. EndTarget(r) \/ UNCHANGED <<tshut, tfds>>
    BY DEF Receive
  <2> QED BY <2>1, <2>2 DEF EndTarget, TargetsClose
<1> QED BY <1>1, <1>2, <1>3, <1>4, <1>5, <1>6 DEF Calm

LEMMA RelayCalm ==
    ASSUME Typed, NEW r \in Requests, Relay(r)
    PROVE  Calm
<1>1. Later
  BY DEF Typed, TypeOK, Later, Relay, EndTarget, Serve, Live, Early, proxy, serve
<1>2. Steady
  BY ServeSteady DEF Relay, EndTarget, ServingStep
<1>3. Stays
  BY CloseTargetsShut, HandTyped DEF Stays, Relay, EndTarget, Serve, Live, sockets
<1>4. NoNewOpens
  BY ToAgentOpensNothing, BareType DEF NoNewOpens, OpenAt, Relay, EndTarget, Serve, Live, channel
<1>5. ClientsClose
  BY HandTyped DEF Typed, TypeOK, ClientsClose, Relay, EndTarget, Serve, Live, clients
<1>6. TargetsClose
  <2>1. Live(id[r]) \in SUBSET Requests /\ UNCHANGED tfd
    BY DEF Typed, TypeOK, Live, Relay
  <2>2. EndTarget(r) \/ UNCHANGED <<tshut, tfds>>
    BY DEF Relay
  <2> QED BY <2>1, <2>2 DEF EndTarget, TargetsClose
<1> QED BY <1>1, <1>2, <1>3, <1>4, <1>5, <1>6 DEF Calm

LEMMA NotifyCloseCalm ==
    ASSUME Typed, NEW r \in Requests, NotifyClose(r)
    PROVE  Calm
<1>1. Later
  BY DEF Typed, TypeOK, Later, NotifyClose, Serve, Early, proxy, serve
<1>2. Steady
  BY DEF Typed, TypeOK, Steady, NotifyClose, Serve, serve
<1>3. Stays
  BY CloseTargetsShut, HandTyped DEF Stays, NotifyClose, Serve, sockets
<1>4. NoNewOpens
  BY ToAgentOpensNothing, BareType DEF NoNewOpens, OpenAt, NotifyClose, Serve, channel
<1>5. ClientsClose
  BY HandTyped DEF Typed, TypeOK, ClientsClose, NotifyClose, Serve, clients
<1>6. TargetsClose
  BY DEF Typed, TypeOK, TargetsClose, NotifyClose, Serve, sockets
<1> QED BY <1>1, <1>2, <1>3, <1>4, <1>5, <1>6 DEF Calm

LEMMA ClientLeavesCalm ==
    ASSUME Typed, NEW r \in Requests, ClientLeaves(r)
    PROVE  Calm
BY DEF Typed, TypeOK, Calm, Later, Steady, Stays, NoNewOpens, OpenAt, ClientsClose, TargetsClose,
   ClientLeaves, proxy, clients, channel, serve, sockets

LEMMA TargetEndsCalm ==
    ASSUME Typed, NEW r \in Requests, TargetEnds(r)
    PROVE  Calm
BY DEF Typed, TypeOK, Calm, Later, Steady, Stays, NoNewOpens, OpenAt, ClientsClose, TargetsClose,
   TargetEnds, proxy, clients, channel, serve, sockets

LEMMA BreakCalm ==
    ASSUME Typed, Break
    PROVE  Calm
<1>1. NoNewOpens
  <2>1. \A s \in Sessions : toAgent'[s] = toAgent[s] \/ toAgent'[s] = <<>>
    BY DEF Typed, TypeOK, Break
  <2> QED BY <2>1 DEF NoNewOpens, OpenAt
<1> QED BY <1>1 DEF Calm, Later, Steady, Stays, ClientsClose, TargetsClose, Break, proxy, clients,
              serve, sockets

LEMMA StartControllerCalm ==
    ASSUME Typed, StartController
    PROVE  Calm
BY DEF Typed, TypeOK, Calm, Later, Steady, Stays, NoNewOpens, OpenAt, ClientsClose, TargetsClose,
   StartController, proxy, clients, channel, serve, sockets

LEMMA StartAgentCalm ==
    ASSUME Typed, StartAgent
    PROVE  Calm
BY DEF Typed, TypeOK, Calm, Later, Steady, Stays, NoNewOpens, OpenAt, ClientsClose, TargetsClose,
   StartAgent, proxy, clients, channel, serve, sockets

LEMMA AcceptOwned ==
    ASSUME Typed, Owned, NEW r \in Requests, Accept(r)
    PROVE  Owned'
<1>1. Later /\ Steady /\ Stays /\ NoNewOpens
  BY DEF Typed, TypeOK, Accept, Goto, Later, Steady, Stays, NoNewOpens, OpenAt, Early, channel,
         serve, sockets
<1>2. OwnTargets'
  BY OwnTargetsKept DEF Owned, Accept, TargetsClose, sockets
<1>3. OwnClients'
  <2>1. PICK d \in Fds : /\ fds[d] = NoRequest
                         /\ fd' = [fd EXCEPT ![r] = d] /\ fds' = [fds EXCEPT ![d] = r]
    BY DEF Accept, LowestFree
  <2>2. shut[r] /\ shut' = [shut EXCEPT ![r] = FALSE]
    BY DEF Typed, Grounded, Accept
  <2>3. \A e \in Fds : fds[e] # r
    BY <2>2 DEF Owned, OwnClients
  <2> QED BY <2>1, <2>2, <2>3, NoRequestAssumption DEF Typed, TypeOK, Owned, OwnClients
<1> QED BY <1>1, <1>2, <1>3, OpenedOnceKept DEF Owned

LEMMA OpenTargetOwned ==
    ASSUME Typed, Owned, NEW r \in Requests, OpenTarget(r)
    PROVE  Owned'
<1>1. Later /\ Steady /\ Stays /\ NoNewOpens
  BY DEF Typed, TypeOK, OpenTarget, Serve, Later, Steady, Stays, NoNewOpens, OpenAt, Early, channel,
         proxy
<1>2. OwnClients'
  BY OwnClientsKept DEF Owned, OpenTarget, ClientsClose, clients
<1>3. OwnTargets'
  <2>1. PICK d \in TargetFds : /\ tfds[d] = NoRequest
                               /\ tfd' = [tfd EXCEPT ![r] = d] /\ tfds' = [tfds EXCEPT ![d] = r]
    BY DEF OpenTarget, LowestFree
  <2>2. tshut[r] /\ tshut' = [tshut EXCEPT ![r] = FALSE]
    BY DEF Owned, OpenedOnce, OpenTarget
  <2>3. \A e \in TargetFds : tfds[e] # r
    BY <2>2 DEF Owned, OwnTargets
  <2> QED BY <2>1, <2>2, <2>3, NoRequestAssumption DEF Typed, TypeOK, Owned, OwnTargets
<1> QED BY <1>1, <1>2, <1>3, OpenedOnceKept DEF Owned

LEMMA ControllerEndsOwned ==
    ASSUME Typed, Owned, ControllerEnds
    PROVE  Owned'
<1>1. Later /\ Steady /\ Stays /\ NoNewOpens
  BY DEF ControllerEnds, Later, Steady, Stays, NoNewOpens, OpenAt, Early, serve, sockets
<1>2. OwnTargets'
  BY OwnTargetsKept DEF Owned, ControllerEnds, TargetsClose, sockets
<1>3. OwnClients'
  <2>1. /\ \A r \in Requests : shut'[r]
        /\ \A d \in Fds : fds'[d] = NoRequest
    BY DEF ControllerEnds
  <2> QED BY <2>1, NoRequestAssumption DEF OwnClients
<1> QED BY <1>1, <1>2, <1>3, OpenedOnceKept DEF Owned

LEMMA AgentEndsOwned ==
    ASSUME Typed, Owned, AgentEnds
    PROVE  Owned'
<1>1. Later /\ Steady /\ Stays
  BY DEF AgentEnds, Later, Steady, Stays, proxy
<1>2. NoNewOpens
  <2>1. \A s \in Sessions : toAgent'[s] = <<>>
    BY DEF AgentEnds
  <2> QED BY <2>1 DEF NoNewOpens, OpenAt
<1>3. OwnClients'
  BY OwnClientsKept DEF Owned, AgentEnds, ClientsClose, clients
<1>4. OwnTargets'
  <2>1. /\ \A r \in Requests : tshut'[r]
        /\ \A d \in TargetFds : tfds'[d] = NoRequest
    BY DEF AgentEnds
  <2> QED BY <2>1, NoRequestAssumption DEF OwnTargets
<1> QED BY <1>1, <1>2, <1>3, <1>4, OpenedOnceKept DEF Owned

LEMMA SendOpenOwned ==
    ASSUME Typed, Owned, NEW r \in Requests, SendOpen(r)
    PROVE  Owned'
<1>1. OwnClients' /\ OwnTargets'
  BY OwnClientsKept, OwnTargetsKept DEF Owned, SendOpen, ClientsClose, TargetsClose, clients, sockets
<1> DEFINE frame == [type |-> "Open", id |-> id[r], of |-> r]
<1>2. PICK ok \in BOOLEAN : ToAgent(session[r], frame, ok) /\ Goto(r, IF ok THEN "waiting" ELSE "refusing")
  BY DEF SendOpen
<1>3. pc[r] = "registered" /\ pc'[r] \notin Early /\ \A q \in Requests \ {r} : pc'[q] = pc[q]
  BY <1>2 DEF Typed, TypeOK, SendOpen, Goto, Early
<1>4. Later /\ Steady /\ Stays
  BY <1>3 DEF SendOpen, Later, Steady, Stays, serve, sockets
<1>5. serving[r] = "none" /\ \A s \in Sessions, i \in Nat : ~OpenAt(s, i, r)
  BY <1>3 DEF Owned, OpenedOnce, Early
<1>6. CASE toAgent' = toAgent
  <2>1. NoNewOpens
    BY <1>6 DEF NoNewOpens, OpenAt
  <2> QED BY <1>1, <1>4, <2>1, OpenedOnceKept DEF Owned
<1>7. CASE toAgent' = [toAgent EXCEPT ![session[r]] = Append(@, frame)]
  <2>1. ASSUME NEW q \in Requests, NEW s \in Sessions, NEW i \in Nat, OpenAt(s, i, q)'
        PROVE  OpenAt(s, i, q) \/ (q = r /\ s = session[r] /\ i = Len(toAgent[s]) + 1)
    <3>1. toAgent[s] \in Seq(Frame)
      BY DEF Typed, TypeOK
    <3>2. CASE s # session[r]
      <4>1. toAgent'[s] = toAgent[s]
        BY <1>7, <3>2 DEF Typed, TypeOK
      <4> QED BY <2>1, <4>1 DEF OpenAt
    <3>3. CASE s = session[r]
      <4>1. toAgent'[s] = Append(toAgent[s], frame)
        BY <1>7, <3>3 DEF Typed, TypeOK
      <4>2. /\ Len(Append(toAgent[s], frame)) = Len(toAgent[s]) + 1
            /\ \A j \in 1..Len(toAgent[s]) : Append(toAgent[s], frame)[j] = toAgent[s][j]
            /\ Append(toAgent[s], frame)[Len(toAgent[s]) + 1] = frame
        BY <3>1, Appended
      <4>3. Len(toAgent[s]) \in Nat
        BY <3>1
      <4> QED BY <2>1, <3>3, <4>1, <4>2, <4>3 DEF OpenAt
    <3> QED BY <3>2, <3>3
  <2>2. (\A q \in Requests : pc[q] \in Early => serving[q] = "none")'
    BY <1>4 DEF Owned, OpenedOnce, Later, Steady
  <2>3. (\A q \in Requests : serving[q] \in {"none", "opening"} => tshut[q])'
    BY <1>4 DEF Owned, OpenedOnce, Steady, Stays
  <2>4. (\A q \in Requests, s \in Sessions, i \in Nat :
           OpenAt(s, i, q) => serving[q] = "none" /\ pc[q] \notin Early)'
    BY <1>3, <1>4, <1>5, <2>1 DEF Owned, OpenedOnce, Later, Steady
  <2>5. (\A q \in Requests, s1 \in Sessions, s2 \in Sessions, i \in Nat, j \in Nat :
           OpenAt(s1, i, q) /\ OpenAt(s2, j, q) => s1 = s2 /\ i = j)'
    BY <1>5, <2>1 DEF Owned, OpenedOnce
  <2> QED BY <1>1, <2>2, <2>3, <2>4, <2>5 DEF Owned, OpenedOnce
<1> QED BY <1>2, <1>6, <1>7 DEF ToAgent

LEMMA TakeFrameOwned ==
    ASSUME Typed, Owned, TakeFrame
    PROVE  Owned'
<1> DEFINE f == Head(toAgent[conn])
<1>1. Typed'
  BY TakeFrameTyped
<1>2. OwnClients'
  BY OwnClientsKept DEF Owned, TakeFrame, ClientsClose, clients
<1>3. Live(f.id) \in SUBSET Requests
  BY DEF Typed, TypeOK, Live
<1>4. OwnTargets' /\ \A r \in Requests : tshut[r] => tshut'[r]
  <2>1. TargetsClose
    BY <1>3 DEF TakeFrame, TargetsClose
  <2> QED BY <2>1, OwnTargetsKept, CloseTargetsTyped DEF Typed, Owned, TargetsClose
<1>5. /\ conn \in Sessions /\ toAgent[conn] \in Seq(Frame) /\ toAgent[conn] # <<>>
      /\ toAgent' = [toAgent EXCEPT ![conn] = Tail(@)]
  BY DEF Typed, TypeOK, TakeFrame
<1>6. ASSUME NEW q \in Requests, NEW s \in Sessions, NEW i \in Nat, OpenAt(s, i, q)'
      PROVE  OpenAt(s, IF s = conn THEN i + 1 ELSE i, q)
  <2>1. CASE s # conn
    <3>1. toAgent'[s] = toAgent[s]
      BY <1>5, <2>1 DEF Typed, TypeOK
    <3> QED BY <1>6, <2>1, <3>1 DEF OpenAt
  <2>2. CASE s = conn
    <3>1. toAgent'[s] = Tail(toAgent[s])
      BY <1>5, <2>2 DEF Typed, TypeOK
    <3>2. /\ Len(Tail(toAgent[s])) = Len(toAgent[s]) - 1 /\ Len(toAgent[s]) \in Nat
          /\ \A j \in 1..Len(Tail(toAgent[s])) : Tail(toAgent[s])[j] = toAgent[s][j + 1]
      BY <1>5, <2>2
    <3> QED BY <1>6, <2>2, <3>1, <3>2 DEF OpenAt
  <2> QED BY <2>1, <2>2
<1>7. pc' = pc
  BY DEF TakeFrame, proxy
<1>8. (\A q \in Requests, s1 \in Sessions, s2 \in Sessions, i \in Nat, j \in Nat :
         OpenAt(s1, i, q) /\ OpenAt(s2, j, q) => s1 = s2 /\ i = j)'
  <2> SUFFICES ASSUME NEW q \in Requests, NEW s1 \in Sessions, NEW s2 \in Sessions,
                      NEW i \in Nat, NEW j \in Nat, OpenAt(s1, i, q)', OpenAt(s2, j, q)'
               PROVE  s1 = s2 /\ i = j
    OBVIOUS
  <2>1. /\ OpenAt(s1, IF s1 = conn THEN i + 1 ELSE i, q)
        /\ OpenAt(s2, IF s2 = conn THEN j + 1 ELSE j, q)
    BY <1>6
  <2> QED BY <2>1 DEF Owned, OpenedOnce
<1>9. CASE serving' = serving
  <2>1. \A q \in Requests, s \in Sessions, i \in Nat :
          OpenAt(s, i, q)' => serving[q] = "none" /\ pc[q] \notin Early
    BY <1>6 DEF Owned, OpenedOnce
  <2> QED BY <1>2, <1>4, <1>7, <1>8, <1>9, <2>1 DEF Owned, OpenedOnce
<1>10. CASE f.type = "Open" /\ serving' = [serving EXCEPT ![f.of] = "opening"]
            /\ UNCHANGED <<task, targets, tshut, tfds>>
  <2>1. \A q \in Requests : q # f.of => serving'[q] = serving[q]
    BY <1>10 DEF Typed, TypeOK
  <2>2. ASSUME f.of \in Requests
        PROVE  OpenAt(conn, 1, f.of) /\ serving'[f.of] = "opening"
    <3>1. Len(toAgent[conn]) \in Nat \ {0} /\ f = toAgent[conn][1]
      BY <1>5
    <3> QED BY <1>10, <2>2, <3>1 DEF Typed, TypeOK, OpenAt
  <2>3. ASSUME f.of \in Requests
        PROVE  serving[f.of] = "none" /\ pc[f.of] \notin Early /\ tshut[f.of]
    BY <1>5, <2>2, <2>3 DEF Owned, OpenedOnce
  <2>4. (\A q \in Requests : pc[q] \in Early => serving[q] = "none")'
    BY <1>7, <2>1, <2>3 DEF Owned, OpenedOnce
  <2>5. (\A q \in Requests : serving[q] \in {"none", "opening"} => tshut[q])'
    BY <1>10, <2>1, <2>3 DEF Owned, OpenedOnce
  <2>6. ASSUME NEW q \in Requests, NEW s \in Sessions, NEW i \in Nat, OpenAt(s, i, q)'
        PROVE  (serving[q] = "none" /\ pc[q] \notin Early)'
    <3>1. OpenAt(s, IF s = conn THEN i + 1 ELSE i, q)
      BY <1>6, <2>6
    <3>2. serving[q] = "none" /\ pc[q] \notin Early
      BY <3>1 DEF Owned, OpenedOnce
    <3>3. q # f.of
      <4>1. i \in 1..Len(toAgent'[s])
        BY <2>6 DEF OpenAt
      <4>2. CASE q = f.of
        <5>1. OpenAt(conn, 1, q)
          BY <2>2, <4>2
        <5>2. s = conn /\ (IF s = conn THEN i + 1 ELSE i) = 1
          BY <1>5, <3>1, <5>1 DEF Owned, OpenedOnce
        <5> QED BY <4>1, <5>2
      <4> QED BY <4>2
    <3> QED BY <1>7, <2>1, <3>2, <3>3
  <2> QED BY <1>2, <1>4, <1>8, <2>4, <2>5, <2>6 DEF Owned, OpenedOnce
<1> QED BY <1>9, <1>10 DEF TakeFrame

-----------------------------------------------------------------------------

LEMMA InitOwned == Init => Typed /\ Owned
<1> SUFFICES ASSUME Init PROVE Typed /\ Owned
  OBVIOUS
<1>1. \A s \in Sessions : toAgent[s] = <<>>
  BY DEF Init
<1>2. Holding("unused", {}, NoRequest) \in Hand /\ Idle \in Task /\ Idle.at = "idle"
  BY HandTyped, TaskTyped DEF ReaderStep
<1>3. toAgent \in [Sessions -> Seq(Frame)] /\ toController \in [Sessions -> Seq(Frame)]
  BY EmptyTyped DEF Init
<1>4. hand \in [Sessions -> Hand] /\ task \in Task /\ task.at = "idle"
  BY <1>2 DEF Init
<1>5. Typed
  BY <1>3, <1>4 DEF Init, Typed, TypeOK, Grounded, ProxyStep, ReaderStep, ServingStep, Flag, None
<1>6. OpenedOnce
  BY <1>1 DEF Init, OpenedOnce, OpenAt, Early
<1>7. OwnClients /\ OwnTargets
  BY NoRequestAssumption DEF Init, OwnClients, OwnTargets
<1> QED BY <1>5, <1>6, <1>7 DEF Owned

LEMMA StutterOwned ==
    ASSUME Typed, Owned, UNCHANGED vars
    PROVE  Typed' /\ Owned'
<1>1. Typed'
  BY DEF Typed, TypeOK, Grounded, vars, process, proxy, clients, controller, channel, agent, serve,
         sockets, outside, history
<1>2. Calm
  BY DEF Calm, Later, Steady, Stays, NoNewOpens, OpenAt, ClientsClose, TargetsClose, vars, proxy,
         clients, channel, serve, sockets
<1> QED BY <1>1, <1>2, CalmKeeps


LEMMA NextOwned ==
    ASSUME Typed, Owned, Next
    PROVE  Typed' /\ Owned'
<1>1. ASSUME NEW r \in Requests, Accept(r) PROVE Typed' /\ Owned'
  BY <1>1, AcceptTyped, AcceptOwned
<1>2. ASSUME NEW r \in Requests, Reject(r) PROVE Typed' /\ Owned'
  BY <1>2, RejectTyped, RejectCalm, CalmKeeps
<1>3. ASSUME NEW r \in Requests, Select(r) PROVE Typed' /\ Owned'
  BY <1>3, SelectTyped, SelectCalm, CalmKeeps
<1>4. ASSUME NEW r \in Requests, SendOpen(r) PROVE Typed' /\ Owned'
  BY <1>4, SendOpenTyped, SendOpenOwned
<1>5. ASSUME NEW r \in Requests, GiveUp(r) PROVE Typed' /\ Owned'
  BY <1>5, GiveUpTyped, GiveUpCalm, CalmKeeps
<1>6. ASSUME NEW r \in Requests, Refuse(r) PROVE Typed' /\ Owned'
  BY <1>6, RefuseTyped, RefuseCalm, CalmKeeps
<1>7. ASSUME NEW r \in Requests, Greet(r) PROVE Typed' /\ Owned'
  BY <1>7, GreetTyped, GreetCalm, CalmKeeps
<1>8. ASSUME NEW r \in Requests, SendHeader(r) PROVE Typed' /\ Owned'
  BY <1>8, SendHeaderTyped, SendHeaderCalm, CalmKeeps
<1>9. ASSUME NEW r \in Requests, Copy(r) PROVE Typed' /\ Owned'
  BY <1>9, CopyTyped, CopyCalm, CalmKeeps
<1>10. ASSUME NEW r \in Requests, SendClose(r) PROVE Typed' /\ Owned'
  BY <1>10, SendCloseTyped, SendCloseCalm, CalmKeeps
<1>11. ASSUME NEW s \in Sessions, ReadFrame(s) PROVE Typed' /\ Owned'
  BY <1>11, ReadFrameTyped, ReadFrameCalm, CalmKeeps
<1>12. ASSUME NEW s \in Sessions, WriteData(s) PROVE Typed' /\ Owned'
  BY <1>12, WriteDataTyped, WriteDataCalm, CalmKeeps
<1>13. ASSUME NEW s \in Sessions, ReplyClose(s) PROVE Typed' /\ Owned'
  BY <1>13, ReplyCloseTyped, ReplyCloseCalm, CalmKeeps
<1>14. ASSUME NEW s \in Sessions, StopReading(s) PROVE Typed' /\ Owned'
  BY <1>14, StopReadingTyped, StopReadingCalm, CalmKeeps
<1>15. ASSUME NEW s \in Sessions, Sweep(s) PROVE Typed' /\ Owned'
  BY <1>15, SweepTyped, SweepCalm, CalmKeeps
<1>16. CASE Connect
  BY <1>16, ConnectTyped, ConnectCalm, CalmKeeps
<1>17. CASE TakeFrame
  BY <1>17, TakeFrameTyped, TakeFrameOwned
<1>18. CASE FeedTarget
  BY <1>18, FeedTargetTyped, FeedTargetCalm, CalmKeeps
<1>19. CASE SendReply
  BY <1>19, SendReplyTyped, SendReplyCalm, CalmKeeps
<1>20. CASE Disconnect
  BY <1>20, DisconnectTyped, DisconnectCalm, CalmKeeps
<1>21. ASSUME NEW r \in Requests, RefuseOpen(r) PROVE Typed' /\ Owned'
  BY <1>21, RefuseOpenTyped, RefuseOpenCalm, CalmKeeps
<1>22. ASSUME NEW r \in Requests, OpenTarget(r) PROVE Typed' /\ Owned'
  BY <1>22, OpenTargetTyped, OpenTargetOwned
<1>23. ASSUME NEW r \in Requests, SendOpenOk(r) PROVE Typed' /\ Owned'
  BY <1>23, SendOpenOkTyped, SendOpenOkCalm, CalmKeeps
<1>24. ASSUME NEW r \in Requests, LoopOrEnd(r) PROVE Typed' /\ Owned'
  BY <1>24, LoopOrEndTyped, LoopOrEndCalm, CalmKeeps
<1>25. ASSUME NEW r \in Requests, Receive(r) PROVE Typed' /\ Owned'
  BY <1>25, ReceiveTyped, ReceiveCalm, CalmKeeps
<1>26. ASSUME NEW r \in Requests, Relay(r) PROVE Typed' /\ Owned'
  BY <1>26, RelayTyped, RelayCalm, CalmKeeps
<1>27. ASSUME NEW r \in Requests, NotifyClose(r) PROVE Typed' /\ Owned'
  BY <1>27, NotifyCloseTyped, NotifyCloseCalm, CalmKeeps
<1>28. ASSUME NEW r \in Requests, ClientLeaves(r) PROVE Typed' /\ Owned'
  BY <1>28, ClientLeavesTyped, ClientLeavesCalm, CalmKeeps
<1>29. ASSUME NEW r \in Requests, TargetEnds(r) PROVE Typed' /\ Owned'
  BY <1>29, TargetEndsTyped, TargetEndsCalm, CalmKeeps
<1>30. CASE Break
  BY <1>30, BreakTyped, BreakCalm, CalmKeeps
<1>31. CASE StartController
  BY <1>31, StartControllerTyped, StartControllerCalm, CalmKeeps
<1>32. CASE StartAgent
  BY <1>32, StartAgentTyped, StartAgentCalm, CalmKeeps
<1>33. CASE StopController
  <2>1. ControllerEnds /\ disturbed' \in Nat
    BY <1>33 DEF StopController, Disturb, Typed, TypeOK
  <2> QED BY <2>1, ControllerEndsTyped, ControllerEndsOwned
<1>34. CASE StopAgent
  <2>1. AgentEnds /\ disturbed' \in Nat
    BY <1>34 DEF StopAgent, Disturb, Typed, TypeOK
  <2> QED BY <2>1, AgentEndsTyped, AgentEndsOwned
<1>35. CASE ControllerPipe
  <2>1. ControllerEnds /\ disturbed' \in Nat
    BY <1>35 DEF ControllerPipe, Disturb, Typed, TypeOK
  <2> QED BY <2>1, ControllerEndsTyped, ControllerEndsOwned
<1>36. CASE AgentPipe
  <2>1. AgentEnds /\ disturbed' \in Nat
    BY <1>36 DEF AgentPipe, Disturb, Typed, TypeOK
  <2> QED BY <2>1, AgentEndsTyped, AgentEndsOwned
<1> QED BY <1>1, <1>2, <1>3, <1>4, <1>5, <1>6, <1>7, <1>8, <1>9, <1>10, <1>11, <1>12, <1>13, <1>14, <1>15, <1>16, <1>17, <1>18, <1>19, <1>20, <1>21, <1>22, <1>23, <1>24, <1>25, <1>26, <1>27, <1>28, <1>29, <1>30, <1>31, <1>32, <1>33, <1>34, <1>35, <1>36
   DEF Next, ProxyThread, Reader, FrameLoop, TargetThread, Outside

LEMMA AlwaysOwned == Spec => [](Typed /\ Owned)
<1>1. Typed /\ Owned /\ [Next]_vars => Typed' /\ Owned'
  BY NextOwned, StutterOwned
<1> QED BY <1>1, InitOwned, PTL DEF Spec

\* Every variable has its type, in particular what is under way in a session
\* and what every thread has at hand.
THEOREM TypeCorrect == Spec => []TypeOK
<1>1. Typed /\ Owned => TypeOK
  BY DEF Typed
<1> QED BY <1>1, AlwaysOwned, PTL

\* However close_proxy_client and handle_close race, for any number of clients,
\* targets, descriptors, stream ids, broken links and restarts: a descriptor
\* number in use belongs to the one stream that holds it and has not closed it.
THEOREM DescriptorsAreOwn == Spec => []OwnDescriptors
<1>1. Typed /\ Owned => OwnDescriptors
  BY DEF Owned, OwnClients, OwnTargets, OwnDescriptors
<1> QED BY <1>1, AlwaysOwned, PTL
=============================================================================
