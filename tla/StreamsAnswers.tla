--------------------------- MODULE StreamsAnswers ---------------------------
(***************************************************************************)
(* For any number of clients, targets, descriptors, sessions and           *)
(* disturbances, and no more clients than stream ids: a tunnel is not      *)
(* closed ahead of the answer of its target.                               *)
(***************************************************************************)
EXTENDS StreamsIsolation

-----------------------------------------------------------------------------
(* The invariant.                                                           *)

\* A control connection that carries bytes is the agent's, and both ends read.
Linked ==
    \A s \in Sessions : link[s] =>
        /\ alive[s] /\ conn = s /\ connected /\ s <= sessions
        /\ hand[s].at \in {"reading", "write", "reply"}
Begun == \A r \in Given : session[r] <= sessions

\* A client without a session is still there.
Blank == \A r \in Requests \ Given : flags[r] = {} /\ (pc[r] = "accepted" => ~shut[r])

\* A client that stays, on a session that holds, without its answer so far.
Unanswered(r) ==
    /\ r \in Answering \cap Given /\ ~left[r] /\ link[session[r]]
    /\ r \notin spurned /\ r \notin answered /\ "error" \notin flags[r]

Final == {"Data", "Close", "Error"}
Coming(r, types) == \E f \in Frames(toController[session[r]]) : f.id = id[r] /\ f.type \in types
Going(r, types) == \E f \in Frames(toAgent[session[r]]) : f.id = id[r] /\ f.type \in types
\* The Data frame comes before everything that ends the stream.
Leads(q, i) ==
    \E k \in 1..Len(q) :
        /\ q[k].id = i /\ q[k].type = "Data"
        /\ \A j \in 1..k-1 : q[j].id = i => q[j].type \notin Final

\* There is no tunnel: the agent refused, or the proxy thread gave up.
Refused(r) == serving[r] = "over" /\ "opened" \notin flags[r] /\ ~Coming(r, {"OpenOk"})
GivenUp(r) == r \notin streams[session[r]] /\ "opened" \notin flags[r]

\* There is one, which nobody has begun to close ...
Held(r) ==
    /\ r \in streams[session[r]] /\ ~shut[r]
    /\ pc[r] \in {"registered", "waiting", "copying"}
    /\ ~Going(r, {"Close"})
Unnoticed(r) ==
    /\ ~Coming(r, Final) /\ r \notin hand[session[r]].reqs
    /\ ~(task.at = "reply" /\ task.frame.id = id[r])
\* ... and the target is still to be reached, or has its answer to give, or the
\* answer is under way.
Unopened(r) ==
    /\ serving[r] \in {"none", "opening"} /\ pc[r] # "copying" /\ "opened" \notin flags[r]
    /\ ~Coming(r, {"OpenOk"}) /\ ~Going(r, {"Data"}) /\ Unnoticed(r)
Served(r) ==
    /\ r \in targets /\ ~tshut[r] /\ Unnoticed(r)
    /\ \/ serving[r] \in {"added", "reading", "receiving"} /\ answering[r]
       \/ serving[r] = "relaying"
Sent(r) ==
    \/ Leads(toController[session[r]], id[r]) /\ r \notin hand[session[r]].reqs
    \/ hand[session[r]].at = "write" /\ hand[session[r]].reqs = {r}

Promised(r) == Refused(r) \/ GivenUp(r) \/ (Held(r) /\ (Unopened(r) \/ Served(r) \/ Sent(r)))
Kind == Blank /\ \A r \in Requests : Unanswered(r) => Promised(r)

-----------------------------------------------------------------------------
(* Queues in which an answer leads.                                         *)

LEMMA LeadsOf ==
    ASSUME NEW S, NEW q \in Seq(S), NEW i
    PROVE  /\ \A f : Leads(q, i) => Leads(Append(q, f), i)
           /\ \A f : /\ f.id = i /\ f.type = "Data"
                     /\ \A g \in Frames(q) : g.id = i => g.type \notin Final
                     => Leads(Append(q, f), i)
           /\ q # <<>> /\ Leads(q, i) =>
                 IF Head(q).id = i /\ Head(q).type \in Final THEN Head(q).type = "Data"
                 ELSE Leads(Tail(q), i)
<1>1. Len(q) \in Nat
  OBVIOUS
<1>2. ASSUME NEW f PROVE /\ Len(Append(q, f)) = Len(q) + 1
                         /\ \A j \in 1..Len(q) : Append(q, f)[j] = q[j]
                         /\ Append(q, f)[Len(q) + 1] = f
  BY Appended
<1>3. ASSUME NEW f, Leads(q, i) PROVE Leads(Append(q, f), i)
  <2>1. PICK k \in 1..Len(q) : /\ q[k].id = i /\ q[k].type = "Data"
                               /\ \A j \in 1..k-1 : q[j].id = i => q[j].type \notin Final
    BY <1>3 DEF Leads
  <2>2. k \in 1..Len(q) + 1 /\ \A j \in 1..k-1 : j \in 1..Len(q)
    BY <1>1
  <2> QED BY <1>2, <2>1, <2>2 DEF Leads
<1>4. ASSUME NEW f, f.id = i, f.type = "Data",
             \A g \in Frames(q) : g.id = i => g.type \notin Final
      PROVE  Leads(Append(q, f), i)
  <2>1. Len(q) + 1 \in 1..Len(q) + 1 /\ \A j \in 1..(Len(q) + 1) - 1 : j \in 1..Len(q)
    BY <1>1
  <2>2. \A j \in 1..Len(q) : q[j] \in Frames(q)
    BY DEF Frames
  <2> QED BY <1>2, <1>4, <2>1, <2>2 DEF Leads
<1>5. ASSUME q # <<>>, Leads(q, i)
      PROVE  IF Head(q).id = i /\ Head(q).type \in Final THEN Head(q).type = "Data"
             ELSE Leads(Tail(q), i)
  <2>1. PICK k \in 1..Len(q) : /\ q[k].id = i /\ q[k].type = "Data"
                               /\ \A j \in 1..k-1 : q[j].id = i => q[j].type \notin Final
    BY <1>5 DEF Leads
  <2>2. Head(q) = q[1] /\ Len(Tail(q)) = Len(q) - 1
        /\ \A j \in 1..Len(Tail(q)) : Tail(q)[j] = q[j + 1]
    BY <1>5
  <2>3. CASE k = 1
    BY <2>1, <2>2, <2>3 DEF Final
  <2>4. CASE k # 1
    <3>1. k - 1 \in 1..Len(Tail(q)) /\ (k - 1) + 1 = k
      BY <1>1, <2>2, <2>4
    <3>2. \A j \in 1..(k - 1) - 1 : j \in 1..Len(Tail(q)) /\ j + 1 \in 1..k-1
      BY <1>1, <2>2, <2>4
    <3>3. Leads(Tail(q), i)
      BY <2>1, <2>2, <3>1, <3>2 DEF Leads
    <3>4. ~(Head(q).id = i /\ Head(q).type \in Final)
      <4>1. 1 \in 1..k-1
        BY <2>4
      <4> QED BY <2>1, <2>2, <4>1
    <3> QED BY <3>3, <3>4
  <2> QED BY <2>3, <2>4
<1> QED BY <1>3, <1>4, <1>5

-----------------------------------------------------------------------------
(* The connection.                                                          *)

\* While a connection carries bytes, sending does not fail.
LEMMA ToAgentWorks ==
    ASSUME Typed, Linked, NEW s \in Sessions, NEW frame, NEW ok, ToAgent(s, frame, ok)
    PROVE  /\ \A t \in Sessions : link[t] => alive'[t]
           /\ link[s] => ok
BY DEF ToAgent, Linked, Typed, TypeOK

LEMMA ToControllerWorks ==
    ASSUME Typed, Linked, NEW frame, NEW ok, ToController(frame, ok), NEW s \in Sessions, link[s]
    PROVE  /\ connected' /\ ok
           /\ toController' = [toController EXCEPT ![s] = Append(@, frame)]
<1>1. conn = s /\ conn # None /\ connected
  BY DEF Linked, Sessions, None
<1> QED BY <1>1 DEF ToController

LEMMA LinkStays ==
    ASSUME Linked, \A s \in Sessions : link'[s] => link[s] /\ alive'[s] /\ connected',
           UNCHANGED <<conn, sessions>>,
           \A s \in Sessions : link'[s] => hand'[s].at \in {"reading", "write", "reply"}
    PROVE  Linked'
BY DEF Linked, Sessions

LEMMA ProxyLinked ==
    ASSUME Typed, Linked, Placed, NEW r \in Requests, ProxyThread(r)
    PROVE  Linked'
<1>1. pc[r] \in Busy => session[r] \in Sessions
  BY DEF Placed, Given, Typed, TypeOK
<1>2. UNCHANGED <<link, conn, sessions, connected, hand>>
  BY DEF ProxyThread, Reject, Select, SendOpen, GiveUp, Refuse, Greet, SendHeader, Copy, SendClose,
         channel, controller, agent
<1>3. \A s \in Sessions : link[s] => alive'[s]
  <2>1. CASE \E frame, ok : ToAgent(session[r], frame, ok) /\ pc[r] \in Busy
    BY <1>1, <2>1, ToAgentWorks
  <2>2. CASE alive' = alive
    BY <2>2 DEF Linked
  <2> QED BY <2>1, <2>2 DEF ProxyThread, Reject, Select, SendOpen, GiveUp, Refuse, Greet,
             SendHeader, Copy, SendClose, channel, controller, Busy
<1> QED BY <1>2, <1>3, LinkStays DEF Linked

LEMMA ReaderLinked ==
    ASSUME Typed, Linked, NEW s \in Sessions, Reader(s)
    PROVE  Linked'
<1>1. UNCHANGED <<link, conn, sessions, connected>>
  BY DEF Reader, ReadFrame, WriteData, ReplyClose, StopReading, Sweep, channel, agent
<1>2. \A t \in Sessions : link[t] => alive'[t]
  <2>1. CASE \E frame, ok : ToAgent(s, frame, ok)
    BY <2>1, ToAgentWorks
  <2>2. CASE alive' = alive
    BY <2>2 DEF Linked
  <2>3. CASE StopReading(s)
    BY <2>3 DEF StopReading, Linked, Typed, TypeOK
  <2> QED BY <2>1, <2>2, <2>3 DEF Reader, ReadFrame, WriteData, ReplyClose, Sweep
<1>3. \A t \in Sessions : link[t] => hand'[t].at \in {"reading", "write", "reply"}
  <2>1. CASE ReadFrame(s)
    BY <2>1, HoldingFields DEF ReadFrame, Linked, Typed, TypeOK
  <2>2. CASE WriteData(s)
    <3>1. \E at \in {"reading", "reply"} : \E rs, q : hand' = [hand EXCEPT ![s] = Holding(at, rs, q)]
      BY <2>2 DEF WriteData
    <3> QED BY <3>1, HoldingFields DEF Linked, Typed, TypeOK
  <2>3. CASE ReplyClose(s)
    BY <2>3, HoldingFields DEF ReplyClose, Linked, Typed, TypeOK
  <2>4. CASE StopReading(s) \/ Sweep(s)
    <3>1. ~link[s]
      BY <2>4 DEF StopReading, Sweep, Linked
    <3>2. \A t \in Sessions : t # s => hand'[t] = hand[t]
      BY <2>4 DEF StopReading, Sweep, Typed, TypeOK
    <3> QED BY <3>1, <3>2 DEF Linked
  <2> QED BY <2>1, <2>2, <2>3, <2>4 DEF Reader
<1> QED BY <1>1, <1>2, <1>3, LinkStays DEF Linked

LEMMA TargetLinked ==
    ASSUME Typed, Linked, (\E r \in Requests : TargetThread(r)) \/ SendReply
    PROVE  Linked'
<1>1. UNCHANGED <<link, conn, sessions, alive, hand>>
  BY DEF TargetThread, RefuseOpen, OpenTarget, SendOpenOk, LoopOrEnd, Receive, Relay, NotifyClose,
         SendReply, channel, controller, agent
<1>2. \A s \in Sessions : link[s] => connected'
  <2>1. CASE \E frame, ok : ToController(frame, ok)
    BY <2>1, ToControllerWorks
  <2>2. CASE connected' = connected
    BY <2>2 DEF Linked
  <2> QED BY <2>1, <2>2 DEF TargetThread, RefuseOpen, OpenTarget, SendOpenOk, LoopOrEnd, Receive,
             Relay, NotifyClose, SendReply, agent
<1> QED BY <1>1, <1>2, LinkStays DEF Linked

LEMMA AgentLinked ==
    ASSUME Typed, Linked, TakeFrame \/ FeedTarget \/ Disconnect \/ Connect
    PROVE  Linked'
<1>1. CASE TakeFrame \/ FeedTarget
  <2>1. UNCHANGED <<link, conn, sessions, alive, hand, connected>>
    BY <1>1 DEF TakeFrame, FeedTarget, channel, controller
  <2> QED BY <2>1, LinkStays DEF Linked
<1>2. CASE Disconnect
  <2>1. \A s \in Sessions : ~link'[s]
    BY <1>2 DEF Disconnect, Linked, Typed, TypeOK
  <2> QED BY <2>1 DEF Linked, Sessions
<1>3. CASE Connect
  <2>1. sessions' \in Sessions
    BY <1>3, BoundsAssumption DEF Connect, Typed, TypeOK, Sessions
  <2>2. /\ conn' = sessions' /\ connected' /\ \A s \in Sessions : link'[s] <=> s = sessions'
        /\ alive' = link'
    BY <1>3 DEF Connect
  <2>3. hand'[sessions'].at = "reading"
    BY <1>3, <2>1, HoldingFields DEF Connect, Typed, TypeOK
  <2> QED BY <2>1, <2>2, <2>3 DEF Linked, Sessions
<1> QED BY <1>1, <1>2, <1>3

LEMMA OutsideLinked ==
    ASSUME Typed, Linked, Outside
    PROVE  Linked'
<1>1. CASE \A s \in Sessions : ~link'[s]
  BY <1>1 DEF Linked, Sessions
<1>2. CASE UNCHANGED <<link, conn, sessions, alive, hand, connected>>
  BY <1>2, LinkStays DEF Linked
<1>3. CASE Break
  <2>1. \A s \in Sessions : ~link'[s]
    BY <1>3 DEF Break, Linked, Typed, TypeOK
  <2> QED BY <1>1, <2>1
<1> QED BY <1>1, <1>2, <1>3 DEF Outside, Accept, ClientLeaves, TargetEnds, StopController, StopAgent,
           ControllerPipe, AgentPipe, ControllerEnds, AgentEnds, StartController, StartAgent,
           channel, controller, agent

LEMMA StepLinked ==
    ASSUME Typed, Linked, Placed, Next
    PROVE  Linked'
BY ProxyLinked, ReaderLinked, TargetLinked, AgentLinked, OutsideLinked DEF Next, FrameLoop

-----------------------------------------------------------------------------
(* What is never taken back.                                                *)

LEMMA StepBegun ==
    ASSUME Typed, Begun, Next
    PROVE  Begun'
<1>1. CASE sessions' = sessions /\ session' = session
  BY <1>1 DEF Begun, Given
<1>2. CASE Connect
  BY <1>2 DEF Connect, Begun, Given, proxy, Typed, TypeOK, Sessions
<1>3. ASSUME NEW r \in Requests, Select(r) PROVE Begun'
  <2>1. session' = [session EXCEPT ![r] = sessions] /\ sessions' = sessions
    BY <1>3 DEF Select, channel
  <2> QED BY <2>1 DEF Begun, Given, Typed, TypeOK
<1>4. ASSUME NEW r \in Requests, ProxyThread(r), ~Select(r)
      PROVE  sessions' = sessions /\ session' = session
  BY <1>4 DEF ProxyThread, Reject, SendOpen, GiveUp, Refuse, Greet, SendHeader, Copy, SendClose,
              channel, proxy
<1>5. ASSUME NEW r \in Requests, TargetThread(r)
      PROVE  sessions' = sessions /\ session' = session
  BY <1>5 DEF TargetThread, RefuseOpen, OpenTarget, SendOpenOk, LoopOrEnd, Receive, Relay,
              NotifyClose, channel, proxy
<1>6. ASSUME NEW s \in Sessions, Reader(s)
      PROVE  sessions' = sessions /\ session' = session
  BY <1>6 DEF Reader, ReadFrame, WriteData, ReplyClose, StopReading, Sweep, channel, proxy
<1>7. CASE FrameLoop
  BY <1>1, <1>7 DEF FrameLoop, TakeFrame, FeedTarget, SendReply, Disconnect, channel, proxy
<1>8. CASE Outside
  BY <1>1, <1>8 DEF Outside, Accept, ClientLeaves, TargetEnds, Break, StopController, StopAgent,
                    ControllerPipe, AgentPipe, ControllerEnds, AgentEnds, StartController,
                    StartAgent, channel, proxy
<1> QED BY <1>1, <1>2, <1>3, <1>4, <1>5, <1>6, <1>7, <1>8 DEF Next

\* Clients do not come back, sessions do not either, and what is marked stays.
MarksStay ==
    /\ \A r \in Requests : left[r] => left'[r]
    /\ spurned \subseteq spurned' /\ answered \subseteq answered'
BreaksStay ==
    /\ \A s \in Sessions : link'[s] => link[s] \/ s > sessions
    /\ \A r \in Requests : "error" \in flags[r] => "error" \in flags'[r] \/ \A s \in Sessions : ~link'[s]

LEMMA ProxyMarks ==
    ASSUME Typed, NEW r \in Requests, ProxyThread(r)
    PROVE  MarksStay /\ BreaksStay
<1>1. UNCHANGED <<left, link, flags>>
  BY DEF ProxyThread, Reject, Select, SendOpen, GiveUp, Refuse, Greet, SendHeader, Copy, SendClose,
         channel, outside, proxy
<1>2. spurned' = spurned /\ answered \subseteq answered'
  BY DEF ProxyThread, Reject, Select, SendOpen, GiveUp, Refuse, Greet, SendHeader, Copy, SendClose,
         WriteClient, history
<1> QED BY <1>1, <1>2 DEF MarksStay, BreaksStay

LEMMA TargetMarks ==
    ASSUME Typed, NEW r \in Requests, TargetThread(r)
    PROVE  MarksStay /\ BreaksStay
<1>1. UNCHANGED <<left, link, flags, spurned, answered>>
  BY DEF TargetThread, RefuseOpen, OpenTarget, SendOpenOk, LoopOrEnd, Receive, Relay, NotifyClose,
         channel, outside, proxy, history
<1> QED BY <1>1 DEF MarksStay, BreaksStay

LEMMA ReaderMarks ==
    ASSUME Typed, NEW s \in Sessions, Reader(s)
    PROVE  MarksStay /\ BreaksStay
<1>1. UNCHANGED <<left, link>>
  BY DEF Reader, ReadFrame, WriteData, ReplyClose, StopReading, Sweep, channel, outside
<1>2. spurned' = spurned /\ answered \subseteq answered'
  BY DEF Reader, ReadFrame, WriteData, ReplyClose, StopReading, Sweep, WriteClient, history
<1>3. \A r \in Requests : flags[r] \subseteq flags'[r]
  BY DEF Reader, ReadFrame, WriteData, ReplyClose, StopReading, Sweep, proxy
<1> QED BY <1>1, <1>2, <1>3 DEF MarksStay, BreaksStay

LEMMA AgentMarks ==
    ASSUME Typed, FrameLoop \/ Connect
    PROVE  MarksStay /\ BreaksStay
<1>1. UNCHANGED <<left, flags>>
  BY DEF FrameLoop, TakeFrame, FeedTarget, SendReply, Disconnect, Connect, outside, proxy
<1>2. spurned \subseteq spurned' /\ answered' = answered
  BY DEF FrameLoop, TakeFrame, FeedTarget, SendReply, Disconnect, Connect, WriteTarget, history
<1>3. \A s \in Sessions : link'[s] => link[s] \/ s > sessions
  <2>1. CASE FrameLoop
    BY <2>1 DEF FrameLoop, TakeFrame, FeedTarget, SendReply, Disconnect, channel, Typed, TypeOK
  <2>2. CASE Connect
    BY <2>2 DEF Connect, Typed, TypeOK
  <2> QED BY <2>1, <2>2
<1> QED BY <1>1, <1>2, <1>3 DEF MarksStay, BreaksStay

LEMMA OutsideMarks ==
    ASSUME Typed, Outside
    PROVE  MarksStay /\ BreaksStay
<1>1. UNCHANGED <<spurned, answered>> /\ \A r \in Requests : left[r] => left'[r]
  BY DEF Outside, Accept, ClientLeaves, TargetEnds, Break, StopController, StopAgent,
         ControllerPipe, AgentPipe, ControllerEnds, AgentEnds, StartController, StartAgent,
         outside, history, Typed, TypeOK
<1>2. (\A s \in Sessions : ~link'[s]) \/ (flags' = flags /\ \A s \in Sessions : link'[s] => link[s])
  BY DEF Outside, Accept, ClientLeaves, TargetEnds, Break, StopController, StopAgent,
         ControllerPipe, AgentPipe, ControllerEnds, AgentEnds, StartController, StartAgent,
         channel, proxy, Typed, TypeOK
<1> QED BY <1>1, <1>2 DEF MarksStay, BreaksStay

\* A client that waits for an answer did so before.
LEMMA WaitedBefore ==
    ASSUME Typed, Typed', Begun, Next, NamesOn, NEW r \in Given, Unanswered(r)'
    PROVE  Unanswered(r)
<1>1. MarksStay /\ BreaksStay
  BY ProxyMarks, TargetMarks, ReaderMarks, AgentMarks, OutsideMarks DEF Next
<1>2. session[r] \in Sessions /\ session'[r] = session[r] /\ session[r] <= sessions
  BY DEF Given, Begun, NamesOn, Typed, TypeOK
<1>3. session[r] \in Nat /\ sessions \in Nat
  BY <1>2 DEF Typed, TypeOK, Sessions
<1> QED BY <1>1, <1>2, <1>3 DEF Unanswered, MarksStay, BreaksStay, Given

-----------------------------------------------------------------------------
(* Clients without a session.                                               *)

LEMMA OthersOpen ==
    ASSUME NEW rs, CloseClients(rs), NEW r \in Requests, r \notin rs
    PROVE  shut'[r] <=> shut[r]
BY Zenon DEF CloseClients

LEMMA BlankKept ==
    ASSUME Blank,
           \A r \in Requests : session[r] # None => session'[r] # None,
           \A r \in Requests \ Given :
              /\ flags'[r] = flags[r] \/ flags'[r] = {}
              /\ pc'[r] = "accepted" /\ session'[r] = None =>
                    (pc[r] = "accepted" /\ (shut'[r] <=> shut[r])) \/ ~shut'[r]
    PROVE  Blank'
BY DEF Blank, Given

LEMMA ProxyBlank ==
    ASSUME Typed, Blank, NEW r \in Requests, ProxyThread(r)
    PROVE  Blank'
<1>1. flags' = flags /\ \A q \in Requests : session[q] # None => session'[q] # None
  <2>1. CASE Select(r)
    <3>1. \A s \in Sessions : s # None
      BY DEF Sessions, None
    <3> QED BY <2>1, <3>1 DEF Select, Typed, TypeOK
  <2> QED BY <2>1 DEF ProxyThread, Reject, SendOpen, GiveUp, Refuse, Greet, SendHeader, Copy, SendClose
<1>2. pc'[r] # "accepted" /\ \A q \in Requests : q # r => pc'[q] = pc[q]
  <2>1. CASE \E step \in {"over", "registered", "refusing", "copying", "ending"} : Goto(r, step)
    BY <2>1 DEF Goto, Typed, TypeOK
  <2>2. CASE \E step \in {"refusing", "ending"}, ok \in BOOLEAN :
                \E next \in {"waiting", "copying"} : Goto(r, IF ok THEN next ELSE step)
    BY <2>2 DEF Goto, Typed, TypeOK
  <2> QED BY <2>1, <2>2 DEF ProxyThread, Reject, Select, SendOpen, GiveUp, Refuse, Greet, SendHeader,
             Copy, SendClose, Leave
<1>3. \A q \in Requests : q # r => (shut'[q] <=> shut[q])
  <2>1. shut' = shut \/ CloseClients({r})
    BY DEF ProxyThread, Reject, Select, SendOpen, GiveUp, Refuse, Greet, SendHeader, Copy,
           SendClose, Leave, clients
  <2> QED BY <2>1, OthersOpen
<1> QED BY <1>1, <1>2, <1>3, BlankKept

LEMMA ReaderBlank ==
    ASSUME Typed, Blank, Sound, NEW s \in Sessions, Reader(s)
    PROVE  Blank'
<1>1. \A r \in streams[s] \cup hand[s].reqs : r \in Given
  <2>1. streams[s] \subseteq Requests /\ hand[s].reqs \subseteq Requests
    BY HandTyped DEF Typed, TypeOK
  <2>2. s # None
    BY DEF Sessions, None
  <2> QED BY <2>1, <2>2 DEF Sound, Belong, Given
<1>2. pc' = pc /\ session' = session
  BY DEF Reader, ReadFrame, WriteData, ReplyClose, StopReading, Sweep, proxy
<1>3. \A r \in Requests \ Given : flags'[r] = flags[r]
  BY <1>1 DEF Reader, ReadFrame, WriteData, ReplyClose, StopReading, Sweep, proxy, Found
<1>4. \A r \in Requests \ Given : shut'[r] <=> shut[r]
  <2>1. shut' = shut \/ \E rs : CloseClients(rs) /\ rs \subseteq streams[s] \cup hand[s].reqs
    <3>1. CASE ReadFrame(s)
      <4>1. \E rs : CloseClients(rs) /\ rs \subseteq Found(s, Head(toController[s]).id)
        BY <3>1 DEF ReadFrame
      <4> QED BY <4>1 DEF Found
    <3>2. CASE ReplyClose(s)
      <4>1. PICK q \in hand[s].reqs : CloseClients({q})
        BY <3>2 DEF ReplyClose
      <4> QED BY <4>1
    <3> QED BY <3>1, <3>2 DEF Reader, WriteData, StopReading, Sweep, clients
  <2> QED BY <1>1, <2>1, OthersOpen
<1> QED BY <1>2, <1>3, <1>4, BlankKept

LEMMA OutsideBlank ==
    ASSUME Typed, Blank, Outside
    PROVE  Blank'
<1>1. CASE UNCHANGED <<session, flags, pc, shut>>
  BY <1>1 DEF Blank, Given
<1>2. ASSUME NEW r \in Requests, Accept(r) PROVE Blank'
  <2>1. UNCHANGED <<session, flags>> /\ \A q \in Requests : q = r => ~shut'[q]
    BY <1>2 DEF Accept, Typed, TypeOK
  <2>2. \A q \in Requests : q # r => shut'[q] = shut[q] /\ pc'[q] = pc[q]
    BY <1>2 DEF Accept, Goto, Typed, TypeOK
  <2> QED BY <2>1, <2>2, BlankKept
<1>3. CASE ControllerEnds
  <2>1. session' = session /\ \A q \in Requests : flags'[q] = {} /\ pc'[q] # "accepted"
    BY <1>3 DEF ControllerEnds
  <2> QED BY <2>1, BlankKept
<1> QED BY <1>1, <1>2, <1>3 DEF Outside, ClientLeaves, TargetEnds, Break, StopController, StopAgent,
           ControllerPipe, AgentPipe, AgentEnds, StartController, StartAgent, proxy, clients

LEMMA StepBlank ==
    ASSUME Typed, Blank, Sound, Next
    PROVE  Blank'
<1>1. CASE UNCHANGED <<session, flags, pc, shut>>
  BY <1>1 DEF Blank, Given
<1>2. CASE FrameLoop \/ Connect \/ \E r \in Requests : TargetThread(r)
  BY <1>1, <1>2 DEF FrameLoop, TakeFrame, FeedTarget, SendReply, Disconnect, Connect, TargetThread,
     RefuseOpen, OpenTarget, SendOpenOk, LoopOrEnd, Receive, Relay, NotifyClose, proxy, clients
<1> QED BY <1>2, ProxyBlank, ReaderBlank, OutsideBlank DEF Next

-----------------------------------------------------------------------------
(* What almost every step does to a client that waits for its answer.       *)

SameName(r) == session'[r] = session[r] /\ id'[r] = id[r]
SameThread(r) ==
    /\ \/ pc'[r] = pc[r]
       \/ pc'[r] = "waiting"
       \/ pc'[r] = "copying" /\ "opened" \in flags[r]
    /\ flags'[r] = flags[r]
    /\ shut'[r] <=> shut[r]
    /\ r \in streams'[session[r]] <=> r \in streams[session[r]]
SameServing(r) ==
    /\ serving'[r] = serving[r]
    /\ answering'[r] <=> answering[r]
    /\ tshut'[r] <=> tshut[r]
    /\ r \in targets => r \in targets'
\* Data goes to the agent once the tunnel is open.
SameGoing(r) ==
    \A f \in Frames(toAgent'[session[r]]) : f.id = id[r] =>
        \/ f \in Frames(toAgent[session[r]])
        \/ f.type = "Open"
        \/ f.type = "Data" /\ ("opened" \in flags[r] \/ pc[r] = "copying")
SameComing(r) ==
    \A f \in Frames(toController'[session[r]]) :
        f.id = id[r] => f \in Frames(toController[session[r]])
SameLead(r) ==
    Leads(toController[session[r]], id[r]) => Leads(toController'[session[r]], id[r])
SameReply(r) ==
    task'.at = "reply" /\ task'.frame.id = id[r] => task.at = "reply" /\ task.frame.id = id[r]
SameHand(r) ==
    /\ r \in hand'[session[r]].reqs => r \in hand[session[r]].reqs
    /\ hand[session[r]].at = "write" /\ hand[session[r]].reqs = {r}
       => hand'[session[r]] = hand[session[r]]

LEMMA GivenUpKept ==
    ASSUME NEW r, GivenUp(r), SameName(r), flags'[r] = flags[r],
           r \in streams'[session[r]] => r \in streams[session[r]]
    PROVE  GivenUp(r)'
BY DEF GivenUp, SameName

LEMMA RefusedKept ==
    ASSUME NEW r, Refused(r), SameName(r), flags'[r] = flags[r], serving'[r] = serving[r],
           \A f \in Frames(toController'[session[r]]) :
              f.id = id[r] /\ f.type = "OpenOk" => f \in Frames(toController[session[r]])
    PROVE  Refused(r)'
BY DEF Refused, SameName, Coming, Frames

LEMMA HeldKept ==
    ASSUME NEW r, Held(r), SameName(r), SameThread(r), SameGoing(r)
    PROVE  Held(r)'
BY DEF Held, SameName, SameThread, SameGoing, Going, Frames

LEMMA SentKept ==
    ASSUME NEW r, Sent(r), SameName(r), SameLead(r), SameHand(r)
    PROVE  Sent(r)'
<1>1. Sent(r)' <=>
         \/ Leads(toController'[session'[r]], id'[r]) /\ r \notin hand'[session'[r]].reqs
         \/ hand'[session'[r]].at = "write" /\ hand'[session'[r]].reqs = {r}
  BY DEF Sent, Leads, Final
<1> QED BY <1>1 DEF Sent, SameName, SameLead, SameHand

LEMMA UnnoticedKept ==
    ASSUME NEW r, Unnoticed(r), SameName(r), SameComing(r), SameReply(r), SameHand(r)
    PROVE  Unnoticed(r)'
BY DEF Unnoticed, SameName, SameComing, SameReply, SameHand, Coming, Final, Frames

LEMMA QuietKept ==
    ASSUME NEW r, Promised(r), SameName(r), SameThread(r), SameServing(r), SameGoing(r),
           SameComing(r), SameLead(r), SameReply(r), SameHand(r)
    PROVE  Promised(r)'
<1>1. CASE Refused(r)
  BY <1>1, RefusedKept DEF SameComing, SameThread, SameServing, Promised
<1>2. CASE GivenUp(r)
  BY <1>2, GivenUpKept DEF SameThread, Promised
<1>3. CASE Held(r) /\ Unopened(r)
  <2>1. Held(r)' /\ Unnoticed(r)'
    BY <1>3, HeldKept, UnnoticedKept DEF Unopened
  <2>2. pc[r] # "copying" /\ "opened" \notin flags[r]
    BY <1>3 DEF Unopened
  <2>3. ~Coming(r, {"OpenOk"})'
    BY <1>3 DEF Unopened, SameName, SameComing, Coming, Frames
  <2>4. ~Going(r, {"Data"})'
    BY <1>3, <2>2 DEF Unopened, SameName, SameGoing, Going, Frames
  <2>5. /\ (serving[r] \in {"none", "opening"})' /\ (pc[r] # "copying")'
        /\ ("opened" \notin flags[r])'
    BY <1>3, <2>2 DEF Unopened, SameThread, SameServing
  <2> QED BY <2>1, <2>3, <2>4, <2>5 DEF Promised, Unopened
<1>4. CASE Held(r) /\ Served(r)
  <2>1. Held(r)' /\ Unnoticed(r)'
    BY <1>4, HeldKept, UnnoticedKept DEF Served
  <2>2. Served(r)'
    BY <1>4, <2>1 DEF Served, SameServing
  <2> QED BY <2>1, <2>2 DEF Promised
<1>5. CASE Held(r) /\ Sent(r)
  BY <1>5, HeldKept, SentKept DEF Promised
<1> QED BY <1>1, <1>2, <1>3, <1>4, <1>5 DEF Promised

LEMMA StillSame ==
    ASSUME NEW r
    PROVE  /\ UNCHANGED <<session, id>> => SameName(r)
           /\ UNCHANGED <<pc, flags, shut, streams>> => SameThread(r)
           /\ UNCHANGED <<serving, answering, tshut, targets>> => SameServing(r)
           /\ UNCHANGED toAgent => SameGoing(r)
           /\ UNCHANGED toController => SameComing(r) /\ SameLead(r)
           /\ UNCHANGED task => SameReply(r)
           /\ UNCHANGED hand => SameHand(r)
BY DEF SameName, SameThread, SameServing, SameGoing, SameComing, SameLead, SameReply, SameHand

LEMMA GoingSent ==
    ASSUME Typed, NEW r \in Given, NEW s, NEW frame, NEW ok, ToAgent(s, frame, ok),
           \/ frame.id # id[r]
           \/ frame.type = "Open"
           \/ frame.type = "Data" /\ ("opened" \in flags[r] \/ pc[r] = "copying")
    PROVE  SameGoing(r)
<1>1. toAgent \in [Sessions -> Seq(Frame)] /\ session[r] \in Sessions
  BY DEF Typed, TypeOK, Given
<1>2. toAgent' = toAgent \/ toAgent' = [toAgent EXCEPT ![s] = Append(@, frame)]
  BY DEF ToAgent
<1>3. \/ toAgent'[session[r]] = toAgent[session[r]]
      \/ toAgent'[session[r]] = Append(toAgent[session[r]], frame)
  BY <1>1, <1>2
<1>4. Frames(Append(toAgent[session[r]], frame)) = Frames(toAgent[session[r]]) \cup {frame}
  BY <1>1, FramesOf
<1> QED BY <1>3, <1>4 DEF SameGoing

LEMMA ComingSent ==
    ASSUME Typed, Linked, NEW r \in Given, link[session[r]], NEW frame, NEW ok,
           ToController(frame, ok)
    PROVE  /\ ok /\ SameLead(r)
           /\ \A f \in Frames(toController'[session[r]]) :
                 f \in Frames(toController[session[r]]) \/ f = frame
           /\ frame.id # id[r] => SameComing(r)
           /\ frame.id = id[r] /\ frame.type = "Data" /\ ~Coming(r, Final)
              => Leads(toController'[session[r]], id[r])
<1>1. toController \in [Sessions -> Seq(Frame)] /\ session[r] \in Sessions
  BY DEF Typed, TypeOK, Given
<1>2. ok /\ toController'[session[r]] = Append(toController[session[r]], frame)
  BY <1>1, ToControllerWorks
<1>3. toController[session[r]] \in Seq(Frame)
  BY <1>1
<1>4. Frames(Append(toController[session[r]], frame)) = Frames(toController[session[r]]) \cup {frame}
  BY <1>3, FramesOf
<1>5. Leads(toController[session[r]], id[r]) => Leads(Append(toController[session[r]], frame), id[r])
  BY <1>3, LeadsOf
<1>6. frame.id = id[r] /\ frame.type = "Data" /\ ~Coming(r, Final)
      => Leads(Append(toController[session[r]], frame), id[r])
  BY <1>3, LeadsOf DEF Coming
<1> QED BY <1>2, <1>4, <1>5, <1>6 DEF SameLead, SameComing

LEMMA OtherTargets ==
    ASSUME NEW rs, CloseTargets(rs), NEW r \in Requests, r \notin rs
    PROVE  (tshut'[r] <=> tshut[r]) /\ (r \in targets => r \in targets')
<1>1. tshut'[r] <=> tshut[r]
  BY Zenon DEF CloseTargets
<1> QED BY <1>1 DEF CloseTargets

LEMMA OtherIds ==
    ASSUME Typed, Numbered, NEW r \in Given, NEW q \in Given, q # r
    PROVE  id[q] # id[r]
BY DEF Numbered

-----------------------------------------------------------------------------
(* The proxy threads.                                                       *)

Ordered == Typed /\ Owned /\ Paired /\ Linked
Awaits(r) == r \in Given /\ Unanswered(r) /\ Promised(r)

LEMMA AwaitsFacts ==
    ASSUME Ordered, NEW r, Awaits(r)
    PROVE  /\ r \in Requests /\ session[r] \in Sessions /\ ~left[r]
           /\ link[session[r]] /\ alive[session[r]] /\ conn = session[r] /\ connected
           /\ conn # None
BY DEF Ordered, Awaits, Unanswered, Given, Typed, TypeOK, Linked

LEMMA ProxyRest ==
    ASSUME NEW q, ProxyThread(q), NEW r
    PROVE  SameServing(r) /\ SameComing(r) /\ SameLead(r) /\ SameReply(r) /\ SameHand(r)
<1>1. UNCHANGED <<serving, answering, tshut, targets, toController, task, hand>>
  BY DEF ProxyThread, Reject, Select, SendOpen, GiveUp, Refuse, Greet, SendHeader, Copy, SendClose,
         serve, sockets, agent, channel, controller, outside
<1> QED BY <1>1, StillSame

LEMMA OtherProxyAwaits ==
    ASSUME Ordered, NEW r, Awaits(r), NEW q \in Requests \ {r}, ProxyThread(q), Numbered'
    PROVE  Promised(r)'
<1>1. r \in Requests /\ r \in Given
  BY AwaitsFacts DEF Awaits
<1>2. Typed /\ Numbered /\ Placed
  BY DEF Ordered, Paired
<1>3. pc[q] \in Busy => q \in Given /\ id[q] # id[r]
  BY <1>1, <1>2, OtherIds DEF Placed
<1>4. SameName(r) /\ (Select(q) => nextId # id[r])
  <2>1. CASE Select(q)
    <3>1. session'[r] = session[r] /\ id'[r] = id[r] /\ id'[q] = nextId
      BY <1>1, <1>2, <2>1 DEF Select, Typed, TypeOK
    <3>2. q \in Given' /\ r \in Given'
      <4>1. \A s \in Sessions : s # None
        BY DEF Sessions, None
      <4>2. session'[q] # None
        BY <1>2, <2>1, <4>1 DEF Select, Typed, TypeOK
      <4> QED BY <1>1, <3>1, <4>2 DEF Given
    <3>3. id'[q] # id'[r]
      BY <3>2 DEF Numbered
    <3> QED BY <3>1, <3>3 DEF SameName
  <2>2. CASE ~Select(q)
    <3>1. UNCHANGED <<session, id>>
      BY <2>2 DEF ProxyThread, Reject, SendOpen, GiveUp, Refuse, Greet, SendHeader, Copy, SendClose
    <3> QED BY <2>2, <3>1, StillSame
  <2> QED BY <2>1, <2>2
<1>5. pc'[r] = pc[r] /\ flags'[r] = flags[r]
  BY <1>1, <1>2 DEF ProxyThread, Reject, Select, SendOpen, GiveUp, Refuse, Greet, SendHeader, Copy,
     SendClose, Leave, Goto, Typed, TypeOK
<1>6. shut'[r] <=> shut[r]
  <2>1. shut' = shut \/ CloseClients({q})
    BY DEF ProxyThread, Reject, Select, SendOpen, GiveUp, Refuse, Greet, SendHeader, Copy,
           SendClose, Leave, clients
  <2> QED BY <1>1, <2>1, OthersOpen
<1>7. r \in streams'[session[r]] <=> r \in streams[session[r]]
  <2>1. CASE streams' = streams
    BY <2>1
  <2>2. CASE pc[q] \in Busy
             /\ streams' = [streams EXCEPT ![session[q]] = Unregistered(session[q], q)]
    BY <1>2, <1>3, <2>2 DEF Unregistered, Typed, TypeOK
  <2>3. CASE Select(q)
    <3>1. PICK s \in Sessions : streams' = [streams EXCEPT ![s] = {p \in @ : id[p] # nextId} \cup {q}]
      BY <2>3 DEF Select
    <3> QED BY <1>1, <1>2, <1>4, <2>3, <3>1 DEF Typed, TypeOK
  <2> QED BY <2>1, <2>2, <2>3 DEF ProxyThread, Reject, SendOpen, GiveUp, Refuse, Greet, SendHeader,
             Copy, SendClose, Leave, Busy, controller
<1>8. SameThread(r)
  BY <1>5, <1>6, <1>7 DEF SameThread
<1>9. SameGoing(r)
  <2>1. CASE toAgent' = toAgent
    BY <2>1, StillSame
  <2>2. CASE pc[q] \in Busy
             /\ \E type, of, ok : ToAgent(session[q], [type |-> type, id |-> id[q], of |-> of], ok)
    BY <1>1, <1>2, <1>3, <2>2, GoingSent
  <2>3. CASE pc[q] \in Busy /\ \E ok : ToAgent(session[q], Bare("Close", id[q]), ok)
    BY <1>1, <1>2, <1>3, <2>3, GoingSent, BareFrames
  <2> QED BY <2>1, <2>2, <2>3 DEF ProxyThread, Reject, Select, SendOpen, GiveUp, Refuse, Greet,
             SendHeader, Copy, SendClose, Leave, Busy, channel
<1> QED BY <1>4, <1>8, <1>9, ProxyRest, QuietKept DEF Awaits

\* Once the proxy thread is past the copying, there is no tunnel to wait for.
LEMMA EndedThread ==
    ASSUME NEW r, Awaits(r), pc[r] \notin {"registered", "waiting", "copying"}
    PROVE  Refused(r) \/ GivenUp(r)
BY DEF Awaits, Promised, Held

LEMMA LostKept ==
    ASSUME NEW r, Refused(r) \/ GivenUp(r), SameName(r), flags'[r] = flags[r],
           serving'[r] = serving[r], SameComing(r),
           r \in streams'[session[r]] => r \in streams[session[r]]
    PROVE  Promised(r)'
BY RefusedKept, GivenUpKept DEF SameComing, Promised

\* A thread that was not overtaken still holds its own descriptor, and its
\* client has not left.
LEMMA OwnClient ==
    ASSUME Ordered, NEW r, Awaits(r), ~shut[r], fd[r] \in Fds
    PROVE  fds[fd[r]] = r /\ r # NoRequest /\ ~left[r]
BY AwaitsFacts, NoRequestAssumption DEF Ordered, Owned, OwnClients

LEMMA OwnProxyAwaits ==
    ASSUME Ordered, NEW r, Awaits(r), ProxyThread(r), ~slipped'
    PROVE  Promised(r)'
<1>1. r \in Requests /\ session[r] \in Sessions /\ link[session[r]] /\ alive[session[r]]
  BY AwaitsFacts
<1>2. Typed /\ Numbered /\ Placed /\ Linked /\ r \in Given /\ "error" \notin flags[r]
  BY DEF Ordered, Paired, Awaits, Unanswered
<1>3. ~Reject(r) /\ ~Select(r)
  BY <1>1, <1>2 DEF Placed, Waiting, Reject, Select
<1>4. UNCHANGED <<session, id, flags>>
  BY <1>3 DEF ProxyThread, SendOpen, GiveUp, Refuse, Greet, SendHeader, Copy, SendClose
<1>5. SameName(r)
  BY <1>4, StillSame
<1>6. \A p : r \in Unregistered(session[r], p) => r \in streams[session[r]]
  BY DEF Unregistered
<1>7. Held(r) => fds[fd[r]] = r /\ ~left[r] /\ r # NoRequest
  <2>1. Held(r) => fd[r] \in Fds
    BY <1>1, <1>2 DEF Held, Typed, Grounded
  <2> QED BY <2>1, OwnClient DEF Held
<1>8. CASE SendOpen(r)
  <2>1. PICK ok \in BOOLEAN :
           /\ ToAgent(session[r], [type |-> "Open", id |-> id[r], of |-> r], ok)
           /\ Goto(r, IF ok THEN "waiting" ELSE "refusing")
           /\ streams' = IF ok THEN streams
                         ELSE [streams EXCEPT ![session[r]] = Unregistered(session[r], r)]
    BY <1>8 DEF SendOpen
  <2>2. ok
    BY <1>1, <1>2, <2>1, ToAgentWorks
  <2>3. pc'[r] = "waiting"
    BY <1>1, <1>2, <2>1, <2>2 DEF Goto, Typed, TypeOK
  <2>4. SameThread(r)
    BY <1>8, <2>1, <2>2, <2>3 DEF SameThread, SendOpen, clients
  <2>5. SameGoing(r)
    BY <1>2, <2>1, GoingSent
  <2> QED BY <1>5, <2>4, <2>5, ProxyRest, QuietKept DEF Awaits
<1>9. CASE GiveUp(r)
  <2>1. "opened" \notin flags[r]
    BY <1>2, <1>9 DEF GiveUp, Granted
  <2>2. r \notin streams'[session[r]]
    BY <1>1, <1>2, <1>9 DEF GiveUp, Unregistered, Typed, TypeOK
  <2> QED BY <1>4, <2>1, <2>2 DEF GivenUp, Promised
<1>10. CASE Refuse(r)
  <2>1. Refused(r) \/ GivenUp(r)
    BY <1>10, EndedThread DEF Refuse
  <2>2. UNCHANGED streams
    BY <1>10 DEF Refuse, controller
  <2> QED BY <1>4, <1>5, <2>1, <2>2, ProxyRest, LostKept DEF SameServing
<1>11. CASE SendClose(r)
  <2>1. Refused(r) \/ GivenUp(r)
    BY <1>11, EndedThread DEF SendClose
  <2>2. r \in streams'[session[r]] => r \in streams[session[r]]
    BY <1>1, <1>2, <1>6, <1>11 DEF SendClose, Leave, Typed, TypeOK
  <2> QED BY <1>4, <1>5, <2>1, <2>2, ProxyRest, LostKept DEF SameServing
<1>12. CASE Greet(r)
  <2>1. PICK ok \in BOOLEAN :
           /\ WriteClient(r, {}, ok) /\ Goto(r, IF ok THEN "copying" ELSE "ending")
    BY <1>12 DEF Greet
  <2>2. CASE Refused(r) \/ GivenUp(r)
    BY <1>4, <1>5, <1>12, <2>2, ProxyRest, LostKept DEF SameServing, Greet, controller
  <2>3. CASE Held(r)
    <3>1. ok
      BY <1>7, <2>1, <2>3 DEF WriteClient
    <3>2. pc'[r] = "copying"
      BY <1>1, <1>2, <2>1, <3>1 DEF Goto, Typed, TypeOK
    <3>3. SameThread(r)
      BY <1>12, <3>2 DEF SameThread, Greet, Granted, clients, controller
    <3>4. SameGoing(r)
      BY <1>12, StillSame DEF Greet, channel
    <3> QED BY <1>5, <3>3, <3>4, ProxyRest, QuietKept DEF Awaits
  <2> QED BY <2>2, <2>3 DEF Awaits, Promised
<1>13. CASE SendHeader(r)
  <2>1. ToAgent(session[r], [type |-> "Data", id |-> id[r], of |-> r], TRUE)
        /\ Goto(r, "copying") /\ UNCHANGED <<streams, clients>>
    BY <1>1, <1>2, <1>13, ToAgentWorks DEF SendHeader
  <2>2. SameThread(r)
    BY <1>1, <1>2, <1>13, <2>1 DEF SameThread, SendHeader, Granted, clients, Goto, Typed, TypeOK
  <2>3. SameGoing(r)
    BY <1>2, <1>13, <2>1, GoingSent DEF SendHeader, Granted
  <2> QED BY <1>5, <2>2, <2>3, ProxyRest, QuietKept DEF Awaits
<1>14. CASE Copy(r)
  <2>1. CASE Refused(r) \/ GivenUp(r)
    BY <1>4, <1>5, <1>14, <2>1, ProxyRest, LostKept DEF SameServing, Copy
  <2>2. CASE Held(r)
    <3>1. ~HungUp(r)
      BY <1>7, <2>2 DEF HungUp, Held
    <3>2. PICK ok \in BOOLEAN :
             /\ ToAgent(session[r], [type |-> "Data", id |-> id[r], of |-> fds[fd[r]]], ok)
             /\ Goto(r, IF ok THEN "copying" ELSE "ending")
      BY <1>14, <3>1 DEF Copy
    <3>3. ok
      BY <1>1, <1>2, <3>2, ToAgentWorks
    <3>4. pc'[r] = pc[r]
      BY <1>1, <1>2, <1>14, <3>2, <3>3 DEF Copy, Goto, Typed, TypeOK
    <3>5. SameThread(r)
      BY <1>14, <3>4 DEF SameThread, Copy, clients
    <3>6. SameGoing(r)
      BY <1>2, <1>14, <3>2, GoingSent DEF Copy
    <3> QED BY <1>5, <3>5, <3>6, ProxyRest, QuietKept DEF Awaits
  <2> QED BY <2>1, <2>2 DEF Awaits, Promised
<1> QED BY <1>3, <1>8, <1>9, <1>10, <1>11, <1>12, <1>13, <1>14 DEF ProxyThread

-----------------------------------------------------------------------------
(* The readers of sessions.                                                 *)

LEMMA ReaderRest ==
    ASSUME NEW s, Reader(s), NEW r
    PROVE  /\ SameName(r) /\ SameServing(r) /\ SameReply(r) /\ pc' = pc
           /\ ~ReadFrame(s) => SameComing(r) /\ SameLead(r)
           /\ ~ReplyClose(s) => SameGoing(r)
<1>1. UNCHANGED <<pc, session, id, serving, answering, tshut, targets, task>>
  BY DEF Reader, ReadFrame, WriteData, ReplyClose, StopReading, Sweep, proxy, serve, sockets, agent,
         outside
<1>2. ~ReadFrame(s) => UNCHANGED toController
  BY DEF Reader, WriteData, ReplyClose, StopReading, Sweep, channel
<1>3. ~ReplyClose(s) => UNCHANGED toAgent
  BY DEF Reader, ReadFrame, WriteData, StopReading, Sweep, channel
<1> QED BY <1>1, <1>2, <1>3, StillSame

\* A session has its own streams.
LEMMA OwnStreams ==
    ASSUME Ordered, NEW s \in Sessions, NEW q \in streams[s] \cup hand[s].reqs
    PROVE  q \in Given /\ session[q] = s
<1>1. streams[s] \subseteq Requests /\ hand[s].reqs \subseteq Requests
  BY HandTyped DEF Ordered, Typed, TypeOK
<1>2. s # None
  BY DEF Sessions, None
<1> QED BY <1>1, <1>2 DEF Ordered, Paired, Sound, Belong, Given

LEMMA ReadFrameAwaits ==
    ASSUME Ordered, NEW r, Awaits(r), NEW s \in Sessions, ReadFrame(s)
    PROVE  Promised(r)'
<1> DEFINE q == toController[s]
           f == Head(q)
           rs == Found(s, f.id)
           ends == Closing(f, rs)
           more == CASE f.type = "OpenOk" -> {"opened"}
                     [] f.type = "Error" -> {"error", "closed"}
                     [] f.type = "Close" -> {"closed"}
                     [] OTHER -> {}
<1>1. /\ r \in Requests /\ session[r] \in Sessions /\ r \in Given /\ Typed
      /\ toController \in [Sessions -> Seq(Frame)] /\ streams \in [Sessions -> SUBSET Requests]
      /\ hand \in [Sessions -> Hand]
  BY AwaitsFacts DEF Awaits, Ordered, Typed, TypeOK
<1>2. q \in Seq(Frame) /\ q # <<>>
  BY <1>1 DEF ReadFrame
<1>3. f \in Frames(q) /\ Frames(Tail(q)) \subseteq Frames(q)
  BY <1>2, FramesOf
<1>4. SameName(r) /\ SameServing(r) /\ SameReply(r) /\ pc' = pc /\ SameGoing(r)
  <2>1. Reader(s) /\ ~ReplyClose(s)
    BY DEF Reader, ReadFrame, ReplyClose
  <2> QED BY <2>1, ReaderRest
<1>5. /\ flags'[r] = IF r \in rs THEN flags[r] \cup more ELSE flags[r]
      /\ hand[s].at = "reading"
      /\ hand' = IF rs # {} /\ f.type = "Data"
                 THEN [hand EXCEPT ![s] = Holding("write", rs, f.of)] ELSE hand
      /\ streams' = IF f.type = "Close" THEN [streams EXCEPT ![s] = @ \ rs] ELSE streams
      /\ CloseClients(IF ends THEN rs ELSE {})
      /\ toController' = [toController EXCEPT ![s] = Tail(q)]
  <2>1. flags'[r] = IF r \in rs THEN flags[r] \cup more ELSE flags[r]
    <3>1. flags' = [p \in Requests |-> IF p \notin rs THEN flags[p] ELSE flags[p] \cup more]
      BY Zenon DEF ReadFrame
    <3> HIDE DEF more, rs
    <3> QED BY <1>1, <3>1
  <2>2. hand[s].at = "reading" /\ toController' = [toController EXCEPT ![s] = Tail(q)]
    BY DEF ReadFrame
  <2>3. hand' = IF rs # {} /\ f.type = "Data"
                THEN [hand EXCEPT ![s] = Holding("write", rs, f.of)] ELSE hand
    BY Zenon DEF ReadFrame
  <2>4. streams' = IF f.type = "Close" THEN [streams EXCEPT ![s] = @ \ rs] ELSE streams
    BY Zenon DEF ReadFrame
  <2>5. CloseClients(IF ends THEN rs ELSE {})
    BY DEF ReadFrame
  <2> QED BY <2>1, <2>2, <2>3, <2>4, <2>5
<1>6. \A p \in rs : p \in streams[s] /\ p \in Given /\ session[p] = s /\ id[p] = f.id
  BY OwnStreams DEF Found
<1>7. r \in rs <=> r \in streams[s] /\ id[r] = f.id
  BY <1>1 DEF Found
<1> HIDE DEF f, rs, ends, more, q
<1>8. SameComing(r)
  <2>1. Frames(toController'[session[r]]) \subseteq Frames(toController[session[r]])
    BY <1>1, <1>3, <1>5 DEF q
  <2> QED BY <2>1 DEF SameComing
<1>9. r \notin rs \/ ~ends => shut'[r] <=> shut[r]
  BY <1>1, <1>5, OthersOpen
<1>10. r \notin rs \/ f.type # "Close" => (r \in streams'[session[r]] <=> r \in streams[session[r]])
  BY <1>1, <1>5
<1>11. (r \in rs /\ f.type = "Data") \/ SameHand(r)
  <2>1. CASE session[r] # s \/ ~(rs # {} /\ f.type = "Data")
    <3>1. hand'[session[r]] = hand[session[r]]
      BY <1>1, <1>5, <2>1
    <3> QED BY <3>1 DEF SameHand
  <2>2. CASE session[r] = s /\ r \notin rs
    <3>1. hand'[s] = hand[s] \/ hand'[s] = Holding("write", rs, f.of)
      BY <1>1, <1>5
    <3> QED BY <1>5, <2>2, <3>1, HoldingFields DEF SameHand
  <2> QED BY <2>1, <2>2
<1>12. CASE r \notin rs
  <2>1. SameThread(r)
    BY <1>4, <1>5, <1>9, <1>10, <1>12 DEF SameThread
  <2>2. CASE Refused(r) \/ GivenUp(r)
    BY <1>4, <1>5, <1>8, <1>10, <1>12, <2>2, LostKept DEF SameServing
  <2>3. CASE Held(r)
    <3>1. session[r] # s \/ id[r] # f.id
      BY <1>7, <1>12, <2>3 DEF Held
    <3>2. Leads(q, id[r]) /\ id[r] # f.id => Leads(Tail(q), id[r])
      BY <1>2, LeadsOf DEF f
    <3>3. SameLead(r)
      BY <1>1, <1>5, <3>1, <3>2 DEF SameLead, q
    <3> QED BY <1>4, <1>8, <1>11, <1>12, <2>1, <3>3, QuietKept DEF Awaits
  <2> QED BY <2>2, <2>3 DEF Awaits, Promised
<1>13. CASE r \in rs
  <2>1. session[r] = s /\ f.id = id[r] /\ r \in streams[s]
    BY <1>6, <1>13
  <2>2. rs = {r}
    BY <1>1, <1>6, <1>13, <2>1 DEF Ordered, Paired, Numbered
  <2>3. CASE Refused(r)
    <3>1. f.type # "OpenOk"
      BY <1>3, <2>1, <2>3 DEF Refused, Coming, q
    <3>2. "opened" \notin flags'[r]
      BY <1>5, <2>3, <3>1 DEF Refused, more
    <3> QED BY <1>4, <1>8, <2>3, <3>2 DEF Refused, Promised, SameName, SameServing, SameComing, Coming,
            Frames
  <2>4. CASE Held(r) /\ (Unopened(r) \/ Served(r))
    <3>1. f.type \notin Final /\ (Unopened(r) => f.type # "OpenOk")
      BY <1>3, <2>1, <2>4 DEF Unopened, Served, Unnoticed, Coming, q
    <3>2. ~ends /\ f.type # "Close" /\ f.type # "Data" /\ (Unopened(r) => flags'[r] = flags[r])
      BY <1>5, <3>1 DEF ends, Closing, Final, more
    <3>3. Held(r)'
      BY <1>4, <1>9, <1>10, <2>4, <3>2 DEF Held, SameName, SameGoing, Going, Frames
    <3>4. Unnoticed(r)'
      BY <1>4, <1>8, <1>11, <2>4, <3>2, UnnoticedKept DEF Unopened, Served
    <3>5. CASE Served(r)
      BY <1>4, <3>3, <3>4, <3>5 DEF Served, SameServing, Promised
    <3>6. CASE Unopened(r)
      <4>1. SameThread(r)
        BY <1>4, <1>9, <1>10, <3>2, <3>6 DEF SameThread
      <4>2. SameLead(r)
        <5>1. Leads(q, id[r]) => Leads(Tail(q), id[r])
          BY <1>2, <3>1, LeadsOf DEF f
        <5> QED BY <1>1, <1>5, <2>1, <5>1 DEF SameLead, q
      <4> QED BY <1>4, <1>8, <1>11, <3>2, <4>1, <4>2, QuietKept DEF Awaits
    <3> QED BY <2>4, <3>5, <3>6
  <2>5. CASE Held(r) /\ Sent(r)
    <3>1. Leads(q, id[r]) /\ r \notin hand[s].reqs
      BY <1>5, <2>1, <2>5 DEF Sent, q
    <3>2. IF f.type \in Final THEN f.type = "Data" ELSE Leads(Tail(q), id[r])
      BY <1>2, <2>1, <3>1, LeadsOf DEF f
    <3>3. ~ends /\ f.type # "Close"
      BY <3>2 DEF ends, Closing, Final
    <3>4. Held(r)'
      BY <1>4, <1>9, <1>10, <2>5, <3>3 DEF Held, SameName, SameGoing, Going, Frames
    <3>5. CASE f.type = "Data"
      <4>1. hand'[s] = Holding("write", {r}, f.of)
        BY <1>1, <1>5, <2>2, <3>5
      <4>2. Sent(r)'
        BY <1>4, <2>1, <4>1, HoldingFields DEF Sent, SameName
      <4> QED BY <3>4, <4>2 DEF Promised
    <3>6. CASE f.type # "Data"
      <4>1. SameLead(r)
        BY <1>1, <1>5, <2>1, <3>2, <3>6 DEF SameLead, Final
      <4>2. Sent(r)'
        BY <1>4, <1>11, <2>5, <3>6, <4>1, SentKept
      <4> QED BY <3>4, <4>2 DEF Promised
    <3> QED BY <3>5, <3>6
  <2>6. ~GivenUp(r)
    BY <2>1 DEF GivenUp
  <2> QED BY <2>3, <2>4, <2>5, <2>6 DEF Awaits, Promised
<1> QED BY <1>12, <1>13

LEMMA WriteDataAwaits ==
    ASSUME Ordered, NEW r, Awaits(r), NEW s \in Sessions, WriteData(s), ~slipped',
           r \notin answered'
    PROVE  Promised(r)'
<1>1. /\ r \in Requests /\ session[r] \in Sessions /\ r \in Given /\ Typed
      /\ hand \in [Sessions -> Hand]
  BY AwaitsFacts DEF Awaits, Ordered, Typed, TypeOK
<1>2. /\ SameName(r) /\ SameServing(r) /\ SameReply(r) /\ pc' = pc
      /\ SameComing(r) /\ SameLead(r) /\ SameGoing(r)
  <2>1. Reader(s) /\ ~ReplyClose(s) /\ ~ReadFrame(s)
    BY DEF Reader, ReadFrame, ReplyClose, WriteData
  <2> QED BY <2>1, ReaderRest
<1>3. SameThread(r)
  BY StillSame DEF WriteData, proxy, clients
<1>4. PICK q \in hand[s].reqs, ok \in BOOLEAN :
         /\ WriteClient(q, {hand[s].of}, ok)
         /\ hand' = [hand EXCEPT ![s] = IF ok THEN Holding("reading", {}, NoRequest)
                                        ELSE Holding("reply", {q}, NoRequest)]
  BY DEF WriteData
<1>5. hand[s].reqs = {hand[s].of} /\ q = hand[s].of
  BY <1>4 DEF Ordered, Paired, Sound, AtHand, WriteData
<1>6. hand'[s].reqs = {} \/ hand'[s].reqs = {q}
  BY <1>1, <1>4, HoldingFields
<1>7. CASE Refused(r) \/ GivenUp(r)
  BY <1>2, <1>3, <1>7, LostKept DEF SameThread, SameServing
<1>8. CASE Held(r) /\ q = r
  <2>1. fds[fd[r]] = r /\ ~left[r] /\ r # NoRequest
    <3>1. fd[r] \in Fds
      BY <1>1, <1>8 DEF Held, Typed, Grounded
    <3> QED BY <1>8, <3>1, OwnClient DEF Held
  <2>2. r \in answered'
    BY <1>4, <1>5, <1>8, <2>1 DEF WriteClient
  <2> QED BY <2>2
<1>9. CASE q # r
  <2>1. SameHand(r)
    <3>1. CASE session[r] = s
      BY <1>5, <1>6, <1>9, <3>1 DEF SameHand
    <3>2. CASE session[r] # s
      BY <1>1, <1>4, <3>2 DEF SameHand
    <3> QED BY <3>1, <3>2
  <2> QED BY <1>2, <1>3, <2>1, QuietKept DEF Awaits
<1> QED BY <1>7, <1>8, <1>9 DEF Awaits, Promised

LEMMA ReplyCloseAwaits ==
    ASSUME Ordered, NEW r, Awaits(r), NEW s \in Sessions, ReplyClose(s)
    PROVE  Promised(r)'
<1>1. /\ r \in Requests /\ session[r] \in Sessions /\ r \in Given /\ Typed /\ Numbered
      /\ hand \in [Sessions -> Hand] /\ streams \in [Sessions -> SUBSET Requests]
  BY AwaitsFacts DEF Awaits, Ordered, Paired, Typed, TypeOK
<1>2. /\ SameName(r) /\ SameServing(r) /\ SameReply(r) /\ pc' = pc
      /\ SameComing(r) /\ SameLead(r)
  <2>1. Reader(s) /\ ~ReadFrame(s)
    BY DEF Reader, ReadFrame, ReplyClose
  <2> QED BY <2>1, ReaderRest
<1>3. PICK q \in hand[s].reqs :
         /\ \E ok \in BOOLEAN : ToAgent(s, Bare("Close", id[q]), ok)
         /\ streams' = [streams EXCEPT ![s] = Unregistered(s, q)]
         /\ CloseClients({q})
  BY DEF ReplyClose
<1>4. q \in Given /\ session[q] = s
  BY OwnStreams
<1>5. flags' = flags
  BY DEF ReplyClose, proxy
<1>6. SameHand(r)
  <2>1. hand[s].at = "reply" /\ hand' = [hand EXCEPT ![s] = Holding("reading", {}, NoRequest)]
    BY DEF ReplyClose
  <2>2. hand'[session[r]] = hand[session[r]] \/ (session[r] = s /\ hand'[s].reqs = {})
    BY <1>1, <2>1, HoldingFields
  <2> QED BY <2>1, <2>2 DEF SameHand
<1>7. r \in streams'[session[r]] => r \in streams[session[r]]
  BY <1>1, <1>3 DEF Unregistered
<1>8. CASE Refused(r) \/ GivenUp(r)
  BY <1>2, <1>5, <1>7, <1>8, LostKept DEF SameServing
<1>9. CASE q # r
  <2>1. id[q] # id[r]
    BY <1>1, <1>4, <1>9, OtherIds
  <2>2. SameGoing(r)
    BY <1>1, <1>3, <2>1, GoingSent, BareFrames
  <2>3. SameThread(r)
    <3>1. shut'[r] <=> shut[r]
      BY <1>1, <1>3, <1>9, OthersOpen
    <3>2. r \in streams[session[r]] => r \in streams'[session[r]]
      BY <1>1, <1>3, <2>1 DEF Unregistered
    <3> QED BY <1>2, <1>5, <1>7, <3>1, <3>2 DEF SameThread
  <2> QED BY <1>2, <1>6, <2>2, <2>3, QuietKept DEF Awaits
<1>10. CASE q = r
  <2>1. session[r] = s /\ r \in hand[s].reqs /\ hand[s].at = "reply"
    BY <1>3, <1>4, <1>10 DEF ReplyClose
  <2>2. ~Unopened(r) /\ ~Served(r) /\ ~Sent(r)
    BY <2>1 DEF Unopened, Served, Sent, Unnoticed
  <2> QED BY <1>8, <2>2 DEF Awaits, Promised
<1> QED BY <1>9, <1>10

LEMMA ClosingAwaits ==
    ASSUME Ordered, NEW r, Awaits(r), NEW s \in Sessions, StopReading(s) \/ Sweep(s)
    PROVE  Promised(r)'
<1>1. /\ r \in Requests /\ session[r] \in Sessions /\ r \in Given /\ Typed
      /\ hand \in [Sessions -> Hand] /\ streams \in [Sessions -> SUBSET Requests]
  BY AwaitsFacts DEF Awaits, Ordered, Typed, TypeOK
<1>2. /\ SameName(r) /\ SameServing(r) /\ SameReply(r) /\ pc' = pc
      /\ SameComing(r) /\ SameLead(r) /\ SameGoing(r)
  <2>1. Reader(s) /\ ~ReadFrame(s) /\ ~ReplyClose(s)
    BY DEF Reader, ReadFrame, ReplyClose, StopReading, Sweep
  <2> QED BY <2>1, ReaderRest
<1>3. session[r] # s
  BY AwaitsFacts DEF StopReading, Sweep, Ordered, Linked
<1>4. r \notin streams[s] \cup hand[s].reqs
  BY <1>3, OwnStreams
<1>5. flags'[r] = flags[r] /\ (shut'[r] <=> shut[r])
  BY <1>1, <1>4, OthersOpen DEF StopReading, Sweep, proxy, clients
<1>6. streams'[session[r]] = streams[session[r]] /\ hand'[session[r]] = hand[session[r]]
  BY <1>1, <1>3 DEF StopReading, Sweep
<1>7. SameThread(r) /\ SameHand(r)
  BY <1>2, <1>5, <1>6 DEF SameThread, SameHand
<1> QED BY <1>2, <1>7, QuietKept DEF Awaits

-----------------------------------------------------------------------------
(* The agent.                                                               *)

LEMMA AgentRest ==
    ASSUME NEW r, FrameLoop
    PROVE  /\ SameName(r) /\ SameThread(r) /\ SameHand(r) /\ UNCHANGED <<pc, flags, streams, answering>>
           /\ ~SendReply => SameComing(r) /\ SameLead(r)
           /\ ~TakeFrame => SameGoing(r) /\ serving' = serving
<1>1. UNCHANGED <<pc, flags, streams, answering, session, id, shut, hand>>
  BY DEF FrameLoop, TakeFrame, FeedTarget, SendReply, Disconnect, proxy, clients, controller, outside
<1>2. ~SendReply => UNCHANGED toController
  BY DEF FrameLoop, TakeFrame, FeedTarget, Disconnect, channel
<1>3. ~TakeFrame => UNCHANGED <<toAgent, serving>>
  BY DEF FrameLoop, FeedTarget, SendReply, Disconnect, channel, serve
<1> QED BY <1>1, <1>2, <1>3, StillSame

LEMMA ReplySame ==
    ASSUME NEW r, NEW i, i # id[r],
           task' = Reply(Bare("Error", i)) \/ task' = Reply(Bare("Close", i))
    PROVE  SameReply(r)
<1>1. task'.frame = Bare("Error", i) \/ task'.frame = Bare("Close", i)
  BY DEF Reply
<1>2. task'.frame.id = i
  BY <1>1, BareFrames
<1> QED BY <1>2 DEF SameReply

\* A thread of its own for the Open, and no Data or Close before it is due.
LEMMA TakeFrameAwaits ==
    ASSUME Ordered, NEW r, Awaits(r), TakeFrame
    PROVE  Promised(r)'
<1> DEFINE f == Head(toAgent[conn])
<1>1. /\ r \in Requests /\ conn = session[r] /\ conn \in Sessions /\ Typed /\ Owned
      /\ toAgent[conn] \in Seq(Frame) /\ toAgent[conn] # <<>>
  BY AwaitsFacts DEF Ordered, Typed, TypeOK, TakeFrame
<1>2. f \in Frames(toAgent[conn]) /\ Frames(Tail(toAgent[conn])) \subseteq Frames(toAgent[conn])
  BY <1>1, FramesOf
<1>3. FrameLoop /\ ~SendReply
  BY DEF FrameLoop, TakeFrame, SendReply, Idle
<1>4. /\ SameName(r) /\ SameThread(r) /\ SameHand(r) /\ SameComing(r) /\ SameLead(r)
      /\ UNCHANGED <<pc, flags, streams, answering>>
  BY <1>3, AgentRest
<1>5. toAgent' = [toAgent EXCEPT ![conn] = Tail(@)]
  BY DEF TakeFrame
<1>6. SameGoing(r)
  <2>1. toAgent'[session[r]] = Tail(toAgent[conn])
    BY <1>1, <1>5 DEF Typed, TypeOK
  <2> QED BY <1>1, <1>2, <2>1 DEF SameGoing
<1>7. ASSUME Refused(r) \/ GivenUp(r), serving'[r] = serving[r] PROVE Promised(r)'
  BY <1>4, <1>7, LostKept DEF SameThread
<1>8. ASSUME Held(r), Sent(r) PROVE Promised(r)'
  BY <1>4, <1>6, <1>8, HeldKept, SentKept DEF Promised
<1>9. CASE f.type = "Open" /\ serving' = [serving EXCEPT ![f.of] = "opening"]
           /\ UNCHANGED <<task, targets, tshut>>
  <2>1. SameReply(r)
    BY <1>9, StillSame
  <2>2. CASE f.of # r
    <3>1. SameServing(r)
      BY <1>1, <1>4, <1>9, <2>2 DEF SameServing, Typed, TypeOK
    <3> QED BY <1>4, <1>6, <2>1, <3>1, QuietKept DEF Awaits
  <2>3. CASE f.of = r
    <3>1. OpenAt(conn, 1, r)
      <4>1. 1 \in 1..Len(toAgent[conn]) /\ f = toAgent[conn][1]
        BY <1>1
      <4> QED BY <1>9, <2>3, <4>1 DEF OpenAt
    <3>2. serving[r] = "none" /\ serving'[r] = "opening"
      <4>1. serving[r] = "none"
        BY <1>1, <3>1 DEF Owned, OpenedOnce
      <4>2. serving' = [serving EXCEPT ![r] = "opening"]
        BY <1>9, <2>3
      <4> QED BY <1>1, <4>1, <4>2 DEF Typed, TypeOK
    <3>3. CASE GivenUp(r)
      BY <1>4, <3>3, GivenUpKept DEF Promised
    <3>4. CASE Held(r) /\ Unopened(r)
      <4>1. Held(r)' /\ Unnoticed(r)'
        BY <1>4, <1>6, <2>1, <3>4, HeldKept, UnnoticedKept DEF Unopened
      <4>2. ~Coming(r, {"OpenOk"})'
        BY <1>4, <3>4 DEF Unopened, SameName, SameComing, Coming, Frames
      <4>3. ~Going(r, {"Data"})'
        BY <1>4, <1>6, <3>4 DEF Unopened, SameName, SameGoing, Going, Frames
      <4> QED BY <1>4, <3>2, <3>4, <4>1, <4>2, <4>3 DEF Unopened, Promised
    <3> QED BY <1>8, <3>2, <3>3, <3>4 DEF Awaits, Promised, Refused, Served
  <2> QED BY <2>2, <2>3
<1>10. CASE f.type = "Data" /\ UNCHANGED <<serving, targets, tshut>>
            /\ \/ \E q \in Live(f.id) : task' = [at |-> "write", req |-> q, frame |-> f]
               \/ Live(f.id) = {} /\ task' = Reply(Bare("Error", f.id))
  <2>1. SameServing(r)
    BY <1>4, <1>10 DEF SameServing
  <2>2. CASE SameReply(r)
    BY <1>4, <1>6, <2>1, <2>2, QuietKept DEF Awaits
  <2>3. CASE ~SameReply(r)
    <3>1. Live(f.id) = {} /\ f.id = id[r]
      <4>1. ~ \E q : task' = [at |-> "write", req |-> q, frame |-> f]
        BY <2>3 DEF SameReply
      <4> QED BY <1>10, <2>3, <4>1, ReplySame
    <3>2. Going(r, {"Data"})
      BY <1>1, <1>2, <1>10, <3>1 DEF Going
    <3>3. ~Unopened(r) /\ ~Served(r)
      BY <1>1, <3>1, <3>2 DEF Unopened, Served, Live
    <3> QED BY <1>7, <1>8, <1>10, <3>3 DEF Awaits, Promised
  <2> QED BY <2>2, <2>3
<1>11. CASE f.type = "Close" /\ UNCHANGED serving
            /\ \/ \E q \in Live(f.id) : CloseTargets({q}) /\ task' = Reply(Bare("Close", f.id))
               \/ UNCHANGED <<task, targets, tshut>>
  <2>1. CASE UNCHANGED <<task, targets, tshut>>
    <3>1. SameServing(r)
      BY <1>4, <1>11, <2>1 DEF SameServing
    <3> QED BY <1>4, <1>6, <2>1, <3>1, StillSame, QuietKept DEF Awaits
  <2>2. CASE f.id = id[r]
    <3>1. Going(r, {"Close"})
      BY <1>1, <1>2, <1>11, <2>2 DEF Going
    <3>2. ~Held(r)
      BY <3>1 DEF Held
    <3> QED BY <1>7, <1>11, <3>2 DEF Awaits, Promised
  <2>3. ASSUME NEW q \in Live(f.id), CloseTargets({q}), task' = Reply(Bare("Close", f.id)),
               f.id # id[r]
        PROVE  Promised(r)'
    <3>1. q # r
      BY <1>1, <2>3, LiveTargets
    <3>2. SameServing(r)
      BY <1>1, <1>4, <1>11, <2>3, <3>1, OtherTargets DEF SameServing
    <3> QED BY <1>4, <1>6, <2>3, <3>2, ReplySame, QuietKept DEF Awaits
  <2> QED BY <1>11, <2>1, <2>2, <2>3
<1> QED BY <1>9, <1>10, <1>11 DEF TakeFrame

\* Only a write to the target itself ends its stream.
LEMMA FeedTargetAwaits ==
    ASSUME Ordered, NEW r, Awaits(r), FeedTarget, r \notin spurned'
    PROVE  Promised(r)'
<1>1. r \in Requests /\ r \in Given /\ Typed /\ Numbered
  BY AwaitsFacts DEF Ordered, Paired, Awaits
<1>2. Named(task.frame.id, task.req)
  BY DEF Ordered, Paired, Sound, AtHand, SoundTask, FeedTarget
<1>3. FrameLoop /\ ~SendReply /\ ~TakeFrame
  <2>1. Idle.at = "idle"
    BY DEF Idle
  <2> QED BY <2>1 DEF FrameLoop, FeedTarget, TakeFrame, SendReply
<1>4. /\ SameName(r) /\ SameThread(r) /\ SameHand(r) /\ SameComing(r) /\ SameLead(r) /\ SameGoing(r)
      /\ UNCHANGED <<answering, serving>>
  BY <1>3, AgentRest
<1>5. CASE task' = Idle /\ UNCHANGED <<targets, tshut>>
  <2>1. SameReply(r) /\ SameServing(r)
    BY <1>4, <1>5 DEF SameReply, SameServing, Idle
  <2> QED BY <1>4, <2>1, QuietKept DEF Awaits
<1>6. ASSUME WriteTarget(task.req, FALSE), NEW q \in Live(task.frame.id), CloseTargets({q}),
             task' = Reply(Bare("Close", task.frame.id))
      PROVE  Promised(r)'
  <2>1. task.req # r
    BY <1>6 DEF WriteTarget
  <2>2. task.frame.id # id[r]
    BY <1>1, <1>2, <2>1 DEF Named, Numbered
  <2>3. q # r
    BY <1>1, <1>6, <2>2, LiveTargets
  <2>4. SameServing(r)
    BY <1>1, <1>4, <1>6, <2>3, OtherTargets DEF SameServing
  <2> QED BY <1>4, <1>6, <2>2, <2>4, ReplySame, QuietKept DEF Awaits
<1> QED BY <1>5, <1>6 DEF FeedTarget

LEMMA SendReplyAwaits ==
    ASSUME Ordered, NEW r, Awaits(r), SendReply
    PROVE  Promised(r)'
<1>1. r \in Given /\ Typed /\ Linked /\ link[session[r]]
  BY AwaitsFacts DEF Ordered, Awaits
<1>2. task.at = "reply" /\ task.frame.type \in {"Close", "Error"}
  BY DEF Ordered, Paired, Sound, AtHand, SoundTask, SendReply
<1>3. FrameLoop /\ ~TakeFrame
  BY DEF FrameLoop, TakeFrame, SendReply, Idle
<1>4. /\ SameName(r) /\ SameThread(r) /\ SameHand(r) /\ SameGoing(r)
      /\ UNCHANGED <<answering, serving, flags, streams>>
  BY <1>3, AgentRest
<1>5. SameServing(r) /\ SameReply(r)
  BY <1>4 DEF SameServing, SameReply, SendReply, Idle, sockets
<1>6. /\ SameLead(r)
      /\ \A f \in Frames(toController'[session[r]]) :
            f \in Frames(toController[session[r]]) \/ f = task.frame
      /\ task.frame.id # id[r] => SameComing(r)
  BY <1>1, ComingSent DEF SendReply
<1>7. CASE task.frame.id # id[r]
  BY <1>4, <1>5, <1>6, <1>7, QuietKept DEF Awaits
<1>8. CASE task.frame.id = id[r]
  <2>1. ~Unopened(r) /\ ~Served(r)
    BY <1>2, <1>8 DEF Unopened, Served, Unnoticed
  <2>2. CASE Refused(r)
    BY <1>2, <1>4, <1>6, <2>2, RefusedKept DEF Promised
  <2>3. CASE GivenUp(r)
    BY <1>4, <2>3, GivenUpKept DEF Promised
  <2>4. CASE Held(r) /\ Sent(r)
    BY <1>4, <1>6, <2>4, HeldKept, SentKept DEF Promised
  <2> QED BY <2>1, <2>2, <2>3, <2>4 DEF Awaits, Promised
<1> QED BY <1>7, <1>8

LEMMA AgentAwaits ==
    ASSUME Ordered, NEW r, Awaits(r), FrameLoop \/ Connect, r \notin spurned'
    PROVE  Promised(r)'
<1>1. ~Connect /\ ~Disconnect
  BY AwaitsFacts DEF Connect, Disconnect
<1> QED BY <1>1, TakeFrameAwaits, FeedTargetAwaits, SendReplyAwaits DEF FrameLoop

-----------------------------------------------------------------------------
(* The threads of targets.                                                  *)

LEMMA TargetRest ==
    ASSUME Ordered, NEW r, Awaits(r), NEW q \in Requests, TargetThread(q)
    PROVE  /\ SameName(r) /\ SameThread(r) /\ SameGoing(r) /\ SameReply(r) /\ SameHand(r) /\ SameLead(r)
           /\ UNCHANGED <<pc, flags, streams, hand, shut>>
           /\ OpenTarget(q) \/ LoopOrEnd(q) \/ Receive(q) => SameComing(r)
<1>1. UNCHANGED <<pc, flags, streams, hand, shut, session, id, toAgent, task>>
  BY DEF TargetThread, RefuseOpen, OpenTarget, SendOpenOk, LoopOrEnd, Receive, Relay, NotifyClose,
         proxy, clients, controller, channel, agent
<1>2. OpenTarget(q) \/ LoopOrEnd(q) \/ Receive(q) => UNCHANGED toController
  BY DEF OpenTarget, LoopOrEnd, Receive, channel
<1>3. r \in Given /\ Typed /\ Linked /\ link[session[r]]
  BY AwaitsFacts DEF Ordered, Awaits
<1>4. SameLead(r)
  <2>1. CASE \E frame, ok : ToController(frame, ok)
    BY <1>3, <2>1, ComingSent
  <2> QED BY <1>2, <2>1, StillSame DEF TargetThread, RefuseOpen, SendOpenOk, Relay, NotifyClose
<1> QED BY <1>1, <1>2, <1>4, StillSame

\* handle_close, for a stream with another id.
LEMMA EndTargetOthers ==
    ASSUME Typed, NEW r \in Requests, NEW q \in Requests \ {r}, id[q] # id[r], EndTarget(q)
    PROVE  /\ serving'[r] = serving[r] /\ (tshut'[r] <=> tshut[r])
           /\ r \in targets => r \in targets'
<1>1. serving'[r] = serving[r]
  BY DEF EndTarget, Serve, Typed, TypeOK
<1>2. (tshut'[r] <=> tshut[r]) /\ (r \in targets => r \in targets')
  <2>1. ASSUME NEW p \in Live(id[q]), CloseTargets({p})
        PROVE  (tshut'[r] <=> tshut[r]) /\ (r \in targets => r \in targets')
    <3>1. p # r
      BY LiveTargets
    <3> QED BY <2>1, <3>1, OtherTargets
  <2> QED BY <2>1 DEF EndTarget
<1> QED BY <1>1, <1>2

LEMMA OtherTargetAwaits ==
    ASSUME Ordered, NEW r, Awaits(r), NEW q \in Requests \ {r}, TargetThread(q), ~slipped'
    PROVE  Promised(r)'
<1>1. r \in Requests /\ r \in Given /\ Typed /\ Numbered /\ Linked /\ link[session[r]]
  BY AwaitsFacts DEF Ordered, Paired, Awaits
<1>2. serving[q] # "none"
  BY DEF TargetThread, RefuseOpen, OpenTarget, SendOpenOk, LoopOrEnd, Receive, Relay, NotifyClose
<1>3. id[q] # id[r]
  BY <1>1, <1>2, OtherIds DEF Ordered, Paired, Sound, Belong
<1>4. /\ SameName(r) /\ SameThread(r) /\ SameGoing(r) /\ SameReply(r) /\ SameHand(r) /\ SameLead(r)
  BY TargetRest
<1>5. SameComing(r)
  <2>1. CASE \E frame, ok : ToController(frame, ok) /\ frame.id = id[q]
    BY <1>1, <1>3, <2>1, ComingSent
  <2>2. CASE RefuseOpen(q) \/ SendOpenOk(q) \/ NotifyClose(q)
    BY <2>1, <2>2, BareFrames DEF RefuseOpen, SendOpenOk, NotifyClose
  <2>3. CASE Relay(q)
    <3>1. \E ok : ToController([type |-> "Data", id |-> id[q], of |-> relay[q]], ok)
      BY <2>3 DEF Relay
    <3> QED BY <2>1, <3>1
  <2> QED BY <2>2, <2>3, TargetRest DEF TargetThread
<1>6. SameServing(r)
  <2>1. CASE /\ \E step : Serve(q, step)
             /\ UNCHANGED <<targets, tshut, answering>>
    BY <1>1, <2>1 DEF SameServing, Serve, Typed, TypeOK
  <2>2. CASE EndTarget(q) /\ UNCHANGED answering
    BY <1>1, <1>3, <2>2, EndTargetOthers DEF SameServing
  <2>3. CASE OpenTarget(q)
    <3>1. serving'[r] = serving[r] /\ (answering'[r] <=> answering[r]) /\ (tshut'[r] <=> tshut[r])
      BY <1>1, <2>3 DEF OpenTarget, Serve, Typed, TypeOK
    <3>2. r \in targets => r \in targets'
      BY <1>3, <2>3 DEF OpenTarget
    <3> QED BY <3>1, <3>2 DEF SameServing
  <2>4. CASE Receive(q)
    <3>1. CASE Serve(q, "relaying") /\ UNCHANGED <<targets, tshut>>
               /\ answering' = [answering EXCEPT ![tfds[tfd[q]]] = FALSE]
               /\ slipped' = (slipped \/ tfds[tfd[q]] # q)
      <4>1. tfds[tfd[q]] = q
        BY <3>1, Zenon
      <4>2. answering'[r] <=> answering[r]
        BY <1>1, <3>1, <4>1 DEF Typed, TypeOK
      <4>3. serving'[r] = serving[r]
        BY <1>1, <3>1 DEF Serve, Typed, TypeOK
      <4> QED BY <3>1, <4>2, <4>3 DEF SameServing
    <3> QED BY <2>2, <2>4, <3>1 DEF Receive
  <2> QED BY <2>1, <2>2, <2>3, <2>4 DEF TargetThread, RefuseOpen, SendOpenOk, LoopOrEnd, Relay,
             NotifyClose, agent, sockets, outside
<1> QED BY <1>4, <1>5, <1>6, QuietKept DEF Awaits

\* The own thread: an answer that the target has to give is read, and becomes a
\* Data frame.
LEMMA OwnTargetAwaits ==
    ASSUME Ordered, NEW r, Awaits(r), TargetThread(r)
    PROVE  Promised(r)'
<1>1. /\ r \in Requests /\ r \in Given /\ Typed /\ Owned /\ Linked /\ link[session[r]] /\ connected
      /\ r \in Answering
  BY AwaitsFacts DEF Ordered, Awaits, Unanswered
<1>2. /\ SameName(r) /\ SameThread(r) /\ SameGoing(r) /\ SameReply(r) /\ SameHand(r) /\ SameLead(r)
      /\ UNCHANGED <<pc, flags, streams, hand, shut>>
      /\ OpenTarget(r) \/ LoopOrEnd(r) \/ Receive(r) => SameComing(r)
  BY <1>1, TargetRest
<1>3. Held(r) => Held(r)'
  BY <1>2, HeldKept
<1>4. GivenUp(r) \/ (Held(r) /\ Sent(r)) => Promised(r)'
  BY <1>2, <1>3, GivenUpKept, SentKept DEF Promised
<1>5. \A step : Serve(r, step) => serving'[r] = step
  BY <1>1 DEF Serve, Typed, TypeOK
<1>6. serving[r] # "over"
  BY DEF TargetThread, RefuseOpen, OpenTarget, SendOpenOk, LoopOrEnd, Receive, Relay, NotifyClose
<1>7. CASE RefuseOpen(r)
  <2>1. serving[r] = "opening" /\ serving'[r] = "over"
    BY <1>5, <1>7 DEF RefuseOpen
  <2>2. \A f \in Frames(toController'[session[r]]) :
           f \in Frames(toController[session[r]]) \/ f.type = "Error"
    <3>1. PICK ok : ToController(Bare("Error", id[r]), ok)
      BY <1>7 DEF RefuseOpen
    <3>2. Bare("Error", id[r]).type = "Error"
      BY BareFrames
    <3> QED BY <1>1, <3>1, <3>2, ComingSent
  <2>3. CASE Unopened(r)
    BY <1>2, <2>1, <2>2, <2>3 DEF Unopened, Refused, Promised, SameName, Coming, Frames
  <2> QED BY <1>4, <1>6, <2>1, <2>3 DEF Awaits, Promised, Refused, Served
<1>8. CASE OpenTarget(r)
  <2>1. serving[r] = "opening" /\ serving'[r] = "added"
    BY <1>5, <1>8 DEF OpenTarget
  <2>2. ~tshut'[r] /\ r \in targets' /\ answering'[r]
    BY <1>1, <1>8 DEF OpenTarget, Typed, TypeOK
  <2>3. CASE Held(r) /\ Unopened(r)
    BY <1>2, <1>3, <1>8, <2>1, <2>2, <2>3, UnnoticedKept DEF Unopened, Served, Promised
  <2> QED BY <1>4, <1>6, <2>1, <2>3 DEF Awaits, Promised, Refused, Served
<1>9. CASE SendOpenOk(r)
  <2>1. serving[r] = "added" /\ serving'[r] = "reading" /\ UNCHANGED <<answering, tshut, targets>>
    BY <1>5, <1>9 DEF SendOpenOk, outside, sockets
  <2>2. \A f \in Frames(toController'[session[r]]) :
           f \in Frames(toController[session[r]]) \/ f.type = "OpenOk"
    <3>1. PICK ok : ToController(Bare("OpenOk", id[r]), ok)
      BY <1>9 DEF SendOpenOk
    <3>2. Bare("OpenOk", id[r]).type = "OpenOk"
      BY BareFrames
    <3> QED BY <1>1, <3>1, <3>2, ComingSent
  <2>3. Unnoticed(r) => Unnoticed(r)'
    BY <1>2, <2>2 DEF Unnoticed, SameName, SameReply, SameHand, Coming, Final, Frames
  <2> QED BY <1>3, <1>4, <1>6, <2>1, <2>3 DEF Awaits, Promised, Refused, Unopened, Served
<1>10. CASE LoopOrEnd(r)
  <2>1. serving[r] = "reading" /\ UNCHANGED answering
    BY <1>10 DEF LoopOrEnd, outside
  <2>2. Served(r) => serving'[r] = "receiving" /\ UNCHANGED <<targets, tshut>>
    BY <1>1, <1>5, <1>10 DEF Served, LoopOrEnd
  <2>3. Unnoticed(r) => Unnoticed(r)'
    BY <1>2, <1>10, UnnoticedKept
  <2> QED BY <1>3, <1>4, <1>6, <2>1, <2>2, <2>3 DEF Awaits, Promised, Refused, Unopened, Served
<1>11. CASE Receive(r)
  <2>1. serving[r] = "receiving"
    BY <1>11 DEF Receive
  <2>2. Served(r) => serving'[r] = "relaying" /\ UNCHANGED <<targets, tshut>>
    <3>1. Served(r) => ~tshut[r] /\ answering[r] /\ tfds[tfd[r]] = r
      BY <1>1, <2>1 DEF Served, Typed, Grounded, Owned, OwnTargets
    <3> QED BY <1>5, <1>11, <3>1 DEF Receive
  <2>3. Unnoticed(r) => Unnoticed(r)'
    BY <1>2, <1>11, UnnoticedKept
  <2> QED BY <1>3, <1>4, <1>6, <2>1, <2>2, <2>3 DEF Awaits, Promised, Refused, Unopened, Served
<1>12. CASE Relay(r)
  <2>1. serving[r] = "relaying"
    BY <1>12 DEF Relay
  <2>2. CASE Held(r) /\ Served(r)
    <3> DEFINE frame == [type |-> "Data", id |-> id[r], of |-> relay[r]]
    <3>1. PICK ok : ToController(frame, ok)
      BY <1>12 DEF Relay
    <3>2. frame.id = id[r] /\ frame.type = "Data"
      OBVIOUS
    <3> HIDE DEF frame
    <3>3. Leads(toController'[session[r]], id[r])
      BY <1>1, <2>2, <3>1, <3>2, ComingSent DEF Served, Unnoticed
    <3>4. r \notin hand'[session[r]].reqs
      BY <1>2, <2>2 DEF Served, Unnoticed
    <3>5. Sent(r)'
      <4>1. Leads(toController'[session'[r]], id'[r]) /\ r \notin hand'[session'[r]].reqs
        BY <1>2, <3>3, <3>4 DEF SameName
      <4> QED BY <4>1 DEF Sent, Leads, Final
    <3> QED BY <1>3, <2>2, <3>5 DEF Promised
  <2> QED BY <1>4, <1>6, <2>1, <2>2 DEF Awaits, Promised, Refused, Unopened
<1>13. CASE NotifyClose(r)
  <2>1. serving[r] = "notifying"
    BY <1>13 DEF NotifyClose
  <2> QED BY <1>4, <1>6, <2>1 DEF Awaits, Promised, Refused, Unopened, Served
<1> QED BY <1>7, <1>8, <1>9, <1>10, <1>11, <1>12, <1>13 DEF TargetThread

-----------------------------------------------------------------------------
(* Clients and targets, what goes wrong, and a client that has just been    *)
(* given its session.                                                       *)

LEMMA OutsideAwaits ==
    ASSUME Ordered, NEW r, Awaits(r), Outside, link'[session[r]]
    PROVE  Promised(r)'
<1>1. r \in Requests /\ r \in Given /\ Typed /\ Placed /\ session[r] \in Sessions /\ conn = session[r]
  BY AwaitsFacts DEF Ordered, Paired, Awaits
<1>2. ~Break /\ ~ControllerEnds /\ ~AgentEnds
  BY <1>1 DEF Break, ControllerEnds, AgentEnds, Typed, TypeOK
<1>3. ASSUME UNCHANGED <<proxy, clients, controller, channel, agent, serve, sockets, answering>>
             \/ UNCHANGED <<proxy, clients, controller, channel, conn, connected, targets, task,
                            serve, sockets, answering>>
      PROVE  Promised(r)'
  <2>1. UNCHANGED <<session, id, pc, flags, shut, streams, serving, answering, tshut, targets,
                    toAgent, toController, task, hand>>
    BY <1>3 DEF proxy, clients, controller, channel, agent, serve, sockets
  <2> QED BY <2>1, StillSame, QuietKept DEF Awaits
<1>4. ASSUME NEW q \in Requests, Accept(q) PROVE Promised(r)'
  <2>1. q # r
    BY <1>1, <1>4 DEF Accept, Placed, Waiting
  <2>2. pc'[r] = pc[r] /\ (shut'[r] <=> shut[r]) /\ UNCHANGED <<flags, streams>>
    BY <1>1, <1>4, <2>1 DEF Accept, Goto, controller, Typed, TypeOK
  <2>3. SameThread(r)
    BY <2>2 DEF SameThread
  <2>4. UNCHANGED <<session, id, serving, answering, tshut, targets, toAgent, toController, task, hand>>
    BY <1>4 DEF Accept, controller, channel, agent, serve, sockets
  <2> QED BY <2>3, <2>4, StillSame, QuietKept DEF Awaits
<1>5. ASSUME NEW q \in Requests, ClientLeaves(q) \/ TargetEnds(q) PROVE Promised(r)'
  BY <1>3, <1>5 DEF ClientLeaves, TargetEnds
<1>6. ASSUME StartController \/ StartAgent PROVE Promised(r)'
  <2>1. UNCHANGED <<proxy, clients, controller, channel, conn, connected, targets, task, serve, sockets>>
        /\ answering' = answering
    BY <1>6 DEF StartController, StartAgent, agent, outside
  <2> QED BY <1>3, <2>1
<1>7. ~StopController /\ ~StopAgent /\ ~ControllerPipe /\ ~AgentPipe
  BY <1>2 DEF StopController, StopAgent, ControllerPipe, AgentPipe
<1> QED BY <1>2, <1>4, <1>5, <1>6, <1>7 DEF Outside

\* An id that was given out once is not that of a new stream.
LEMMA SelectAwaits ==
    ASSUME Typed, Paired, Blank, Numbered', NEW r \in Requests, Select(r)
    PROVE  Promised(r)'
<1>1. r \notin Given /\ Placed /\ Sound
  BY DEF Paired, Placed, Waiting, Select
<1>2. PICK s \in Sessions :
         /\ session' = [session EXCEPT ![r] = s]
         /\ streams' = [streams EXCEPT ![s] = {q \in @ : id[q] # nextId} \cup {r}]
  BY DEF Select
<1>3. session'[r] = s /\ r \in streams'[s] /\ s # None
  BY <1>2 DEF Typed, TypeOK, Sessions, None
<1>4. pc[r] = "accepted" /\ pc'[r] = "registered"
  BY DEF Select, Goto, Typed, TypeOK
<1>5. UNCHANGED <<flags, shut, serving, toAgent, toController, hand, task>>
  BY DEF Select, clients, channel, agent, serve
<1>6. ASSUME NEW i, Known(i) PROVE id'[r] # i
  <2>1. PICK p \in Given : id[p] = i
    BY <1>6 DEF Known
  <2>2. p # r /\ p \in Requests /\ id'[p] = i /\ session'[p] = session[p]
    BY <1>1, <1>2, <2>1 DEF Given, Select, Typed, TypeOK
  <2>3. p \in Given' /\ r \in Given'
    BY <1>3, <2>1, <2>2 DEF Given
  <2> QED BY <2>2, <2>3 DEF Numbered
<1>7. /\ \A f \in Frames(toAgent[s]) : f.id # id'[r]
      /\ \A f \in Frames(toController[s]) : f.id # id'[r]
      /\ task.at = "reply" => task.frame.id # id'[r]
  BY <1>1, <1>6 DEF Sound, Up, Down, SoundUp, SoundDown, AtHand, SoundTask
<1>8. r \notin hand[s].reqs /\ serving[r] = "none"
  BY <1>1, <1>3 DEF Sound, Belong, Given
<1>9. flags[r] = {} /\ ~shut[r]
  BY <1>1, <1>4 DEF Blank
<1>10. Held(r)'
  BY <1>3, <1>4, <1>5, <1>7, <1>9 DEF Held, Going, Frames
<1>11. Unnoticed(r)'
  BY <1>3, <1>5, <1>7, <1>8 DEF Unnoticed, Coming, Frames
<1>12. Unopened(r)'
  BY <1>3, <1>4, <1>5, <1>7, <1>8, <1>9, <1>11 DEF Unopened, Coming, Going, Frames
<1> QED BY <1>10, <1>12 DEF Promised

\* Names are given by Select, and once.
LEMMA StepNames ==
    ASSUME Typed, Paired, Next
    PROVE  NamesOn /\ \A r \in Given' : r \in Given \/ Select(r)
<1>1. ASSUME NEW q \in Requests, Select(q) PROVE NamesOn /\ \A r \in Given' : r \in Given \/ Select(r)
  <2>1. NamesOn
    BY <1>1, SelectTame DEF Paired, Tame
  <2>2. \A r \in Requests : r # q => session'[r] = session[r]
    BY <1>1 DEF Select, Typed, TypeOK
  <2> QED BY <1>1, <2>1, <2>2 DEF Given
<1>2. CASE UNCHANGED <<session, id>>
  BY <1>2 DEF NamesOn, Given
<1>3. ASSUME NEW q \in Requests, ProxyThread(q), ~Select(q) PROVE UNCHANGED <<session, id>>
  BY <1>3 DEF ProxyThread, Reject, SendOpen, GiveUp, Refuse, Greet, SendHeader, Copy, SendClose
<1>4. ASSUME NEW q \in Requests, TargetThread(q) PROVE UNCHANGED <<session, id>>
  BY <1>4 DEF TargetThread, RefuseOpen, OpenTarget, SendOpenOk, LoopOrEnd, Receive, Relay,
              NotifyClose, proxy
<1>5. ASSUME NEW s \in Sessions, Reader(s) PROVE UNCHANGED <<session, id>>
  BY <1>5 DEF Reader, ReadFrame, WriteData, ReplyClose, StopReading, Sweep, proxy
<1>6. CASE FrameLoop \/ Connect
  BY <1>2, <1>6 DEF FrameLoop, TakeFrame, FeedTarget, SendReply, Disconnect, Connect, proxy
<1>7. CASE Outside
  BY <1>2, <1>7 DEF Outside, Accept, ClientLeaves, TargetEnds, Break, StopController, StopAgent,
                    ControllerPipe, AgentPipe, ControllerEnds, AgentEnds, StartController,
                    StartAgent, proxy
<1> QED BY <1>1, <1>2, <1>3, <1>4, <1>5, <1>6, <1>7 DEF Next

LEMMA ReaderAwaits ==
    ASSUME Ordered, NEW r, Awaits(r), NEW s \in Sessions, Reader(s), ~slipped', r \notin answered'
    PROVE  Promised(r)'
BY ReadFrameAwaits, WriteDataAwaits, ReplyCloseAwaits, ClosingAwaits DEF Reader

LEMMA StepKind ==
    ASSUME Ordered, Begun, Kind, Typed', Numbered', ~slipped', Next
    PROVE  Kind'
<1>1. Typed /\ Paired /\ Blank /\ Blank'
  BY StepBlank DEF Ordered, Paired, Kind
<1>2. NamesOn /\ \A r \in Given' : r \in Given \/ Select(r)
  BY <1>1, StepNames
<1>3. ASSUME NEW r \in Requests, Unanswered(r)' PROVE Promised(r)'
  <2>1. r \in Given'
    BY <1>3 DEF Unanswered
  <2>2. CASE r \notin Given
    BY <1>1, <1>2, <2>1, <2>2, SelectAwaits
  <2>3. CASE r \in Given
    <3>1. Awaits(r)
      BY <1>1, <1>2, <1>3, <2>3, WaitedBefore DEF Awaits, Kind
    <3>2. r \notin spurned' /\ r \notin answered' /\ link'[session[r]]
      BY <1>2, <1>3, <2>3 DEF Unanswered, NamesOn
    <3>3. ASSUME NEW q \in Requests, ProxyThread(q) PROVE Promised(r)'
      BY <3>1, <3>3, OtherProxyAwaits, OwnProxyAwaits
    <3>4. ASSUME NEW q \in Requests, TargetThread(q) PROVE Promised(r)'
      BY <3>1, <3>4, OtherTargetAwaits, OwnTargetAwaits
    <3> QED BY <3>1, <3>2, <3>3, <3>4, ReaderAwaits, AgentAwaits, OutsideAwaits DEF Next
  <2> QED BY <2>2, <2>3
<1> QED BY <1>1, <1>3 DEF Kind

-----------------------------------------------------------------------------
(* The theorem.                                                             *)

Answerable == Typed /\ Owned /\ Isolated /\ (Sane => Linked /\ Begun /\ Kind)

LEMMA StepAnswerable ==
    ASSUME IsFiniteSet(Requests), Cardinality(Requests) <= IdSpace, Answerable, [Next]_vars
    PROVE  Answerable'
<1>1. Typed /\ Typed' /\ Owned' /\ Isolated'
  BY NextOwned, StutterOwned, StepIsolated DEF Answerable
<1> SUFFICES ASSUME Sane' PROVE Linked' /\ Begun' /\ Kind'
  BY <1>1 DEF Answerable
<1>2. Sane /\ ~slipped'
  BY <1>1, NeverSane DEF Answerable, Isolated, Sane
<1>3. Ordered /\ Begun /\ Kind /\ Numbered'
  BY <1>1, <1>2 DEF Answerable, Ordered, Isolated, Paired
<1>4. CASE Next
  BY <1>2, <1>3, <1>4, <1>1, StepLinked, StepBegun, StepKind DEF Ordered, Paired
<1>5. CASE UNCHANGED vars
  <2>1. Linked' /\ Begun' /\ Blank'
    BY <1>3, <1>5 DEF Ordered, Linked, Begun, Kind, Blank, Given, vars, proxy, clients, controller, channel, agent
  <2>2. ASSUME NEW r \in Requests, Unanswered(r)' PROVE Promised(r)'
    <3>1. Unanswered(r)
      BY <1>5, <2>2 DEF Unanswered, Given, vars, proxy, channel, outside, history
    <3>2. Promised(r)
      BY <1>3, <3>1 DEF Kind
    <3> QED BY <1>5, <3>2, StillSame, QuietKept DEF vars, proxy, clients, controller, channel, agent,
               serve, sockets, outside
  <2> QED BY <2>1, <2>2 DEF Kind
<1> QED BY <1>4, <1>5

LEMMA InitAnswerable == Init => Answerable
<1> SUFFICES ASSUME Init PROVE Answerable
  OBVIOUS
<1>1. Given = {} /\ \A s \in Sessions : ~link[s]
  BY DEF Init, Given
<1>2. Linked /\ Begun /\ Kind
  BY <1>1 DEF Init, Linked, Begun, Kind, Blank, Unanswered
<1> QED BY <1>2, InitOwned, InitIsolated DEF Answerable

\* With no more clients than stream ids, and while the controller is not
\* restarted: once read_loop (tunnel/main.cpp) has marked a tunnel opened, no
\* interleaving of the proxy thread, the reader of the session, the frame loop
\* and the target reader (agent/main.cpp) closes it ahead of the answer of its
\* target, if the client stays, the session holds and the target takes what it
\* is sent.
THEOREM AnswersReachClients ==
    ASSUME IsFiniteSet(Requests), Cardinality(Requests) <= IdSpace
    PROVE  Spec => []AnswersArrive
<1>1. Answerable /\ [Next]_vars => Answerable'
  BY StepAnswerable
<1>2. Answerable => AnswersArrive
  <2> SUFFICES ASSUME Answerable, NEW r \in Answering, shut[r], ~left[r], Sane, session[r] # None,
                      link[session[r]], Granted(r), r \notin spurned
               PROVE  r \in answered
    BY DEF AnswersArrive, Sane
  <2>1. r \in Requests /\ r \in Given
    BY RequestsAssumption DEF Given
  <2>2. Unanswered(r) => Promised(r)
    BY <2>1 DEF Answerable, Kind
  <2>3. ~Promised(r)
    BY DEF Promised, Refused, GivenUp, Held, Granted
  <2> QED BY <2>1, <2>2, <2>3 DEF Unanswered, Granted
<1> QED BY <1>1, <1>2, InitAnswerable, PTL DEF Spec
=============================================================================
