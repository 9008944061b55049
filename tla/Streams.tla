------------------------------ MODULE Streams ------------------------------
(***************************************************************************)
(* Proxy clients and private targets, joined through one agent: the proxy  *)
(* threads and session readers of the controller, the frame loop, opening  *)
(* threads and target readers of the agent, and the frames between them.   *)
(*                                                                         *)
(* A request is one proxy client and names a target of its own; the        *)
(* connection the agent makes for its Open frame carries its name as well. *)
(* Bytes are known by the request whose client or target wrote them; each  *)
(* end writes one chunk.  Sockets are descriptor numbers: a process gives  *)
(* the lowest free one to the next connection, and a thread that still     *)
(* holds the number of a closed one uses the new.  How sessions are set    *)
(* up, replaced and chosen is AgentSessions; here there is one agent.      *)
(***************************************************************************)
EXTENDS Integers, Sequences

CONSTANTS
    Requests,        \* proxy clients
    NoRequest,       \* no request: a free descriptor, a frame without bytes
    Tunnelled,       \* the requests with CONNECT; the others are plain HTTP
    Asking,          \* the requests whose client sends bytes after the header
    Answering,       \* the requests whose target sends bytes and may close;
                     \*   the other targets are silent
    MaxClients,      \* bound: clients the controller has descriptors for
    MaxTargets,      \* bound: targets the agent has descriptors for
    IdSpace,         \* number of stream ids, 2^32 in the code
    Capacity,        \* bound: frames the sockets of a session hold one way
    MaxSessions,     \* bound: control connections
    Disturbances,    \* the kinds of outside interference allowed
    MaxDisturbances  \* bound: how many of them happen

DisturbanceKinds == {"link", "stop", "pipe"}

ASSUME NoRequestAssumption == NoRequest \notin Requests
ASSUME RequestsAssumption ==
    Tunnelled \subseteq Requests /\ Asking \subseteq Requests /\ Answering \subseteq Requests
ASSUME DisturbancesAssumption == Disturbances \subseteq DisturbanceKinds
ASSUME BoundsAssumption ==
    /\ MaxClients \in Nat
    /\ MaxTargets \in Nat
    /\ IdSpace \in Nat \ {0, 1}
    /\ Capacity \in Nat \ {0}
    /\ MaxSessions \in Nat
    /\ MaxDisturbances \in Nat

Fds == 1..MaxClients
TargetFds == 1..MaxTargets
Sessions == 1..MaxSessions
None == 0

VARIABLES
    up,           \* whether the controller runs
    starts,       \* how often it was started
    nextId,       \* Controller::next_stream_id_
    pc,           \* what a proxy thread does next
    session,      \* the session a request was given
    id,           \* ProxyStream::id
    fd,           \* ProxyStream::client
    shut,         \* ProxyStream::client_closed, or no client yet
    flags,        \* which of opened, closed and error are set
    fds,          \* the client a descriptor of the controller belongs to
    streams,      \* AgentSession::streams_
    alive,        \* AgentSession::alive_
    hand,         \* what the reader of a session is in the middle of
    sessions,     \* number of control connections so far
    link,         \* whether a control connection still carries bytes
    toAgent,      \* frames under way to the agent
    toController, \* frames under way to the controller
    agentUp,      \* whether the agent runs
    conn,         \* the session of the agent's channel_
    connected,    \* Agent::connected_
    serving,      \* what the agent's threads of a request do next
    relay,        \* the bytes a target reader is about to send
    tfd,          \* TargetStream::target
    tshut,        \* TargetStream::closed, or no target yet
    tfds,         \* the target a descriptor of the agent belongs to
    targets,      \* Agent::streams_
    task,         \* what the agent's frame loop is in the middle of
    left,         \* clients that have closed their end
    ended,        \* targets that have closed their end
    asking,       \* clients whose chunk is not read yet
    answering,    \* targets whose chunk is not read yet
    answered,     \* clients that have received the bytes of their target
    spurned,      \* streams whose target the agent could not write to
    slipped,      \* whether a thread has used a descriptor of someone else
    disturbed     \* number of disturbances so far

process == <<up, starts, nextId>>
proxy == <<pc, session, id, flags>>
clients == <<fd, shut, fds>>
controller == <<streams, alive, hand>>
channel == <<sessions, link, toAgent, toController>>
agent == <<agentUp, conn, connected, targets, task>>
serve == <<serving, relay>>
sockets == <<tfd, tshut, tfds>>
outside == <<left, ended, asking, answering>>
history == <<answered, spurned, slipped>>
vars == <<process, proxy, clients, controller, channel, agent, serve, sockets,
          outside, history, disturbed>>

ProxyStep == {"absent", "accepted", "registered", "waiting", "copying", "ending",
              "refusing", "over"}
ReaderStep == {"unused", "reading", "write", "reply", "sweep", "over"}
ServingStep == {"none", "opening", "added", "reading", "receiving", "relaying",
                "notifying", "over"}
Flag == {"opened", "closed", "error"}
Frame == [type : {"Open", "OpenOk", "Data", "Close", "Error"},
          id : Nat, of : Requests \cup {NoRequest}]
Hand == [at : ReaderStep, reqs : SUBSET Requests, of : Requests \cup {NoRequest}]
Task == [at : {"idle", "write", "reply"}, req : Requests \cup {NoRequest}, frame : Frame]

TypeOK ==
    /\ up \in BOOLEAN /\ starts \in Nat /\ nextId \in Nat
    /\ pc \in [Requests -> ProxyStep]
    /\ session \in [Requests -> Sessions \cup {None}]
    /\ id \in [Requests -> Nat]
    /\ fd \in [Requests -> Fds \cup {None}]
    /\ shut \in [Requests -> BOOLEAN]
    /\ flags \in [Requests -> SUBSET Flag]
    /\ fds \in [Fds -> Requests \cup {NoRequest}]
    /\ streams \in [Sessions -> SUBSET Requests]
    /\ alive \in [Sessions -> BOOLEAN]
    /\ hand \in [Sessions -> Hand]
    /\ sessions \in Nat
    /\ link \in [Sessions -> BOOLEAN]
    /\ toAgent \in [Sessions -> Seq(Frame)]
    /\ toController \in [Sessions -> Seq(Frame)]
    /\ agentUp \in BOOLEAN /\ connected \in BOOLEAN
    /\ conn \in Sessions \cup {None}
    /\ serving \in [Requests -> ServingStep]
    /\ relay \in [Requests -> Requests \cup {NoRequest}]
    /\ tfd \in [Requests -> TargetFds \cup {None}]
    /\ tshut \in [Requests -> BOOLEAN]
    /\ tfds \in [TargetFds -> Requests \cup {NoRequest}]
    /\ targets \in SUBSET Requests
    /\ task \in Task
    /\ left \in [Requests -> BOOLEAN] /\ ended \in [Requests -> BOOLEAN]
    /\ asking \in [Requests -> BOOLEAN] /\ answering \in [Requests -> BOOLEAN]
    /\ answered \in SUBSET Requests
    /\ spurned \in SUBSET Requests
    /\ slipped \in BOOLEAN
    /\ disturbed \in Nat

Bare(type, i) == [type |-> type, id |-> i, of |-> NoRequest]
Idle == [at |-> "idle", req |-> NoRequest, frame |-> Bare("Close", 0)]
Reply(frame) == [at |-> "reply", req |-> NoRequest, frame |-> frame]
Holding(step, rs, bytes) == [at |-> step, reqs |-> rs, of |-> bytes]

Init ==
    /\ up = TRUE /\ starts = 1 /\ nextId = 1
    /\ pc = [r \in Requests |-> "absent"]
    /\ session = [r \in Requests |-> None]
    /\ id = [r \in Requests |-> 0]
    /\ fd = [r \in Requests |-> None]
    /\ shut = [r \in Requests |-> TRUE]
    /\ flags = [r \in Requests |-> {}]
    /\ fds = [d \in Fds |-> NoRequest]
    /\ streams = [s \in Sessions |-> {}]
    /\ alive = [s \in Sessions |-> FALSE]
    /\ hand = [s \in Sessions |-> Holding("unused", {}, NoRequest)]
    /\ sessions = 0
    /\ link = [s \in Sessions |-> FALSE]
    /\ toAgent = [s \in Sessions |-> <<>>]
    /\ toController = [s \in Sessions |-> <<>>]
    /\ agentUp = TRUE /\ connected = FALSE /\ conn = None
    /\ serving = [r \in Requests |-> "none"]
    /\ relay = [r \in Requests |-> NoRequest]
    /\ tfd = [r \in Requests |-> None]
    /\ tshut = [r \in Requests |-> TRUE]
    /\ tfds = [d \in TargetFds |-> NoRequest]
    /\ targets = {}
    /\ task = Idle
    /\ left = [r \in Requests |-> FALSE] /\ ended = [r \in Requests |-> FALSE]
    /\ asking = [r \in Requests |-> FALSE] /\ answering = [r \in Requests |-> FALSE]
    /\ answered = {}
    /\ spurned = {}
    /\ slipped = FALSE
    /\ disturbed = 0

Goto(r, step) == pc' = [pc EXCEPT ![r] = step]

-----------------------------------------------------------------------------
(* Sockets and frames.                                                      *)

LowestFree(d, table) ==
    table[d] = NoRequest /\ \A e \in DOMAIN table : table[e] = NoRequest => d <= e

\* Bug: close_proxy_client without the exchange of client_closed.
CloseClientsAgain(rs) ==
    /\ shut' = [r \in Requests |-> shut[r] \/ r \in rs]
    /\ fds' = [d \in Fds |-> IF \E r \in rs : fd[r] = d THEN NoRequest ELSE fds[d]]
    /\ UNCHANGED fd

\* close_proxy_client: only the first caller closes the descriptor.
CloseClients(rs) ==
    /\ shut' = [r \in Requests |-> shut[r] \/ r \in rs]
    /\ fds' = [d \in Fds |-> IF \E r \in rs : ~shut[r] /\ fd[r] = d THEN NoRequest ELSE fds[d]]
    /\ UNCHANGED fd

\* send_all to a client: the bytes go where the number points by now.  What
\* is written to a client that has left is lost, or the failure shows.
WriteClient(r, bytes, ok) ==
    LET q == fds[fd[r]] IN
    \/ /\ ok /\ q # NoRequest
       /\ answered' = IF left[q] THEN answered ELSE answered \cup ({q} \cap bytes)
       /\ slipped' = (slipped \/ q # r)
       /\ UNCHANGED spurned
    \/ /\ ~ok
       /\ q # NoRequest => left[q]
       /\ UNCHANGED history

WriteTarget(r, ok) ==
    LET q == tfds[tfd[r]] IN
    \/ /\ ok /\ q # NoRequest
       /\ slipped' = (slipped \/ q # r)
       /\ UNCHANGED <<answered, spurned>>
    \/ /\ ~ok
       /\ q # NoRequest => ended[q]
       /\ spurned' = spurned \cup {r}
       /\ UNCHANGED <<answered, slipped>>

\* AgentSession::send: it blocks while the sockets are full, and fails once the
\* connection is broken.  A frame that is accepted and lost is one that was
\* sent just before Break.
ToAgent(s, frame, ok) ==
    \/ /\ ok /\ alive[s] /\ link[s] /\ Len(toAgent[s]) < Capacity
       /\ toAgent' = [toAgent EXCEPT ![s] = Append(@, frame)]
       /\ UNCHANGED alive
    \/ /\ ~ok /\ (alive[s] => ~link[s])
       /\ alive' = [alive EXCEPT ![s] = FALSE]
       /\ UNCHANGED toAgent

\* Agent::send, over the channel_ of the moment.
ToController(frame, ok) ==
    \/ /\ ok /\ conn # None /\ link[conn] /\ Len(toController[conn]) < Capacity
       /\ toController' = [toController EXCEPT ![conn] = Append(@, frame)]
       /\ UNCHANGED connected
    \/ /\ ~ok /\ (conn # None => ~link[conn])
       /\ connected' = FALSE
       /\ UNCHANGED toController

\* unregister_stream: the map has one stream per id.
Unregistered(s, r) == {q \in streams[s] : id[q] # id[r]}

Leave(r) ==
    /\ streams' = [streams EXCEPT ![session[r]] = Unregistered(session[r], r)]
    /\ CloseClients({r})
    /\ Goto(r, "over")

-----------------------------------------------------------------------------
(* Proxy threads of the controller.                                         *)

Accept(r) ==
    /\ up /\ pc[r] = "absent"
    /\ Goto(r, "accepted")
    /\ \E d \in Fds :
         /\ LowestFree(d, fds)
         /\ fd' = [fd EXCEPT ![r] = d]
         /\ fds' = [fds EXCEPT ![d] = r]
    /\ shut' = [shut EXCEPT ![r] = FALSE]
    /\ asking' = [asking EXCEPT ![r] = r \in Asking]
    /\ UNCHANGED <<process, session, id, flags, controller, channel, agent,
                   serve, sockets, left, ended, answering, history, disturbed>>

\* No header, a request that does not parse (400), or no agent (503).
Reject(r) ==
    /\ pc[r] = "accepted"
    /\ Goto(r, "over")
    /\ CloseClients({r})
    /\ UNCHANGED <<process, session, id, flags, controller, channel, agent,
                   serve, sockets, outside, history, disturbed>>

\* Bugs: a signed number, and a number that is read and not counted on.
NextIdSigned == IF nextId + 1 >= IdSpace \div 2 THEN -(IdSpace \div 2) ELSE nextId + 1
NextIdStuck == nextId

NextId == (nextId + 1) % IdSpace

\* select_agent, the id and register_stream.
Select(r) ==
    /\ pc[r] = "accepted"
    /\ \E s \in Sessions :
         /\ s = sessions /\ alive[s]
         /\ session' = [session EXCEPT ![r] = s]
         /\ streams' = [streams EXCEPT ![s] = {q \in @ : id[q] # nextId} \cup {r}]
    /\ id' = [id EXCEPT ![r] = nextId]
    /\ nextId' = NextId
    /\ Goto(r, "registered")
    /\ UNCHANGED <<up, starts, flags, clients, alive, hand, channel, agent, serve, sockets,
                   outside, history, disturbed>>

\* A failed send unregisters, answers 502 and closes.
SendOpen(r) ==
    /\ pc[r] = "registered"
    /\ \E ok \in BOOLEAN :
         /\ ToAgent(session[r], [type |-> "Open", id |-> id[r], of |-> r], ok)
         /\ Goto(r, IF ok THEN "waiting" ELSE "refusing")
         /\ streams' = IF ok THEN streams
                       ELSE [streams EXCEPT ![session[r]] = Unregistered(session[r], r)]
    /\ UNCHANGED <<process, session, id, flags, clients, hand, sessions, link,
                   toController, agent, serve, sockets, outside, history, disturbed>>

Granted(r) == "opened" \in flags[r] /\ "error" \notin flags[r]

\* The agent refused, the stream was closed, or nothing came for 10 s.
GiveUp(r) ==
    /\ pc[r] = "waiting" /\ ~Granted(r)
    /\ streams' = [streams EXCEPT ![session[r]] = Unregistered(session[r], r)]
    /\ Goto(r, "refusing")
    /\ UNCHANGED <<process, session, id, flags, clients, alive, hand, channel,
                   agent, serve, sockets, outside, history, disturbed>>

\* The 502, whatever becomes of it, and the end.
Refuse(r) ==
    /\ pc[r] = "refusing"
    /\ \E ok \in BOOLEAN : WriteClient(r, {}, ok)
    /\ CloseClients({r})
    /\ Goto(r, "over")
    /\ UNCHANGED <<process, session, id, flags, controller, channel, agent, serve,
                   sockets, outside, disturbed>>

\* The agent has opened the stream: a CONNECT is answered with 200.
Greet(r) ==
    /\ pc[r] = "waiting" /\ Granted(r) /\ r \in Tunnelled
    /\ \E ok \in BOOLEAN :
         /\ WriteClient(r, {}, ok)
         /\ Goto(r, IF ok THEN "copying" ELSE "ending")
    /\ UNCHANGED <<process, session, id, flags, clients, controller, channel, agent, serve,
                   sockets, outside, disturbed>>

\* For the others the header goes on, with what was read behind it; when that
\* fails the thread leaves without a Close frame.
SendHeader(r) ==
    /\ pc[r] = "waiting" /\ Granted(r) /\ r \notin Tunnelled
    /\ \/ /\ ToAgent(session[r], [type |-> "Data", id |-> id[r], of |-> r], TRUE)
          /\ Goto(r, "copying")
          /\ UNCHANGED <<streams, clients>>
       \/ /\ ToAgent(session[r], [type |-> "Data", id |-> id[r], of |-> r], FALSE)
          /\ Leave(r)
    /\ UNCHANGED <<process, session, id, flags, hand, sessions, link, toController, agent,
                   serve, sockets, outside, history, disturbed>>

\* Bug: the descriptor is closed but not shut down first, so nobody wakes up.
HungUpNotWoken(r) == ~shut[r] /\ ~asking[r] /\ left[r]

\* recv returns 0 or fails.
HungUp(r) == shut[r] \/ (~asking[r] /\ left[r])

\* The copying loop: bytes from the client, its end, or a failure.
Copy(r) ==
    LET q == fds[fd[r]] IN
    /\ pc[r] = "copying"
    /\ \/ /\ q # NoRequest /\ asking[q]
          /\ asking' = [asking EXCEPT ![q] = FALSE]
          /\ slipped' = (slipped \/ q # r)
          /\ \E ok \in BOOLEAN :
               /\ ToAgent(session[r], [type |-> "Data", id |-> id[r], of |-> q], ok)
               /\ Goto(r, IF ok THEN "copying" ELSE "ending")
       \/ /\ HungUp(r)
          /\ Goto(r, "ending")
          /\ UNCHANGED <<alive, toAgent, asking, slipped>>
    /\ UNCHANGED <<process, session, id, flags, clients, streams, hand, sessions, link,
                   toController, agent, serve, sockets, left, ended, answering, answered, spurned, disturbed>>

\* Bug: the thread forgets to tell the agent.
SendCloseForgotten(r) ==
    /\ pc[r] = "ending"
    /\ Leave(r)
    /\ UNCHANGED <<process, session, id, flags, hand, alive, channel, agent,
                   serve, sockets, outside, history, disturbed>>

\* The Close frame, whatever becomes of it, and the end.
SendClose(r) ==
    /\ pc[r] = "ending"
    /\ \E ok \in BOOLEAN : ToAgent(session[r], Bare("Close", id[r]), ok)
    /\ Leave(r)
    /\ UNCHANGED <<process, session, id, flags, hand, sessions, link, toController, agent,
                   serve, sockets, outside, history, disturbed>>

-----------------------------------------------------------------------------
(* The reader of a session: AgentSession::read_loop.                        *)

Found(s, i) == {r \in streams[s] : id[r] = i}

\* Close closes the client, Error only once the stream is open.
Closing(f, rs) ==
    f.type = "Close" \/ (f.type = "Error" /\ \E r \in rs : "opened" \in flags[r])

\* One frame; a frame of an unknown stream is dropped.  Close unregisters the
\* stream, Error does not; Data is at hand until it is written.
ReadFrame(s) ==
    /\ hand[s].at = "reading" /\ alive[s] /\ toController[s] # <<>>
    /\ LET f == Head(toController[s])
           rs == Found(s, f.id)
       IN /\ flags' = [r \in Requests |->
                         IF r \notin rs THEN flags[r]
                         ELSE flags[r] \cup CASE f.type = "OpenOk" -> {"opened"}
                                              [] f.type = "Error" -> {"error", "closed"}
                                              [] f.type = "Close" -> {"closed"}
                                              [] OTHER -> {}]
          /\ hand' = IF rs # {} /\ f.type = "Data"
                     THEN [hand EXCEPT ![s] = Holding("write", rs, f.of)] ELSE hand
          /\ streams' = IF f.type = "Close" THEN [streams EXCEPT ![s] = @ \ rs] ELSE streams
          /\ CloseClients(IF Closing(f, rs) THEN rs ELSE {})
    /\ toController' = [toController EXCEPT ![s] = Tail(@)]
    /\ UNCHANGED <<process, pc, session, id, alive, sessions, link, toAgent, agent, serve,
                   sockets, outside, history, disturbed>>

WriteData(s) ==
    /\ hand[s].at = "write"
    /\ \E r \in hand[s].reqs, ok \in BOOLEAN :
         /\ WriteClient(r, {hand[s].of}, ok)
         /\ hand' = [hand EXCEPT ![s] = IF ok THEN Holding("reading", {}, NoRequest)
                                        ELSE Holding("reply", {r}, NoRequest)]
    /\ UNCHANGED <<process, proxy, clients, streams, alive, channel, agent, serve,
                   sockets, outside, disturbed>>

\* The client cannot be written to: Close goes to the agent, and it is the end.
ReplyClose(s) ==
    /\ hand[s].at = "reply"
    /\ \E r \in hand[s].reqs :
         /\ \E ok \in BOOLEAN : ToAgent(s, Bare("Close", id[r]), ok)
         /\ streams' = [streams EXCEPT ![s] = Unregistered(s, r)]
         /\ CloseClients({r})
    /\ hand' = [hand EXCEPT ![s] = Holding("reading", {}, NoRequest)]
    /\ UNCHANGED <<process, proxy, sessions, link, toController, agent, serve, sockets,
                   outside, history, disturbed>>

\* recv_frame fails or the session was closed: close_all_streams marks every
\* stream, then closes the clients.
StopReading(s) ==
    /\ hand[s].at = "reading"
    /\ alive[s] => ~link[s] /\ toController[s] = <<>>
    /\ alive' = [alive EXCEPT ![s] = FALSE]
    /\ flags' = [r \in Requests |->
                   IF r \in streams[s] THEN flags[r] \cup {"error", "closed"} ELSE flags[r]]
    /\ hand' = [hand EXCEPT ![s] = Holding("sweep", streams[s], NoRequest)]
    /\ streams' = [streams EXCEPT ![s] = {}]
    /\ UNCHANGED <<process, pc, session, id, clients, channel, agent, serve,
                   sockets, outside, history, disturbed>>

Sweep(s) ==
    /\ hand[s].at = "sweep"
    /\ CloseClients(hand[s].reqs)
    /\ hand' = [hand EXCEPT ![s] = Holding("over", {}, NoRequest)]
    /\ UNCHANGED <<process, proxy, streams, alive, channel, agent, serve, sockets, outside,
                   history, disturbed>>

-----------------------------------------------------------------------------
(* The agent.                                                               *)

\* Agent::find_stream, for a stream whose closed is not set.
Live(i) == {r \in targets : id[r] = i /\ ~tshut[r]}

\* The part of handle_close that comes before the Close frame; as above, only
\* the first caller closes the descriptor.
CloseTargets(rs) ==
    /\ tshut' = [r \in Requests |-> tshut[r] \/ r \in rs]
    /\ tfds' = [d \in TargetFds |->
                  IF \E r \in rs : ~tshut[r] /\ tfd[r] = d THEN NoRequest ELSE tfds[d]]
    /\ targets' = targets \ rs

\* A new session; the controller closes the one it had (existing->close()).
Connect ==
    /\ up /\ agentUp /\ conn = None /\ sessions < MaxSessions
    /\ sessions' = sessions + 1
    /\ conn' = sessions'
    /\ connected' = TRUE
    /\ alive' = [s \in Sessions |-> s = sessions']
    /\ link' = [s \in Sessions |-> s = sessions']
    /\ hand' = [hand EXCEPT ![sessions'] = Holding("reading", {}, NoRequest)]
    /\ UNCHANGED <<process, proxy, clients, streams, toAgent, toController, agentUp, targets,
                   task, serve, sockets, outside, history, disturbed>>

\* session_loop, one frame: an Open gets a thread, a Close ends its target.
TakeFrame ==
    /\ conn # None /\ connected /\ task = Idle /\ toAgent[conn] # <<>>
    /\ toAgent' = [toAgent EXCEPT ![conn] = Tail(@)]
    /\ LET f == Head(toAgent[conn]) IN
       \/ /\ f.type = "Open"
          /\ serving' = [serving EXCEPT ![f.of] = "opening"]
          /\ UNCHANGED <<task, targets, tshut, tfds>>
       \/ /\ f.type = "Data"
          /\ \/ \E r \in Live(f.id) : task' = [at |-> "write", req |-> r, frame |-> f]
             \/ Live(f.id) = {} /\ task' = Reply(Bare("Error", f.id))
          /\ UNCHANGED <<serving, targets, tshut, tfds>>
       \/ /\ f.type = "Close"
          /\ \/ \E r \in Live(f.id) :
                  CloseTargets({r}) /\ task' = Reply(Bare("Close", f.id))
             \/ Live(f.id) = {} /\ UNCHANGED <<task, targets, tshut, tfds>>
          /\ UNCHANGED serving
    /\ UNCHANGED <<process, proxy, clients, controller, sessions, link, toController, agentUp,
                   conn, connected, relay, tfd, outside, history, disturbed>>

\* The rest of handle_data; a failed write is handle_close.
FeedTarget ==
    /\ task.at = "write"
    /\ \E ok \in BOOLEAN :
         /\ WriteTarget(task.req, ok)
         /\ \/ ok /\ task' = Idle /\ UNCHANGED <<targets, tshut, tfds>>
            \/ ~ok /\ Live(task.frame.id) = {} /\ task' = Idle /\ UNCHANGED <<targets, tshut, tfds>>
            \/ /\ ~ok
               /\ \E r \in Live(task.frame.id) :
                    CloseTargets({r}) /\ task' = Reply(Bare("Close", task.frame.id))
    /\ UNCHANGED <<process, proxy, clients, controller, channel, agentUp, conn, connected,
                   serve, tfd, outside, disturbed>>

SendReply ==
    /\ task.at = "reply"
    /\ \E ok \in BOOLEAN : ToController(task.frame, ok)
    /\ task' = Idle
    /\ UNCHANGED <<process, proxy, clients, controller, sessions, link, toAgent, agentUp,
                   conn, targets, serve, sockets, outside, history, disturbed>>

\* The loop ends: close_all_streams, then the channel is gone until Connect.
Disconnect ==
    /\ conn # None /\ task = Idle
    /\ connected => ~link[conn] /\ toAgent[conn] = <<>>
    /\ conn' = None /\ connected' = FALSE
    /\ link' = [link EXCEPT ![conn] = FALSE]
    /\ CloseTargets(targets)
    /\ UNCHANGED <<process, proxy, clients, controller, sessions, toAgent, toController,
                   agentUp, task, serve, tfd, outside, history, disturbed>>

Serve(r, step) == serving' = [serving EXCEPT ![r] = step]

\* handle_open, in a thread of its own that may outlive its session: the target
\* is not allowed or cannot be reached.
RefuseOpen(r) ==
    /\ serving[r] = "opening"
    /\ \E ok \in BOOLEAN : ToController(Bare("Error", id[r]), ok)
    /\ Serve(r, "over")
    /\ UNCHANGED <<process, proxy, clients, controller, sessions, link, toAgent, agentUp,
                   conn, targets, task, relay, sockets, outside, history, disturbed>>

\* The target is connected and added under the id of its Open frame.
OpenTarget(r) ==
    /\ serving[r] = "opening"
    /\ \E d \in TargetFds :
         /\ LowestFree(d, tfds)
         /\ tfd' = [tfd EXCEPT ![r] = d]
         /\ tfds' = [tfds EXCEPT ![d] = r]
    /\ tshut' = [tshut EXCEPT ![r] = FALSE]
    /\ targets' = {q \in targets : id[q] # id[r]} \cup {r}
    /\ answering' = [answering EXCEPT ![r] = r \in Answering]
    /\ Serve(r, "added")
    /\ UNCHANGED <<process, proxy, clients, controller, channel, agentUp, conn, connected,
                   task, relay, left, ended, asking, history, disturbed>>

SendOpenOk(r) ==
    /\ serving[r] = "added"
    /\ \E ok \in BOOLEAN : ToController(Bare("OpenOk", id[r]), ok)
    /\ Serve(r, "reading")
    /\ UNCHANGED <<process, proxy, clients, controller, sessions, link, toAgent, agentUp,
                   conn, targets, task, relay, sockets, outside, history, disturbed>>

\* target_reader: the loop's condition, then recv_some, then a Data frame.
\* When it ends, handle_close closes whatever the id names by now.
EndTarget(r) ==
    \/ \E q \in Live(id[r]) : CloseTargets({q}) /\ Serve(r, "notifying")
    \/ Live(id[r]) = {} /\ Serve(r, "over") /\ UNCHANGED <<targets, tshut, tfds>>

LoopOrEnd(r) ==
    /\ serving[r] = "reading"
    /\ \/ /\ ~tshut[r] /\ connected
          /\ Serve(r, "receiving")
          /\ UNCHANGED <<targets, tshut, tfds>>
       \/ (tshut[r] \/ ~connected) /\ EndTarget(r)
    /\ UNCHANGED <<process, proxy, clients, controller, channel, agentUp, conn, connected,
                   task, relay, tfd, outside, history, disturbed>>

Receive(r) ==
    LET q == tfds[tfd[r]] IN
    /\ serving[r] = "receiving"
    /\ \/ /\ q # NoRequest /\ answering[q]
          /\ answering' = [answering EXCEPT ![q] = FALSE]
          /\ relay' = [relay EXCEPT ![r] = q]
          /\ slipped' = (slipped \/ q # r)
          /\ Serve(r, "relaying")
          /\ UNCHANGED <<targets, tshut, tfds>>
       \/ /\ tshut[r] \/ (q # NoRequest /\ ~answering[q] /\ ended[q])
          /\ EndTarget(r)
          /\ UNCHANGED <<answering, relay, slipped>>
    /\ UNCHANGED <<process, proxy, clients, controller, channel, agentUp, conn, connected,
                   task, tfd, left, ended, asking, answered, spurned, disturbed>>

\* Bug: the frame is built and never sent.
RelayUnsent(r) ==
    /\ serving[r] = "relaying"
    /\ Serve(r, "reading")
    /\ relay' = [relay EXCEPT ![r] = NoRequest]
    /\ UNCHANGED <<process, proxy, clients, controller, channel, agent, sockets, outside,
                   history, disturbed>>

Relay(r) ==
    /\ serving[r] = "relaying"
    /\ \E ok \in BOOLEAN :
         /\ ToController([type |-> "Data", id |-> id[r], of |-> relay[r]], ok)
         /\ \/ ok /\ Serve(r, "reading") /\ UNCHANGED <<targets, tshut, tfds>>
            \/ ~ok /\ EndTarget(r)
    /\ relay' = [relay EXCEPT ![r] = NoRequest]
    /\ UNCHANGED <<process, proxy, clients, controller, sessions, link, toAgent, agentUp,
                   conn, task, tfd, outside, history, disturbed>>

NotifyClose(r) ==
    /\ serving[r] = "notifying"
    /\ \E ok \in BOOLEAN : ToController(Bare("Close", id[r]), ok)
    /\ Serve(r, "over")
    /\ UNCHANGED <<process, proxy, clients, controller, sessions, link, toAgent, agentUp,
                   conn, targets, task, relay, sockets, outside, history, disturbed>>

-----------------------------------------------------------------------------
(* Clients and targets, and what goes wrong.                                *)

ClientLeaves(r) ==
    /\ ~shut[r] /\ ~left[r]
    /\ left' = [left EXCEPT ![r] = TRUE]
    /\ UNCHANGED <<process, proxy, clients, controller, channel, agent, serve, sockets,
                   ended, asking, answering, history, disturbed>>

TargetEnds(r) ==
    /\ r \in Answering /\ ~tshut[r] /\ ~ended[r]
    /\ ended' = [ended EXCEPT ![r] = TRUE]
    /\ UNCHANGED <<process, proxy, clients, controller, channel, agent, serve, sockets,
                   left, asking, answering, history, disturbed>>

Disturb(kind) ==
    /\ kind \in Disturbances
    /\ disturbed < MaxDisturbances
    /\ disturbed' = disturbed + 1

\* The control connection breaks; what is under way arrives or is lost.
Break ==
    /\ Disturb("link")
    /\ conn # None /\ link[conn]
    /\ link' = [link EXCEPT ![conn] = FALSE]
    /\ \/ UNCHANGED <<toAgent, toController>>
       \/ /\ toAgent' = [toAgent EXCEPT ![conn] = <<>>]
          /\ toController' = [toController EXCEPT ![conn] = <<>>]
    /\ UNCHANGED <<process, proxy, clients, controller, sessions, agent, serve, sockets,
                   outside, history>>

ControllerEnds ==
    /\ up /\ up' = FALSE
    /\ pc' = [r \in Requests |-> IF pc[r] = "absent" THEN "absent" ELSE "over"]
    /\ flags' = [r \in Requests |-> {}]
    /\ shut' = [r \in Requests |-> TRUE]
    /\ fds' = [d \in Fds |-> NoRequest]
    /\ streams' = [s \in Sessions |-> {}]
    /\ alive' = [s \in Sessions |-> FALSE]
    /\ hand' = [s \in Sessions |-> Holding(IF hand[s].at = "unused" THEN "unused" ELSE "over",
                                           {}, NoRequest)]
    /\ link' = [s \in Sessions |-> FALSE]
    /\ toController' = [s \in Sessions |-> <<>>]
    /\ UNCHANGED <<starts, nextId, session, id, fd, sessions, toAgent, agent, serve, sockets,
                   outside, history>>

AgentEnds ==
    /\ agentUp /\ agentUp' = FALSE
    /\ conn' = None /\ connected' = FALSE /\ targets' = {} /\ task' = Idle
    /\ serving' = [r \in Requests |-> IF serving[r] = "none" THEN "none" ELSE "over"]
    /\ relay' = [r \in Requests |-> NoRequest]
    /\ tshut' = [r \in Requests |-> TRUE]
    /\ tfds' = [d \in TargetFds |-> NoRequest]
    /\ link' = [s \in Sessions |-> FALSE]
    /\ toAgent' = [s \in Sessions |-> <<>>]
    /\ UNCHANGED <<process, proxy, clients, controller, tfd, sessions, toController,
                   outside, history>>

StopController == Disturb("stop") /\ ControllerEnds
StopAgent == Disturb("stop") /\ AgentEnds

\* send() without MSG_NOSIGNAL, and nobody ignores SIGPIPE: a write to a peer
\* that has closed may end the process.
ControllerPipe ==
    /\ Disturb("pipe")
    /\ \/ \E r \in Requests :
            /\ pc[r] = "refusing" \/ (pc[r] = "waiting" /\ Granted(r) /\ r \in Tunnelled)
               \/ \E s \in Sessions : hand[s].at = "write" /\ r \in hand[s].reqs
            /\ fds[fd[r]] # NoRequest /\ left[fds[fd[r]]]
       \/ \E s \in Sessions :
            /\ alive[s] /\ ~link[s]
            /\ \/ hand[s].at = "reply"
               \/ \E r \in Requests :
                    /\ session[r] = s
                    /\ \/ pc[r] \in {"registered", "ending"}
                       \/ pc[r] = "copying" /\ asking[r]
                       \/ pc[r] = "waiting" /\ Granted(r) /\ r \notin Tunnelled
    /\ ControllerEnds

AgentPipe ==
    /\ Disturb("pipe")
    /\ \/ /\ task.at = "write" /\ tfds[tfd[task.req]] # NoRequest
          /\ ended[tfds[tfd[task.req]]]
       \/ /\ conn # None /\ ~link[conn]
          /\ \/ task.at = "reply"
             \/ \E r \in Requests : serving[r] \in {"opening", "added", "relaying", "notifying"}
    /\ AgentEnds

StartController ==
    /\ ~up /\ up' = TRUE
    /\ starts' = starts + 1
    /\ nextId' = 1
    /\ UNCHANGED <<proxy, clients, controller, channel, agent, serve, sockets, outside,
                   history, disturbed>>

StartAgent ==
    /\ ~agentUp /\ agentUp' = TRUE
    /\ UNCHANGED <<process, proxy, clients, controller, channel, conn, connected, targets,
                   task, serve, sockets, outside, history, disturbed>>

-----------------------------------------------------------------------------

ProxyThread(r) ==
    \/ Reject(r) \/ Select(r) \/ SendOpen(r) \/ GiveUp(r) \/ Refuse(r) \/ Greet(r)
    \/ SendHeader(r) \/ Copy(r) \/ SendClose(r)

Reader(s) ==
    ReadFrame(s) \/ WriteData(s) \/ ReplyClose(s) \/ StopReading(s) \/ Sweep(s)

FrameLoop == TakeFrame \/ FeedTarget \/ SendReply \/ Disconnect

TargetThread(r) ==
    \/ RefuseOpen(r) \/ OpenTarget(r) \/ SendOpenOk(r) \/ LoopOrEnd(r)
    \/ Receive(r) \/ Relay(r) \/ NotifyClose(r)

Outside ==
    \/ \E r \in Requests : Accept(r) \/ ClientLeaves(r) \/ TargetEnds(r)
    \/ Break \/ StopController \/ StopAgent \/ ControllerPipe \/ AgentPipe
    \/ StartController \/ StartAgent

Next ==
    \/ \E r \in Requests : ProxyThread(r) \/ TargetThread(r)
    \/ \E s \in Sessions : Reader(s)
    \/ FrameLoop \/ Connect \/ Outside

Spec == Init /\ [][Next]_vars

\* The frame loop is in send_all to a target that has not gone, which takes the
\* bytes when it reads, if ever.
Stalled ==
    /\ task.at = "write"
    /\ LET q == tfds[tfd[task.req]] IN q # NoRequest /\ ~ended[q]

\* Threads go on; a client gives up in the end, as the worker's client does
\* when its time is over.  Targets, operators and the network owe nothing, so
\* the loop need never get out of a write to a target.
Fairness ==
    /\ \A r \in Requests : /\ WF_vars(ProxyThread(r))
                           /\ WF_vars(TargetThread(r))
                           /\ WF_vars(ClientLeaves(r))
    /\ \A s \in Sessions : WF_vars(Reader(s))
    /\ WF_vars(~Stalled /\ FrameLoop)

FairSpec == Spec /\ Fairness

-----------------------------------------------------------------------------
(* Properties.                                                              *)

\* A descriptor number in use belongs to the one stream that holds it and has
\* not closed it: the exchange of client_closed and of closed keeps the second
\* of two threads that end a stream from closing the number of a later one.
OwnDescriptors ==
    \A r \in Requests :
        /\ \A d \in Fds : fds[d] = r <=> (~shut[r] /\ fd[r] = d)
        /\ \A d \in TargetFds : tfds[d] = r <=> (~tshut[r] /\ tfd[r] = d)

\* As long as the controller has not been restarted and no thread has been
\* overtaken by a close between holding a number and using it, what is about
\* to be written to a client or a target comes from its own other end.
Isolation ==
    ~slipped /\ starts = 1 =>
        /\ \A s \in Sessions : hand[s].at = "write" => hand[s].reqs = {hand[s].of}
        /\ task.at = "write" => task.req = task.frame.of

\* A tunnel that was opened to a target that answers is not closed before the
\* answer has reached the client, if the client stays and the session holds.
\* (When a write to the target fails, handle_data closes the stream ahead of
\* an answer that is being relayed.)
AnswersArrive ==
    \A r \in Answering :
        (/\ shut[r] /\ ~left[r] /\ ~slipped /\ starts = 1
         /\ session[r] # None /\ link[session[r]]
         /\ Granted(r) /\ r \notin spurned)
        => r \in answered

\* Both readers wait for room: each would have to read for the other to go on.
Crossed ==
    \E s \in Sessions :
        /\ hand[s].at = "reply" /\ Len(toAgent[s]) >= Capacity
        /\ conn = s /\ task.at = "reply" /\ Len(toController[s]) >= Capacity

\* What may hold up every stream of a session for good, and nothing else may.
Stuck == Stalled \/ Crossed

\* Every request ends (each comes once, so that from some time on none is being
\* served), unless the one frame loop of the agent is held for ever by a target
\* that does not read (handle_data sends to it without a time limit), or the two
\* readers of the session block each other.
RequestsEnd ==
    <>[]Stuck \/ <>[](\A r \in Requests : pc[r] \in {"absent", "over"})

\* A target the proxy thread was told about is released, although nothing is
\* assumed about that target, unless a target that does not read holds the
\* frame loop for ever, the readers block each other, or the id has been given
\* out again.  (After a 502 for the timeout it need not be.)
TargetsReleased ==
    <>[]Stuck \/ \A r \in Requests : pc[r] = "copying" ~> (tshut[r] \/ starts > 1)
=============================================================================
