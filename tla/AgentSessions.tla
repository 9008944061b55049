---------------------------- MODULE AgentSessions ----------------------------
(***************************************************************************)
(* The control connections of the tunnel: agents dial in and reconnect,   *)
(* the accept thread of the controller authenticates and registers them,   *)
(* one thread per session reads it until it ends and removes it, proxy     *)
(* threads choose the session a request goes to, and status reports travel *)
(* to the Agent row in Django, each in a thread of its own.                *)
(*                                                                         *)
(* A session is one connection, numbered in the order of dialling.  The    *)
(* row of an agent is its "status"; is_active, which no report writes,     *)
(* stays true.  The state file is configured, and so is the auth callback. *)
(***************************************************************************)
EXTENDS Integers

CONSTANTS
    Agents,          \* agent ids, the slugs of the Agent rows
    NoAgent,         \* the empty string
    InitialSelected, \* Config.initial_selected_agent of the controller
    StatusReports,   \* whether status_url and status_token are configured
    Disturbances,    \* the kinds of outside interference allowed
    MaxDisturbances, \* bound: how many of them happen
    MaxSessions,     \* bound: connections dialled
    MaxOpens         \* bound: proxy requests that find an agent

DisturbanceKinds == {"link", "restart", "operator", "post"}

ASSUME NoAgentAssumption == NoAgent \notin Agents
ASSUME InitialAssumption == InitialSelected \in Agents \cup {NoAgent}
ASSUME ReportsAssumption == StatusReports \in BOOLEAN
ASSUME DisturbancesAssumption == Disturbances \subseteq DisturbanceKinds
ASSUME BoundsAssumption ==
    /\ MaxDisturbances \in Nat
    /\ MaxSessions \in Nat
    /\ MaxOpens \in Nat

Sessions == 1..MaxSessions
None == 0

VARIABLES
    owner,     \* the id a session was dialled under
    stage,     \* how far the controller is with a session
    alive,     \* AgentSession::alive_
    link,      \* whether the connection still carries bytes
    first,     \* the first frame after the proof that reaches the agent
    agents,    \* Controller::agents_, None for an absent id
    selected,  \* Controller::selected_agent_
    saved,     \* the selected agent in the state file
    restored,  \* what load_selected_agent set at the last start
    proxy,     \* the session a proxy thread chose and has not sent to yet
    phase,     \* what Agent::run is doing
    conn,      \* the session an agent uses
    row,       \* Agent.status in the database
    reports,   \* status reports that are under way
    opened,    \* number of proxy requests that found an agent
    disturbed  \* number of disturbances so far

session == <<owner, stage, alive, link, first>>
selection == <<agents, selected, saved, restored>>
agent == <<phase, conn>>
registry == <<row, reports>>
vars == <<session, selection, proxy, agent, registry, opened, disturbed>>

Stage == {"unused", "waiting", "handshake", "proved", "verified",
          "registered", "greeted", "reading", "leaving", "over"}
Handshaking == {"handshake", "proved", "verified"}
Registered == {"registered", "greeted", "reading", "leaving"}
Status == {"offline", "online", "disabled"}
Event == {"online", "heartbeat", "offline"}
Report == [session : Sessions, event : Event,
           at : {"posted", "read"}, seen : Status]

TypeOK ==
    /\ owner \in [Sessions -> Agents \cup {NoAgent}]
    /\ stage \in [Sessions -> Stage]
    /\ alive \in [Sessions -> BOOLEAN]
    /\ link \in [Sessions -> {"up", "down"}]
    /\ first \in [Sessions -> {"none", "HelloOk", "Open"}]
    /\ agents \in [Agents -> Sessions \cup {None}]
    /\ selected \in Agents \cup {NoAgent}
    /\ saved \in Agents \cup {NoAgent}
    /\ restored \in Agents \cup {NoAgent}
    /\ proxy \in Sessions \cup {None}
    /\ phase \in [Agents -> {"down", "waiting", "connected"}]
    /\ conn \in [Agents -> Sessions \cup {None}]
    /\ row \in [Agents -> Status]
    /\ reports \subseteq Report
    /\ opened \in Nat
    /\ disturbed \in Nat
    /\ \A s \in Sessions : stage[s] # "unused" => owner[s] \in Agents
    /\ \A a \in Agents : phase[a] # "down" => conn[a] \in Sessions
    /\ \A r \in reports : owner[r.session] \in Agents

Init ==
    /\ owner = [s \in Sessions |-> NoAgent]
    /\ stage = [s \in Sessions |-> "unused"]
    /\ alive = [s \in Sessions |-> FALSE]
    /\ link = [s \in Sessions |-> "down"]
    /\ first = [s \in Sessions |-> "none"]
    /\ agents = [a \in Agents |-> None]
    /\ selected = InitialSelected
    /\ saved = NoAgent
    /\ restored = InitialSelected
    /\ proxy = None
    /\ phase = [a \in Agents |-> "down"]
    /\ conn = [a \in Agents |-> None]
    /\ row = [a \in Agents |-> "offline"]
    /\ reports = {}
    /\ opened = 0
    /\ disturbed = 0

Online == {a \in Agents : agents[a] # None}

\* AgentSession::send of a frame the agent may be waiting for: what is written
\* to a broken connection is lost, and the failure may show only later.
SendTo(s, frame) ==
    \/ /\ ~alive[s] \/ link[s] = "down"
       /\ UNCHANGED <<alive, first>>
    \/ /\ alive[s] /\ link[s] = "down"
       /\ alive' = [alive EXCEPT ![s] = FALSE]
       /\ UNCHANGED first
    \/ /\ alive[s] /\ link[s] = "up"
       /\ first' = [first EXCEPT ![s] = IF @ = "none" THEN frame ELSE @]
       /\ UNCHANGED alive

\* report_agent_status: nothing is sent unless a URL is configured.
Reported(s, event) ==
    IF StatusReports
    THEN reports \cup {[session |-> s, event |-> event, at |-> "posted", seen |-> "offline"]}
    ELSE reports

-----------------------------------------------------------------------------
(* The agent process.                                                       *)

\* connect_once up to the proof; the answer is still to come.
Dial(a) ==
    /\ phase[a] = "down"
    /\ \E s \in Sessions :
         /\ stage[s] = "unused"
         /\ \A t \in Sessions : stage[t] = "unused" => s <= t
         /\ owner' = [owner EXCEPT ![s] = a]
         /\ stage' = [stage EXCEPT ![s] = "waiting"]
         /\ link' = [link EXCEPT ![s] = "up"]
         /\ conn' = [conn EXCEPT ![a] = s]
    /\ phase' = [phase EXCEPT ![a] = "waiting"]
    /\ UNCHANGED <<alive, first, selection, proxy, registry, opened, disturbed>>

\* connect_once: HelloOk arrives.
Connect(a) ==
    /\ phase[a] = "waiting"
    /\ first[conn[a]] = "HelloOk"
    /\ phase' = [phase EXCEPT ![a] = "connected"]
    /\ UNCHANGED <<session, selection, proxy, conn, registry, opened, disturbed>>

\* connect_once: any other frame is taken for a refusal.
Reject(a) ==
    /\ phase[a] = "waiting"
    /\ first[conn[a]] = "Open"
    /\ phase' = [phase EXCEPT ![a] = "down"]
    /\ conn' = [conn EXCEPT ![a] = None]
    /\ link' = [link EXCEPT ![conn[a]] = "down"]
    /\ UNCHANGED <<owner, stage, alive, first, selection, proxy, registry, opened, disturbed>>

\* Bug: connect_once does not look at a receive that failed.
LoseOnlyConnected(a) ==
    /\ phase[a] = "connected"
    /\ link[conn[a]] = "down"
    /\ phase' = [phase EXCEPT ![a] = "down"]
    /\ conn' = [conn EXCEPT ![a] = None]
    /\ UNCHANGED <<session, selection, proxy, registry, opened, disturbed>>

\* The agent notices that its connection is gone and goes back to dialling.
Lose(a) ==
    /\ phase[a] # "down"
    /\ link[conn[a]] = "down"
    /\ phase' = [phase EXCEPT ![a] = "down"]
    /\ conn' = [conn EXCEPT ![a] = None]
    /\ UNCHANGED <<session, selection, proxy, registry, opened, disturbed>>

-----------------------------------------------------------------------------
(* control_accept_loop: one thread, one handshake at a time.                *)

InHand == Handshaking \cup {"registered", "greeted"}
Accepting == \E s \in Sessions : stage[s] \in InHand

\* Bug: every connection gets a thread for its handshake.
AcceptConcurrently(s) ==
    /\ stage[s] = "waiting"
    /\ stage' = [stage EXCEPT ![s] = "handshake"]
    /\ UNCHANGED <<owner, alive, link, first, selection, proxy, agent, registry, opened, disturbed>>

Accept(s) ==
    /\ stage[s] = "waiting"
    /\ ~Accepting
    /\ \A t \in Sessions : stage[t] = "waiting" => s <= t
    /\ stage' = [stage EXCEPT ![s] = "handshake"]
    /\ UNCHANGED <<owner, alive, link, first, selection, proxy, agent, registry, opened, disturbed>>

\* Hello, AuthChallenge and AuthResponse, for which both ends must be there.
Prove(s) ==
    /\ stage[s] = "handshake"
    /\ link[s] = "up"
    /\ stage' = [stage EXCEPT ![s] = "proved"]
    /\ UNCHANGED <<owner, alive, link, first, selection, proxy, agent, registry, opened, disturbed>>

\* authenticate_agent answers yes; the agent may be gone by now.
Verify(s) ==
    /\ stage[s] = "proved"
    /\ row[owner[s]] # "disabled"
    /\ stage' = [stage EXCEPT ![s] = "verified"]
    /\ UNCHANGED <<owner, alive, link, first, selection, proxy, agent, registry, opened, disturbed>>

\* The peer is gone or the callback answers no.
Refuse(s) ==
    /\ \/ stage[s] = "handshake" /\ link[s] = "down"
       \/ stage[s] = "proved" /\ row[owner[s]] = "disabled"
    /\ stage' = [stage EXCEPT ![s] = "over"]
    /\ link' = [link EXCEPT ![s] = "down"]
    /\ UNCHANGED <<owner, alive, first, selection, proxy, agent, registry, opened, disturbed>>

\* Bug: the existing session is replaced without close().
CloseExistingForgotten(a) == {}

\* The session of the same id that is closed before it is replaced.
CloseExisting(a) == {agents[a]} \ {None}

\* Under agents_mu_: an existing session of the same id is closed and
\* replaced, and the first agent of all becomes the selected one.
Register(s) ==
    /\ stage[s] = "verified"
    /\ LET a == owner[s]
           closed == CloseExisting(a)
       IN /\ alive' = [t \in Sessions |-> t = s \/ (t \notin closed /\ alive[t])]
          /\ link' = [t \in Sessions |-> IF t \in closed /\ alive[t] THEN "down" ELSE link[t]]
          /\ agents' = [agents EXCEPT ![a] = s]
          /\ IF selected = NoAgent
             THEN selected' = a /\ saved' = a
             ELSE UNCHANGED <<selected, saved>>
    /\ stage' = [stage EXCEPT ![s] = "registered"]
    /\ UNCHANGED <<owner, first, restored, proxy, agent, registry, opened, disturbed>>

\* HelloOk, sent when the session can already be chosen by a proxy thread.
Greet(s) ==
    /\ stage[s] = "registered"
    /\ SendTo(s, "HelloOk")
    /\ stage' = [stage EXCEPT ![s] = "greeted"]
    /\ UNCHANGED <<owner, link, selection, proxy, agent, registry, opened, disturbed>>

\* The report, and the thread that reads the session.
Start(s) ==
    /\ stage[s] = "greeted"
    /\ reports' = Reported(s, "online")
    /\ stage' = [stage EXCEPT ![s] = "reading"]
    /\ UNCHANGED <<owner, alive, link, first, selection, proxy, agent, row, opened, disturbed>>

-----------------------------------------------------------------------------
(* AgentSession::read_loop, one thread per session.                         *)

\* A heartbeat of an agent that has seen HelloOk.
Heartbeat(s) ==
    /\ stage[s] = "reading" /\ alive[s] /\ link[s] = "up"
    /\ conn[owner[s]] = s /\ phase[owner[s]] = "connected"
    /\ reports' = Reported(s, "heartbeat")
    /\ UNCHANGED <<session, selection, proxy, agent, row, opened, disturbed>>

\* Bug: the loop goes on after a receive that failed.
LeaveOnlyDead(s) ==
    /\ stage[s] = "reading"
    /\ ~alive[s]
    /\ reports' = Reported(s, "offline")
    /\ stage' = [stage EXCEPT ![s] = "leaving"]
    /\ UNCHANGED <<owner, alive, link, first, selection, proxy, agent, row, opened, disturbed>>

\* The loop ends: streams are closed and the report is handed to its thread.
Leave(s) ==
    /\ stage[s] = "reading"
    /\ link[s] = "down" \/ ~alive[s]
    /\ alive' = [alive EXCEPT ![s] = FALSE]
    /\ reports' = Reported(s, "offline")
    /\ stage' = [stage EXCEPT ![s] = "leaving"]
    /\ UNCHANGED <<owner, link, first, selection, proxy, agent, row, opened, disturbed>>

\* Bug: no successor is looked for.
SuccessorNobody(rest) == {NoAgent}

\* Whom remove_agent may select in place of a removed one: the first of the
\* map, here any of it.
Successor(rest) == IF rest = {} THEN {NoAgent} ELSE rest

\* remove_agent(id_): by id, whatever session is registered under it.  The
\* new selection is not saved.
Remove(s) ==
    /\ stage[s] = "leaving"
    /\ LET a == owner[s]
       IN /\ agents' = [agents EXCEPT ![a] = None]
          /\ \E b \in IF selected = a THEN Successor(Online \ {a}) ELSE {selected} :
               selected' = b
    /\ stage' = [stage EXCEPT ![s] = "over"]
    /\ UNCHANGED <<owner, alive, link, first, saved, restored, proxy, agent, registry,
                   opened, disturbed>>

-----------------------------------------------------------------------------
(* Proxy threads and the operator's console.                                *)

\* select_agent: only the selected one if there is one, any live one if not.
SelectAgent ==
    /\ proxy = None
    /\ opened < MaxOpens
    /\ \E a \in IF selected # NoAgent THEN {selected} ELSE Agents :
         /\ agents[a] # None
         /\ alive[agents[a]]
         /\ proxy' = agents[a]
         /\ selected' = a
    /\ opened' = opened + 1
    /\ UNCHANGED <<session, agents, saved, restored, agent, registry, disturbed>>

\* handle_proxy_client: the Open frame, some time after the choice.
SendOpen ==
    /\ proxy # None
    /\ SendTo(proxy, "Open")
    /\ proxy' = None
    /\ UNCHANGED <<owner, stage, link, selection, agent, registry, opened, disturbed>>

\* "use <agent>": only an agent that is registered.
Use(a) ==
    /\ agents[a] # None
    /\ selected' = a
    /\ saved' = a
    /\ UNCHANGED <<session, agents, restored, proxy, agent, registry, opened, disturbed>>

-----------------------------------------------------------------------------
(* record_agent_status in Django: the row is read, then written.            *)

AgentOf(r) == owner[r.session]

RecordRead(r) ==
    /\ r.at = "posted"
    /\ reports' = (reports \ {r}) \cup {[session |-> r.session, event |-> r.event,
                                        at |-> "read", seen |-> row[AgentOf(r)]]}
    /\ UNCHANGED <<session, selection, proxy, agent, row, opened, disturbed>>

\* Bug: the event is stored as the status.
RecordedEvent(r) == IF r.seen = "disabled" THEN "disabled" ELSE r.event

\* Bug: a heartbeat only moves last_seen_at.
RecordedQuietly(r) ==
    IF r.seen = "disabled" \/ r.event = "heartbeat" THEN r.seen ELSE r.event

\* The status a report leads to, given the one it read.
Recorded(r) ==
    IF r.seen = "disabled" THEN "disabled"
    ELSE IF r.event = "offline" THEN "offline" ELSE "online"

\* save(update_fields) writes the status in any case, also one that was read
\* and not changed.
RecordSave(r) ==
    /\ r.at = "read"
    /\ row' = [row EXCEPT ![AgentOf(r)] = Recorded(r)]
    /\ reports' = reports \ {r}
    /\ UNCHANGED <<session, selection, proxy, agent, opened, disturbed>>

-----------------------------------------------------------------------------
(* Disturbances.                                                            *)

Disturb(kind) ==
    /\ kind \in Disturbances
    /\ disturbed < MaxDisturbances
    /\ disturbed' = disturbed + 1

\* A connection breaks; either end notices when it next uses it.
Break(s) ==
    /\ Disturb("link")
    /\ link[s] = "up"
    /\ link' = [link EXCEPT ![s] = "down"]
    /\ UNCHANGED <<owner, stage, alive, first, selection, proxy, agent, registry, opened>>

\* The controller stops and starts again: its threads end with it, and so do
\* the reports that Django has not received.
Restart ==
    /\ Disturb("restart")
    /\ stage' = [s \in Sessions |-> IF stage[s] = "unused" THEN "unused" ELSE "over"]
    /\ alive' = [s \in Sessions |-> FALSE]
    /\ link' = [s \in Sessions |-> "down"]
    /\ agents' = [a \in Agents |-> None]
    /\ restored' = IF saved = NoAgent THEN InitialSelected ELSE saved
    /\ selected' = restored'
    /\ proxy' = None
    /\ reports' = {r \in reports : r.at = "read"}
    /\ UNCHANGED <<owner, first, saved, agent, row, opened>>

\* The operator sets the status in the admin site.
SetStatus(a) ==
    /\ Disturb("operator")
    /\ row' = [row EXCEPT ![a] = IF @ = "disabled" THEN "offline" ELSE "disabled"]
    /\ UNCHANGED <<session, selection, proxy, agent, reports, opened>>

\* A post fails; the controller logs it and forgets it.
LosePost(r) ==
    /\ Disturb("post")
    /\ r.at = "posted"
    /\ reports' = reports \ {r}
    /\ UNCHANGED <<session, selection, proxy, agent, row, opened>>

-----------------------------------------------------------------------------
AgentStep(a) == Dial(a) \/ Connect(a) \/ Reject(a) \/ Lose(a) \/ Use(a) \/ SetStatus(a)

AcceptStep(s) ==
    Accept(s) \/ Prove(s) \/ Verify(s) \/ Refuse(s) \/ Register(s) \/ Greet(s) \/ Start(s)

ReadStep(s) == Leave(s) \/ Remove(s)

ReadReport(s, event) == \E r \in reports : r.session = s /\ r.event = event /\ RecordRead(r)
SaveReport(s, event) == \E r \in reports : r.session = s /\ r.event = event /\ RecordSave(r)

Next ==
    \/ \E a \in Agents : AgentStep(a)
    \/ \E s \in Sessions : AcceptStep(s) \/ ReadStep(s) \/ Heartbeat(s) \/ Break(s)
    \/ \E r \in reports : RecordRead(r) \/ RecordSave(r) \/ LosePost(r)
    \/ SelectAgent
    \/ SendOpen
    \/ Restart

Spec == Init /\ [][Next]_vars

\* Threads and processes that are not stopped go on, and the ends of a broken
\* connection notice it.
Fairness ==
    /\ \A a \in Agents : WF_vars(Dial(a) \/ Connect(a) \/ Reject(a) \/ Lose(a))
    /\ \A s \in Sessions :
         /\ WF_vars(AcceptStep(s)) /\ WF_vars(ReadStep(s)) /\ WF_vars(Heartbeat(s))
         /\ \A event \in Event : WF_vars(ReadReport(s, event)) /\ WF_vars(SaveReport(s, event))

FairSpec == Spec /\ Fairness

-----------------------------------------------------------------------------
(* Safety.                                                                  *)

\* The table never falls back to an older session: what is registered under an
\* id is the newest session of that agent that was ever registered and still
\* has a thread.  Sessions overlap whenever an agent reconnects before the
\* controller has noticed that the old connection is gone.
NewestSession ==
    \A a \in Agents, s \in Sessions :
        /\ agents[a] # None
        /\ owner[s] = a
        /\ stage[s] \in Registered
        => s <= agents[a]

\* remove_agent works by id, so the thread of a replaced session removes its
\* successor.  This is the only way a live session can drop out of the table:
\* an older session of the same agent has ended.
DroppedByOlder ==
    \A s \in Sessions :
        /\ stage[s] \in Registered
        /\ alive[s]
        /\ agents[owner[s]] # s
        => \E t \in Sessions : t < s /\ owner[t] = owner[s] /\ stage[t] = "over"

\* The selection is kept by three threads and a console.  Some agent is selected
\* while any is registered, so that select_agent never gets to its loop over all
\* agents; and a selected agent that is not registered is one that
\* load_selected_agent set and that has not ended a session since.
SelectionIsHeld ==
    /\ selected = NoAgent => Online = {}
    /\ selected # NoAgent /\ agents[selected] = None => selected = restored

\* What these rest on.  The accept thread takes connections in the order of
\* their dialling and has one in hand at a time, so that the one in hand is later
\* than every session registered before; the table names sessions of its agents.
AcceptOrder ==
    \A s, t \in Sessions :
        /\ stage[s] = "unused" /\ stage[t] # "unused" => t < s
        /\ stage[s] = "waiting" /\ stage[t] \notin {"unused", "waiting"} => t < s
        /\ stage[s] \in InHand /\ stage[t] \in InHand => s = t
        /\ stage[s] \in Handshaking /\ stage[t] \in Registered => t < s

TableIsOwned ==
    \A a \in Agents :
        agents[a] # None => owner[agents[a]] = a /\ stage[agents[a]] \in Registered

Inductive ==
    /\ TypeOK
    /\ AcceptOrder
    /\ TableIsOwned
    /\ NewestSession
    /\ DroppedByOlder
    /\ SelectionIsHeld

-----------------------------------------------------------------------------
(* Statements of the documentation that the code does not keep.             *)

\* The agent and the thread that reads its session agree that it is there.
InTouch(a) ==
    \E s \in Sessions :
        /\ conn[a] = s /\ phase[a] = "connected"
        /\ stage[s] = "reading" /\ alive[s] /\ link[s] = "up"

\* Nothing is on its way between the controller's threads or to Django.
Quiet ==
    /\ reports = {}
    /\ \A s \in Sessions :
         \/ stage[s] \in {"unused", "over"}
         \/ stage[s] = "reading" /\ alive[s] /\ link[s] = "up"

\* README.md:176-177, the tunnel "posts heartbeat / online / offline events
\* back ... to keep the Agent row in sync": once everything has arrived, an
\* agent that is shown as online has a session (main.cpp:850 posts each event
\* from a thread of its own).
RowInSync ==
    Quiet => \A a \in Agents :
        row[a] = "online" => \E s \in Sessions : owner[s] = a /\ stage[s] = "reading"

\* README.md:23-24, "a private app reachable through a connected reverse-tunnel
\* agent": a connected agent is one the controller can choose (remove_agent in
\* main.cpp:828-833 goes by id).
ConnectedIsServed == Quiet => \A a \in Agents : InTouch(a) => agents[a] = conn[a]

-----------------------------------------------------------------------------
(* Liveness.                                                                *)

\* A session whose connection breaks does not stay in the table or hold up the
\* accept thread for ever, at whatever point of its life it breaks.
BrokenSessionsLeave ==
    \A s \in Sessions :
        stage[s] # "unused" /\ link[s] = "down" ~> stage[s] = "over"

\* Every agent that is not disabled for good ends up connected, whatever breaks
\* in between and although an Open frame may overtake its HelloOk and make it
\* dial again, as long as there are connections left to dial.
AgentsConnect ==
    \A a \in Agents :
        [](stage[MaxSessions] = "unused") /\ <>[](row[a] # "disabled")
        => <>[](phase[a] = "connected")

\* Reports overtake each other, so the row of a connected agent may say offline;
\* its heartbeats put that right again.
HeartbeatsRepair == \A a \in Agents : <>[]InTouch(a) => []<>(row[a] # "offline")
=============================================================================
