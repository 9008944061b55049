------------------------- MODULE AgentSessionProofs -------------------------
(***************************************************************************)
(* Proofs about AgentSessions for any agents, any number of sessions and   *)
(* any disturbances.                                                       *)
(***************************************************************************)
EXTENDS AgentSessions, TLAPS

\* Every variable keeps to its type, whatever the controller, an agent, Django
\* or a disturbance does.
THEOREM Typing == Spec => []TypeOK
<1>1. Init => TypeOK
  BY NoAgentAssumption, InitialAssumption DEF Init, TypeOK, Stage, Status, Sessions, None
<1>2. TypeOK /\ [Next]_vars => TypeOK'
  <2> SUFFICES ASSUME TypeOK, [Next]_vars PROVE TypeOK'
    OBVIOUS
  <2> USE DEF TypeOK, Stage, None, session, selection, agent, registry
  <2>1. ASSUME NEW a \in Agents, AgentStep(a) PROVE TypeOK'
    <3>1. CASE Dial(a)
      BY <3>1 DEF Dial
    <3>2. CASE Connect(a) \/ Reject(a) \/ Lose(a)
      BY <3>2 DEF Connect, Reject, Lose
    <3>3. CASE Use(a) \/ SetStatus(a)
      BY <3>3 DEF Use, SetStatus, Disturb, Status
    <3>4. QED
      BY <2>1, <3>1, <3>2, <3>3 DEF AgentStep
  <2>2. ASSUME NEW s \in Sessions, AcceptStep(s) PROVE TypeOK'
    <3>1. CASE Accept(s) \/ Prove(s) \/ Verify(s) \/ Refuse(s)
      BY <3>1 DEF Accept, Prove, Verify, Refuse
    <3>2. CASE Register(s)
      BY <3>2 DEF Register, CloseExisting
    <3>3. CASE Greet(s)
      BY <3>3 DEF Greet, SendTo
    <3>4. CASE Start(s)
      BY <3>4 DEF Start, Reported, Report, Event, Status
    <3>5. QED
      BY <2>2, <3>1, <3>2, <3>3, <3>4 DEF AcceptStep
  <2>3. ASSUME NEW s \in Sessions, ReadStep(s) \/ Heartbeat(s) \/ Break(s) PROVE TypeOK'
    <3>1. CASE Leave(s)
      BY <3>1 DEF Leave, Reported, Report, Event, Status
    <3>2. CASE Remove(s)
      BY <3>2 DEF Remove, Successor, Online
    <3>3. CASE Heartbeat(s)
      BY <3>3 DEF Heartbeat, Reported, Report, Event, Status
    <3>4. CASE Break(s)
      BY <3>4 DEF Break, Disturb
    <3>5. QED
      BY <2>3, <3>1, <3>2, <3>3, <3>4 DEF ReadStep
  <2>4. ASSUME NEW r \in reports, RecordRead(r) \/ RecordSave(r) \/ LosePost(r) PROVE TypeOK'
    <3>1. r \in Report /\ reports \subseteq Report /\ AgentOf(r) \in Agents
      BY DEF AgentOf
    <3>2. row[AgentOf(r)] \in Status
      BY <3>1
    <3>3. CASE RecordRead(r)
      BY <3>1, <3>2, <3>3 DEF RecordRead, Report, AgentOf
    <3>4. CASE RecordSave(r)
      <4>1. Recorded(r) \in Status
        BY DEF Recorded, Status
      <4> QED
        BY <3>1, <3>4, <4>1 DEF RecordSave
    <3>5. CASE LosePost(r)
      BY <3>5 DEF LosePost, Disturb
    <3>6. QED
      BY <2>4, <3>3, <3>4, <3>5
  <2>5. CASE SelectAgent
    BY <2>5 DEF SelectAgent
  <2>6. CASE SendOpen
    BY <2>6 DEF SendOpen, SendTo
  <2>7. CASE Restart
    BY <2>7, InitialAssumption DEF Restart, Disturb
  <2>8. CASE UNCHANGED vars
    BY <2>8 DEF vars
  <2> HIDE DEF TypeOK
  <2>9. QED
    BY <2>1, <2>2, <2>3, <2>4, <2>5, <2>6, <2>7, <2>8 DEF Next
<1>3. QED
  BY <1>1, <1>2, PTL DEF Spec

-----------------------------------------------------------------------------
(* The invariants hold at the start.                                        *)

LEMMA InitInductive == Init => Inductive
<1> SUFFICES ASSUME Init PROVE Inductive
  OBVIOUS
<1>1. TypeOK
  BY NoAgentAssumption, InitialAssumption DEF Init, TypeOK, Stage, Status, Sessions, None
<1>2. AcceptOrder
  BY DEF Init, AcceptOrder, InHand, Handshaking, Registered
<1>3. TableIsOwned /\ NewestSession /\ SelectionIsHeld
  BY DEF Init, TableIsOwned, NewestSession, SelectionIsHeld, Online
<1>4. DroppedByOlder
  BY DEF Init, DroppedByOlder, Registered
<1> QED
  BY <1>1, <1>2, <1>3, <1>4 DEF Inductive

-----------------------------------------------------------------------------
(* What a step does to the life of the sessions.                            *)

\* Only these steps move a session; the others leave every stage and owner
\* and the table as they are, and revive no session.
Still ==
    /\ UNCHANGED <<owner, stage, agents>>
    /\ \A s \in Sessions : alive'[s] => alive[s]

Moves ==
    \/ \E a \in Agents : Dial(a)
    \/ \E s \in Sessions : AcceptStep(s) \/ ReadStep(s)
    \/ Restart

LEMMA StillOrMoves ==
    ASSUME TypeOK, [Next]_vars
    PROVE  Still \/ Moves
<1> USE DEF Still, session, selection, agent, registry
<1>1. ASSUME NEW a \in Agents, AgentStep(a), ~Dial(a) PROVE Still
  BY <1>1 DEF AgentStep, Connect, Reject, Lose, Use, SetStatus
<1>2. ASSUME NEW s \in Sessions, Heartbeat(s) \/ Break(s) PROVE Still
  BY <1>2 DEF Heartbeat, Break
<1>3. ASSUME NEW r \in reports, RecordRead(r) \/ RecordSave(r) \/ LosePost(r) PROVE Still
  BY <1>3 DEF RecordRead, RecordSave, LosePost
<1>4. CASE SelectAgent
  BY <1>4 DEF SelectAgent
<1>5. CASE SendOpen
  BY <1>5 DEF SendOpen, SendTo, TypeOK
<1>6. CASE UNCHANGED vars
  BY <1>6 DEF vars
<1> QED
  BY <1>1, <1>2, <1>3, <1>4, <1>5, <1>6 DEF Next, Moves

LEMMA StepAcceptOrder ==
    ASSUME Inductive, [Next]_vars
    PROVE  AcceptOrder'
<1>1. TypeOK /\ AcceptOrder
  BY DEF Inductive
<1> USE <1>1 DEF AcceptOrder, InHand, Handshaking, Registered, Sessions
<1>2. CASE Still
  BY <1>2 DEF Still
<1>3. ASSUME NEW a \in Agents, Dial(a) PROVE AcceptOrder'
  BY <1>3 DEF Dial, TypeOK
<1>4. ASSUME NEW s \in Sessions, AcceptStep(s) PROVE AcceptOrder'
  <2>1. CASE Accept(s)
    BY <2>1 DEF Accept, Accepting, TypeOK
  <2>2. CASE Prove(s)
    BY <2>2 DEF Prove, TypeOK
  <2>3. CASE Verify(s)
    BY <2>3 DEF Verify, TypeOK
  <2>4. CASE Refuse(s)
    BY <2>4 DEF Refuse, TypeOK
  <2>5. CASE Register(s)
    BY <2>5 DEF Register, TypeOK
  <2>6. CASE Greet(s)
    BY <2>6 DEF Greet, TypeOK
  <2>7. CASE Start(s)
    BY <2>7 DEF Start, TypeOK
  <2> QED
    BY <1>4, <2>1, <2>2, <2>3, <2>4, <2>5, <2>6, <2>7 DEF AcceptStep
<1>5. ASSUME NEW s \in Sessions, ReadStep(s) PROVE AcceptOrder'
  <2>1. CASE Leave(s)
    BY <2>1 DEF Leave, TypeOK
  <2>2. CASE Remove(s)
    BY <2>2 DEF Remove, TypeOK
  <2> QED
    BY <1>5, <2>1, <2>2 DEF ReadStep
<1>6. CASE Restart
  BY <1>6 DEF Restart, TypeOK
<1> QED
  BY <1>2, <1>3, <1>4, <1>5, <1>6, StillOrMoves DEF Moves

LEMMA StepTableIsOwned ==
    ASSUME Inductive, [Next]_vars
    PROVE  TableIsOwned'
<1>1. TypeOK /\ TableIsOwned
  BY DEF Inductive
<1> USE <1>1 DEF TableIsOwned, Registered, None
<1>2. CASE Still
  BY <1>2 DEF Still
<1>3. ASSUME NEW a \in Agents, Dial(a) PROVE TableIsOwned'
  BY <1>3 DEF Dial, TypeOK, selection
<1>4. ASSUME NEW s \in Sessions, AcceptStep(s) PROVE TableIsOwned'
  <2>1. CASE Accept(s) \/ Prove(s) \/ Verify(s) \/ Refuse(s)
    BY <2>1 DEF Accept, Prove, Verify, Refuse, TypeOK, selection
  <2>2. CASE Register(s)
    BY <2>2 DEF Register, TypeOK
  <2>3. CASE Greet(s) \/ Start(s)
    BY <2>3 DEF Greet, Start, TypeOK, selection
  <2> QED
    BY <1>4, <2>1, <2>2, <2>3 DEF AcceptStep
<1>5. ASSUME NEW s \in Sessions, ReadStep(s) PROVE TableIsOwned'
  <2>1. CASE Leave(s)
    BY <2>1 DEF Leave, TypeOK, selection
  <2>2. CASE Remove(s)
    BY <2>2 DEF Remove, TypeOK
  <2> QED
    BY <1>5, <2>1, <2>2 DEF ReadStep
<1>6. CASE Restart
  BY <1>6 DEF Restart
<1> QED
  BY <1>2, <1>3, <1>4, <1>5, <1>6, StillOrMoves DEF Moves

\* The session in hand is later than every registered one, so that what
\* Register puts in the table is the newest of its agent.
LEMMA StepNewestSession ==
    ASSUME Inductive, [Next]_vars
    PROVE  NewestSession'
<1>1. TypeOK /\ AcceptOrder /\ TableIsOwned /\ NewestSession
  BY DEF Inductive
<1> USE <1>1 DEF NewestSession, Registered, Sessions, None
<1>2. CASE Still
  BY <1>2 DEF Still
<1>3. ASSUME NEW a \in Agents, Dial(a) PROVE NewestSession'
  BY <1>3 DEF Dial, TypeOK, selection
<1>4. ASSUME NEW s \in Sessions, AcceptStep(s) PROVE NewestSession'
  <2>1. CASE Accept(s) \/ Prove(s) \/ Verify(s) \/ Refuse(s)
    BY <2>1 DEF Accept, Prove, Verify, Refuse, TypeOK, selection
  <2>2. CASE Register(s)
    BY <2>2 DEF Register, AcceptOrder, Handshaking, TypeOK
  <2>3. CASE Greet(s) \/ Start(s)
    BY <2>3 DEF Greet, Start, TypeOK, selection
  <2> QED
    BY <1>4, <2>1, <2>2, <2>3 DEF AcceptStep
<1>5. ASSUME NEW s \in Sessions, ReadStep(s) PROVE NewestSession'
  <2>1. CASE Leave(s)
    BY <2>1 DEF Leave, TypeOK, selection
  <2>2. CASE Remove(s)
    BY <2>2 DEF Remove, TypeOK
  <2> QED
    BY <1>5, <2>1, <2>2 DEF ReadStep
<1>6. CASE Restart
  BY <1>6 DEF Restart
<1> QED
  BY <1>2, <1>3, <1>4, <1>5, <1>6, StillOrMoves DEF Moves

\* The thread that removes a session other than its own is an older one.
LEMMA StepDroppedByOlder ==
    ASSUME Inductive, [Next]_vars
    PROVE  DroppedByOlder'
<1>1. TypeOK /\ TableIsOwned /\ NewestSession /\ DroppedByOlder
  BY DEF Inductive
<1> USE <1>1 DEF DroppedByOlder, Registered
<1>2. CASE Still
  BY <1>2 DEF Still
<1>3. ASSUME NEW a \in Agents, Dial(a) PROVE DroppedByOlder'
  BY <1>3 DEF Dial, TypeOK, selection
<1>4. ASSUME NEW s \in Sessions, AcceptStep(s) PROVE DroppedByOlder'
  <2>1. CASE Accept(s) \/ Prove(s) \/ Verify(s) \/ Refuse(s)
    BY <2>1 DEF Accept, Prove, Verify, Refuse, TypeOK, selection
  <2>2. CASE Register(s)
    <3> SUFFICES ASSUME NEW u \in Sessions, stage'[u] \in Registered, alive'[u],
                        agents'[owner'[u]] # u
                 PROVE  \E t \in Sessions :
                            t < u /\ owner'[t] = owner'[u] /\ stage'[t] = "over"
      OBVIOUS
    <3>1. /\ owner' = owner
          /\ owner[s] \in Agents
          /\ agents' = [agents EXCEPT ![owner[s]] = s]
          /\ stage' = [stage EXCEPT ![s] = "registered"]
      BY <2>2 DEF Register, TypeOK
    <3>2. u # s /\ stage[u] \in Registered /\ owner[u] \in Agents
      BY <3>1 DEF TypeOK
    <3>3. alive[u] /\ agents[owner[s]] # u
      <4>1. alive'[u] = (u = s \/ (u \notin CloseExisting(owner[s]) /\ alive[u]))
        BY <2>2, Zenon DEF Register
      <4>2. u \notin CloseExisting(owner[s]) /\ alive[u]
        BY <3>2, <4>1, Zenon
      <4> QED
        BY <4>2 DEF CloseExisting, None, Sessions
    <3>4. agents[owner[u]] # u
      BY <3>1, <3>2, <3>3 DEF TypeOK
    <3>5. PICK t \in Sessions : t < u /\ owner[t] = owner[u] /\ stage[t] = "over"
      BY <3>2, <3>3, <3>4
    <3>6. t # s
      BY <2>2, <3>5 DEF Register
    <3> QED
      BY <3>1, <3>5, <3>6 DEF TypeOK
  <2>3. CASE Greet(s)
    BY <2>3 DEF Greet, SendTo, TypeOK, selection
  <2>4. CASE Start(s)
    BY <2>4 DEF Start, TypeOK, selection
  <2> QED
    BY <1>4, <2>1, <2>2, <2>3, <2>4 DEF AcceptStep
<1>5. ASSUME NEW s \in Sessions, ReadStep(s) PROVE DroppedByOlder'
  <2>1. CASE Leave(s)
    BY <2>1 DEF Leave, TypeOK, selection
  <2>2. CASE Remove(s)
    BY <2>2 DEF Remove, NewestSession, TypeOK, None, Sessions
  <2> QED
    BY <1>5, <2>1, <2>2 DEF ReadStep
<1>6. CASE Restart
  BY <1>6 DEF Restart
<1> QED
  BY <1>2, <1>3, <1>4, <1>5, <1>6, StillOrMoves DEF Moves

-----------------------------------------------------------------------------
(* The selection.                                                           *)

LEMMA StepSelectionIsHeld ==
    ASSUME Inductive, [Next]_vars
    PROVE  SelectionIsHeld'
<1>1. TypeOK /\ SelectionIsHeld
  BY DEF Inductive
<1> USE <1>1 DEF SelectionIsHeld, Online
<1> DEFINE Same == UNCHANGED selection
<1>2. CASE Same
  BY <1>2 DEF selection
<1>3. ASSUME NEW a \in Agents, AgentStep(a), ~Use(a) PROVE Same
  BY <1>3 DEF AgentStep, Dial, Connect, Reject, Lose, SetStatus
<1>4. ASSUME NEW a \in Agents, Use(a) PROVE SelectionIsHeld'
  BY <1>4, NoAgentAssumption DEF Use
<1>5. ASSUME NEW s \in Sessions, AcceptStep(s), ~Register(s) PROVE Same
  BY <1>5 DEF AcceptStep, Accept, Prove, Verify, Refuse, Greet, Start
<1>6. ASSUME NEW s \in Sessions, Register(s) PROVE SelectionIsHeld'
  BY <1>6, NoAgentAssumption DEF Register, TypeOK, None, Sessions
<1>7. ASSUME NEW s \in Sessions, Leave(s) \/ Heartbeat(s) \/ Break(s) PROVE Same
  BY <1>7 DEF Leave, Heartbeat, Break
<1>8. ASSUME NEW s \in Sessions, Remove(s) PROVE SelectionIsHeld'
  <2>1. owner[s] \in Agents /\ agents' = [agents EXCEPT ![owner[s]] = None]
    BY <1>8 DEF Remove, TypeOK
  <2>2. CASE selected # owner[s]
    BY <1>8, <2>1, <2>2 DEF Remove, TypeOK
  <2>3. CASE selected = owner[s]
    BY <1>8, <2>1, <2>3, NoAgentAssumption DEF Remove, Successor, TypeOK
  <2> QED
    BY <2>2, <2>3
<1>9. ASSUME NEW r \in reports, RecordRead(r) \/ RecordSave(r) \/ LosePost(r) PROVE Same
  BY <1>9 DEF RecordRead, RecordSave, LosePost
<1>10. CASE SelectAgent
  BY <1>10, NoAgentAssumption DEF SelectAgent
<1>11. CASE SendOpen
  BY <1>2, <1>11 DEF SendOpen
<1>12. CASE Restart
  BY <1>12 DEF Restart
<1>13. CASE UNCHANGED vars
  BY <1>2, <1>13 DEF vars
<1> QED
  BY <1>2, <1>3, <1>4, <1>5, <1>6, <1>7, <1>8, <1>9, <1>10, <1>11, <1>12, <1>13
  DEF Next, ReadStep

-----------------------------------------------------------------------------
(* The theorems.                                                            *)

\* The inductive invariant: the accept thread's order, the table's ownership
\* and the three properties that rest on them.
THEOREM Induction == Spec => []Inductive
<1>1. Inductive /\ [Next]_vars /\ TypeOK' => Inductive'
  BY StepAcceptOrder, StepTableIsOwned, StepNewestSession, StepDroppedByOlder,
     StepSelectionIsHeld DEF Inductive
<1> QED
  BY InitInductive, Typing, <1>1, PTL DEF Spec

\* What is registered under an id is the newest session of that agent that still
\* has a thread: no reconnect, however timed, leads back to an older connection.
THEOREM Newest == Spec => []NewestSession
<1>1. Inductive => NewestSession
  BY DEF Inductive
<1> QED
  BY Induction, <1>1, PTL

\* A live session leaves the table only through remove_agent called by the thread
\* of an older session of the same agent.
THEOREM Dropped == Spec => []DroppedByOlder
<1>1. Inductive => DroppedByOlder
  BY DEF Inductive
<1> QED
  BY Induction, <1>1, PTL

\* Some agent is selected while any is registered, and an absent one is selected
\* only as restored from the configuration or the state file.
THEOREM Selection == Spec => []SelectionIsHeld
<1>1. Inductive => SelectionIsHeld
  BY DEF Inductive
<1> QED
  BY Induction, <1>1, PTL
-----------------------------------------------------------------------------
(* A connected agent is served where its sessions do not overlap.           *)

\* The thread of an agent's session has ended before the next is registered.
OneSession ==
    \A s, t \in Sessions :
        stage[s] \in Registered /\ stage[t] \in Registered /\ owner[s] = owner[t] => s = t

\* No registered session has dropped out of the table.
RegisteredAreListed == \A s \in Sessions : stage[s] \in Registered => agents[owner[s]] = s

\* An agent uses a connection of its own.
ConnIsOwned ==
    \A a \in Agents : phase[a] # "down" => stage[conn[a]] # "unused" /\ owner[conn[a]] = a

LEMMA StepConnIsOwned ==
    ASSUME TypeOK, ConnIsOwned, [Next]_vars
    PROVE  ConnIsOwned'
<1> DEFINE Same == /\ \A a \in Agents : phase'[a] # "down" => phase[a] # "down" /\ conn'[a] = conn[a]
                   /\ \A s \in Sessions :
                        stage[s] # "unused" => stage'[s] # "unused" /\ owner'[s] = owner[s]
<1>1. CASE Same
  BY <1>1 DEF ConnIsOwned, TypeOK
<1>2. ASSUME NEW a \in Agents, Dial(a) PROVE ConnIsOwned'
  <2>1. PICK s \in Sessions : /\ stage[s] = "unused"
                              /\ owner' = [owner EXCEPT ![s] = a]
                              /\ stage' = [stage EXCEPT ![s] = "waiting"]
                              /\ conn' = [conn EXCEPT ![a] = s]
    BY <1>2 DEF Dial
  <2>2. phase' = [phase EXCEPT ![a] = "waiting"]
    BY <1>2 DEF Dial
  <2> QED BY <2>1, <2>2 DEF ConnIsOwned, TypeOK
<1>3. ASSUME NEW a \in Agents, AgentStep(a), ~Dial(a) PROVE Same
  <2>1. UNCHANGED <<owner, stage>>
    BY <1>3 DEF AgentStep, Connect, Reject, Lose, Use, SetStatus, session
  <2>2. \A b \in Agents : phase'[b] # "down" => phase[b] # "down" /\ conn'[b] = conn[b]
    BY <1>3 DEF AgentStep, Connect, Reject, Lose, Use, SetStatus, agent, TypeOK
  <2> QED BY <2>1, <2>2
<1>4. ASSUME NEW s \in Sessions, AcceptStep(s) \/ ReadStep(s) \/ Heartbeat(s) \/ Break(s) PROVE Same
  <2>1. UNCHANGED <<owner, agent>>
    BY <1>4 DEF AcceptStep, ReadStep, Accept, Prove, Verify, Refuse, Register, Greet, Start,
                Heartbeat, Leave, Remove, Break, session
  <2>2. \A t \in Sessions : stage[t] # "unused" => stage'[t] # "unused"
    BY <1>4 DEF AcceptStep, ReadStep, Accept, Prove, Verify, Refuse, Register, Greet, Start,
                Heartbeat, Leave, Remove, Break, session, TypeOK
  <2> QED BY <2>1, <2>2 DEF agent
<1>5. ASSUME NEW r \in reports, RecordRead(r) \/ RecordSave(r) \/ LosePost(r) PROVE Same
  BY <1>5 DEF RecordRead, RecordSave, LosePost, session, agent
<1>6. CASE SelectAgent \/ SendOpen
  BY <1>1, <1>6 DEF SelectAgent, SendOpen, session, agent
<1>7. CASE Restart
  BY <1>1, <1>7 DEF Restart, agent
<1>8. CASE UNCHANGED vars
  BY <1>1, <1>8 DEF vars, session, agent
<1> HIDE DEF Same
<1> QED BY <1>1, <1>2, <1>3, <1>4, <1>5, <1>6, <1>7, <1>8 DEF Next

\* Only the thread of another session of the agent could take one out.
LEMMA StepRegisteredAreListed ==
    ASSUME TypeOK, OneSession, OneSession', RegisteredAreListed, [Next]_vars
    PROVE  RegisteredAreListed'
<1> USE DEF RegisteredAreListed, Registered
<1>1. CASE Still
  BY <1>1 DEF Still
<1>2. ASSUME NEW a \in Agents, Dial(a) PROVE RegisteredAreListed'
  BY <1>2 DEF Dial, TypeOK, selection
<1>3. ASSUME NEW s \in Sessions, AcceptStep(s) PROVE RegisteredAreListed'
  <2>1. CASE Accept(s) \/ Prove(s) \/ Verify(s) \/ Refuse(s)
    BY <2>1 DEF Accept, Prove, Verify, Refuse, TypeOK, selection
  <2>2. CASE Register(s)
    <3>1. /\ owner' = owner /\ owner[s] \in Agents
          /\ agents' = [agents EXCEPT ![owner[s]] = s]
          /\ stage' = [stage EXCEPT ![s] = "registered"]
      BY <2>2 DEF Register, TypeOK
    <3>2. \A t \in Sessions : stage'[t] \in Registered /\ owner[t] = owner[s] => t = s
      BY <3>1 DEF OneSession, TypeOK
    <3> QED BY <3>1, <3>2 DEF TypeOK
  <2>3. CASE Greet(s) \/ Start(s)
    BY <2>3 DEF Greet, Start, TypeOK, selection
  <2> QED BY <1>3, <2>1, <2>2, <2>3 DEF AcceptStep
<1>4. ASSUME NEW s \in Sessions, ReadStep(s) PROVE RegisteredAreListed'
  <2>1. CASE Leave(s)
    BY <2>1 DEF Leave, TypeOK, selection
  <2>2. CASE Remove(s)
    <3>1. /\ owner' = owner /\ owner[s] \in Agents /\ stage[s] \in Registered
          /\ agents' = [agents EXCEPT ![owner[s]] = None]
          /\ stage' = [stage EXCEPT ![s] = "over"]
      BY <2>2 DEF Remove, TypeOK
    <3>2. \A t \in Sessions : stage[t] \in Registered /\ owner[t] = owner[s] => t = s
      BY <3>1 DEF OneSession
    <3> QED BY <3>1, <3>2 DEF TypeOK
  <2> QED BY <1>4, <2>1, <2>2 DEF ReadStep
<1>5. CASE Restart
  BY <1>5 DEF Restart
<1> QED BY <1>1, <1>2, <1>3, <1>4, <1>5, StillOrMoves DEF Moves

\* A connected agent is the one the controller chooses for its id, as long as
\* the thread of each session has ended before the agent's next is registered:
\* remove_agent may then go by id.
THEOREM WithoutOverlapServed == Spec /\ []OneSession => []ConnectedIsServed
<1>1. Init => ConnIsOwned /\ RegisteredAreListed
  BY DEF Init, ConnIsOwned, RegisteredAreListed, Registered
<1>2. TypeOK /\ ConnIsOwned /\ [Next]_vars => ConnIsOwned'
  BY StepConnIsOwned
<1>3. /\ TypeOK /\ OneSession /\ OneSession' /\ RegisteredAreListed /\ [Next]_vars
      => RegisteredAreListed'
  BY StepRegisteredAreListed
<1>4. TypeOK /\ ConnIsOwned /\ RegisteredAreListed => ConnectedIsServed
  <2> SUFFICES ASSUME ConnIsOwned, RegisteredAreListed, NEW a \in Agents, InTouch(a)
               PROVE  agents[a] = conn[a]
    BY DEF ConnectedIsServed
  <2>1. PICK s \in Sessions : conn[a] = s /\ phase[a] = "connected" /\ stage[s] = "reading"
    BY DEF InTouch
  <2>2. owner[s] = a
    BY <2>1 DEF ConnIsOwned
  <2> QED BY <2>1, <2>2 DEF RegisteredAreListed, Registered
<1> QED BY <1>1, <1>2, <1>3, <1>4, Typing, PTL DEF Spec

-----------------------------------------------------------------------------
(* The row is in sync where the reports of an agent come in one at a time.  *)

\* No two reports about an agent are under way.
OneReport == \A q, r \in reports : AgentOf(q) = AgentOf(r) => q = r

HasReader(a) == \E s \in Sessions : owner[s] = a /\ stage[s] = "reading"

\* A report that will set the row to online is about an agent that has a session,
\* and a row that says so of one that has none will be corrected.
Reporting ==
    /\ \A r \in reports : r.event # "offline" => HasReader(AgentOf(r))
    /\ \A a \in Agents : row[a] = "online" =>
         HasReader(a) \/ \E r \in reports : AgentOf(r) = a /\ r.event = "offline"
    /\ ~StatusReports => reports = {} /\ \A a \in Agents : row[a] # "online"

\* The sessions that are read stay so.
ReadOn ==
    \A s \in Sessions : stage[s] = "reading" => stage'[s] = "reading" /\ owner'[s] = owner[s]

LEMMA ReadersStay ==
    ASSUME ReadOn, NEW a, HasReader(a)
    PROVE  HasReader(a)'
BY DEF ReadOn, HasReader

\* Owners do not change once a session is dialled.
LEMMA ReportsKept ==
    ASSUME TypeOK, ReadOn, Reporting, UNCHANGED <<row, reports>>,
           \A r \in reports : owner'[r.session] = owner[r.session]
    PROVE  Reporting'
<1>1. \A r \in reports : AgentOf(r)' = AgentOf(r)
  BY DEF AgentOf
<1> QED BY <1>1, ReadersStay DEF Reporting

LEMMA StepReporting ==
    ASSUME {"restart", "post"} \cap Disturbances = {}, TypeOK, OneReport, OneReport', Reporting,
           \A r \in reports : stage[r.session] # "unused", [Next]_vars
    PROVE  Reporting'
<1>1. ASSUME UNCHANGED <<owner, row, reports>>, ReadOn PROVE Reporting'
  BY <1>1, ReportsKept
<1>2. ASSUME NEW a \in Agents, Dial(a) PROVE Reporting'
  <2>1. UNCHANGED <<row, reports>>
    BY <1>2 DEF Dial, registry
  <2>2. \A s \in Sessions : stage[s] # "unused" => stage'[s] = stage[s] /\ owner'[s] = owner[s]
    BY <1>2 DEF Dial, TypeOK
  <2>3. ReadOn
    BY <2>2 DEF ReadOn
  <2>4. \A r \in reports : owner'[r.session] = owner[r.session]
    BY <2>2 DEF TypeOK, Report
  <2> QED BY <2>1, <2>3, <2>4, ReportsKept
<1>3. ASSUME NEW a \in Agents, Connect(a) \/ Reject(a) \/ Lose(a) \/ Use(a) PROVE Reporting'
  BY <1>1, <1>3 DEF Connect, Reject, Lose, Use, session, registry, ReadOn
<1>4. ASSUME NEW a \in Agents, SetStatus(a) PROVE Reporting'
  <2>1. UNCHANGED <<owner, stage, reports>> /\ \A b \in Agents : row'[b] = "online" => row[b] = "online"
    BY <1>4 DEF SetStatus, session, TypeOK
  <2> QED BY <2>1 DEF Reporting, HasReader, AgentOf
<1>5. ASSUME NEW s \in Sessions,
             \/ Accept(s) \/ Prove(s) \/ Verify(s) \/ Refuse(s) \/ Register(s) \/ Greet(s)
             \/ Remove(s) \/ Break(s)
      PROVE  Reporting'
  <2>1. UNCHANGED <<owner, row, reports>>
    BY <1>5 DEF Accept, Prove, Verify, Refuse, Register, Greet, Remove, Break, registry
  <2>2. ReadOn
    BY <1>5, <2>1 DEF Accept, Prove, Verify, Refuse, Register, Greet, Remove, Break, ReadOn, TypeOK
  <2> QED BY <1>1, <2>1, <2>2
<1>6. ASSUME NEW s \in Sessions, Start(s) \/ Heartbeat(s) PROVE Reporting'
  <2>1. PICK event \in {"online", "heartbeat"} : reports' = Reported(s, event)
    BY <1>6 DEF Start, Heartbeat
  <2>2. UNCHANGED <<owner, row>>
    BY <1>6 DEF Start, Heartbeat, session
  <2>3. ReadOn /\ stage'[s] = "reading"
    BY <1>6 DEF Start, Heartbeat, session, ReadOn, TypeOK
  <2>4. HasReader(owner[s])'
    BY <2>2, <2>3 DEF HasReader
  <2>5. reports \subseteq reports' /\ \A r \in reports' : r \in reports \/ AgentOf(r) = owner[s]
    BY <2>1 DEF Reported, AgentOf
  <2>6. ~StatusReports => reports' = reports
    BY <2>1 DEF Reported
  <2> QED BY <2>2, <2>3, <2>4, <2>5, <2>6, ReadersStay DEF Reporting, AgentOf
<1>7. ASSUME NEW s \in Sessions, Leave(s) PROVE Reporting'
  <2>1. UNCHANGED <<owner, row>> /\ stage' = [stage EXCEPT ![s] = "leaving"]
    BY <1>7 DEF Leave
  <2>2. \A a : a # owner[s] /\ HasReader(a) => HasReader(a)'
    BY <2>1 DEF HasReader, TypeOK
  <2>3. CASE ~StatusReports
    <3>1. reports' = {}
      BY <1>7, <2>3 DEF Leave, Reported, Reporting
    <3> QED BY <2>1, <2>3, <3>1 DEF Reporting
  <2>4. CASE StatusReports
    <3>1. PICK q : /\ q.event = "offline" /\ AgentOf(q)' = owner[s]
                   /\ reports' = reports \cup {q}
      BY <1>7, <2>1, <2>4 DEF Leave, Reported, AgentOf
    <3>2. \A r \in reports : AgentOf(r)' = AgentOf(r)
      BY <2>1 DEF AgentOf
    <3>3. \A r \in reports' : r.event # "offline" => r \in reports /\ AgentOf(r) # owner[s]
      BY <3>1, <3>2 DEF OneReport
    <3>4. \A r \in reports' : r.event # "offline" => HasReader(AgentOf(r))'
      BY <2>2, <3>2, <3>3 DEF Reporting
    <3>5. \A a \in Agents : row'[a] = "online" =>
            HasReader(a)' \/ \E r \in reports' : AgentOf(r)' = a /\ r.event = "offline"
      BY <2>1, <2>2, <3>1, <3>2 DEF Reporting
    <3> QED BY <2>1, <2>4, <3>2, <3>3, <3>4, <3>5 DEF Reporting
  <2> QED BY <2>3, <2>4
<1>8. ASSUME NEW r \in reports, RecordRead(r) PROVE Reporting'
  <2>1. PICK q : /\ q.event = r.event /\ q.session = r.session
                 /\ reports' = (reports \ {r}) \cup {q}
    BY <1>8 DEF RecordRead
  <2>2. UNCHANGED <<owner, stage, row>>
    BY <1>8 DEF RecordRead, session
  <2>3. \A p : AgentOf(p)' = AgentOf(p) /\ (HasReader(AgentOf(p)) <=> HasReader(AgentOf(p))')
    BY <2>2 DEF AgentOf, HasReader
  <2>4. AgentOf(q) = AgentOf(r)
    BY <2>1 DEF AgentOf
  <2>5. \A a : HasReader(a)' <=> HasReader(a)
    BY <2>2 DEF HasReader
  <2> QED BY <2>1, <2>2, <2>3, <2>4, <2>5 DEF Reporting
<1>9. ASSUME NEW r \in reports, RecordSave(r) PROVE Reporting'
  <2>1. /\ row' = [row EXCEPT ![AgentOf(r)] = Recorded(r)]
        /\ reports' = reports \ {r} /\ UNCHANGED <<owner, stage>>
    BY <1>9 DEF RecordSave, session
  <2>2. \A p : AgentOf(p)' = AgentOf(p)
    BY <2>1 DEF AgentOf
  <2>3. \A a : HasReader(a)' <=> HasReader(a)
    BY <2>1 DEF HasReader
  <2>4. AgentOf(r) \in Agents
    BY DEF AgentOf, TypeOK
  <2>5. Recorded(r) = "online" => HasReader(AgentOf(r))
    BY DEF Recorded, Reporting
  <2>6. \A a \in Agents : row'[a] = IF a = AgentOf(r) THEN Recorded(r) ELSE row[a]
    BY <2>1, <2>4 DEF TypeOK
  <2>7. StatusReports
    BY DEF Reporting
  <2>8. \A a \in Agents : row'[a] = "online" =>
          HasReader(a) \/ \E p \in reports' : AgentOf(p) = a /\ p.event = "offline"
    BY <2>1, <2>5, <2>6 DEF Reporting
  <2> QED BY <2>1, <2>2, <2>3, <2>7, <2>8 DEF Reporting
<1>10. CASE SelectAgent \/ SendOpen
  BY <1>1, <1>10 DEF SelectAgent, SendOpen, session, registry, ReadOn
<1>11. CASE UNCHANGED vars
  BY <1>1, <1>11 DEF vars, session, registry, ReadOn
<1>12. ~Restart /\ \A r \in reports : ~LosePost(r)
  BY DEF Restart, LosePost, Disturb
<1> QED
  BY <1>2, <1>3, <1>4, <1>5, <1>6, <1>7, <1>8, <1>9, <1>10, <1>11, <1>12
  DEF Next, AgentStep, AcceptStep, ReadStep

\* A report is about a session that was dialled.
ReportsAreDialled == \A r \in reports : stage[r.session] # "unused"

LEMMA StepReportsAreDialled ==
    ASSUME TypeOK, ReportsAreDialled, [Next]_vars
    PROVE  ReportsAreDialled'
<1> DEFINE Kept == \A s \in Sessions : stage[s] # "unused" => stage'[s] # "unused"
<1>1. ASSUME Kept, \A r \in reports' : \/ \E q \in reports : r.session = q.session
                                       \/ r.session \in Sessions /\ stage[r.session] # "unused"
      PROVE  ReportsAreDialled'
  BY <1>1 DEF ReportsAreDialled, TypeOK, Report
<1>2. ASSUME NEW a \in Agents, AgentStep(a) PROVE ReportsAreDialled'
  <2>1. Kept
    BY <1>2 DEF AgentStep, Dial, Connect, Reject, Lose, Use, SetStatus, session, TypeOK
  <2>2. reports' = reports
    BY <1>2 DEF AgentStep, Dial, Connect, Reject, Lose, Use, SetStatus, registry
  <2> QED BY <1>1, <2>1, <2>2
<1>3. ASSUME NEW s \in Sessions, AcceptStep(s) \/ ReadStep(s) \/ Heartbeat(s) \/ Break(s)
      PROVE  ReportsAreDialled'
  <2>1. Kept
    BY <1>3 DEF AcceptStep, ReadStep, Accept, Prove, Verify, Refuse, Register, Greet, Start,
                Heartbeat, Leave, Remove, Break, session, TypeOK
  <2>2. reports' = reports \/ (stage[s] # "unused" /\ \E event : reports' = Reported(s, event))
    BY <1>3 DEF AcceptStep, ReadStep, Accept, Prove, Verify, Refuse, Register, Greet, Start,
                Heartbeat, Leave, Remove, Break, registry
  <2> QED BY <1>1, <2>1, <2>2 DEF Reported
<1>4. ASSUME NEW r \in reports, RecordRead(r) \/ RecordSave(r) \/ LosePost(r)
      PROVE  ReportsAreDialled'
  <2>1. Kept
    BY <1>4 DEF RecordRead, RecordSave, LosePost, session
  <2>2. \A p \in reports' : \E q \in reports : p.session = q.session
    BY <1>4 DEF RecordRead, RecordSave, LosePost
  <2> QED BY <1>1, <2>1, <2>2
<1>5. CASE SelectAgent \/ SendOpen
  BY <1>1, <1>5 DEF SelectAgent, SendOpen, session, registry
<1>6. CASE Restart
  BY <1>1, <1>6 DEF Restart, TypeOK
<1>7. CASE UNCHANGED vars
  BY <1>1, <1>7 DEF vars, session, registry
<1> QED BY <1>2, <1>3, <1>4, <1>5, <1>6, <1>7 DEF Next

\* Once everything has arrived, an agent that is shown as online has a session,
\* if the reports about it were under way one at a time, none was lost, and the
\* controller was not restarted: what breaks it is the thread for each report.
THEOREM ReportsInTurnSync ==
    ASSUME {"restart", "post"} \cap Disturbances = {}
    PROVE  Spec /\ []OneReport => []RowInSync
<1>1. Init => Reporting /\ ReportsAreDialled
  BY DEF Init, Reporting, ReportsAreDialled
<1>2. TypeOK /\ ReportsAreDialled /\ [Next]_vars => ReportsAreDialled'
  BY StepReportsAreDialled
<1>3. /\ TypeOK /\ OneReport /\ OneReport' /\ Reporting /\ ReportsAreDialled /\ [Next]_vars
      => Reporting'
  BY StepReporting DEF ReportsAreDialled
<1>4. Reporting => RowInSync
  BY DEF Reporting, RowInSync, Quiet, HasReader
<1> QED BY <1>1, <1>2, <1>3, <1>4, Typing, PTL DEF Spec
=============================================================================
