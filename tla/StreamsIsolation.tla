-------------------------- MODULE StreamsIsolation --------------------------
(***************************************************************************)
(* For any number of clients, targets, descriptors, sessions and           *)
(* disturbances, and no more clients than stream ids: what is written to a *)
(* client or a target comes from its own other end.                        *)
(***************************************************************************)
EXTENDS StreamsProofs, FiniteSets, FiniteSetTheorems

-----------------------------------------------------------------------------
(* The invariant.                                                           *)

\* No thread was overtaken by a close, and the ids were counted from 1 once.
Sane == ~slipped /\ starts = 1

\* The requests that were given a session, and with it an id.
Given == {r \in Requests : session[r] # None}
Named(i, r) == r \in Given /\ id[r] = i
Known(i) == \E r \in Given : id[r] = i

\* The ids are counted 1, 2, ..., and the last may be 0.
Turn(i) == IF i = 0 THEN IdSpace ELSE i
Numbered ==
    /\ nextId < IdSpace
    /\ \A r \in Given : id[r] < IdSpace /\ Turn(id[r]) <= Cardinality(Given)
    /\ Given # Requests => Turn(nextId) = Cardinality(Given) + 1
    /\ \A r, q \in Given : id[r] = id[q] => r = q

Waiting == {"absent", "accepted"}
Busy == {"registered", "waiting", "copying", "ending", "refusing"}
Placed ==
    /\ \A r \in Requests : pc[r] \in Waiting => r \notin Given
    /\ \A r \in Requests : pc[r] \in Busy => r \in Given

Belong ==
    /\ \A s \in Sessions : \A r \in streams[s] \cup hand[s].reqs : session[r] = s
    /\ \A r \in Requests : serving[r] # "none" => r \in Given
    /\ \A r \in targets : serving[r] # "none"

Frames(q) == {q[i] : i \in 1..Len(q)}
SoundUp(f) ==
    /\ f.type \in {"Open", "Data", "Close"} /\ Known(f.id)
    /\ f.type # "Close" => Named(f.id, f.of)
SoundDown(f) == Known(f.id) /\ (f.type = "Data" => Named(f.id, f.of))
Up == \A s \in Sessions : \A f \in Frames(toAgent[s]) : SoundUp(f)
Down == \A s \in Sessions : \A f \in Frames(toController[s]) : SoundDown(f)

SoundTask ==
    /\ task.at = "write" => Named(task.frame.id, task.req) /\ task.frame.of = task.req
    /\ task.at = "reply" => Known(task.frame.id) /\ task.frame.type \in {"Close", "Error"}
AtHand ==
    /\ \A s \in Sessions : hand[s].at = "write" => hand[s].reqs = {hand[s].of}
    /\ SoundTask
    /\ \A r \in Requests : serving[r] = "relaying" => relay[r] = r

Sound == Belong /\ Up /\ Down /\ AtHand
Paired == Numbered /\ Placed /\ Sound
Isolated == starts # 0 /\ (Sane => Paired)

-----------------------------------------------------------------------------
(* Frames of a queue.                                                       *)

LEMMA FramesOf ==
    ASSUME NEW S, NEW q \in Seq(S)
    PROVE  /\ Frames(q) \subseteq S
           /\ \A x : Frames(Append(q, x)) = Frames(q) \cup {x}
           /\ q # <<>> => Head(q) \in Frames(q) /\ Frames(Tail(q)) \subseteq Frames(q)
           /\ Frames(<<>>) = {}
<1>1. Len(q) \in Nat /\ \A i \in 1..Len(q) : q[i] \in S
  OBVIOUS
<1>2. ASSUME NEW x PROVE Frames(Append(q, x)) = Frames(q) \cup {x}
  <2>1. /\ Len(Append(q, x)) = Len(q) + 1
        /\ \A j \in 1..Len(q) : Append(q, x)[j] = q[j]
        /\ Append(q, x)[Len(q) + 1] = x
    BY Appended
  <2>2. ASSUME NEW y PROVE y \in Frames(Append(q, x)) <=> y \in Frames(q) \/ y = x
    <3>1. ASSUME y \in Frames(Append(q, x)) PROVE y \in Frames(q) \/ y = x
      <4>1. PICK i \in 1..Len(q) + 1 : y = Append(q, x)[i]
        BY <2>1, <3>1 DEF Frames
      <4>2. i \in 1..Len(q) \/ i = Len(q) + 1
        BY <1>1
      <4> QED BY <2>1, <4>1, <4>2 DEF Frames
    <3>2. ASSUME y \in Frames(q) PROVE y \in Frames(Append(q, x))
      <4>1. PICK i \in 1..Len(q) : y = q[i]
        BY <3>2 DEF Frames
      <4>2. i \in 1..Len(q) + 1
        BY <1>1
      <4> QED BY <2>1, <4>1, <4>2 DEF Frames
    <3>3. x \in Frames(Append(q, x))
      <4>1. Len(q) + 1 \in 1..Len(q) + 1
        BY <1>1
      <4> QED BY <2>1, <4>1 DEF Frames
    <3> QED BY <3>1, <3>2, <3>3
  <2> QED BY <2>2
<1>3. ASSUME q # <<>> PROVE Head(q) \in Frames(q) /\ Frames(Tail(q)) \subseteq Frames(q)
  <2>1. Head(q) = q[1] /\ 1 \in 1..Len(q)
    BY <1>3
  <2>2. /\ Len(Tail(q)) = Len(q) - 1
        /\ \A i \in 1..Len(Tail(q)) : Tail(q)[i] = q[i + 1] /\ i + 1 \in 1..Len(q)
    BY <1>3
  <2> QED BY <2>1, <2>2 DEF Frames
<1>4. Frames(<<>>) = {}
  BY DEF Frames
<1> QED BY <1>1, <1>2, <1>3, <1>4 DEF Frames

-----------------------------------------------------------------------------
(* What almost every step does.                                             *)

NamesOn == \A r \in Given : session'[r] = session[r] /\ id'[r] = id[r]
StreamsOn ==
    \A s \in Sessions : \A r \in streams'[s] \cup hand'[s].reqs :
        r \in streams[s] \cup hand[s].reqs \/ session'[r] = s
ServeOn ==
    /\ \A r \in Requests : serving'[r] = "none" => serving[r] = "none"
    /\ \A r \in Requests : serving[r] = "none" /\ serving'[r] # "none" => r \in Given
    /\ \A r \in targets' : r \in targets \/ serving'[r] # "none"
UpOn ==
    \A s \in Sessions : \A f \in Frames(toAgent'[s]) : f \in Frames(toAgent[s]) \/ SoundUp(f)
DownOn ==
    \A s \in Sessions : \A f \in Frames(toController'[s]) :
        f \in Frames(toController[s]) \/ SoundDown(f)
HandOn ==
    \A s \in Sessions : hand'[s].at = "write" =>
        hand'[s] = hand[s] \/ hand'[s].reqs = {hand'[s].of}
TaskOn == SoundTask'
RelayOn ==
    \A r \in Requests : serving'[r] = "relaying" =>
        (serving[r] = "relaying" /\ relay'[r] = relay[r]) \/ relay'[r] = r

Tame == NamesOn /\ StreamsOn /\ ServeOn /\ UpOn /\ DownOn /\ HandOn /\ TaskOn /\ RelayOn

\* A request keeps its name.
LEMMA NamesStay ==
    ASSUME Typed, Typed', NamesOn
    PROVE  /\ \A r \in Given : r \in Given'
           /\ \A i, r : Named(i, r) => Named(i, r)'
           /\ \A f : SoundUp(f) => SoundUp(f)'
           /\ \A f : SoundDown(f) => SoundDown(f)'
BY DEF NamesOn, Given, Named, Known, SoundUp, SoundDown

LEMMA TameKeeps ==
    ASSUME Typed, Typed', Sound, Tame
    PROVE  Sound'
<1>1. /\ \A r \in Given : r \in Given'
      /\ \A f : SoundUp(f) => SoundUp(f)'
      /\ \A f : SoundDown(f) => SoundDown(f)'
  BY NamesStay DEF Tame
<1>2. Belong'
  <2>1. ASSUME NEW s \in Sessions, NEW r \in streams'[s] \cup hand'[s].reqs
        PROVE  session'[r] = s
    <3>1. CASE r \in streams[s] \cup hand[s].reqs
      <4>1. session[r] = s /\ s # None
        BY <3>1 DEF Sound, Belong, Sessions, None
      <4>2. r \in Requests
        BY <3>1, HandTyped DEF Typed, TypeOK
      <4> QED BY <4>1, <4>2 DEF Tame, NamesOn, Given
    <3> QED BY <2>1, <3>1 DEF Tame, StreamsOn
  <2>2. ASSUME NEW r \in Requests, serving'[r] # "none" PROVE r \in Given'
    BY <1>1, <2>2 DEF Sound, Belong, Tame, ServeOn
  <2>3. ASSUME NEW r \in targets' PROVE serving'[r] # "none"
    <3>1. targets \subseteq Requests
      BY DEF Typed, TypeOK
    <3> QED BY <2>3, <3>1 DEF Sound, Belong, Tame, ServeOn
  <2> QED BY <2>1, <2>2, <2>3 DEF Belong, Sessions
<1>3. Up' /\ Down'
  <2>1. \A s \in Sessions : \A f \in Frames(toAgent'[s]) : SoundUp(f)'
    BY <1>1 DEF Sound, Up, Tame, UpOn
  <2>2. \A s \in Sessions : \A f \in Frames(toController'[s]) : SoundDown(f)'
    BY <1>1 DEF Sound, Down, Tame, DownOn
  <2> QED BY <2>1, <2>2 DEF Up, Down, Frames, Sessions
<1>4. AtHand'
  <2>1. \A s \in Sessions : hand'[s].at = "write" => hand'[s].reqs = {hand'[s].of}
    BY DEF Sound, AtHand, Tame, HandOn
  <2>2. \A r \in Requests : serving'[r] = "relaying" => relay'[r] = r
    BY DEF Sound, AtHand, Tame, RelayOn
  <2> QED BY <2>1, <2>2 DEF AtHand, Tame, TaskOn, Sessions
<1> QED BY <1>2, <1>3, <1>4 DEF Sound

\* What a step leaves alone stays sound.
LEMMA StillTame ==
    ASSUME Sound
    PROVE  /\ UNCHANGED <<session, id>> => NamesOn
           /\ UNCHANGED <<streams, hand>> => StreamsOn /\ HandOn
           /\ UNCHANGED <<serving, targets>> => ServeOn
           /\ UNCHANGED toAgent => UpOn
           /\ UNCHANGED toController => DownOn
           /\ UNCHANGED <<task, session, id>> => TaskOn
           /\ UNCHANGED <<serving, relay>> => RelayOn
<1>1. UNCHANGED <<session, id>> => NamesOn
  BY DEF NamesOn
<1>2. UNCHANGED <<streams, hand>> => StreamsOn /\ HandOn
  BY DEF StreamsOn, HandOn
<1>3. UNCHANGED <<serving, targets>> => ServeOn
  BY DEF ServeOn
<1>4. (UNCHANGED toAgent => UpOn) /\ (UNCHANGED toController => DownOn)
  BY DEF UpOn, DownOn
<1>5. UNCHANGED <<task, session, id>> => TaskOn
  BY DEF TaskOn, SoundTask, Sound, AtHand, Named, Known, Given
<1>6. UNCHANGED <<serving, relay>> => RelayOn
  BY DEF RelayOn
<1> QED BY <1>1, <1>2, <1>3, <1>4, <1>5, <1>6

\* Sending a sound frame, or failing to.
LEMMA ToAgentTame ==
    ASSUME Typed, NEW s, NEW frame, SoundUp(frame), NEW ok, ToAgent(s, frame, ok)
    PROVE  UpOn
<1> SUFFICES ASSUME NEW t \in Sessions, NEW f \in Frames(toAgent'[t]), f \notin Frames(toAgent[t])
             PROVE  SoundUp(f)
  BY DEF UpOn
<1>1. toAgent \in [Sessions -> Seq(Frame)]
  BY DEF Typed, TypeOK
<1>2. toAgent' = toAgent \/ toAgent' = [toAgent EXCEPT ![s] = Append(@, frame)]
  BY DEF ToAgent
<1>3. toAgent'[t] = toAgent[t] \/ toAgent'[t] = Append(toAgent[t], frame)
  BY <1>1, <1>2
<1>4. Frames(Append(toAgent[t], frame)) = Frames(toAgent[t]) \cup {frame}
  BY <1>1, FramesOf
<1> QED BY <1>3, <1>4

LEMMA ToControllerTame ==
    ASSUME Typed, NEW frame, SoundDown(frame), NEW ok, ToController(frame, ok)
    PROVE  DownOn
<1> SUFFICES ASSUME NEW t \in Sessions, NEW f \in Frames(toController'[t]),
                    f \notin Frames(toController[t])
             PROVE  SoundDown(f)
  BY DEF DownOn
<1>1. toController \in [Sessions -> Seq(Frame)]
  BY DEF Typed, TypeOK
<1>2. toController' = toController \/ toController' = [toController EXCEPT ![conn] = Append(@, frame)]
  BY DEF ToController
<1>3. toController'[t] = toController[t] \/ toController'[t] = Append(toController[t], frame)
  BY <1>1, <1>2
<1>4. Frames(Append(toController[t], frame)) = Frames(toController[t]) \cup {frame}
  BY <1>1, FramesOf
<1> QED BY <1>3, <1>4

LEMMA BareFrames ==
    \A i, type : /\ Bare(type, i).type = type /\ Bare(type, i).id = i
                 /\ Known(i) => SoundUp(Bare("Close", i))
                 /\ Known(i) /\ type # "Data" => SoundDown(Bare(type, i))
BY DEF Bare, SoundUp, SoundDown

\* A stream that is unregistered leaves the others where they are.
LEMMA UnregisteredTame ==
    ASSUME Typed, NEW s, NEW r, \/ streams' = streams
                                \/ streams' = [streams EXCEPT ![s] = Unregistered(s, r)],
           \A t \in Sessions : hand'[t].reqs \subseteq streams[t] \cup hand[t].reqs
    PROVE  StreamsOn
<1>1. streams \in [Sessions -> SUBSET Requests]
  BY DEF Typed, TypeOK
<1>2. Unregistered(s, r) \subseteq streams[s]
  BY DEF Unregistered
<1>3. \A t \in Sessions : streams'[t] \subseteq streams[t]
  BY <1>1, <1>2
<1> QED BY <1>3 DEF StreamsOn

-----------------------------------------------------------------------------
(* The proxy threads.                                                       *)

LEMMA AcceptTame == ASSUME Sound, NEW r \in Requests, Accept(r) PROVE Tame
BY StillTame DEF Tame, Accept, controller, channel, agent, serve

LEMMA RejectTame == ASSUME Sound, NEW r \in Requests, Reject(r) PROVE Tame
BY StillTame DEF Tame, Reject, controller, channel, agent, serve

LEMMA RefuseTame == ASSUME Sound, NEW r \in Requests, Refuse(r) PROVE Tame
BY StillTame DEF Tame, Refuse, controller, channel, agent, serve

LEMMA GreetTame == ASSUME Sound, NEW r \in Requests, Greet(r) PROVE Tame
BY StillTame DEF Tame, Greet, controller, channel, agent, serve

LEMMA GiveUpTame == ASSUME Typed, Sound, NEW r \in Requests, GiveUp(r) PROVE Tame
<1>1. StreamsOn
  BY UnregisteredTame DEF GiveUp
<1>2. HandOn
  BY DEF HandOn, GiveUp
<1> QED BY <1>1, <1>2, StillTame DEF Tame, GiveUp, channel, agent, serve

LEMMA SendOpenTame ==
    ASSUME Typed, Placed, Sound, NEW r \in Requests, SendOpen(r) PROVE Tame
<1>1. SoundUp([type |-> "Open", id |-> id[r], of |-> r])
  BY DEF Placed, Busy, SendOpen, SoundUp, Named, Known
<1>2. UpOn
  BY <1>1, ToAgentTame DEF SendOpen
<1>3. StreamsOn
  BY UnregisteredTame DEF SendOpen
<1>4. HandOn
  BY DEF HandOn, SendOpen
<1> QED BY <1>2, <1>3, <1>4, StillTame DEF Tame, SendOpen, agent, serve

LEMMA SendHeaderTame ==
    ASSUME Typed, Placed, Sound, NEW r \in Requests, SendHeader(r) PROVE Tame
<1>1. SoundUp([type |-> "Data", id |-> id[r], of |-> r])
  BY DEF Placed, Busy, SendHeader, SoundUp, Named, Known
<1>2. UpOn
  BY <1>1, ToAgentTame DEF SendHeader
<1>3. StreamsOn
  BY UnregisteredTame DEF SendHeader, Leave
<1>4. HandOn
  BY DEF HandOn, SendHeader
<1> QED BY <1>2, <1>3, <1>4, StillTame DEF Tame, SendHeader, agent, serve

\* A thread that was not overtaken has read its own client.
LEMMA CopyTame ==
    ASSUME Typed, Placed, Sound, ~slipped', NEW r \in Requests, Copy(r) PROVE Tame
<1>1. SoundUp([type |-> "Data", id |-> id[r], of |-> r])
  BY DEF Placed, Busy, Copy, SoundUp, Named, Known
<1>2. UpOn
  <2>1. CASE toAgent' = toAgent
    BY <2>1, StillTame
  <2>2. CASE toAgent' # toAgent
    <3>1. \E ok \in BOOLEAN : ToAgent(session[r], [type |-> "Data", id |-> id[r], of |-> r], ok)
      BY <2>2 DEF Copy
    <3> QED BY <1>1, <3>1, ToAgentTame
  <2> QED BY <2>1, <2>2
<1> QED BY <1>2, StillTame DEF Tame, Copy, agent, serve

LEMMA SendCloseTame ==
    ASSUME Typed, Placed, Sound, NEW r \in Requests, SendClose(r) PROVE Tame
<1>1. UpOn
  BY BareFrames, ToAgentTame DEF SendClose, Placed, Busy, Known
<1>2. StreamsOn
  BY UnregisteredTame DEF SendClose, Leave
<1>3. HandOn
  BY DEF HandOn, SendClose
<1> QED BY <1>1, <1>2, <1>3, StillTame DEF Tame, SendClose, agent, serve

\* A request that gets its id is not named before.
LEMMA SelectTame ==
    ASSUME Typed, Placed, Sound, NEW r \in Requests, Select(r) PROVE Tame
<1>1. r \notin Given
  BY DEF Placed, Waiting, Select
<1>2. PICK s \in Sessions :
         /\ session' = [session EXCEPT ![r] = s]
         /\ streams' = [streams EXCEPT ![s] = {q \in @ : id[q] # nextId} \cup {r}]
  BY DEF Select
<1>3. NamesOn
  BY <1>1, <1>2 DEF NamesOn, Select, Given, Typed, TypeOK
<1>4. StreamsOn
  BY <1>2 DEF StreamsOn, Select, Typed, TypeOK
<1>5. TaskOn
  BY <1>1, <1>3 DEF TaskOn, SoundTask, Sound, AtHand, Named, Known, Given, NamesOn, Select, agent, None
<1>6. HandOn
  BY DEF HandOn, Select
<1> QED BY <1>3, <1>4, <1>5, <1>6, StillTame DEF Tame, Select, channel, agent, serve

-----------------------------------------------------------------------------
(* The readers of sessions.                                                 *)

\* The stream an id names is the one the bytes are of.
LEMMA ReadFrameTame ==
    ASSUME Typed, Numbered, Sound, NEW s \in Sessions, ReadFrame(s) PROVE Tame
<1> DEFINE f == Head(toController[s])
           rs == Found(s, f.id)
<1>1. /\ toController \in [Sessions -> Seq(Frame)] /\ streams \in [Sessions -> SUBSET Requests]
      /\ hand \in [Sessions -> Hand]
  BY DEF Typed, TypeOK
<1>2. f \in Frames(toController[s]) /\ Frames(Tail(toController[s])) \subseteq Frames(toController[s])
  BY <1>1, FramesOf DEF ReadFrame
<1>3. DownOn
  <2>1. \A t \in Sessions : toController'[t] = toController[t] \/ t = s
    BY <1>1 DEF ReadFrame
  <2>2. toController'[s] = Tail(toController[s])
    BY <1>1 DEF ReadFrame
  <2> QED BY <1>2, <2>1, <2>2 DEF DownOn
<1>4. rs \subseteq streams[s] /\ \A q \in rs : q \in Given /\ id[q] = f.id
  <2>1. \A q \in streams[s] : session[q] = s /\ q \in Requests
    BY <1>1 DEF Sound, Belong
  <2> QED BY <2>1 DEF Found, Given, Sessions, None
<1>5. rs # {} /\ f.type = "Data" => rs = {f.of}
  <2> SUFFICES ASSUME NEW q \in rs, f.type = "Data" PROVE q = f.of
    BY <1>4
  <2>1. Named(f.id, f.of)
    BY <1>2 DEF Sound, Down, SoundDown
  <2> QED BY <1>4, <2>1 DEF Named, Numbered
<1>6. hand' = hand \/ (rs # {} /\ f.type = "Data" /\ hand' = [hand EXCEPT ![s] = Holding("write", rs, f.of)])
  BY DEF ReadFrame
<1>7. \A t \in Sessions : streams'[t] \subseteq streams[t]
  BY <1>1 DEF ReadFrame
<1> HIDE DEF f, rs
<1>8. \A t \in Sessions : hand'[t] = hand[t] \/ (t = s /\ hand'[t].reqs = rs /\ hand'[t].reqs = {hand'[t].of})
  BY <1>1, <1>5, <1>6 DEF Holding
<1>9. StreamsOn /\ HandOn
  BY <1>4, <1>7, <1>8 DEF StreamsOn, HandOn
<1> QED BY <1>3, <1>9, StillTame DEF Tame, ReadFrame, agent, serve

\* Only what is at hand of a session changes, and its streams at most shrink.
LEMMA HandTame ==
    ASSUME Typed, Sound, NEW s \in Sessions, NEW h, hand' = [hand EXCEPT ![s] = h],
           h.at # "write", h.reqs \subseteq streams[s] \cup hand[s].reqs,
           \A t \in Sessions : streams'[t] \subseteq streams[t]
    PROVE  StreamsOn /\ HandOn
<1>1. \A t \in Sessions : hand'[t] = IF t = s THEN h ELSE hand[t]
  BY DEF Typed, TypeOK
<1> QED BY <1>1 DEF StreamsOn, HandOn

LEMMA HoldingFields ==
    \A at, rs, q : /\ Holding(at, rs, q).at = at /\ Holding(at, rs, q).reqs = rs
                   /\ Holding(at, rs, q).of = q
BY DEF Holding

LEMMA HoldingTame ==
    ASSUME Typed, Sound, NEW s \in Sessions, NEW at, at # "write", NEW rs, NEW q,
           hand' = [hand EXCEPT ![s] = Holding(at, rs, q)],
           rs \subseteq streams[s] \cup hand[s].reqs,
           \A t \in Sessions : streams'[t] \subseteq streams[t]
    PROVE  StreamsOn /\ HandOn
<1> DEFINE h == Holding(at, rs, q)
<1>1. h.at = at /\ h.reqs = rs /\ hand' = [hand EXCEPT ![s] = h]
  BY HoldingFields
<1> HIDE DEF h
<1> QED BY <1>1, HandTame

LEMMA WriteDataTame == ASSUME Typed, Sound, NEW s \in Sessions, WriteData(s) PROVE Tame
<1>1. PICK q \in hand[s].reqs, ok \in BOOLEAN :
         hand' = [hand EXCEPT ![s] = IF ok THEN Holding("reading", {}, NoRequest)
                                     ELSE Holding("reply", {q}, NoRequest)]
  BY DEF WriteData
<1> DEFINE h == IF ok THEN Holding("reading", {}, NoRequest) ELSE Holding("reply", {q}, NoRequest)
<1>2. h.at # "write" /\ h.reqs \subseteq streams[s] \cup hand[s].reqs
  BY HoldingFields
<1> HIDE DEF h
<1>3. StreamsOn /\ HandOn
  BY <1>1, <1>2, HandTame DEF WriteData, h
<1> QED BY <1>3, StillTame DEF Tame, WriteData, proxy, channel, agent, serve

LEMMA ReplyCloseTame == ASSUME Typed, Sound, NEW s \in Sessions, ReplyClose(s) PROVE Tame
<1>1. PICK q \in hand[s].reqs :
         /\ \E ok \in BOOLEAN : ToAgent(s, Bare("Close", id[q]), ok)
         /\ streams' = [streams EXCEPT ![s] = Unregistered(s, q)]
  BY DEF ReplyClose
<1>2. UpOn
  <2>1. Known(id[q])
    <3>1. q \in Requests
      BY <1>1, HandTyped DEF Typed, TypeOK
    <3>2. session[q] = s
      BY <1>1 DEF Sound, Belong
    <3>3. s # None
      BY DEF Sessions, None
    <3> QED BY <3>1, <3>2, <3>3 DEF Known, Given
  <2> QED BY <1>1, <2>1, BareFrames, ToAgentTame
<1>3. \A t \in Sessions : streams'[t] \subseteq streams[t]
  BY <1>1 DEF Typed, TypeOK, Unregistered
<1>4. StreamsOn /\ HandOn
  BY <1>3, HoldingTame DEF ReplyClose
<1> QED BY <1>2, <1>4, StillTame DEF Tame, ReplyClose, proxy, agent, serve

LEMMA StopReadingTame == ASSUME Typed, Sound, NEW s \in Sessions, StopReading(s) PROVE Tame
<1>1. \A t \in Sessions : streams'[t] \subseteq streams[t]
  BY DEF Typed, TypeOK, StopReading
<1>2. StreamsOn /\ HandOn
  BY <1>1, HoldingTame DEF StopReading
<1> QED BY <1>2, StillTame DEF Tame, StopReading, channel, agent, serve

LEMMA SweepTame == ASSUME Typed, Sound, NEW s \in Sessions, Sweep(s) PROVE Tame
<1>1. StreamsOn /\ HandOn
  BY HoldingTame DEF Sweep
<1> QED BY <1>1, StillTame DEF Tame, Sweep, proxy, channel, agent, serve

-----------------------------------------------------------------------------
(* The agent.                                                               *)

LEMMA ConnectTame == ASSUME Typed, Sound, Connect PROVE Tame
<1>1. sessions' \in Sessions
  BY BoundsAssumption DEF Typed, TypeOK, Connect, Sessions
<1>2. StreamsOn /\ HandOn
  BY <1>1, HoldingTame DEF Connect
<1> QED BY <1>2, StillTame DEF Tame, Connect, proxy, serve

\* Targets only leave the map, except by OpenTarget.
LEMMA LiveTargets ==
    ASSUME Typed, NEW i, NEW q \in Live(i)
    PROVE  q \in targets /\ q \in Requests /\ id[q] = i /\ ~tshut[q]
BY DEF Live, Typed, TypeOK

LEMMA ReplyTame ==
    ASSUME NEW i, Known(i), UNCHANGED <<session, id>>,
           task' = Reply(Bare("Error", i)) \/ task' = Reply(Bare("Close", i))
    PROVE  TaskOn
<1>1. task'.at = "reply" /\ (task'.frame = Bare("Error", i) \/ task'.frame = Bare("Close", i))
  BY DEF Reply
<1>2. task'.frame.type \in {"Close", "Error"} /\ task'.frame.id = i
  BY <1>1, BareFrames
<1> QED BY <1>1, <1>2 DEF TaskOn, SoundTask, Known, Given

LEMMA FewerTargets ==
    ASSUME targets' = targets \/ (\E rs : CloseTargets(rs)), UNCHANGED serving
    PROVE  ServeOn
BY DEF ServeOn, CloseTargets

\* A Data frame is for the target that the id names and the bytes are meant
\* for; an Open frame comes from a request that has its id.
LEMMA TakeFrameTame == ASSUME Typed, Numbered, Sound, TakeFrame PROVE Tame
<1> DEFINE f == Head(toAgent[conn])
<1>1. conn \in Sessions /\ toAgent \in [Sessions -> Seq(Frame)]
  BY DEF Typed, TypeOK, TakeFrame
<1>2. /\ f \in Frames(toAgent[conn]) /\ Frames(Tail(toAgent[conn])) \subseteq Frames(toAgent[conn])
      /\ f \in Frame
  BY <1>1, FramesOf DEF TakeFrame
<1>3. UpOn
  <2>1. \A t \in Sessions : toAgent'[t] = toAgent[t] \/ t = conn
    BY <1>1 DEF TakeFrame
  <2>2. toAgent'[conn] = Tail(toAgent[conn])
    BY <1>1 DEF TakeFrame
  <2> QED BY <1>2, <2>1, <2>2 DEF UpOn
<1>4. SoundUp(f)
  BY <1>1, <1>2 DEF Sound, Up
<1>5. UNCHANGED <<session, id>>
  BY DEF TakeFrame, proxy
<1> HIDE DEF f
<1>6. ServeOn /\ TaskOn /\ RelayOn
  <2>1. CASE f.type = "Open" /\ serving' = [serving EXCEPT ![f.of] = "opening"]
             /\ UNCHANGED <<task, targets>>
    <3>1. f.of \in Given
      BY <1>4, <2>1 DEF SoundUp, Named
    <3>2. TaskOn
      BY <1>5, <2>1, StillTame
    <3>3. \A q \in Requests : serving'[q] = serving[q] \/ (serving'[q] = "opening" /\ q = f.of)
      BY <2>1 DEF Typed, TypeOK
    <3>4. ServeOn
      BY <2>1, <3>1, <3>3 DEF ServeOn
    <3>5. RelayOn
      BY <3>3 DEF RelayOn, TakeFrame
    <3> QED BY <3>2, <3>4, <3>5
  <2>2. CASE /\ f.type = "Data"
             /\ \/ \E q \in Live(f.id) : task' = [at |-> "write", req |-> q, frame |-> f]
                \/ task' = Reply(Bare("Error", f.id))
             /\ UNCHANGED <<serving, targets>>
    <3>1. ServeOn /\ RelayOn
      BY <2>2, StillTame DEF TakeFrame
    <3>2. ASSUME NEW q \in Live(f.id), task' = [at |-> "write", req |-> q, frame |-> f] PROVE TaskOn
      <4>1. q \in Given /\ id[q] = f.id
        BY <3>2, LiveTargets DEF Sound, Belong
      <4>2. f.of = q
        BY <1>4, <2>2, <4>1 DEF SoundUp, Named, Numbered
      <4>3. task'.at = "write" /\ task'.req = q /\ task'.frame = f
        BY <3>2
      <4> QED BY <1>5, <4>1, <4>2, <4>3 DEF TaskOn, SoundTask, Named, Given
    <3>3. CASE task' = Reply(Bare("Error", f.id))
      BY <1>4, <1>5, <3>1, <3>3, ReplyTame DEF SoundUp
    <3> QED BY <2>2, <3>1, <3>2, <3>3
  <2>3. CASE /\ \/ \E q \in Live(f.id) : CloseTargets({q}) /\ task' = Reply(Bare("Close", f.id))
                \/ UNCHANGED <<task, targets>>
             /\ UNCHANGED serving
    <3>1. ServeOn
      BY <2>3, FewerTargets
    <3>2. RelayOn
      BY <2>3, StillTame DEF TakeFrame
    <3>3. TaskOn
      <4>1. CASE task' = Reply(Bare("Close", f.id))
        BY <1>4, <1>5, <4>1, ReplyTame DEF SoundUp
      <4> QED BY <1>5, <2>3, <4>1, StillTame
    <3> QED BY <3>1, <3>2, <3>3
  <2> QED BY <2>1, <2>2, <2>3 DEF TakeFrame, f
<1> QED BY <1>3, <1>6, StillTame DEF Tame, TakeFrame, proxy, controller

LEMMA FeedTargetTame == ASSUME Typed, Sound, FeedTarget PROVE Tame
<1>1. ServeOn
  BY FewerTargets DEF FeedTarget, serve
<1>2. TaskOn
  <2>1. task' = Idle \/ task' = Reply(Bare("Close", task.frame.id))
    BY DEF FeedTarget
  <2>2. Idle.at = "idle"
    BY DEF Idle
  <2>3. Known(task.frame.id)
    BY DEF FeedTarget, Sound, AtHand, SoundTask, Named, Known
  <2>4. UNCHANGED <<session, id>>
    BY DEF FeedTarget, proxy
  <2> QED BY <2>1, <2>2, <2>3, <2>4, ReplyTame DEF TaskOn, SoundTask
<1> QED BY <1>1, <1>2, StillTame DEF Tame, FeedTarget, proxy, controller, channel, serve

LEMMA SendReplyTame == ASSUME Typed, Sound, SendReply PROVE Tame
<1>1. SoundDown(task.frame)
  BY DEF Sound, AtHand, SoundTask, SoundDown, SendReply
<1>2. DownOn
  BY <1>1, ToControllerTame DEF SendReply
<1>3. TaskOn
  BY DEF TaskOn, SoundTask, Idle, SendReply
<1> QED BY <1>2, <1>3, StillTame DEF Tame, SendReply, proxy, controller, serve

LEMMA DisconnectTame == ASSUME Typed, Sound, Disconnect PROVE Tame
<1>1. ServeOn
  BY FewerTargets DEF Disconnect, serve
<1> QED BY <1>1, StillTame DEF Tame, Disconnect, proxy, controller, serve

\* A thread goes on to another step.
LEMMA ServeTame ==
    ASSUME Typed, NEW r \in Requests, serving[r] # "none", NEW step \in ServingStep \ {"none"},
           Serve(r, step), \A q \in targets' : q \in targets \/ q = r,
           step # "relaying", \A q \in Requests : q # r => relay'[q] = relay[q]
    PROVE  ServeOn /\ RelayOn
<1>1. \A q \in Requests : serving'[q] = IF q = r THEN step ELSE serving[q]
  BY DEF Typed, TypeOK, Serve
<1> QED BY <1>1 DEF ServeOn, RelayOn

LEMMA ServedKnown ==
    ASSUME Sound, NEW r \in Requests, serving[r] # "none"
    PROVE  Known(id[r])
BY DEF Sound, Belong, Known

LEMMA RefuseOpenTame == ASSUME Typed, Sound, NEW r \in Requests, RefuseOpen(r) PROVE Tame
<1>1. ServeOn /\ RelayOn
  BY ServeTame DEF RefuseOpen, ServingStep
<1>2. DownOn
  BY ServedKnown, BareFrames, ToControllerTame DEF RefuseOpen
<1> QED BY <1>1, <1>2, StillTame DEF Tame, RefuseOpen, proxy, controller

LEMMA OpenTargetTame == ASSUME Typed, Sound, NEW r \in Requests, OpenTarget(r) PROVE Tame
<1>1. ServeOn /\ RelayOn
  BY ServeTame DEF OpenTarget, ServingStep
<1> QED BY <1>1, StillTame DEF Tame, OpenTarget, proxy, controller, channel

LEMMA SendOpenOkTame == ASSUME Typed, Sound, NEW r \in Requests, SendOpenOk(r) PROVE Tame
<1>1. ServeOn /\ RelayOn
  BY ServeTame DEF SendOpenOk, ServingStep
<1>2. DownOn
  BY ServedKnown, BareFrames, ToControllerTame DEF SendOpenOk
<1> QED BY <1>1, <1>2, StillTame DEF Tame, SendOpenOk, proxy, controller

LEMMA NotifyCloseTame == ASSUME Typed, Sound, NEW r \in Requests, NotifyClose(r) PROVE Tame
<1>1. ServeOn /\ RelayOn
  BY ServeTame DEF NotifyClose, ServingStep
<1>2. DownOn
  BY ServedKnown, BareFrames, ToControllerTame DEF NotifyClose
<1> QED BY <1>1, <1>2, StillTame DEF Tame, NotifyClose, proxy, controller

LEMMA EndTargetTame ==
    ASSUME Typed, NEW r \in Requests, serving[r] # "none", EndTarget(r),
           \A q \in Requests : q # r => relay'[q] = relay[q]
    PROVE  ServeOn /\ RelayOn
<1>1. \A q \in targets' : q \in targets
  BY DEF EndTarget, CloseTargets
<1> QED BY <1>1, ServeTame DEF EndTarget, ServingStep

LEMMA LoopOrEndTame == ASSUME Typed, Sound, NEW r \in Requests, LoopOrEnd(r) PROVE Tame
<1>1. ServeOn /\ RelayOn
  <2>1. CASE EndTarget(r)
    BY <2>1, EndTargetTame DEF LoopOrEnd
  <2>2. CASE Serve(r, "receiving") /\ UNCHANGED targets
    BY <2>2, ServeTame DEF LoopOrEnd, ServingStep
  <2> QED BY <2>1, <2>2 DEF LoopOrEnd
<1> QED BY <1>1, StillTame DEF Tame, LoopOrEnd, proxy, controller, channel

\* A reader that was not overtaken has read its own target.
LEMMA ReceiveTame == ASSUME Typed, Sound, ~slipped', NEW r \in Requests, Receive(r) PROVE Tame
<1>1. ServeOn /\ RelayOn
  <2>1. CASE EndTarget(r) /\ UNCHANGED relay
    BY <2>1, EndTargetTame DEF Receive
  <2>2. CASE /\ relay' = [relay EXCEPT ![r] = tfds[tfd[r]]]
             /\ slipped' = (slipped \/ tfds[tfd[r]] # r)
             /\ Serve(r, "relaying") /\ UNCHANGED targets
    <3>1. tfds[tfd[r]] = r
      BY <2>2
    <3>2. \A q \in Requests : /\ serving'[q] = IF q = r THEN "relaying" ELSE serving[q]
                              /\ relay'[q] = IF q = r THEN r ELSE relay[q]
      BY <2>2, <3>1 DEF Typed, TypeOK, Serve
    <3> QED BY <2>2, <3>2 DEF ServeOn, RelayOn, Receive
  <2> QED BY <2>1, <2>2 DEF Receive
<1> QED BY <1>1, StillTame DEF Tame, Receive, proxy, controller, channel

LEMMA RelayTame == ASSUME Typed, Sound, NEW r \in Requests, Relay(r) PROVE Tame
<1>1. relay[r] = r /\ r \in Given
  BY DEF Sound, AtHand, Belong, Relay
<1>2. SoundDown([type |-> "Data", id |-> id[r], of |-> relay[r]])
  BY <1>1 DEF SoundDown, Named, Known
<1>3. DownOn
  BY <1>2, ToControllerTame DEF Relay
<1>4. \A q \in Requests : q # r => relay'[q] = relay[q]
  BY DEF Relay, Typed, TypeOK
<1>5. ServeOn /\ RelayOn
  <2>1. CASE EndTarget(r)
    BY <1>4, <2>1, EndTargetTame DEF Relay
  <2>2. CASE Serve(r, "reading") /\ UNCHANGED targets
    BY <1>4, <2>2, ServeTame DEF Relay, ServingStep
  <2> QED BY <2>1, <2>2 DEF Relay
<1> QED BY <1>3, <1>5, StillTame DEF Tame, Relay, proxy, controller

-----------------------------------------------------------------------------
(* What happens outside.                                                    *)

LEMMA ClientLeavesTame == ASSUME Sound, NEW r \in Requests, ClientLeaves(r) PROVE Tame
BY StillTame DEF Tame, ClientLeaves, proxy, controller, channel, agent, serve

LEMMA TargetEndsTame == ASSUME Sound, NEW r \in Requests, TargetEnds(r) PROVE Tame
BY StillTame DEF Tame, TargetEnds, proxy, controller, channel, agent, serve

LEMMA StartAgentTame == ASSUME Sound, StartAgent PROVE Tame
BY StillTame DEF Tame, StartAgent, proxy, controller, channel, serve

LEMMA StutterTame == ASSUME Sound, UNCHANGED vars PROVE Tame
BY StillTame DEF Tame, vars, proxy, controller, channel, agent, serve

LEMMA BreakTame == ASSUME Typed, Sound, Break PROVE Tame
<1>1. \A s \in Sessions : /\ toAgent'[s] = toAgent[s] \/ toAgent'[s] = <<>>
                          /\ toController'[s] = toController[s] \/ toController'[s] = <<>>
  BY DEF Break, Typed, TypeOK
<1>2. UpOn /\ DownOn
  BY <1>1, FramesOf, EmptyTyped DEF UpOn, DownOn
<1> QED BY <1>2, StillTame DEF Tame, Break, proxy, controller, agent, serve

LEMMA ControllerEndsTame == ASSUME Typed, Sound, ControllerEnds PROVE Tame
<1>1. \A s \in Sessions :
         /\ streams'[s] = {} /\ toController'[s] = <<>>
         /\ \E at \in {"unused", "over"} : hand'[s] = Holding(at, {}, NoRequest)
  BY DEF ControllerEnds
<1>2. StreamsOn /\ HandOn
  BY <1>1, HoldingFields DEF StreamsOn, HandOn
<1>3. DownOn
  BY <1>1, FramesOf, EmptyTyped DEF DownOn
<1> QED BY <1>2, <1>3, StillTame DEF Tame, ControllerEnds, agent, serve

LEMMA AgentEndsTame == ASSUME Typed, Sound, AgentEnds PROVE Tame
<1>1. UpOn
  BY FramesOf, EmptyTyped DEF UpOn, AgentEnds
<1>2. ServeOn /\ RelayOn
  BY DEF ServeOn, RelayOn, AgentEnds
<1>3. TaskOn
  BY DEF TaskOn, SoundTask, Idle, AgentEnds
<1> QED BY <1>1, <1>2, <1>3, StillTame DEF Tame, AgentEnds, proxy, controller

-----------------------------------------------------------------------------
(* Every step.                                                              *)

\* A step that names nobody, and moves a thread as the proxy threads move.
Onward ==
    /\ UNCHANGED <<session, id, nextId>>
    /\ \A r \in Requests : /\ pc'[r] \in Waiting => pc[r] \in Waiting
                           /\ pc'[r] \in Busy => pc[r] \in Busy

LEMMA GotoOnward ==
    ASSUME Typed, UNCHANGED <<session, id, nextId>>, NEW r \in Requests, NEW step, Goto(r, step),
           step \in Waiting => pc[r] \in Waiting,
           step \in Busy => pc[r] \in Busy
    PROVE  Onward
BY DEF Onward, Goto, Typed, TypeOK

\* Nobody is named but by Select, and a thread that is served has a name.
LEMMA NamesKept == ASSUME Numbered, Placed, Onward PROVE Numbered' /\ Placed'
<1>1. Given' = Given
  BY DEF Onward, Given
<1>2. Numbered'
  BY <1>1 DEF Onward, Numbered, Turn
<1> QED BY <1>1, <1>2 DEF Onward, Placed, Waiting, Busy

\* With no more clients than ids, the id that is given out is new.
LEMMA SelectNumbered ==
    ASSUME IsFiniteSet(Requests), Cardinality(Requests) <= IdSpace,
           Typed, Numbered, Placed, NEW r \in Requests, Select(r)
    PROVE  Numbered' /\ Placed'
<1> DEFINE n == Cardinality(Given)
<1>1. r \notin Given /\ Given \subseteq Requests
  BY DEF Placed, Waiting, Select, Given
<1>2. /\ session' = [session EXCEPT ![r] = sessions] /\ sessions \in Sessions
      /\ id' = [id EXCEPT ![r] = nextId] /\ nextId' = NextId
      /\ pc' = [pc EXCEPT ![r] = "registered"]
  BY DEF Select, Goto
<1>3. Given' = Given \cup {r}
  BY <1>1, <1>2 DEF Given, Typed, TypeOK, Sessions, None
<1>4. /\ IsFiniteSet(Given) /\ n \in Nat /\ Cardinality(Given') = n + 1
      /\ IsFiniteSet(Given') /\ n + 1 <= Cardinality(Requests)
      /\ Cardinality(Given') = Cardinality(Requests) => Given' = Requests
      /\ Cardinality(Requests) \in Nat
  <2>1. IsFiniteSet(Given) /\ n <= Cardinality(Requests)
    BY <1>1, FS_Subset
  <2>2. Cardinality(Given') = n + 1 /\ IsFiniteSet(Given')
    BY <1>1, <1>3, <2>1, FS_AddElement
  <2>3. Given' \subseteq Requests
    BY <1>1, <1>3
  <2>4. Cardinality(Given') <= Cardinality(Requests)
        /\ (Cardinality(Given') = Cardinality(Requests) => Given' = Requests)
    BY <2>3, FS_Subset
  <2>5. n \in Nat /\ Cardinality(Requests) \in Nat
    BY <2>1, FS_CardinalityType
  <2> QED BY <2>1, <2>2, <2>4, <2>5
<1>5. IdSpace \in Nat \ {0, 1} /\ nextId \in Nat /\ nextId < IdSpace /\ Turn(nextId) = n + 1
  BY <1>1, BoundsAssumption DEF Numbered, Typed, TypeOK
<1>6. \A q \in Given : id[q] \in Nat /\ id[q] < IdSpace /\ Turn(id[q]) <= n /\ id[q] # nextId
  <2>1. \A q \in Given : id[q] \in Nat
    BY <1>1 DEF Typed, TypeOK
  <2> HIDE DEF n
  <2> QED BY <1>4, <1>5, <2>1 DEF Numbered, n
<1> HIDE DEF n
<1>7. \A q \in Given' : id'[q] = IF q = r THEN nextId ELSE id[q]
  BY <1>2, <1>3, <1>1 DEF Typed, TypeOK
<1>8. NextId \in Nat /\ NextId < IdSpace /\ (n + 1 < IdSpace => Turn(NextId) = n + 2)
  <2>1. CASE nextId = 0
    <3>1. n + 1 = IdSpace
      BY <1>5, <2>1 DEF Turn
    <3>2. NextId = 1
      BY <1>5, <2>1 DEF NextId
    <3> QED BY <1>5, <3>1, <3>2
  <2>2. CASE nextId # 0 /\ nextId + 1 < IdSpace
    <3>1. nextId = n + 1
      BY <1>5, <2>2 DEF Turn
    <3>2. NextId = nextId + 1
      BY <1>5, <2>2 DEF NextId
    <3> QED BY <1>4, <1>5, <2>2, <3>1, <3>2 DEF Turn
  <2>3. CASE nextId # 0 /\ nextId + 1 = IdSpace
    <3>1. nextId = n + 1
      BY <1>5, <2>3 DEF Turn
    <3>2. NextId = 0
      BY <1>5, <2>3 DEF NextId
    <3> QED BY <1>4, <1>5, <2>3, <3>1, <3>2 DEF Turn
  <2> QED BY <1>5, <2>1, <2>2, <2>3
<1>9. Numbered'
  <2>1. nextId' < IdSpace
    BY <1>2, <1>8
  <2>2. \A q \in Given' : id'[q] < IdSpace /\ Turn(id'[q]) <= n + 1
    BY <1>3, <1>4, <1>5, <1>6, <1>7 DEF Turn
  <2>3. Given' # Requests => Turn(nextId') = n + 2
    BY <1>2, <1>4, <1>5, <1>8
  <2>4. \A p, q \in Given' : id'[p] = id'[q] => p = q
    BY <1>3, <1>6, <1>7 DEF Numbered
  <2> QED BY <1>4, <2>1, <2>2, <2>3, <2>4 DEF Numbered, Turn
<1>10. Placed'
  BY <1>2, <1>3 DEF Placed, Waiting, Busy, Typed, TypeOK
<1> QED BY <1>9, <1>10

LEMMA Kept ==
    ASSUME Typed, Typed', Paired, Tame, Onward
    PROVE  Paired'
BY NamesKept, TameKeeps DEF Paired

LEMMA ProxyPaired ==
    ASSUME IsFiniteSet(Requests), Cardinality(Requests) <= IdSpace,
           Typed, Typed', Paired, ~slipped', NEW r \in Requests, ProxyThread(r)
    PROVE  Paired'
<1> USE DEF Waiting, Busy
<1>1. CASE Reject(r)
  <2>1. Onward
    BY <1>1, GotoOnward DEF Reject, process
  <2> QED BY <1>1, <2>1, RejectTame, Kept DEF Paired
<1>2. CASE Select(r)
  BY <1>2, SelectTame, SelectNumbered, TameKeeps DEF Paired
<1>3. CASE SendOpen(r)
  <2>1. Onward
    BY <1>3, GotoOnward DEF SendOpen, process
  <2> QED BY <1>3, <2>1, SendOpenTame, Kept DEF Paired
<1>4. CASE GiveUp(r)
  <2>1. Onward
    BY <1>4, GotoOnward DEF GiveUp, process
  <2> QED BY <1>4, <2>1, GiveUpTame, Kept DEF Paired
<1>5. CASE Refuse(r)
  <2>1. Onward
    BY <1>5, GotoOnward DEF Refuse, process
  <2> QED BY <1>5, <2>1, RefuseTame, Kept DEF Paired
<1>6. CASE Greet(r)
  <2>1. Onward
    BY <1>6, GotoOnward DEF Greet, process
  <2> QED BY <1>6, <2>1, GreetTame, Kept DEF Paired
<1>7. CASE SendHeader(r)
  <2>1. Onward
    BY <1>7, GotoOnward DEF SendHeader, Leave, process
  <2> QED BY <1>7, <2>1, SendHeaderTame, Kept DEF Paired
<1>8. CASE Copy(r)
  <2>1. Onward
    BY <1>8, GotoOnward DEF Copy, process
  <2> QED BY <1>8, <2>1, CopyTame, Kept DEF Paired
<1>9. CASE SendClose(r)
  <2>1. Onward
    BY <1>9, GotoOnward DEF SendClose, Leave, process
  <2> QED BY <1>9, <2>1, SendCloseTame, Kept DEF Paired
<1> QED BY <1>1, <1>2, <1>3, <1>4, <1>5, <1>6, <1>7, <1>8, <1>9 DEF ProxyThread

\* The proxy threads keep where they are.
LEMMA StayOnward == ASSUME UNCHANGED <<session, id, nextId, pc>> PROVE Onward
BY DEF Onward

LEMMA ReaderPaired ==
    ASSUME Typed, Typed', Paired, NEW s \in Sessions, Reader(s)
    PROVE  Paired'
<1>1. Onward
  BY StayOnward DEF Reader, ReadFrame, WriteData, ReplyClose, StopReading, Sweep, process, proxy
<1>2. Tame
  BY ReadFrameTame, WriteDataTame, ReplyCloseTame, StopReadingTame, SweepTame DEF Reader, Paired
<1> QED BY <1>1, <1>2, Kept

LEMMA AgentPaired ==
    ASSUME Typed, Typed', Paired, FrameLoop \/ Connect
    PROVE  Paired'
<1>1. Onward
  BY StayOnward DEF FrameLoop, TakeFrame, FeedTarget, SendReply, Disconnect, Connect, process, proxy
<1>2. Tame
  BY TakeFrameTame, FeedTargetTame, SendReplyTame, DisconnectTame, ConnectTame
     DEF FrameLoop, Paired
<1> QED BY <1>1, <1>2, Kept

LEMMA TargetPaired ==
    ASSUME Typed, Typed', Paired, ~slipped', NEW r \in Requests, TargetThread(r)
    PROVE  Paired'
<1>1. Onward
  BY StayOnward DEF TargetThread, RefuseOpen, OpenTarget, SendOpenOk, LoopOrEnd, Receive, Relay,
                    NotifyClose, process, proxy
<1>2. Tame
  BY RefuseOpenTame, OpenTargetTame, SendOpenOkTame, LoopOrEndTame, ReceiveTame, RelayTame,
     NotifyCloseTame DEF TargetThread, Paired
<1> QED BY <1>1, <1>2, Kept

LEMMA OutsidePaired ==
    ASSUME Typed, Typed', Paired, starts' = starts, Outside
    PROVE  Paired'
<1>1. ASSUME NEW r \in Requests, Accept(r) PROVE Paired'
  <2>1. Onward
    BY <1>1, GotoOnward DEF Accept, process, Waiting, Busy
  <2> QED BY <1>1, <2>1, AcceptTame, Kept DEF Paired
<1>2. ASSUME NEW r \in Requests, ClientLeaves(r) \/ TargetEnds(r) PROVE Paired'
  <2>1. Onward
    BY <1>2, StayOnward DEF ClientLeaves, TargetEnds, process, proxy
  <2> QED BY <1>2, <2>1, ClientLeavesTame, TargetEndsTame, Kept DEF Paired
<1>3. CASE Break \/ StartAgent
  <2>1. Onward
    BY <1>3, StayOnward DEF Break, StartAgent, process, proxy
  <2> QED BY <1>3, <2>1, BreakTame, StartAgentTame, Kept DEF Paired
<1>4. CASE StopController \/ ControllerPipe
  <2>1. ControllerEnds
    BY <1>4 DEF StopController, ControllerPipe
  <2>2. Onward
    BY <2>1 DEF Onward, ControllerEnds, Waiting, Busy
  <2> QED BY <2>1, <2>2, ControllerEndsTame, Kept DEF Paired
<1>5. CASE StopAgent \/ AgentPipe
  <2>1. AgentEnds
    BY <1>5 DEF StopAgent, AgentPipe
  <2>2. Onward
    BY <2>1, StayOnward DEF AgentEnds, process, proxy
  <2> QED BY <2>1, <2>2, AgentEndsTame, Kept DEF Paired
<1>6. ~StartController
  BY DEF StartController, Typed, TypeOK
<1> QED BY <1>1, <1>2, <1>3, <1>4, <1>5, <1>6 DEF Outside

\* Nobody forgets that a thread was overtaken or the controller restarted.
LEMMA NeverSane ==
    ASSUME Typed, starts # 0, [Next]_vars
    PROVE  starts' # 0 /\ (Sane' => Sane /\ starts' = starts)
<1>1. CASE UNCHANGED vars
  BY <1>1 DEF vars, process, history, Sane
<1>2. ASSUME NEW r \in Requests, ProxyThread(r) PROVE starts' = starts /\ (slipped => slipped')
  <2>1. CASE Refuse(r) \/ Greet(r)
    BY <2>1 DEF Refuse, Greet, WriteClient, process, history
  <2>2. CASE Copy(r)
    <3>1. starts' = starts
      BY <2>2 DEF Copy, process
    <3>2. slipped => slipped'
      BY <2>2, Zenon DEF Copy
    <3> QED BY <3>1, <3>2
  <2>3. CASE Reject(r) \/ Select(r) \/ SendOpen(r) \/ GiveUp(r) \/ SendHeader(r) \/ SendClose(r)
    <3>1. starts' = starts
      BY <2>3 DEF Reject, Select, SendOpen, GiveUp, SendHeader, SendClose, process
    <3>2. slipped' = slipped
      BY <2>3 DEF Reject, Select, SendOpen, GiveUp, SendHeader, SendClose, history
    <3> QED BY <3>1, <3>2
  <2> QED BY <1>2, <2>1, <2>2, <2>3 DEF ProxyThread
<1>3. ASSUME NEW r \in Requests, TargetThread(r) PROVE starts' = starts /\ (slipped => slipped')
  <2>1. CASE Receive(r)
    <3>1. starts' = starts
      BY <2>1 DEF Receive, process
    <3>2. slipped => slipped'
      BY <2>1, Zenon DEF Receive
    <3> QED BY <3>1, <3>2
  <2>2. CASE RefuseOpen(r) \/ OpenTarget(r) \/ SendOpenOk(r) \/ LoopOrEnd(r) \/ Relay(r) \/ NotifyClose(r)
    BY <2>2 DEF RefuseOpen, OpenTarget, SendOpenOk, LoopOrEnd, Relay, NotifyClose, process, history
  <2> QED BY <1>3, <2>1, <2>2 DEF TargetThread
<1>4. ASSUME NEW s \in Sessions, Reader(s) PROVE starts' = starts /\ (slipped => slipped')
  <2>1. CASE WriteData(s)
    BY <2>1 DEF WriteData, WriteClient, process, history
  <2>2. CASE ReadFrame(s) \/ ReplyClose(s) \/ StopReading(s) \/ Sweep(s)
    BY <2>2 DEF ReadFrame, ReplyClose, StopReading, Sweep, process, history
  <2> QED BY <1>4, <2>1, <2>2 DEF Reader
<1>5. CASE FrameLoop \/ Connect
  <2>1. starts' = starts /\ (slipped => slipped')
    BY <1>5 DEF FrameLoop, TakeFrame, FeedTarget, SendReply, Disconnect, Connect, WriteTarget,
                process, history
  <2> QED BY <2>1 DEF Sane
<1>6. CASE Outside /\ ~StartController
  <2>1. starts' = starts /\ slipped' = slipped
    BY <1>6 DEF Outside, Accept, ClientLeaves, TargetEnds, Break, StopController, StopAgent,
                ControllerPipe, AgentPipe, ControllerEnds, AgentEnds, StartAgent, process, history
  <2> QED BY <2>1 DEF Sane
<1>7. CASE StartController
  BY <1>7 DEF StartController, Typed, TypeOK, Sane
<1> QED BY <1>1, <1>2, <1>3, <1>4, <1>5, <1>6, <1>7 DEF Next, Sane

LEMMA StepIsolated ==
    ASSUME IsFiniteSet(Requests), Cardinality(Requests) <= IdSpace,
           Typed, Typed', Isolated, [Next]_vars
    PROVE  Isolated'
<1> SUFFICES ASSUME Sane' PROVE Paired'
  BY NeverSane DEF Isolated
<1>1. Sane /\ Paired /\ starts' = starts /\ ~slipped'
  BY NeverSane DEF Isolated, Sane
<1>2. CASE UNCHANGED vars
  <2>1. Onward
    BY <1>2, StayOnward DEF vars, process, proxy
  <2> QED BY <1>1, <1>2, <2>1, StutterTame, Kept DEF Paired
<1>3. CASE Next
  BY <1>1, <1>3, ProxyPaired, TargetPaired, ReaderPaired, AgentPaired, OutsidePaired DEF Next
<1> QED BY <1>2, <1>3

LEMMA InitIsolated == Init => Isolated
<1> SUFFICES ASSUME Init PROVE Isolated
  OBVIOUS
<1>1. Given = {}
  BY DEF Init, Given
<1>2. Numbered
  <2>1. Cardinality(Given) = 0
    BY <1>1, FS_EmptySet
  <2> QED BY <1>1, <2>1, BoundsAssumption DEF Init, Numbered, Turn
<1>3. Placed
  BY <1>1 DEF Init, Placed, Waiting, Busy
<1>4. \A s \in Sessions : hand[s].at = "unused" /\ hand[s].reqs = {}
  BY HoldingFields DEF Init
<1>5. Belong
  BY <1>4 DEF Init, Belong
<1>6. Up /\ Down
  BY FramesOf, EmptyTyped DEF Init, Up, Down
<1>7. AtHand
  BY <1>4, TaskTyped DEF Init, AtHand, SoundTask
<1> QED BY <1>2, <1>3, <1>5, <1>6, <1>7 DEF Init, Isolated, Paired, Sound

\* With no more clients than stream ids, and no restart of the controller: the
\* bytes that read_loop (tunnel/main.cpp) and handle_data
\* (agent/main.cpp) are about to write come from the other end of the stream,
\* although both go by the id alone, unless a close overtook a thread.
THEOREM BytesStayApart ==
    ASSUME IsFiniteSet(Requests), Cardinality(Requests) <= IdSpace
    PROVE  Spec => []Isolation
<1>1. Typed /\ Owned /\ Isolated /\ [Next]_vars => Typed' /\ Owned' /\ Isolated'
  <2> SUFFICES ASSUME Typed, Owned, Isolated, [Next]_vars PROVE Typed' /\ Owned' /\ Isolated'
    OBVIOUS
  <2>1. Typed' /\ Owned'
    BY NextOwned, StutterOwned
  <2> QED BY <2>1, StepIsolated
<1>2. Typed /\ Isolated => Isolation
  <2> SUFFICES ASSUME Typed, Isolated, Sane PROVE Isolation
    BY DEF Isolation, Sane
  <2>1. AtHand
    BY DEF Isolated, Paired, Sound
  <2> QED BY <2>1 DEF Isolation, AtHand, SoundTask
<1> QED BY <1>1, <1>2, InitOwned, InitIsolated, PTL DEF Spec
=============================================================================
