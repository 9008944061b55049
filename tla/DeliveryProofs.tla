--------------------------- MODULE DeliveryProofs ---------------------------
(***************************************************************************)
(* Theorems about Delivery for any number of events and workers, any       *)
(* attempt budget and any mix of disturbances.  A step is treated once, in *)
(* the lemma of its invariant, with one case per action.                   *)
(***************************************************************************)
EXTENDS Delivery, SequenceTheorems, TLAPS

-----------------------------------------------------------------------------
(* Tables: sequences whose index is the id of the row.                      *)

\* A table is a function from its ids to its rows.
LEMMA TableIsFunction ==
    ASSUME NEW S, NEW t \in Seq(S)
    PROVE  /\ Len(t) \in Nat
           /\ DOMAIN t = 1..Len(t)
           /\ \A i \in DOMAIN t : t[i] \in S
  BY LenProperties, ElementOfSeq

\* Rewriting rows in place leaves a table.
LEMMA FunctionIsTable ==
    ASSUME NEW S, NEW t \in Seq(S), NEW f \in [DOMAIN t -> S]
    PROVE  f \in Seq(S) /\ Len(f) = Len(t)
<1>1. Len(t) \in Nat /\ f \in [1..Len(t) -> S]
  BY TableIsFunction
<1>2. f \in Seq(S)
  BY <1>1, SeqDef
<1> QED
  BY <1>1, <1>2, LenProperties

\* A new row gets the next id and leaves the others alone.
LEMMA NewRow ==
    ASSUME NEW S, NEW t \in Seq(S), NEW x \in S
    PROVE  /\ Append(t, x) \in Seq(S)
           /\ DOMAIN Append(t, x) = DOMAIN t \cup {Len(t) + 1}
           /\ Len(t) + 1 \notin DOMAIN t
           /\ \A i \in DOMAIN t : Append(t, x)[i] = t[i]
           /\ Append(t, x)[Len(t) + 1] = x
<1>1. Len(t) \in Nat /\ DOMAIN t = 1..Len(t)
  BY TableIsFunction
<1>2. Append(t, x) \in Seq(S) /\ Len(Append(t, x)) = Len(t) + 1
  BY AppendProperties
<1>3. DOMAIN Append(t, x) = 1..(Len(t) + 1)
  BY <1>2, TableIsFunction
<1> QED
  BY <1>1, <1>2, <1>3, AppendProperties

\* A disturbance is added to those before it.
LEMMA DisturbanceRecorded ==
    ASSUME NEW kind, Disturb(kind), disturbed \in Seq(DisturbanceKinds)
    PROVE  /\ disturbed' \in Seq(DisturbanceKinds)
           /\ Struck => Struck'
           /\ kind = "time_limit" => Struck'
<1>1. kind \in DisturbanceKinds /\ disturbed' = Append(disturbed, kind)
  BY DisturbancesAssumption DEF Disturb
<1> QED
  BY <1>1, NewRow DEF Struck

-----------------------------------------------------------------------------
\* Type correctness: every variable keeps the shape its column, queue or
\* worker variable has, and a worker that is busy has an event.
THEOREM Typing == Spec => []TypeOK
<1>1. Init => TypeOK
  BY DEF Init, TypeOK, EventStatus, DestinationState, Steps
<1>2. TypeOK /\ [Next]_vars => TypeOK'
  <2> SUFFICES ASSUME TypeOK, [Next]_vars
               PROVE  TypeOK'
    OBVIOUS
  <2> USE MaxAttemptsAssumption, NoEventAssumption, BoundsAssumption
          DEF TypeOK, EventStatus, DestinationState, Steps, AuditAction, At, Goto, Rest, database, worker
  <2>1. ASSUME NEW e \in Events, Ingest(e) PROVE TypeOK'
    BY <2>1 DEF Ingest
  <2>2. ASSUME NEW e \in Events, Replay(e) PROVE TypeOK'
    <3>1. Len(attempts) \in Nat
      BY TableIsFunction
    <3>2. [event |-> e, status |-> "queued"] \in ReplayRequest
      BY <3>1 DEF ReplayRequest
    <3>3. replays' \in Seq(ReplayRequest)
      BY <2>2, <3>2, NewRow DEF Replay
    <3>4. /\ status' \in [Events -> EventStatus]
          /\ attempt_count' \in [Events -> Nat]
          /\ due' \in [Events -> BOOLEAN]
          /\ web' \in [Events -> Nat]
      BY <2>2 DEF Replay
    <3>5. audit' \subseteq Events \X AuditAction
      BY <2>2 DEF Replay
    <3> QED
      BY <2>2, <3>3, <3>4, <3>5 DEF Replay
  <2>3. ASSUME NEW e \in Events, Delay(e) PROVE TypeOK'
    BY <2>3 DEF Delay
  <2>4. ASSUME NEW e \in Events, Elapse(e) PROVE TypeOK'
    BY <2>4 DEF Elapse
  <2>5. ASSUME NEW e \in Events, Sweep(e) PROVE TypeOK'
    BY <2>5, SMTT(30) DEF Sweep
  <2>6. ASSUME NEW e \in Events, WebCrash(e) PROVE TypeOK'
    <3>1. web' \in [Events -> Nat]
      BY <2>6 DEF WebCrash
    <3>2. disturbed' \in Seq(DisturbanceKinds)
      BY <2>6, DisturbanceRecorded DEF WebCrash
    <3> QED
      BY <2>6, <3>1, <3>2 DEF WebCrash
  <2>7. ASSUME NEW e \in Events, NEW w \in Workers, Take(w, e) PROVE TypeOK'
    <3>1. broker' \in [Events -> Nat]
      BY <2>7 DEF Take
    <3>2. /\ pc' \in [Workers -> Steps]
          /\ job' \in [Workers -> Events \cup {NoEvent}]
          /\ \A v \in Workers : pc'[v] # "idle" => job'[v] \in Events
      BY <2>7 DEF Take
    <3> QED
      BY <2>7, <3>1, <3>2 DEF Take
  <2>8. ASSUME NEW e \in Events, NEW d \in DestinationState,
               ChangeDestination(e, d) PROVE TypeOK'
    BY <2>8, DisturbanceRecorded DEF ChangeDestination
  <2>9. ASSUME NEW w \in Workers, BeginDelivered(w) PROVE TypeOK'
    BY <2>9 DEF BeginDelivered
  <2>10. ASSUME NEW w \in Workers, BeginSkipped(w) PROVE TypeOK'
    BY <2>10, SMTT(30) DEF BeginSkipped
  <2>11. ASSUME NEW w \in Workers, BeginAttempt(w) PROVE TypeOK'
    <3>1. Len(attempts) \in Nat
      BY TableIsFunction
    <3>2. job[w] \in Events /\ attempt_count[job[w]] + 1 \in Nat
      BY <2>11 DEF BeginAttempt
    <3>3. attempts' \in Seq(Attempt)
      <4> DEFINE new == [event |-> job[w], number |-> attempt_count[job[w]] + 1,
                         status |-> "pending"]
      <4>1. new \in Attempt
        BY <3>2 DEF Attempt
      <4>2. attempts' = Append(attempts, new)
        BY <2>11 DEF BeginAttempt
      <4> QED
        BY <4>1, <4>2, NewRow
    <3>4. /\ attempt_count' \in [Events -> Nat]
          /\ status' \in [Events -> EventStatus]
      BY <2>11, <3>2 DEF BeginAttempt
    <3>5. /\ row' \in [Workers -> Nat]
          /\ pc' \in [Workers -> Steps]
          /\ \A v \in Workers : pc'[v] # "idle" => job[v] \in Events
      BY <2>11, <3>1 DEF BeginAttempt
    <3> QED
      BY <2>11, <3>3, <3>4, <3>5 DEF BeginAttempt
  <2>12. ASSUME NEW w \in Workers, Load(w) PROVE TypeOK'
    BY <2>12 DEF Load
  <2>13. ASSUME NEW w \in Workers, Post(w) PROVE TypeOK'
    <3>1. ok' \in [Workers -> BOOLEAN]
      BY <2>13 DEF Post
    <3>2. row[w] \in Nat /\ accepted' \subseteq accepted \cup {row[w]}
      BY <2>13 DEF Post
    <3> QED
      BY <2>13, <3>1, <3>2 DEF Post
  <2>14. ASSUME NEW w \in Workers, SaveAttempt(w) PROVE TypeOK'
    <3>1. attempts' \in Seq(Attempt)
      <4>1. \A i \in DOMAIN attempts : attempts[i] \in Attempt
        BY TableIsFunction
      <4>2. PICK verdict \in {"succeeded", "failed"} :
               attempts' = [attempts EXCEPT ![row[w]].status = verdict]
        BY <2>14 DEF SaveAttempt
      <4>3. attempts' \in [DOMAIN attempts -> Attempt]
        <5> HIDE DEF TypeOK
        <5>1. \A x \in Attempt : [x EXCEPT !.status = verdict] \in Attempt
          BY DEF Attempt
        <5>2. attempts' = [i \in DOMAIN attempts |->
                 IF i = row[w] THEN [attempts[i] EXCEPT !.status = verdict]
                               ELSE attempts[i]]
          BY <4>2
        <5> QED
          BY <4>1, <5>1, <5>2
      <4> QED
        BY <4>3, FunctionIsTable
    <3> QED
      BY <2>14, <3>1 DEF SaveAttempt
  <2>15. ASSUME NEW w \in Workers, SaveDelivered(w) PROVE TypeOK'
    BY <2>15 DEF SaveDelivered
  <2>16. ASSUME NEW w \in Workers, SaveDeadLettered(w) PROVE TypeOK'
    BY <2>16 DEF SaveDeadLettered
  <2>17. ASSUME NEW w \in Workers, SaveFailed(w) PROVE TypeOK'
    BY <2>17 DEF SaveFailed
  <2>18. ASSUME NEW w \in Workers, FinalizeReplays(w) PROVE TypeOK'
    <3>1. replays' \in Seq(ReplayRequest)
      <4>1. \A r \in DOMAIN replays : replays[r] \in ReplayRequest
        BY TableIsFunction
      <4>2. replays' \in [DOMAIN replays -> ReplayRequest]
        BY <2>18, <4>1 DEF FinalizeReplays, ReplayRequest
      <4> QED
        BY <4>2, FunctionIsTable
    <3> QED
      BY <2>18, <3>1 DEF FinalizeReplays
  <2>19. ASSUME NEW w \in Workers, WriteAudit(w) PROVE TypeOK'
    <3>1. job[w] \in Events
      BY <2>19 DEF WriteAudit
    <3>2. audit' \subseteq Events \X AuditAction
      BY <2>19, <3>1 DEF WriteAudit
    <3>3. pc' \in [Workers -> Steps] /\ \A v \in Workers : pc'[v] # "idle" => pc[v] # "idle"
      BY <2>19 DEF WriteAudit
    <3> QED
      BY <2>19, <3>2, <3>3 DEF WriteAudit
  <2>20. ASSUME NEW w \in Workers, Retry(w) PROVE TypeOK'
    BY <2>20 DEF Retry
  <2>21. ASSUME NEW w \in Workers, Ack(w) PROVE TypeOK'
    BY <2>21 DEF Ack
  <2>22. ASSUME NEW w \in Workers, Crash(w) PROVE TypeOK'
    <3>1. disturbed' \in Seq(DisturbanceKinds)
      BY <2>22, DisturbanceRecorded DEF Crash
    <3>2. broker' \in [Events -> Nat]
      BY <2>22 DEF Crash, At
    <3> QED
      BY <2>22, <3>1, <3>2 DEF Crash
  <2>23. ASSUME NEW w \in Workers, TimeLimit(w) PROVE TypeOK'
    <3>1. disturbed' \in Seq(DisturbanceKinds)
      BY <2>23, DisturbanceRecorded DEF TimeLimit
    <3>2. /\ pc' = [pc EXCEPT ![w] = "idle"]
          /\ job' = [job EXCEPT ![w] = NoEvent]
      BY <2>23 DEF TimeLimit
    <3> QED
      BY <2>23, <3>1, <3>2 DEF TimeLimit
  <2>24. CASE UNCHANGED vars
    BY <2>24 DEF vars
  <2> HIDE DEF TypeOK, At, Goto, Rest
  <2> QED
    BY <2>1, <2>2, <2>3, <2>4, <2>5, <2>6, <2>7, <2>8, <2>9, <2>10, <2>11, <2>12,
       <2>13, <2>14, <2>15, <2>16, <2>17, <2>18, <2>19, <2>20, <2>21, <2>22, <2>23,
       <2>24 DEF Next, WorkerStep, FinalizeStep
<1> QED
  BY <1>1, <1>2, PTL DEF Spec

-----------------------------------------------------------------------------
(* The tables only grow.                                                    *)

\* What was tried stays tried and what was reached stays reached.
LEMMA EvidenceStays ==
    ASSUME ExtendsHistory, accepted \subseteq accepted', NEW e
    PROVE  /\ AttemptsOf(e) \subseteq AttemptsOf(e)'
           /\ Tried(e) \subseteq Tried(e)'
           /\ Exhausted(e) => Exhausted(e)'
           /\ Reached(e) => Reached(e)'
<1>1. AttemptsOf(e) \subseteq AttemptsOf(e)'
  BY DEF AttemptsOf, ExtendsHistory
<1>2. \A i \in AttemptsOf(e) : attempts'[i].number = attempts[i].number
  BY DEF AttemptsOf, ExtendsHistory
<1>3. Tried(e) \subseteq Tried(e)'
  BY <1>1, <1>2 DEF Tried
<1>4. Exhausted(e) => Exhausted(e)'
  BY <1>3 DEF Exhausted
<1>5. Reached(e) => Reached(e)'
  BY <1>1 DEF Reached
<1> QED
  BY <1>1, <1>3, <1>4, <1>5

\* Rows are only added by BeginAttempt and only written by SaveAttempt, and
\* then the row is pending.
LEMMA StepExtendsHistory ==
    ASSUME TypeOK, OwnRow, PendingUntilSaved, [Next]_vars
    PROVE  ExtendsHistory /\ accepted \subseteq accepted'
<1>1. ASSUME NEW w \in Workers, BeginAttempt(w)
      PROVE  ExtendsHistory /\ accepted \subseteq accepted'
  <2> DEFINE new == [event |-> job[w], number |-> attempt_count[job[w]] + 1,
                     status |-> "pending"]
  <2>1. new \in Attempt
    BY <1>1 DEF BeginAttempt, At, TypeOK, Attempt
  <2>2. attempts' = Append(attempts, new) /\ accepted' = accepted
    BY <1>1 DEF BeginAttempt
  <2>3. \A i \in DOMAIN attempts : i \in DOMAIN attempts' /\ attempts'[i] = attempts[i]
    BY <2>1, <2>2, NewRow DEF TypeOK
  <2> QED
    BY <2>2, <2>3 DEF ExtendsHistory
<1>2. ASSUME NEW w \in Workers, SaveAttempt(w)
      PROVE  ExtendsHistory /\ accepted \subseteq accepted'
  <2>1. row[w] \in DOMAIN attempts /\ attempts[row[w]].status = "pending"
    BY <1>2 DEF SaveAttempt, At, InHand, OwnRow, AttemptsOf, PendingUntilSaved
  <2>2. \A i \in DOMAIN attempts : attempts[i] \in Attempt
    BY TableIsFunction DEF TypeOK
  <2> QED
    BY <1>2, <2>1, <2>2 DEF SaveAttempt, ExtendsHistory, Attempt
<1>3. ASSUME NEW w \in Workers, Post(w)
      PROVE  ExtendsHistory /\ accepted \subseteq accepted'
  BY <1>3 DEF Post, ExtendsHistory, database
<1>4. CASE UNCHANGED <<attempts, accepted>>
  BY <1>4 DEF ExtendsHistory
<1> QED
  <2>1. CASE UNCHANGED vars
    BY <1>4, <2>1 DEF vars, database
  <2>2. ASSUME NEW e \in Events,
               \/ Ingest(e) \/ Replay(e) \/ Delay(e) \/ Elapse(e) \/ Sweep(e)
               \/ WebCrash(e)
               \/ \E w \in Workers : Take(w, e)
               \/ \E d \in DestinationState : ChangeDestination(e, d)
        PROVE  UNCHANGED <<attempts, accepted>>
    BY <2>2 DEF Ingest, Replay, Delay, Elapse, Sweep, WebCrash, Take,
                ChangeDestination, database
  <2>3. ASSUME NEW w \in Workers,
               \/ BeginDelivered(w) \/ BeginSkipped(w) \/ Load(w)
               \/ SaveDelivered(w) \/ SaveDeadLettered(w) \/ SaveFailed(w)
               \/ FinalizeReplays(w) \/ WriteAudit(w) \/ Retry(w) \/ Ack(w)
               \/ Crash(w) \/ TimeLimit(w)
        PROVE  UNCHANGED <<attempts, accepted>>
    BY <2>3 DEF BeginDelivered, BeginSkipped, Load, SaveDelivered,
                SaveDeadLettered, SaveFailed, FinalizeReplays, WriteAudit,
                Retry, Ack, Crash, TimeLimit, database
  <2> QED
    BY <1>1, <1>2, <1>3, <1>4, <2>1, <2>2, <2>3
       DEF Next, WorkerStep, FinalizeStep

-----------------------------------------------------------------------------
(* The inductive invariant, one lemma per conjunct.                         *)

\* Only BeginAttempt puts an attempt into a worker's hands; after that the
\* worker keeps its row and its event until it rests.
LEMMA HandsKeep ==
    ASSUME TypeOK, [Next]_vars,
           NEW v \in Workers, ~BeginAttempt(v), InHand(v)'
    PROVE  InHand(v) /\ row'[v] = row[v] /\ job'[v] = job[v]
<1> USE DEF InHand, At, Goto, Rest, TypeOK
<1>1. CASE UNCHANGED worker
  BY <1>1 DEF worker
<1>2. ASSUME NEW e \in Events, NEW w \in Workers, Take(w, e)
      PROVE  InHand(v) /\ row'[v] = row[v] /\ job'[v] = job[v]
  BY <1>2 DEF Take
<1>3. ASSUME NEW w \in Workers, BeginDelivered(w) \/ BeginSkipped(w)
      PROVE  InHand(v) /\ row'[v] = row[v] /\ job'[v] = job[v]
  BY <1>3 DEF BeginDelivered, BeginSkipped
<1>4. ASSUME NEW w \in Workers, BeginAttempt(w)
      PROVE  InHand(v) /\ row'[v] = row[v] /\ job'[v] = job[v]
  BY <1>4 DEF BeginAttempt
<1>5. ASSUME NEW w \in Workers, Load(w) \/ Post(w)
      PROVE  InHand(v) /\ row'[v] = row[v] /\ job'[v] = job[v]
  BY <1>5 DEF Load, Post
<1>6. ASSUME NEW w \in Workers, SaveAttempt(w) \/ FinalizeReplays(w)
      PROVE  InHand(v) /\ row'[v] = row[v] /\ job'[v] = job[v]
  BY <1>6 DEF SaveAttempt, FinalizeReplays
<1>7. ASSUME NEW w \in Workers, SaveDelivered(w) \/ SaveDeadLettered(w) \/ SaveFailed(w)
     
      PROVE  InHand(v) /\ row'[v] = row[v] /\ job'[v] = job[v]
  BY <1>7 DEF SaveDelivered, SaveDeadLettered, SaveFailed
<1>8. ASSUME NEW w \in Workers, WriteAudit(w) \/ Retry(w)
      PROVE  InHand(v) /\ row'[v] = row[v] /\ job'[v] = job[v]
  BY <1>8 DEF WriteAudit, Retry
<1>9. ASSUME NEW w \in Workers, Ack(w) \/ Crash(w) \/ TimeLimit(w)
      PROVE  InHand(v) /\ row'[v] = row[v] /\ job'[v] = job[v]
  BY <1>9 DEF Ack, Crash, TimeLimit
<1> HIDE DEF InHand, At, Goto, Rest, TypeOK
<1>10. ASSUME NEW e \in Events,
               \/ Ingest(e) \/ Replay(e) \/ Delay(e) \/ Elapse(e) \/ Sweep(e)
               \/ WebCrash(e)
               \/ \E d \in DestinationState : ChangeDestination(e, d)
       PROVE  UNCHANGED worker
  BY <1>10 DEF Ingest, Replay, Delay, Elapse, Sweep, WebCrash, ChangeDestination
<1>11. CASE UNCHANGED vars
  BY <1>1, <1>11 DEF vars
<1> QED
  BY <1>1, <1>2, <1>3, <1>4, <1>5, <1>6, <1>7, <1>8, <1>9, <1>10, <1>11
     DEF Next, WorkerStep, FinalizeStep

\* A worker's attempt is of its event, and nobody else's.
LEMMA OwnRowStep ==
    ASSUME TypeOK, OwnRow, PendingUntilSaved, [Next]_vars
    PROVE  OwnRow'
<1>1. ExtendsHistory /\ accepted \subseteq accepted'
  BY StepExtendsHistory
<1>2. \A e : AttemptsOf(e) \subseteq AttemptsOf(e)'
  BY <1>1, EvidenceStays
<1>3. CASE \A w \in Workers : ~BeginAttempt(w)
  <2>1. \A v \in Workers : InHand(v)' => InHand(v) /\ row'[v] = row[v] /\ job'[v] = job[v]
    BY <1>3, HandsKeep
  <2> QED
    BY <1>2, <2>1 DEF OwnRow
<1>4. ASSUME NEW w \in Workers, BeginAttempt(w) PROVE OwnRow'
  <2> DEFINE new == [event |-> job[w], number |-> attempt_count[job[w]] + 1,
                     status |-> "pending"]
             id == Len(attempts) + 1
  <2>1. new \in Attempt
    BY <1>4 DEF BeginAttempt, At, TypeOK, Attempt
  <2>2. attempts' = Append(attempts, new)
    BY <1>4 DEF BeginAttempt
  <2>3. id \notin DOMAIN attempts /\ id \in DOMAIN attempts' /\ attempts'[id] = new
    BY <2>1, <2>2, NewRow DEF TypeOK
  <2>4. row'[w] = id /\ job' = job
    BY <1>4 DEF BeginAttempt, TypeOK
  <2>5. row'[w] \in AttemptsOf(job[w])'
    BY <2>3, <2>4 DEF AttemptsOf
  <2>6. ASSUME NEW v \in Workers, v # w, InHand(v)'
        PROVE  InHand(v) /\ row'[v] = row[v]
    BY <1>4, <2>6 DEF BeginAttempt, Goto, InHand, TypeOK
  <2>7. ASSUME NEW v \in Workers, v # w, InHand(v)'
        PROVE  row'[v] \in AttemptsOf(job[v])' /\ row'[v] # id
    BY <1>2, <2>3, <2>4, <2>6, <2>7 DEF OwnRow, AttemptsOf
  <2>8. \A v \in Workers : InHand(v)' => row'[v] \in AttemptsOf(job[v])'
    BY <2>5, <2>7
  <2>9. \A u, v \in Workers : InHand(u)' /\ InHand(v)' /\ row'[u] = row'[v] => u = v
    BY <2>4, <2>6, <2>7 DEF OwnRow
  <2> QED
    BY <2>8, <2>9 DEF OwnRow
<1> QED
  BY <1>3, <1>4

\* A finished or interrupted task leaves nothing behind in its worker.
LEMMA FreshLocalsStep ==
    ASSUME TypeOK, FreshLocals, [Next]_vars
    PROVE  FreshLocals'
<1> USE DEF FreshLocals, At, Goto, Rest, TypeOK
<1>1. CASE UNCHANGED worker
  BY <1>1 DEF worker
<1>2. ASSUME NEW e \in Events, NEW w \in Workers, Take(w, e) PROVE FreshLocals'
  BY <1>2 DEF Take
<1>3. ASSUME NEW w \in Workers, BeginDelivered(w) \/ BeginSkipped(w) PROVE FreshLocals'
  BY <1>3 DEF BeginDelivered, BeginSkipped
<1>4. ASSUME NEW w \in Workers, BeginAttempt(w) PROVE FreshLocals'
  BY <1>4 DEF BeginAttempt
<1>5. ASSUME NEW w \in Workers, Load(w) \/ Post(w) PROVE FreshLocals'
  BY <1>5 DEF Load, Post
<1>6. ASSUME NEW w \in Workers, SaveAttempt(w) \/ FinalizeReplays(w) PROVE FreshLocals'
  BY <1>6 DEF SaveAttempt, FinalizeReplays
<1>7. ASSUME NEW w \in Workers, SaveDelivered(w) \/ SaveDeadLettered(w) \/ SaveFailed(w)
      PROVE  FreshLocals'
  BY <1>7 DEF SaveDelivered, SaveDeadLettered, SaveFailed
<1>8. ASSUME NEW w \in Workers, WriteAudit(w) \/ Retry(w) PROVE FreshLocals'
  BY <1>8 DEF WriteAudit, Retry
<1>9. ASSUME NEW w \in Workers, Ack(w) \/ Crash(w) \/ TimeLimit(w) PROVE FreshLocals'
  BY <1>9 DEF Ack, Crash, TimeLimit
<1> HIDE DEF FreshLocals, At, Goto, Rest, TypeOK
<1>10. ASSUME NEW e \in Events,
               \/ Replay(e)
               \/ Ingest(e) \/ Delay(e) \/ Elapse(e) \/ Sweep(e) \/ WebCrash(e)
               \/ \E d \in DestinationState : ChangeDestination(e, d)
       PROVE  UNCHANGED worker
  BY <1>10 DEF Ingest, Replay, Delay, Elapse, Sweep, WebCrash, ChangeDestination
<1>11. CASE UNCHANGED vars
  BY <1>1, <1>11 DEF vars
<1> QED
  BY <1>1, <1>2, <1>3, <1>4, <1>5, <1>6, <1>7, <1>8, <1>9, <1>10, <1>11
     DEF Next, WorkerStep, FinalizeStep

\* The only writer of an attempt row is the worker that created it.
LEMMA PendingUntilSavedStep ==
    ASSUME TypeOK, OwnRow, PendingUntilSaved, [Next]_vars
    PROVE  PendingUntilSaved'
<1> DEFINE Unsaved(w) == pc[w] \in {"load", "post", "save_attempt"}
<1>1. \A i \in DOMAIN attempts : attempts[i] \in Attempt
  BY TableIsFunction DEF TypeOK
<1>2. \A w \in Workers : Unsaved(w) => row[w] \in DOMAIN attempts
  BY DEF OwnRow, InHand, AttemptsOf
<1>3. ASSUME NEW w \in Workers, BeginAttempt(w) PROVE PendingUntilSaved'
  <2> DEFINE new == [event |-> job[w], number |-> attempt_count[job[w]] + 1,
                     status |-> "pending"]
             id == Len(attempts) + 1
  <2>1. new \in Attempt
    BY <1>3 DEF BeginAttempt, At, TypeOK, Attempt
  <2>2. attempts' = Append(attempts, new)
    BY <1>3 DEF BeginAttempt
  <2>3. attempts'[id] = new /\ \A i \in DOMAIN attempts : attempts'[i] = attempts[i]
    BY <2>1, <2>2, NewRow DEF TypeOK
  <2>4. row'[w] = id
    BY <1>3 DEF BeginAttempt, TypeOK
  <2>5. \A v \in Workers \ {w} : pc'[v] = pc[v] /\ row'[v] = row[v]
    BY <1>3 DEF BeginAttempt, Goto, TypeOK
  <2> QED
    BY <1>2, <2>3, <2>4, <2>5 DEF PendingUntilSaved
<1>4. ASSUME NEW w \in Workers, SaveAttempt(w) PROVE PendingUntilSaved'
  <2>1. \A v \in Workers \ {w} : Unsaved(v) => row[v] # row[w]
    BY <1>4 DEF SaveAttempt, At, OwnRow, InHand
  <2>2. \A i \in DOMAIN attempts : i # row[w] => attempts'[i] = attempts[i]
    BY <1>4 DEF SaveAttempt
  <2>3. pc'[w] = "save_event" /\ \A v \in Workers \ {w} : pc'[v] = pc[v] /\ row' = row
    BY <1>4 DEF SaveAttempt, Goto, TypeOK
  <2> QED
    BY <1>2, <2>1, <2>2, <2>3 DEF PendingUntilSaved
<1>5. ASSUME attempts' = attempts,
             \A v \in Workers : Unsaved(v)' => Unsaved(v) /\ row'[v] = row[v]
      PROVE  PendingUntilSaved'
  BY <1>5 DEF PendingUntilSaved
<1>6. CASE UNCHANGED <<attempts, worker>>
  BY <1>5, <1>6 DEF worker
<1> USE DEF At, Goto, Rest, TypeOK, database
<1>7. ASSUME NEW e \in Events, NEW w \in Workers, Take(w, e) PROVE PendingUntilSaved'
  BY <1>5, <1>7 DEF Take
<1>8. ASSUME NEW w \in Workers, BeginDelivered(w) \/ BeginSkipped(w) \/ Load(w) \/ Post(w)
      PROVE  PendingUntilSaved'
  BY <1>5, <1>8 DEF BeginDelivered, BeginSkipped, Load, Post
<1>9. ASSUME NEW w \in Workers, SaveDelivered(w) \/ SaveDeadLettered(w) \/ SaveFailed(w)
      PROVE  PendingUntilSaved'
  BY <1>5, <1>9 DEF SaveDelivered, SaveDeadLettered, SaveFailed
<1>10. ASSUME NEW w \in Workers, FinalizeReplays(w) \/ WriteAudit(w) \/ Retry(w)
       PROVE  PendingUntilSaved'
  BY <1>5, <1>10 DEF FinalizeReplays, WriteAudit, Retry
<1>11. ASSUME NEW w \in Workers, Ack(w) \/ Crash(w) \/ TimeLimit(w)
       PROVE  PendingUntilSaved'
  BY <1>5, <1>11 DEF Ack, Crash, TimeLimit
<1> HIDE DEF At, Goto, Rest, TypeOK, database
<1>12. ASSUME NEW e \in Events,
               \/ Replay(e)
               \/ Ingest(e) \/ Delay(e) \/ Elapse(e) \/ Sweep(e) \/ WebCrash(e)
               \/ \E d \in DestinationState : ChangeDestination(e, d)
       PROVE  UNCHANGED <<attempts, worker>>
  BY <1>12 DEF Ingest, Replay, Delay, Elapse, Sweep, WebCrash, ChangeDestination, database
<1>13. CASE UNCHANGED vars
  BY <1>6, <1>13 DEF vars, database
<1> QED
  BY <1>3, <1>4, <1>6, <1>7, <1>8, <1>9, <1>10, <1>11, <1>12, <1>13
     DEF Next, WorkerStep, FinalizeStep

\* Neither the counter of an event nor a worker's snapshot of it runs ahead of
\* the attempts begun.
LEMMA CountsAreTriedStep ==
    ASSUME TypeOK, OwnRow, FreshLocals, PendingUntilSaved, CountsAreTried, [Next]_vars
    PROVE  CountsAreTried'
<1>1. ExtendsHistory /\ accepted \subseteq accepted'
  BY StepExtendsHistory
<1>2. \A e : Tried(e) \subseteq Tried(e)'
  BY <1>1, EvidenceStays
<1>3. ASSUME NEW w \in Workers, BeginAttempt(w) PROVE CountsAreTried'
  <2> DEFINE n == attempt_count[job[w]] + 1
             new == [event |-> job[w], number |-> n, status |-> "pending"]
             id == Len(attempts) + 1
  <2>1. new \in Attempt /\ attempt_count[job[w]] \in Nat
    BY <1>3 DEF BeginAttempt, At, TypeOK, Attempt
  <2>2. attempts' = Append(attempts, new) /\ job' = job
    BY <1>3 DEF BeginAttempt
  <2>3. id \in DOMAIN attempts' /\ attempts'[id] = new
    BY <2>1, <2>2, NewRow DEF TypeOK
  <2>4. n \in Tried(job[w])'
    <3>1. attempts'[id].event = job'[w] /\ attempts'[id].number = n
      BY <2>2, <2>3
    <3>2. id \in AttemptsOf(job[w])'
      BY <2>3, <3>1 DEF AttemptsOf
    <3> QED
      BY <3>1, <3>2 DEF Tried
  <2>5. 1..n \subseteq Tried(job[w])'
    <3>1. 1..attempt_count[job[w]] \subseteq Tried(job[w])
      BY <1>3 DEF CountsAreTried, BeginAttempt, At, TypeOK
    <3>2. \A k \in 1..n : k = n \/ k \in 1..attempt_count[job[w]]
      BY <2>1
    <3> QED
      BY <1>2, <2>2, <2>4, <3>1, <3>2
  <2>6. attempt_count' = [attempt_count EXCEPT ![job[w]] = n] /\ seen' = seen /\ job' = job
    BY <1>3 DEF BeginAttempt
  <2>7. \A e \in Events : 1..attempt_count'[e] \subseteq Tried(e)'
    BY <1>2, <2>5, <2>6 DEF CountsAreTried, TypeOK
  <2>8. seen[w] = 0
    BY <1>3 DEF BeginAttempt, At, FreshLocals
  <2>9. \A v \in Workers \ {w} : InHand(v)' => InHand(v)
    BY <1>3 DEF BeginAttempt, Goto, InHand, TypeOK
  <2>10. \A v \in Workers : InHand(v)' => 1..seen'[v] \subseteq Tried(job[v])'
    BY <1>2, <2>6, <2>8, <2>9 DEF CountsAreTried
  <2> QED
    BY <2>6, <2>7, <2>10 DEF CountsAreTried
<1>4. ASSUME NEW w \in Workers, Load(w) PROVE CountsAreTried'
  <2>1. seen' = [seen EXCEPT ![w] = attempt_count[job[w]]]
    BY <1>4 DEF Load
  <2>2. job' = job /\ attempt_count' = attempt_count
    BY <1>4 DEF Load, database
  <2>3. \A v \in Workers : InHand(v)' => InHand(v)
    BY <1>4 DEF Load, At, Goto, InHand, TypeOK
  <2>4. 1..attempt_count[job[w]] \subseteq Tried(job[w])
    BY <1>4 DEF Load, At, TypeOK, CountsAreTried
  <2> QED
    BY <1>2, <2>1, <2>2, <2>3, <2>4 DEF CountsAreTried, TypeOK
<1>5. ASSUME \A w \in Workers : ~BeginAttempt(w),
             \A w \in Workers : InHand(w)' => seen'[w] = seen[w],
             \A e \in Events : attempt_count'[e] \in {0, attempt_count[e]}
      PROVE  CountsAreTried'
  <2>1. \A v \in Workers : InHand(v)' => InHand(v) /\ job'[v] = job[v]
    BY <1>5, HandsKeep
  <2>2. ASSUME NEW v \in Workers, InHand(v)'
        PROVE  1..seen'[v] \subseteq Tried(job[v])' /\ job'[v] = job[v]
    BY <1>2, <1>5, <2>1, <2>2 DEF CountsAreTried
  <2>3. ASSUME NEW e \in Events
        PROVE  1..attempt_count'[e] \subseteq Tried(e)'
    BY <1>2, <1>5 DEF CountsAreTried
  <2> QED
    BY <2>2, <2>3 DEF CountsAreTried
<1>6. CASE UNCHANGED <<attempt_count, worker>>
  <2>1. \A w \in Workers : ~BeginAttempt(w)
    BY <1>6 DEF worker, BeginAttempt, Goto, At, TypeOK
  <2> QED
    BY <1>5, <1>6, <2>1 DEF worker
<1> USE DEF At, Goto, Rest, TypeOK, database, InHand
<1>7. ASSUME NEW e \in Events, NEW w \in Workers, Take(w, e) PROVE CountsAreTried'
  BY <1>5, <1>7 DEF Take, BeginAttempt
<1>8. ASSUME NEW e \in Events, Replay(e) PROVE CountsAreTried'
  BY <1>5, <1>8 DEF Replay, BeginAttempt, worker
<1>9. ASSUME NEW w \in Workers, BeginDelivered(w) \/ BeginSkipped(w) \/ Post(w)
      PROVE  CountsAreTried'
  BY <1>5, <1>9 DEF BeginDelivered, BeginSkipped, Post, BeginAttempt
<1>10. ASSUME NEW w \in Workers, SaveAttempt(w) \/ SaveDelivered(w)
                                 \/ SaveDeadLettered(w) \/ SaveFailed(w)
       PROVE  CountsAreTried'
  BY <1>5, <1>10 DEF SaveAttempt, SaveDelivered, SaveDeadLettered, SaveFailed, BeginAttempt
<1>11. ASSUME NEW w \in Workers, FinalizeReplays(w) \/ WriteAudit(w) \/ Retry(w)
       PROVE  CountsAreTried'
  BY <1>5, <1>11 DEF FinalizeReplays, WriteAudit, Retry, BeginAttempt
<1>12. ASSUME NEW w \in Workers, Ack(w) \/ Crash(w) \/ TimeLimit(w)
       PROVE  CountsAreTried'
  BY <1>5, <1>12 DEF Ack, Crash, TimeLimit, BeginAttempt
<1> HIDE DEF At, Goto, Rest, TypeOK, database, InHand
<1>13. ASSUME NEW e \in Events,
               \/ Ingest(e) \/ Delay(e) \/ Elapse(e) \/ Sweep(e) \/ WebCrash(e)
               \/ \E d \in DestinationState : ChangeDestination(e, d)
       PROVE  UNCHANGED <<attempt_count, worker>>
  BY <1>13 DEF Ingest, Delay, Elapse, Sweep, WebCrash, ChangeDestination, database
<1>14. CASE UNCHANGED vars
  BY <1>6, <1>14 DEF vars, database
<1> QED
  BY <1>3, <1>4, <1>6, <1>7, <1>8, <1>9, <1>10, <1>11, <1>12, <1>13, <1>14
     DEF Next, WorkerStep, FinalizeStep

\* The result a worker holds is backed until it has told the replays.
LEMMA VerdictInHandStep ==
    ASSUME TypeOK, FreshLocals, OwnRow, PendingUntilSaved, VerdictInHand, [Next]_vars
    PROVE  VerdictInHand'
<1>1. accepted \subseteq accepted'
  BY StepExtendsHistory
<1> USE <1>1 DEF VerdictInHand, InHand, BudgetSpent, At, Goto, Rest, TypeOK
<1>2. CASE UNCHANGED worker
  BY <1>2 DEF worker
<1>3. ASSUME NEW e \in Events, NEW w \in Workers, Take(w, e) PROVE VerdictInHand'
  BY <1>3 DEF Take
<1>4. ASSUME NEW w \in Workers, BeginDelivered(w) \/ BeginSkipped(w) PROVE VerdictInHand'
  BY <1>4 DEF BeginDelivered, BeginSkipped
<1>5. ASSUME NEW w \in Workers, BeginAttempt(w) PROVE VerdictInHand'
  BY <1>5 DEF BeginAttempt, FreshLocals
<1>6. ASSUME NEW w \in Workers, Load(w) PROVE VerdictInHand'
  BY <1>6 DEF Load
<1>7. ASSUME NEW w \in Workers, Post(w) PROVE VerdictInHand'
  <2>1. ok'[w] => row[w] \in accepted'
    BY <1>7 DEF Post
  <2>2. /\ row' = row /\ seen' = seen
        /\ \A v \in Workers \ {w} : pc'[v] = pc[v] /\ ok'[v] = ok[v]
        /\ pc'[w] = "save_attempt"
    BY <1>7 DEF Post
  <2> QED
    BY <2>1, <2>2
<1>8. ASSUME NEW w \in Workers, SaveAttempt(w) \/ FinalizeReplays(w) PROVE VerdictInHand'
  BY <1>8 DEF SaveAttempt, FinalizeReplays
<1>9. ASSUME NEW w \in Workers, SaveDelivered(w) \/ SaveDeadLettered(w) \/ SaveFailed(w)
      PROVE  VerdictInHand'
  BY <1>9 DEF SaveDelivered, SaveDeadLettered, SaveFailed
<1>10. ASSUME NEW w \in Workers, WriteAudit(w) \/ Retry(w) PROVE VerdictInHand'
  BY <1>10 DEF WriteAudit, Retry
<1>11. ASSUME NEW w \in Workers, Ack(w) \/ Crash(w) \/ TimeLimit(w) PROVE VerdictInHand'
  BY <1>11 DEF Ack, Crash, TimeLimit
<1> HIDE DEF VerdictInHand, InHand, BudgetSpent, At, Goto, Rest, TypeOK
<1>12. ASSUME NEW e \in Events,
               \/ Replay(e)
               \/ Ingest(e) \/ Delay(e) \/ Elapse(e) \/ Sweep(e) \/ WebCrash(e)
               \/ \E d \in DestinationState : ChangeDestination(e, d)
       PROVE  UNCHANGED worker
  BY <1>12 DEF Ingest, Replay, Delay, Elapse, Sweep, WebCrash, ChangeDestination
<1>13. CASE UNCHANGED vars
  BY <1>2, <1>13 DEF vars
<1> QED
  BY <1>2, <1>3, <1>4, <1>5, <1>6, <1>7, <1>8, <1>9, <1>10, <1>11, <1>12, <1>13
     DEF Next, WorkerStep, FinalizeStep

\* Only the POST of a worker's own attempt is accepted.
LEMMA AcceptedAreBegunStep ==
    ASSUME TypeOK, OwnRow, PendingUntilSaved, AcceptedAreBegun, [Next]_vars
    PROVE  AcceptedAreBegun'
<1>1. DOMAIN attempts \subseteq DOMAIN attempts'
  BY StepExtendsHistory DEF ExtendsHistory
<1>2. ASSUME accepted' = accepted PROVE AcceptedAreBegun'
  BY <1>1, <1>2 DEF AcceptedAreBegun
<1>3. ASSUME NEW w \in Workers, Post(w) PROVE AcceptedAreBegun'
  <2>1. row[w] \in DOMAIN attempts
    BY <1>3 DEF Post, At, InHand, OwnRow, AttemptsOf
  <2>2. accepted' \subseteq accepted \cup {row[w]}
    BY <1>3 DEF Post
  <2> QED
    BY <1>1, <2>1, <2>2 DEF AcceptedAreBegun
<1>4. ASSUME NEW e \in Events,
             \/ Ingest(e) \/ Replay(e) \/ Delay(e) \/ Elapse(e) \/ Sweep(e)
             \/ WebCrash(e)
             \/ \E w \in Workers : Take(w, e)
             \/ \E d \in DestinationState : ChangeDestination(e, d)
      PROVE  accepted' = accepted
  BY <1>4 DEF Ingest, Replay, Delay, Elapse, Sweep, WebCrash, Take, ChangeDestination
<1>5. ASSUME NEW w \in Workers,
             \/ BeginDelivered(w) \/ BeginSkipped(w) \/ BeginAttempt(w) \/ Load(w)
             \/ SaveAttempt(w) \/ SaveDelivered(w) \/ SaveDeadLettered(w)
             \/ SaveFailed(w) \/ FinalizeReplays(w) \/ WriteAudit(w) \/ Retry(w)
             \/ Ack(w) \/ Crash(w) \/ TimeLimit(w)
      PROVE  accepted' = accepted
  BY <1>5 DEF BeginDelivered, BeginSkipped, BeginAttempt, Load, SaveAttempt,
              SaveDelivered, SaveDeadLettered, SaveFailed, FinalizeReplays,
              WriteAudit, Retry, Ack, Crash, TimeLimit
<1>6. CASE UNCHANGED vars
  BY <1>2, <1>6 DEF vars
<1> QED
  BY <1>2, <1>3, <1>4, <1>5, <1>6 DEF Next, WorkerStep, FinalizeStep

\* Messages, tasks and calls of delay() exist only for committed events.
LEMMA KnownAfterIngestStep ==
    ASSUME TypeOK, KnownAfterIngest, [Next]_vars
    PROVE  KnownAfterIngest'
<1> DEFINE Unknown(e) == web[e] = 0 /\ broker[e] = 0 /\ \A w \in Workers : job[w] # e
<1> SUFFICES ASSUME NEW e \in Events, status'[e] = "absent"
             PROVE  Unknown(e)'
  BY DEF KnownAfterIngest
<1> USE DEF TypeOK
<1>1. CASE UNCHANGED vars
  BY <1>1 DEF vars, database, worker, KnownAfterIngest
<1>2. ASSUME NEW f \in Events, Ingest(f) \/ Replay(f) PROVE Unknown(e)'
  BY <1>2 DEF Ingest, Replay, worker, KnownAfterIngest
<1>3. ASSUME NEW f \in Events, Delay(f) \/ Elapse(f) PROVE Unknown(e)'
  BY <1>3 DEF Delay, Elapse, database, worker, KnownAfterIngest
<1>4. ASSUME NEW f \in Events, Sweep(f) PROVE Unknown(e)'
  BY <1>4 DEF Sweep, SweptStatus, database, worker, KnownAfterIngest
<1>5. ASSUME NEW f \in Events,
             WebCrash(f) \/ \E d \in DestinationState : ChangeDestination(f, d)
      PROVE  Unknown(e)'
  BY <1>5 DEF WebCrash, ChangeDestination, database, worker, KnownAfterIngest
<1>6. ASSUME NEW f \in Events, NEW w \in Workers, Take(w, f) PROVE Unknown(e)'
  BY <1>6 DEF Take, database, KnownAfterIngest
<1>7. ASSUME NEW w \in Workers,
             BeginDelivered(w) \/ BeginSkipped(w) \/ BeginAttempt(w) \/ Load(w) \/ Post(w)
      PROVE  Unknown(e)'
  BY <1>7 DEF BeginDelivered, BeginSkipped, BeginAttempt, Load, Post, database,
              KnownAfterIngest
<1>8. ASSUME NEW w \in Workers,
             \/ SaveAttempt(w) \/ SaveDelivered(w) \/ SaveDeadLettered(w)
             \/ SaveFailed(w) \/ FinalizeReplays(w)
      PROVE  Unknown(e)'
  BY <1>8 DEF SaveAttempt, SaveDelivered, SaveDeadLettered, SaveFailed,
              FinalizeReplays, database, KnownAfterIngest
<1>9. ASSUME NEW w \in Workers, WriteAudit(w) \/ Ack(w) \/ TimeLimit(w)
      PROVE  Unknown(e)'
  BY <1>9, NoEventAssumption DEF WriteAudit, Ack, TimeLimit, Rest, database,
                                 KnownAfterIngest
<1>10. ASSUME NEW w \in Workers, Retry(w) \/ Crash(w) PROVE Unknown(e)'
  <2>1. status[e] = "absent" /\ web'[e] = web[e]
    BY <1>10 DEF Retry, Crash, database
  <2>2. job[w] # e /\ broker'[e] = broker[e]
    BY <1>10, <2>1 DEF Retry, Crash, At, KnownAfterIngest
  <2>3. \A v \in Workers : job'[v] # e
    BY <1>10, <2>1, NoEventAssumption DEF Retry, Crash, Rest, KnownAfterIngest
  <2> QED
    BY <2>1, <2>2, <2>3 DEF KnownAfterIngest
<1> HIDE DEF TypeOK
<1> QED
  BY <1>1, <1>2, <1>3, <1>4, <1>5, <1>6, <1>7, <1>8, <1>9, <1>10
     DEF Next, WorkerStep, FinalizeStep

\* Only the two saves of finalize_delivery_attempt give an event a verdict.
LEMMA VerdictBySave ==
    ASSUME TypeOK, [Next]_vars, NEW e \in Events,
           status'[e] \in {"delivered", "dead_lettered"}, status'[e] # status[e]
    PROVE  \E w \in Workers :
              /\ job[w] = e
              /\ \/ SaveDelivered(w) /\ status'[e] = "delivered"
                 \/ SaveDeadLettered(w) /\ status'[e] = "dead_lettered"
<1>1. ASSUME status' = status PROVE FALSE
  BY <1>1
<1>2. ASSUME NEW f \in Events, Ingest(f) \/ Replay(f) PROVE FALSE
  BY <1>2 DEF Ingest, Replay, TypeOK
<1>3. ASSUME NEW w \in Workers, BeginSkipped(w) \/ BeginAttempt(w) \/ SaveFailed(w)
      PROVE  FALSE
  BY <1>3 DEF BeginSkipped, BeginAttempt, SaveFailed, TypeOK
<1>4. ASSUME NEW w \in Workers, SaveDelivered(w)
      PROVE  job[w] = e /\ status'[e] = "delivered"
  BY <1>4 DEF SaveDelivered, TypeOK
<1>5. ASSUME NEW w \in Workers, SaveDeadLettered(w)
      PROVE  job[w] = e /\ status'[e] = "dead_lettered"
  BY <1>5 DEF SaveDeadLettered, TypeOK
<1>6. ASSUME NEW f \in Events,
             \/ Delay(f) \/ Elapse(f) \/ Sweep(f) \/ WebCrash(f)
             \/ \E w \in Workers : Take(w, f)
             \/ \E d \in DestinationState : ChangeDestination(f, d)
      PROVE  status' = status
  BY <1>6 DEF Delay, Elapse, Sweep, WebCrash, Take, ChangeDestination, database
<1>7. ASSUME NEW w \in Workers,
             \/ BeginDelivered(w) \/ Load(w) \/ Post(w) \/ SaveAttempt(w)
             \/ FinalizeReplays(w) \/ WriteAudit(w) \/ Retry(w) \/ Ack(w)
             \/ Crash(w) \/ TimeLimit(w)
      PROVE  status' = status
  BY <1>7 DEF BeginDelivered, Load, Post, SaveAttempt, FinalizeReplays,
              WriteAudit, Retry, Ack, Crash, TimeLimit, database
<1>8. CASE UNCHANGED vars
  BY <1>1, <1>8 DEF vars, database
<1> QED
  BY <1>1, <1>2, <1>3, <1>4, <1>5, <1>6, <1>7, <1>8 DEF Next, WorkerStep, FinalizeStep

\* What a worker in hand knows about its event.
LEMMA HandEvidence ==
    ASSUME TypeOK, OwnRow, CountsAreTried, VerdictInHand,
           NEW w \in Workers, InHand(w)
    PROVE  /\ job[w] \in Events
           /\ ok[w] => Reached(job[w])
           /\ BudgetSpent(w) => Exhausted(job[w])
<1>1. job[w] \in Events
  BY DEF InHand, TypeOK
<1>2. ok[w] => Reached(job[w])
  BY DEF OwnRow, VerdictInHand, Reached
<1>3. BudgetSpent(w) => Exhausted(job[w])
  <2>1. 1..seen[w] \subseteq Tried(job[w]) /\ seen[w] \in Nat
    BY DEF CountsAreTried, TypeOK
  <2>2. BudgetSpent(w) => 1..MaxAttempts \subseteq 1..seen[w]
    BY <2>1, MaxAttemptsAssumption DEF BudgetSpent
  <2> QED
    BY <2>1, <2>2 DEF Exhausted
<1> QED
  BY <1>1, <1>2, <1>3

\* A verdict on an event is written on evidence, and the evidence stays.
LEMMA EventVerdictStep ==
    ASSUME TypeOK, Inductive, [Next]_vars
    PROVE  DeliveredMeansAccepted' /\ DeadLetterIsEarned'
<1> USE DEF Inductive
<1>1. ExtendsHistory /\ accepted \subseteq accepted'
  BY StepExtendsHistory
<1>2. \A e : (Reached(e) => Reached(e)') /\ (Exhausted(e) => Exhausted(e)')
  BY <1>1, EvidenceStays
<1>3. ASSUME NEW e \in Events, status'[e] = "delivered" PROVE Reached(e)'
  <2>1. CASE status[e] = "delivered"
    BY <1>2, <2>1 DEF DeliveredMeansAccepted
  <2>2. CASE status[e] # "delivered"
    <3>1. PICK w \in Workers : job[w] = e /\ SaveDelivered(w)
      BY <1>3, <2>2, VerdictBySave
    <3>2. InHand(w) /\ ok[w]
      BY <3>1 DEF SaveDelivered, At, InHand
    <3> QED
      BY <1>2, <3>1, <3>2, HandEvidence
  <2> QED
    BY <2>1, <2>2
<1>4. ASSUME NEW e \in Events, status'[e] = "dead_lettered" PROVE Exhausted(e)'
  <2>1. CASE status[e] = "dead_lettered"
    BY <1>2, <2>1 DEF DeadLetterIsEarned
  <2>2. CASE status[e] # "dead_lettered"
    <3>1. PICK w \in Workers : job[w] = e /\ SaveDeadLettered(w)
      BY <1>4, <2>2, VerdictBySave
    <3>2. InHand(w) /\ BudgetSpent(w)
      BY <3>1 DEF SaveDeadLettered, At, InHand
    <3> QED
      BY <1>2, <3>1, <3>2, HandEvidence
  <2> QED
    BY <2>1, <2>2
<1> QED
  BY <1>3, <1>4 DEF DeliveredMeansAccepted, DeadLetterIsEarned

\* A replay is added as queued, and judged by FinalizeReplays alone.
LEMMA ReplayVerdictStep ==
    ASSUME TypeOK, Inductive, [Next]_vars
    PROVE  ReplayVerdictIsEarned'
<1> USE DEF Inductive
<1>1. ExtendsHistory /\ accepted \subseteq accepted'
  BY StepExtendsHistory
<1>2. \A e : (Reached(e) => Reached(e)') /\ (Exhausted(e) => Exhausted(e)')
  BY <1>1, EvidenceStays
<1>3. ASSUME replays' = replays PROVE ReplayVerdictIsEarned'
  BY <1>2, <1>3 DEF ReplayVerdictIsEarned
<1>4. ASSUME NEW e \in Events, Replay(e) PROVE ReplayVerdictIsEarned'
  <2> DEFINE new == [event |-> e, status |-> "queued"]
  <2>1. new \in ReplayRequest
    BY TableIsFunction DEF TypeOK, ReplayRequest
  <2>2. replays' = Append(replays, new)
    BY <1>4 DEF Replay
  <2>3. \A r \in DOMAIN replays' :
           \/ r \in DOMAIN replays /\ replays'[r] = replays[r]
           \/ replays'[r] = new
    BY <2>1, <2>2, NewRow DEF TypeOK
  <2> QED
    BY <1>2, <2>3 DEF ReplayVerdictIsEarned
<1>5. ASSUME NEW w \in Workers, FinalizeReplays(w) PROVE ReplayVerdictIsEarned'
  <2>1. InHand(w) /\ (ok[w] \/ BudgetSpent(w))
    BY <1>5 DEF FinalizeReplays, At, InHand, VerdictInHand
  <2>2. (ok[w] => Reached(job[w])') /\ (~ok[w] => Exhausted(job[w])')
    <3>1. job' = job
      BY <1>5 DEF FinalizeReplays
    <3> QED
      BY <1>2, <2>1, <3>1, HandEvidence
  <2>3. \A r \in DOMAIN replays : replays[r] \in ReplayRequest
    BY TableIsFunction DEF TypeOK
  <2>4. ASSUME NEW r \in DOMAIN replays'
        PROVE  /\ r \in DOMAIN replays
               /\ replays'[r].event = replays[r].event
               /\ \/ replays'[r].status = replays[r].status
                  \/ /\ replays[r].event = job[w]
                     /\ replays'[r].status = IF ok[w] THEN "completed" ELSE "failed"
    BY <1>5, <2>3, <2>4 DEF FinalizeReplays, ReplayRequest
  <2>5. job' = job
    BY <1>5 DEF FinalizeReplays
  <2> QED
    BY <1>2, <2>2, <2>4, <2>5 DEF ReplayVerdictIsEarned
<1>6. ASSUME NEW e \in Events,
             \/ Ingest(e) \/ Delay(e) \/ Elapse(e) \/ Sweep(e) \/ WebCrash(e)
             \/ \E w \in Workers : Take(w, e)
             \/ \E d \in DestinationState : ChangeDestination(e, d)
      PROVE  replays' = replays
  BY <1>6 DEF Ingest, Delay, Elapse, Sweep, WebCrash, Take, ChangeDestination, database
<1>7. ASSUME NEW w \in Workers,
             \/ BeginDelivered(w) \/ BeginSkipped(w) \/ BeginAttempt(w) \/ Load(w)
             \/ Post(w) \/ SaveAttempt(w) \/ SaveDelivered(w) \/ SaveDeadLettered(w)
             \/ SaveFailed(w) \/ WriteAudit(w) \/ Retry(w) \/ Ack(w)
             \/ Crash(w) \/ TimeLimit(w)
      PROVE  replays' = replays
  BY <1>7 DEF BeginDelivered, BeginSkipped, BeginAttempt, Load, Post, SaveAttempt,
              SaveDelivered, SaveDeadLettered, SaveFailed, WriteAudit, Retry, Ack,
              Crash, TimeLimit, database
<1>8. CASE UNCHANGED vars
  BY <1>3, <1>8 DEF vars, database
<1> QED
  BY <1>3, <1>4, <1>5, <1>6, <1>7, <1>8 DEF Next, WorkerStep, FinalizeStep

\* An attempt is saved as succeeded by the worker that saw it accepted.
LEMMA SucceededStep ==
    ASSUME TypeOK, Inductive, [Next]_vars
    PROVE  SucceededMeansAccepted'
<1> USE DEF Inductive
<1>1. accepted \subseteq accepted'
  BY StepExtendsHistory
<1>2. \A i \in DOMAIN attempts : attempts[i] \in Attempt
  BY TableIsFunction DEF TypeOK
<1>3. ASSUME attempts' = attempts PROVE SucceededMeansAccepted'
  BY <1>1, <1>3 DEF SucceededMeansAccepted
<1>4. ASSUME NEW w \in Workers, BeginAttempt(w) PROVE SucceededMeansAccepted'
  <2> DEFINE new == [event |-> job[w], number |-> attempt_count[job[w]] + 1,
                     status |-> "pending"]
  <2>1. new \in Attempt
    BY <1>4 DEF BeginAttempt, At, TypeOK, Attempt
  <2>2. attempts' = Append(attempts, new)
    BY <1>4 DEF BeginAttempt
  <2>3. \A i \in DOMAIN attempts' :
           \/ i \in DOMAIN attempts /\ attempts'[i] = attempts[i]
           \/ attempts'[i] = new
    BY <2>1, <2>2, NewRow DEF TypeOK
  <2> QED
    BY <1>1, <2>3 DEF SucceededMeansAccepted
<1>5. ASSUME NEW w \in Workers, SaveAttempt(w) PROVE SucceededMeansAccepted'
  <2>1. ok[w] => row[w] \in accepted
    BY <1>5 DEF SaveAttempt, At, InHand, VerdictInHand
  <2>2. row[w] \in DOMAIN attempts
    BY <1>5 DEF SaveAttempt, At, InHand, OwnRow, AttemptsOf
  <2>3. \A i \in DOMAIN attempts' :
           /\ i \in DOMAIN attempts
           /\ i # row[w] => attempts'[i] = attempts[i]
           /\ i = row[w] => attempts'[i].status = IF ok[w] THEN "succeeded" ELSE "failed"
    BY <1>2, <1>5, <2>2 DEF SaveAttempt, Attempt
  <2> QED
    BY <1>1, <2>1, <2>3 DEF SucceededMeansAccepted
<1>6. ASSUME NEW e \in Events,
             \/ Ingest(e) \/ Replay(e) \/ Delay(e) \/ Elapse(e) \/ Sweep(e)
             \/ WebCrash(e)
             \/ \E w \in Workers : Take(w, e)
             \/ \E d \in DestinationState : ChangeDestination(e, d)
      PROVE  attempts' = attempts
  BY <1>6 DEF Ingest, Replay, Delay, Elapse, Sweep, WebCrash, Take,
              ChangeDestination, database
<1>7. ASSUME NEW w \in Workers,
             \/ BeginDelivered(w) \/ BeginSkipped(w) \/ Load(w) \/ Post(w)
             \/ SaveDelivered(w) \/ SaveDeadLettered(w) \/ SaveFailed(w)
             \/ FinalizeReplays(w) \/ WriteAudit(w) \/ Retry(w) \/ Ack(w)
             \/ Crash(w) \/ TimeLimit(w)
      PROVE  attempts' = attempts
  BY <1>7 DEF BeginDelivered, BeginSkipped, Load, Post, SaveDelivered,
              SaveDeadLettered, SaveFailed, FinalizeReplays, WriteAudit, Retry,
              Ack, Crash, TimeLimit, database
<1>8. CASE UNCHANGED vars
  BY <1>3, <1>8 DEF vars, database
<1> QED
  BY <1>3, <1>4, <1>5, <1>6, <1>7, <1>8 DEF Next, WorkerStep, FinalizeStep

-----------------------------------------------------------------------------
(* The theorems.                                                            *)

\* The inductive invariant holds in every reachable state.
THEOREM Induction == Spec => []Inductive
<1>1. Init => Inductive
  <2> SUFFICES ASSUME Init PROVE Inductive
    OBVIOUS
  <2>1. DOMAIN attempts = {} /\ DOMAIN replays = {}
    BY DEF Init
  <2>2. \A w \in Workers : pc[w] = "idle" /\ seen[w] = 0 /\ ~ok[w]
    BY DEF Init
  <2>3. \A e \in Events : status[e] = "absent" /\ attempt_count[e] = 0
    BY DEF Init
  <2>4. KnownAfterIngest /\ AcceptedAreBegun
    BY NoEventAssumption DEF Init, KnownAfterIngest, AcceptedAreBegun
  <2> QED
    BY <2>1, <2>2, <2>3, <2>4
       DEF Inductive, OwnRow, FreshLocals, PendingUntilSaved, CountsAreTried,
           VerdictInHand, InHand, DeliveredMeansAccepted, DeadLetterIsEarned,
           ReplayVerdictIsEarned, SucceededMeansAccepted
<1>2. TypeOK /\ Inductive /\ [Next]_vars => Inductive'
  BY OwnRowStep, FreshLocalsStep, PendingUntilSavedStep, CountsAreTriedStep,
     VerdictInHandStep, AcceptedAreBegunStep, KnownAfterIngestStep, EventVerdictStep, ReplayVerdictStep, SucceededStep
     DEF Inductive
<1> QED
  BY <1>1, <1>2, Typing, PTL DEF Spec

\* A delivered event was accepted by its receiver.
THEOREM Delivered == Spec => []DeliveredMeansAccepted
<1>1. Inductive => DeliveredMeansAccepted
  BY DEF Inductive
<1> QED
  BY <1>1, Induction, PTL

\* A dead-lettered event used up its budget of attempts.
THEOREM DeadLettered == Spec => []DeadLetterIsEarned
<1>1. Inductive => DeadLetterIsEarned
  BY DEF Inductive
<1> QED
  BY <1>1, Induction, PTL

\* The verdict of a replay has evidence.
THEOREM ReplayVerdict == Spec => []ReplayVerdictIsEarned
<1>1. Inductive => ReplayVerdictIsEarned
  BY DEF Inductive
<1> QED
  BY <1>1, Induction, PTL

\* An attempt recorded as succeeded was accepted by the receiver.
THEOREM Succeeded == Spec => []SucceededMeansAccepted
<1>1. Inductive => SucceededMeansAccepted
  BY DEF Inductive
<1> QED
  BY <1>1, Induction, PTL

\* The history of attempts is only extended.
THEOREM History == Spec => AttemptsAreHistory
<1>1. TypeOK /\ Inductive /\ [Next]_vars => [ExtendsHistory]_vars
  BY StepExtendsHistory DEF Inductive
<1> QED
  BY <1>1, Typing, Induction, PTL DEF Spec, AttemptsAreHistory

-----------------------------------------------------------------------------
(* Nothing is left in "delivering", until a task is cut off by a time limit. *)

\* A worker that has not saved the event yet.
Deciding(w, e) ==
    job[w] = e /\ pc[w] \in {"begin", "load", "post", "save_attempt", "save_event"}

\* Somebody will still decide e.
InCharge(e) == broker[e] > 0 \/ \E w \in Workers : Deciding(w, e)

\* Charge of an event is given up only by giving it a status other than
\* "delivering", or by handing the message back.
LEMMA ChargeKept ==
    ASSUME TypeOK, ~Struck', [Next]_vars,
           NEW e \in Events, InCharge(e), status'[e] = "delivering"
    PROVE  InCharge(e)'
<1>1. ASSUME broker' = broker,
             \A v \in Workers : Deciding(v, e) => Deciding(v, e)'
      PROVE  InCharge(e)'
  BY <1>1 DEF InCharge
<1>2. ASSUME UNCHANGED worker, broker[e] > 0 => broker'[e] > 0 PROVE InCharge(e)'
  BY <1>2 DEF InCharge, Deciding, worker
<1> USE DEF TypeOK
<1>3. ASSUME NEW f \in Events, Delay(f) \/ Sweep(f) PROVE InCharge(e)'
  <2>1. UNCHANGED worker
    BY <1>3 DEF Delay, Sweep
  <2>2. broker' = [broker EXCEPT ![f] = @ + 1]
    BY <1>3 DEF Delay, Sweep
  <2>3. broker[e] > 0 => broker'[e] > 0
    BY <2>2
  <2> QED
    BY <1>2, <2>1, <2>3
<1>4. ASSUME NEW f \in Events, NEW w \in Workers, Take(w, f) PROVE InCharge(e)'
  <2>1. CASE f = e
    <3>1. Deciding(w, e)'
      BY <1>4, <2>1 DEF Take, Goto, Deciding
    <3> QED
      BY <3>1 DEF InCharge
  <2>2. CASE f # e
    <3>1. broker'[e] = broker[e]
      BY <1>4, <2>2 DEF Take
    <3>2. \A v \in Workers : Deciding(v, e) => Deciding(v, e)'
      BY <1>4 DEF Take, At, Goto, Deciding
    <3> QED
      BY <3>1, <3>2 DEF InCharge
  <2> QED
    BY <2>1, <2>2
<1>5. ASSUME NEW w \in Workers, BeginDelivered(w) PROVE InCharge(e)'
  BY <1>1, <1>5 DEF BeginDelivered, AlreadyDelivered, Goto, At, Deciding, database
<1>6. ASSUME NEW w \in Workers, BeginSkipped(w) PROVE InCharge(e)'
  BY <1>1, <1>6 DEF BeginSkipped, Goto, At, Deciding
<1>7. ASSUME NEW w \in Workers, BeginAttempt(w) \/ Load(w) \/ Post(w) \/ SaveAttempt(w)
      PROVE  InCharge(e)'
  BY <1>1, <1>7 DEF BeginAttempt, Load, Post, SaveAttempt, Goto, At, Deciding
<1>8. ASSUME NEW w \in Workers, SaveDelivered(w) \/ SaveDeadLettered(w) \/ SaveFailed(w)
       PROVE  InCharge(e)'
  BY <1>1, <1>8 DEF SaveDelivered, SaveDeadLettered, SaveFailed, Goto, At, Deciding
<1>9. ASSUME NEW w \in Workers, FinalizeReplays(w) \/ WriteAudit(w) \/ Ack(w)
       PROVE  InCharge(e)'
  BY <1>1, <1>9 DEF FinalizeReplays, WriteAudit, Ack, Rest, Goto, At, Deciding
<1>10. ASSUME NEW w \in Workers, Retry(w) PROVE InCharge(e)'
  <2>1. broker[e] > 0 => broker'[e] > 0
    BY <1>10 DEF Retry
  <2>2. \A v \in Workers : Deciding(v, e) => Deciding(v, e)'
    BY <1>10 DEF Retry, Goto, At, Deciding
  <2> QED
    BY <2>1, <2>2 DEF InCharge
<1>11. ASSUME NEW w \in Workers, Crash(w) PROVE InCharge(e)'
  <2>1. job[w] \in Events /\ broker' = [broker EXCEPT ![job[w]] = @ + 1]
    BY <1>11 DEF Crash, At
  <2>2. CASE job[w] = e
    BY <2>1, <2>2 DEF InCharge
  <2>3. CASE job[w] # e
    <3>1. broker'[e] = broker[e]
      BY <2>1, <2>3
    <3>2. \A v \in Workers : Deciding(v, e) => Deciding(v, e)'
      BY <1>11, <2>3 DEF Crash, Rest, Goto, Deciding
    <3> QED
      BY <3>1, <3>2 DEF InCharge
  <2> QED
    BY <2>2, <2>3
<1> HIDE DEF TypeOK
<1>12. ASSUME NEW f \in Events,
              \/ Ingest(f) \/ Replay(f) \/ Elapse(f) \/ WebCrash(f)
              \/ \E d \in DestinationState : ChangeDestination(f, d)
       PROVE  UNCHANGED <<worker, broker>>
  BY <1>12 DEF Ingest, Replay, Elapse, WebCrash, ChangeDestination
<1>13. ASSUME UNCHANGED <<worker, broker>> PROVE InCharge(e)'
  BY <1>2, <1>13 DEF TypeOK
<1>14. CASE UNCHANGED vars
  BY <1>13, <1>14 DEF vars
<1>15. ASSUME NEW w \in Workers, TimeLimit(w) PROVE FALSE
  BY <1>15, DisturbanceRecorded DEF TimeLimit, TypeOK
<1> QED
  BY <1>3, <1>4, <1>5, <1>6, <1>7, <1>8, <1>9, <1>10, <1>11, <1>12, <1>13, <1>14,
     <1>15 DEF Next, WorkerStep, FinalizeStep

\* Only BeginAttempt marks an event as delivering, and it has taken charge.
LEMMA ChargeTaken ==
    ASSUME TypeOK, [Next]_vars, NEW e \in Events,
           status[e] # "delivering", status'[e] = "delivering"
    PROVE  InCharge(e)'
<1>1. ASSUME status' = status PROVE FALSE
  BY <1>1
<1>2. ASSUME NEW f \in Events, Ingest(f) \/ Replay(f) PROVE FALSE
  BY <1>2 DEF Ingest, Replay, TypeOK
<1>3. ASSUME NEW w \in Workers,
             BeginSkipped(w) \/ SaveFailed(w) \/ SaveDelivered(w) \/ SaveDeadLettered(w)
      PROVE  FALSE
  BY <1>3 DEF BeginSkipped, SaveFailed, SaveDelivered, SaveDeadLettered, TypeOK
<1>4. ASSUME NEW w \in Workers, BeginAttempt(w) PROVE InCharge(e)'
  <2>1. Deciding(w, e)'
    BY <1>4 DEF BeginAttempt, Goto, Deciding, TypeOK
  <2> QED
    BY <2>1 DEF InCharge
<1>5. ASSUME NEW f \in Events,
             \/ Delay(f) \/ Elapse(f) \/ Sweep(f) \/ WebCrash(f)
             \/ \E w \in Workers : Take(w, f)
             \/ \E d \in DestinationState : ChangeDestination(f, d)
      PROVE  status' = status
  BY <1>5 DEF Delay, Elapse, Sweep, WebCrash, Take, ChangeDestination, database
<1>6. ASSUME NEW w \in Workers,
             \/ BeginDelivered(w) \/ Load(w) \/ Post(w) \/ SaveAttempt(w)
             \/ FinalizeReplays(w) \/ WriteAudit(w) \/ Retry(w) \/ Ack(w)
             \/ Crash(w) \/ TimeLimit(w)
      PROVE  status' = status
  BY <1>6 DEF BeginDelivered, Load, Post, SaveAttempt, FinalizeReplays,
              WriteAudit, Retry, Ack, Crash, TimeLimit, database
<1>7. CASE UNCHANGED vars
  BY <1>1, <1>7 DEF vars, database
<1> QED
  BY <1>1, <1>2, <1>3, <1>4, <1>5, <1>6, <1>7 DEF Next, WorkerStep, FinalizeStep

\* That a time limit has struck is not forgotten.
LEMMA StruckStays ==
    ASSUME TypeOK, [Next]_vars, Struck
    PROVE  Struck'
<1>1. ASSUME disturbed' = disturbed PROVE Struck'
  BY <1>1 DEF Struck
<1>2. ASSUME NEW kind, Disturb(kind) PROVE Struck'
  BY <1>2, DisturbanceRecorded DEF TypeOK
<1>3. ASSUME NEW e \in Events,
             \/ Ingest(e) \/ Replay(e) \/ Delay(e) \/ Elapse(e) \/ Sweep(e)
             \/ \E w \in Workers : Take(w, e)
      PROVE  disturbed' = disturbed
  BY <1>3 DEF Ingest, Replay, Delay, Elapse, Sweep, Take
<1>4. ASSUME NEW w \in Workers, WorkerStep(w) PROVE disturbed' = disturbed
  BY <1>4 DEF WorkerStep, FinalizeStep, BeginDelivered, BeginSkipped, BeginAttempt, Load,
              Post, SaveAttempt, SaveDelivered, SaveDeadLettered, SaveFailed,
              FinalizeReplays, WriteAudit, Retry, Ack
<1>5. ASSUME NEW e \in Events,
             WebCrash(e) \/ \E d \in DestinationState : ChangeDestination(e, d)
      PROVE  Struck'
  BY <1>2, <1>5 DEF WebCrash, ChangeDestination
<1>6. ASSUME NEW w \in Workers, Crash(w) \/ TimeLimit(w) PROVE Struck'
  BY <1>2, <1>6 DEF Crash, TimeLimit
<1>7. CASE UNCHANGED vars
  BY <1>1, <1>7 DEF vars
<1> QED
  BY <1>1, <1>3, <1>4, <1>5, <1>6, <1>7 DEF Next

\* As long as no time limit has struck, every event in "delivering" has a message
\* or a worker that will decide it; late acknowledgement makes crashes harmless.
THEOREM NotStranded == Spec => []NoStrandedDelivery
<1>1. Init => NoStrandedDelivery
  BY DEF Init, NoStrandedDelivery
<1>2. TypeOK /\ NoStrandedDelivery /\ [Next]_vars => NoStrandedDelivery'
  <2> SUFFICES ASSUME TypeOK, NoStrandedDelivery, [Next]_vars, ~Struck',
                      NEW e \in Events, status'[e] = "delivering"
               PROVE  InCharge(e)'
    BY DEF NoStrandedDelivery, InCharge, Deciding
  <2>1. ~Struck
    BY StruckStays
  <2>2. status[e] = "delivering" => InCharge(e)
    BY <2>1 DEF NoStrandedDelivery, InCharge, Deciding
  <2> QED
    BY <2>2, ChargeKept, ChargeTaken
<1> QED
  BY <1>1, <1>2, Typing, PTL DEF Spec

-----------------------------------------------------------------------------
(* A delivered event stays delivered, if its tasks run one after the other. *)

\* No two workers run the task of one event at the same time.
OneAtATime == \A v, w \in Workers : job[v] = job[w] /\ job[v] # NoEvent => v = w

\* A worker with an attempt whose event it has not saved yet.
Unsaved(w) == pc[w] \in {"load", "post", "save_attempt", "save_event"}

\* An event that a worker will still save is not delivered: the worker looked
\* before it began, and nobody else delivers.
NotYetDelivered == \A w \in Workers : Unsaved(w) => status[job[w]] # "delivered"

\* Another event's status is left alone, and nobody else has this one.
LEMMA SaveKeepsOthers ==
    ASSUME TypeOK, OneAtATime, NotYetDelivered, NEW w \in Workers, pc[w] # "idle", NEW s, NEW step,
           status' = [status EXCEPT ![job[w]] = s], UNCHANGED job, Goto(w, step),
           step \in {"load", "post", "save_attempt", "save_event"} => s # "delivered"
    PROVE  NotYetDelivered'
<1> SUFFICES ASSUME NEW v \in Workers, Unsaved(v)' PROVE status'[job[v]] # "delivered"
  BY DEF NotYetDelivered
<1>1. job[w] \in Events /\ job[w] # NoEvent
  BY NoEventAssumption DEF TypeOK
<1>2. CASE v = w
  <2>1. step \in {"load", "post", "save_attempt", "save_event"}
    BY <1>2 DEF Unsaved, Goto, TypeOK
  <2> QED BY <2>1, <1>1, <1>2 DEF TypeOK
<1>3. CASE v # w
  <2>1. pc'[v] = pc[v] /\ Unsaved(v)
    BY <1>3 DEF Unsaved, Goto, TypeOK
  <2>2. job[v] # job[w]
    BY <1>1, <1>3 DEF OneAtATime
  <2>3. status'[job[v]] = status[job[v]]
    <3>1. job[v] \in Events
      BY <2>1 DEF Unsaved, TypeOK
    <3> QED BY <3>1, <2>2 DEF TypeOK
  <2> QED BY <2>1, <2>3 DEF NotYetDelivered
<1> QED BY <1>2, <1>3

\* What a step of the tasks does to the status of a delivered event: nothing.
LEMMA StepNotYetDelivered ==
    ASSUME TypeOK, OneAtATime, NotYetDelivered, [Next]_vars
    PROVE  /\ NotYetDelivered'
           /\ \A e \in Events : status[e] = "delivered" /\ status'[e] # "delivered" => Replay(e)
<1> DEFINE Final == \A e \in Events :
                      status[e] = "delivered" /\ status'[e] # "delivered" => Replay(e)
<1>1. ASSUME UNCHANGED status, \A w \in Workers : Unsaved(w)' => Unsaved(w) /\ UNCHANGED job[w]
      PROVE  NotYetDelivered' /\ Final
  BY <1>1 DEF NotYetDelivered
<1>2. ASSUME UNCHANGED <<status, worker>> PROVE NotYetDelivered' /\ Final
  BY <1>1, <1>2 DEF worker, Unsaved
<1>3. ASSUME NEW e \in Events,
             \/ Delay(e) \/ Elapse(e) \/ Sweep(e) \/ WebCrash(e)
             \/ \E d \in DestinationState : ChangeDestination(e, d)
      PROVE  NotYetDelivered' /\ Final
  BY <1>2, <1>3 DEF Delay, Elapse, Sweep, WebCrash, ChangeDestination, database
<1>4. ASSUME NEW e \in Events, Ingest(e) \/ Replay(e)
      PROVE  NotYetDelivered' /\ Final
  <2>1. PICK s : s \in {"queued", "received"} /\ status' = [status EXCEPT ![e] = s]
    BY <1>4 DEF Ingest, Replay
  <2>2. UNCHANGED worker
    BY <1>4 DEF Ingest, Replay
  <2>3. NotYetDelivered'
    BY <2>1, <2>2 DEF NotYetDelivered, Unsaved, worker, TypeOK
  <2>4. Final
    BY <1>4, <2>1 DEF Ingest, TypeOK
  <2> QED BY <2>3, <2>4
<1>5. ASSUME NEW w \in Workers,
             \/ BeginDelivered(w) \/ Load(w) \/ Post(w) \/ SaveAttempt(w) \/ FinalizeReplays(w)
             \/ WriteAudit(w) \/ Retry(w) \/ Ack(w) \/ Crash(w) \/ TimeLimit(w)
             \/ \E e \in Events : Take(w, e)
      PROVE  NotYetDelivered' /\ Final
  <2>1. UNCHANGED status
    BY <1>5 DEF BeginDelivered, Load, Post, SaveAttempt, FinalizeReplays,
                WriteAudit, Retry, Ack, Crash, TimeLimit, Take, database
  <2>2. \A v \in Workers : Unsaved(v)' => Unsaved(v) /\ UNCHANGED job[v]
    BY <1>5 DEF BeginDelivered, Load, Post, SaveAttempt, FinalizeReplays, WriteAudit, Retry,
                Ack, Crash, TimeLimit, Take, At, Goto, Rest, Unsaved, TypeOK
  <2> QED BY <1>1, <2>1, <2>2
<1>6. ASSUME NEW w \in Workers, BeginSkipped(w) \/ BeginAttempt(w)
      PROVE  NotYetDelivered' /\ Final
  <2>1. PICK s, step : /\ s \in {"failed", "delivering"} /\ status' = [status EXCEPT ![job[w]] = s]
                       /\ UNCHANGED job /\ Goto(w, step)
    BY <1>6 DEF BeginSkipped, BeginAttempt
  <2>2. pc[w] # "idle" /\ status[job[w]] # "delivered"
    BY <1>6 DEF BeginSkipped, BeginAttempt, At, AlreadyDelivered
  <2>3. NotYetDelivered'
    BY <2>1, <2>2, SaveKeepsOthers
  <2>4. Final
    BY <2>1, <2>2 DEF TypeOK
  <2> QED BY <2>3, <2>4
<1>7. ASSUME NEW w \in Workers, SaveDelivered(w) \/ SaveDeadLettered(w) \/ SaveFailed(w)
      PROVE  NotYetDelivered' /\ Final
  <2>1. PICK s, step : /\ status' = [status EXCEPT ![job[w]] = s]
                       /\ UNCHANGED job /\ Goto(w, step) /\ step \in {"replays", "audit"}
    BY <1>7 DEF SaveDelivered, SaveDeadLettered, SaveFailed
  <2>2. Unsaved(w) /\ pc[w] # "idle"
    BY <1>7 DEF SaveDelivered, SaveDeadLettered, SaveFailed, At, Unsaved
  <2>3. NotYetDelivered'
    BY <2>1, <2>2, SaveKeepsOthers
  <2>4. Final
    BY <2>1, <2>2 DEF NotYetDelivered, TypeOK
  <2> QED BY <2>3, <2>4
<1>8. ASSUME UNCHANGED vars PROVE NotYetDelivered' /\ Final
  BY <1>2, <1>8 DEF vars, database
<1> HIDE DEF Final
<1>9. ASSUME NEW w \in Workers, WorkerStep(w) \/ Crash(w) \/ TimeLimit(w)
      PROVE  NotYetDelivered' /\ Final
  BY <1>5, <1>6, <1>7, <1>9 DEF WorkerStep, FinalizeStep
<1>10. NotYetDelivered' /\ Final
  BY <1>3, <1>4, <1>5, <1>8, <1>9 DEF Next
<1> QED BY <1>10 DEF Final

\* Only a replay takes an event out of "delivered", as long as no two workers
\* run deliver_event for one event at the same time: the early return of
\* begin_delivery_attempt is then as good as a lock.
THEOREM DeliveredStays == Spec /\ []OneAtATime => DeliveredIsFinal
<1>1. Init => NotYetDelivered
  BY DEF Init, NotYetDelivered, Unsaved
<1>2. TypeOK /\ OneAtATime /\ NotYetDelivered /\ [Next]_vars => NotYetDelivered'
  BY StepNotYetDelivered
<1>3. TypeOK /\ OneAtATime /\ NotYetDelivered /\ [Next]_vars
        => [\A e \in Events :
              status[e] = "delivered" /\ status'[e] # "delivered" => Replay(e)]_vars
  BY StepNotYetDelivered
<1> QED
  BY <1>1, <1>2, <1>3, Typing, PTL DEF Spec, DeliveredIsFinal

\* That is so with a single worker, which runs one task at a time.
THEOREM OneWorkerIsEnough ==
    ASSUME \A v, w \in Workers : v = w
    PROVE  Spec => DeliveredIsFinal
<1>1. OneAtATime
  BY DEF OneAtATime
<1> QED
  BY <1>1, DeliveredStays, PTL

-----------------------------------------------------------------------------
(* The budget of attempts is kept where an event has one message at a time. *)

\* A worker that is still to finish its task, or to enqueue the next.
Engaged(w, e) == job[w] = e /\ pc[w] \notin {"idle", "ack"}

\* The messages of e that no worker has, those on their way to delay() too.
Waiting(e) == web[e] + broker[e]

\* One message at a time: neither the sweep nor a replay adds one to an event
\* that has one, or that a worker is about.
OneMessage ==
    \A e \in Events :
        /\ Waiting(e) <= 1
        /\ \A w \in Workers : Engaged(w, e) =>
             Waiting(e) = 0 /\ \A v \in Workers : Engaged(v, e) => v = w

\* An attempt is still due for a message that waits, for a status from which a
\* message can come, and for a worker that has looked at its message only.
LeftForMessages ==
    \A e \in Events :
        Waiting(e) > 0 \/ status[e] \in {"absent", "received", "queued", "failed"} =>
            attempt_count[e] < MaxAttempts
LeftForWorkers ==
    \A w \in Workers : pc[w] \in {"begin", "retry"} => attempt_count[job[w]] < MaxAttempts

\* The snapshot a worker judges by is not stale.
Informed(w) == pc[w] \in {"post", "save_attempt", "save_event", "replays", "audit", "retry"}
InDate == \A w \in Workers : Informed(w) => seen[w] = attempt_count[job[w]]

WithinBudget == AttemptBudget /\ LeftForMessages /\ LeftForWorkers /\ InDate

\* Steps that only move messages about, or give no worker anything to judge.
LEMMA MessagesMove ==
    ASSUME TypeOK, WithinBudget, UNCHANGED <<attempt_count, status>>,
           \A e \in Events : Waiting(e)' > 0 => attempt_count[e] < MaxAttempts,
           \A w \in Workers :
             pc'[w] \in {"begin", "retry"} => attempt_count[job'[w]] < MaxAttempts,
           \A w \in Workers : Informed(w)' => seen'[w] = attempt_count[job'[w]]
    PROVE  WithinBudget'
<1>1. AttemptBudget' /\ LeftForMessages'
  BY DEF WithinBudget, AttemptBudget, LeftForMessages
<1>2. LeftForWorkers' /\ InDate'
  BY DEF LeftForWorkers, InDate
<1> QED BY <1>1, <1>2 DEF WithinBudget

\* A step of one worker that begins nothing and leaves the counters alone.
LEMMA WorkerGoesOn ==
    ASSUME TypeOK, WithinBudget, NEW w \in Workers, NEW step, Goto(w, step),
           \A v \in Workers : v # w => job'[v] = job[v] /\ seen'[v] = seen[v],
           UNCHANGED <<attempt_count, web, broker>>,
           step \in {"begin", "retry"} => attempt_count[job'[w]] < MaxAttempts,
           Informed(w)' => seen'[w] = attempt_count[job'[w]],
           \A e \in Events :
             \/ status'[e] \notin {"absent", "received", "queued", "failed"}
             \/ status'[e] = status[e]
             \/ attempt_count[e] < MaxAttempts
    PROVE  WithinBudget'
<1>1. \A v \in Workers : pc'[v] = IF v = w THEN step ELSE pc[v]
  BY DEF Goto, TypeOK
<1>2. AttemptBudget' /\ LeftForMessages'
  BY DEF WithinBudget, AttemptBudget, LeftForMessages, Waiting
<1>3. LeftForWorkers'
  BY <1>1 DEF WithinBudget, LeftForWorkers
<1>4. InDate'
  BY <1>1 DEF WithinBudget, InDate, Informed
<1> QED BY <1>2, <1>3, <1>4 DEF WithinBudget

\* No step goes beyond the budget, if the state before it and the one after it
\* have one message at a time and no worker is lost.
LEMMA StepWithinBudget ==
    ASSUME "worker_crash" \notin Disturbances, TypeOK, OneMessage, OneMessage', WithinBudget,
           [Next]_vars
    PROVE  WithinBudget'
<1>1. ASSUME UNCHANGED <<attempt_count, status, web, broker, worker>> PROVE WithinBudget'
  BY <1>1 DEF WithinBudget, AttemptBudget, LeftForMessages, LeftForWorkers, InDate, Informed,
              Waiting, worker
<1>2. ASSUME NEW e \in Events, Ingest(e) \/ Replay(e)
      PROVE  WithinBudget'
  <2>1. 0 < MaxAttempts /\ (attempt_count[e] < MaxAttempts \/ Replay(e))
    BY <1>2, MaxAttemptsAssumption DEF Ingest, WithinBudget, LeftForMessages
  <2>2. \A f \in Events : /\ f # e => /\ attempt_count'[f] = attempt_count[f]
                                      /\ Waiting(f)' = Waiting(f) /\ status'[f] = status[f]
                          /\ f = e => attempt_count'[f] < MaxAttempts /\ attempt_count'[f] \in Nat
    BY <1>2, <2>1 DEF Ingest, Replay, Waiting, TypeOK
  <2>3. AttemptBudget'
    BY <2>2, MaxAttemptsAssumption DEF WithinBudget, AttemptBudget
  <2>4. LeftForMessages'
    BY <2>2 DEF WithinBudget, LeftForMessages
  <2>5. UNCHANGED worker
    BY <1>2 DEF Ingest, Replay
  <2>6. LeftForWorkers'
    BY <2>2, <2>5 DEF WithinBudget, LeftForWorkers, worker, TypeOK
  <2>7. CASE Ingest(e)
    BY <2>3, <2>4, <2>5, <2>6, <2>7 DEF Ingest, WithinBudget, InDate, Informed, worker
  <2>8. CASE Replay(e)
    <3>1. Waiting(e)' > 0
      BY <2>8 DEF Replay, Waiting, TypeOK
    <3>2. \A w \in Workers : ~Engaged(w, e)'
      BY <3>1 DEF OneMessage
    <3>3. \A w \in Workers : Informed(w) => job[w] # e /\ job[w] \in Events
      BY <2>5, <3>2 DEF Engaged, Informed, worker, TypeOK
    <3>4. InDate'
      BY <2>2, <2>5, <3>3 DEF WithinBudget, InDate, Informed, worker
    <3> QED BY <2>3, <2>4, <2>6, <3>4 DEF WithinBudget
  <2> QED BY <1>2, <2>7, <2>8
<1>3. ASSUME NEW e \in Events, Delay(e) \/ Sweep(e) \/ WebCrash(e)
      PROVE  WithinBudget'
  <2>1. UNCHANGED <<attempt_count, status, worker>>
    BY <1>3 DEF Delay, Sweep, WebCrash, database
  <2>2. \A f \in Events : Waiting(f)' > 0 => Waiting(f) > 0 \/ (f = e /\ Sweep(e))
    <3>1. \A f \in Events : f # e => web'[f] = web[f] /\ broker'[f] = broker[f]
      BY <1>3 DEF Delay, Sweep, WebCrash, TypeOK
    <3>2. Delay(e) \/ WebCrash(e) => web[e] > 0 /\ broker[e] \in Nat
      BY DEF Delay, WebCrash, TypeOK
    <3> QED BY <1>3, <3>1, <3>2 DEF Waiting, TypeOK
  <2>3. Sweep(e) => attempt_count[e] < MaxAttempts
    BY DEF Sweep, SweptStatus, WithinBudget, LeftForMessages
  <2>4. \A f \in Events : Waiting(f)' > 0 => attempt_count[f] < MaxAttempts
    BY <2>2, <2>3 DEF WithinBudget, LeftForMessages
  <2> QED
    BY <2>1, <2>4, MessagesMove DEF WithinBudget, LeftForWorkers, InDate, Informed, worker
<1>4. ASSUME NEW e \in Events, NEW w \in Workers, Take(w, e)
      PROVE  WithinBudget'
  <2>1. UNCHANGED <<attempt_count, status, web, seen>>
    BY <1>4 DEF Take, database
  <2>2. \A f \in Events : Waiting(f)' > 0 => Waiting(f) > 0
    BY <1>4 DEF Take, Waiting, TypeOK
  <2>3. \A f \in Events : Waiting(f)' > 0 => attempt_count[f] < MaxAttempts
    BY <2>2 DEF WithinBudget, LeftForMessages
  <2>4. attempt_count[e] < MaxAttempts
    BY <1>4 DEF Take, Waiting, WithinBudget, LeftForMessages, TypeOK
  <2>5. \A v \in Workers : /\ pc'[v] = IF v = w THEN "begin" ELSE pc[v]
                           /\ job'[v] = IF v = w THEN e ELSE job[v]
    BY <1>4 DEF Take, Goto, TypeOK
  <2> QED
    BY <2>1, <2>3, <2>4, <2>5, MessagesMove DEF WithinBudget, LeftForWorkers, InDate, Informed
<1>5. ASSUME NEW w \in Workers, BeginDelivered(w) \/ BeginSkipped(w)
      PROVE  WithinBudget'
  <2>1. attempt_count[job[w]] < MaxAttempts /\ job[w] \in Events
    BY <1>5 DEF BeginDelivered, BeginSkipped, At, WithinBudget, LeftForWorkers, TypeOK
  <2>2. Goto(w, "ack") /\ UNCHANGED <<job, seen, attempt_count, web, broker>>
    BY <1>5 DEF BeginDelivered, BeginSkipped, database
  <2>3. ~Informed(w)'
    BY <2>2 DEF Goto, Informed, TypeOK
  <2>4. \A e \in Events : status'[e] = status[e] \/ attempt_count[e] < MaxAttempts
    BY <1>5, <2>1 DEF BeginDelivered, BeginSkipped, database, TypeOK
  <2> QED BY <2>2, <2>3, <2>4, WorkerGoesOn
<1>6. ASSUME NEW w \in Workers, BeginAttempt(w)
      PROVE  WithinBudget'
  <2>1. PICK e \in Events : e = job[w]
    BY <1>6 DEF BeginAttempt, At, TypeOK
  <2>2. attempt_count[e] < MaxAttempts /\ attempt_count[e] \in Nat /\ Engaged(w, e)
    BY <1>6, <2>1 DEF BeginAttempt, At, WithinBudget, LeftForWorkers, Engaged, TypeOK
  <2>3. Waiting(e) = 0 /\ \A v \in Workers : v # w => ~Engaged(v, e)
    BY <2>2 DEF OneMessage
  <2>4. \A f \in Events : /\ attempt_count'[f] = IF f = e THEN attempt_count[e] + 1 ELSE attempt_count[f]
                          /\ status'[f] = IF f = e THEN "delivering" ELSE status[f]
                          /\ Waiting(f)' = Waiting(f)
    BY <1>6, <2>1 DEF BeginAttempt, Waiting, TypeOK
  <2>5. \A v \in Workers : pc'[v] = IF v = w THEN "load" ELSE pc[v]
    BY <1>6 DEF BeginAttempt, Goto, TypeOK
  <2>6. UNCHANGED <<job, seen>>
    BY <1>6 DEF BeginAttempt
  <2>7. AttemptBudget'
    BY <2>2, <2>4, MaxAttemptsAssumption DEF WithinBudget, AttemptBudget
  <2>8. LeftForMessages'
    BY <2>3, <2>4 DEF WithinBudget, LeftForMessages
  <2>9. \A v \in Workers : v # w /\ pc[v] \notin {"idle", "ack"} => job[v] \in Events /\ job[v] # e
    BY <2>3 DEF Engaged, TypeOK
  <2>10. LeftForWorkers'
    BY <2>4, <2>5, <2>6, <2>9 DEF WithinBudget, LeftForWorkers
  <2>11. InDate'
    BY <2>4, <2>5, <2>6, <2>9 DEF WithinBudget, InDate, Informed
  <2> QED BY <2>7, <2>8, <2>10, <2>11 DEF WithinBudget
<1>7. ASSUME NEW w \in Workers, Load(w)
      PROVE  WithinBudget'
  <2>1. PICK step \in {"save_attempt", "post"} : Goto(w, step)
    BY <1>7 DEF Load
  <2>2. UNCHANGED <<job, attempt_count, web, broker, status>>
    BY <1>7 DEF Load, database
  <2>3. \A v \in Workers : seen'[v] = IF v = w THEN attempt_count[job[w]] ELSE seen[v]
    BY <1>7 DEF Load, TypeOK
  <2> QED BY <2>1, <2>2, <2>3, WorkerGoesOn
<1>8. ASSUME NEW w \in Workers,
             Post(w) \/ SaveAttempt(w) \/ SaveDelivered(w) \/ SaveDeadLettered(w) \/ FinalizeReplays(w)
      PROVE  WithinBudget'
  <2>1. PICK step \in {"save_attempt", "save_event", "replays", "audit"} : Goto(w, step)
    BY <1>8 DEF Post, SaveAttempt, SaveDelivered, SaveDeadLettered, FinalizeReplays
  <2>2. UNCHANGED <<job, seen, attempt_count, web, broker>>
    BY <1>8 DEF Post, SaveAttempt, SaveDelivered, SaveDeadLettered, FinalizeReplays, database
  <2>3. seen[w] = attempt_count[job[w]]
    BY <1>8 DEF Post, SaveAttempt, SaveDelivered, SaveDeadLettered, FinalizeReplays, At,
                WithinBudget, InDate, Informed
  <2>4. \A e \in Events : status'[e] \in {status[e], "delivered", "dead_lettered"}
    BY <1>8 DEF Post, SaveAttempt, SaveDelivered, SaveDeadLettered, FinalizeReplays, database, TypeOK
  <2> QED BY <2>1, <2>2, <2>3, <2>4, WorkerGoesOn
<1>9. ASSUME NEW w \in Workers, SaveFailed(w)
      PROVE  WithinBudget'
  <2>1. Goto(w, "audit") /\ UNCHANGED <<job, seen, attempt_count, web, broker>>
    BY <1>9 DEF SaveFailed
  <2>2. seen[w] = attempt_count[job[w]] /\ job[w] \in Events
    BY <1>9 DEF SaveFailed, At, WithinBudget, InDate, Informed, TypeOK
  <2>3. attempt_count[job[w]] < MaxAttempts
    BY <1>9, <2>2, MaxAttemptsAssumption DEF SaveFailed, BudgetSpent, TypeOK
  <2>4. \A e \in Events : status'[e] = status[e] \/ attempt_count[e] < MaxAttempts
    BY <1>9, <2>2, <2>3 DEF SaveFailed, TypeOK
  <2> QED BY <2>1, <2>2, <2>4, WorkerGoesOn
<1>10. ASSUME NEW w \in Workers, WriteAudit(w)
       PROVE  WithinBudget'
  <2>1. UNCHANGED <<status, job, seen, attempt_count, web, broker>>
    BY <1>10 DEF WriteAudit, database
  <2>2. seen[w] = attempt_count[job[w]] /\ job[w] \in Events
    BY <1>10 DEF WriteAudit, At, WithinBudget, InDate, Informed, TypeOK
  <2>3. PICK step : Goto(w, step) /\ (step = "ack" \/ (step = "retry" /\ ~BudgetSpent(w)))
    <3>1. CASE ok[w]
      BY <1>10, <3>1 DEF WriteAudit
    <3>2. CASE ~ok[w] /\ BudgetSpent(w)
      BY <1>10, <3>2 DEF WriteAudit
    <3>3. CASE ~ok[w] /\ ~BudgetSpent(w)
      BY <1>10, <3>3 DEF WriteAudit
    <3> QED BY <3>1, <3>2, <3>3
  <2>4. step = "retry" => attempt_count[job[w]] < MaxAttempts
    BY <2>2, <2>3, MaxAttemptsAssumption DEF BudgetSpent, TypeOK
  <2> QED BY <2>1, <2>2, <2>3, <2>4, WorkerGoesOn
<1>11. ASSUME NEW w \in Workers, Retry(w)
       PROVE  WithinBudget'
  <2>1. UNCHANGED <<attempt_count, status, job, seen>>
    BY <1>11 DEF Retry, database
  <2>2. attempt_count[job[w]] < MaxAttempts
    BY <1>11 DEF Retry, At, WithinBudget, LeftForWorkers
  <2>3. \A f \in Events : Waiting(f)' > 0 => Waiting(f) > 0 \/ f = job[w]
    BY <1>11 DEF Retry, Waiting, TypeOK
  <2>4. \A f \in Events : Waiting(f)' > 0 => attempt_count[f] < MaxAttempts
    BY <2>2, <2>3 DEF WithinBudget, LeftForMessages
  <2>5. \A v \in Workers : pc'[v] = IF v = w THEN "ack" ELSE pc[v]
    BY <1>11 DEF Retry, Goto, TypeOK
  <2> QED
    BY <2>1, <2>4, <2>5, MessagesMove DEF WithinBudget, LeftForWorkers, InDate, Informed
<1>12. ASSUME NEW w \in Workers, Ack(w) \/ TimeLimit(w)
       PROVE  WithinBudget'
  <2>1. UNCHANGED <<attempt_count, status, web, broker>>
    BY <1>12 DEF Ack, TimeLimit, database
  <2>2. Goto(w, "idle") /\ \A v \in Workers : v # w => job'[v] = job[v] /\ seen'[v] = seen[v]
    BY <1>12 DEF Ack, TimeLimit, Rest, TypeOK
  <2>3. ~Informed(w)'
    BY <2>2 DEF Goto, Informed, TypeOK
  <2> QED BY <2>1, <2>2, <2>3, WorkerGoesOn
<1>13. ASSUME NEW w \in Workers, Crash(w) PROVE FALSE
  BY <1>13 DEF Crash, Disturb
<1>14. ASSUME NEW e \in Events, Elapse(e) \/ \E d \in DestinationState : ChangeDestination(e, d)
       PROVE  WithinBudget'
  BY <1>1, <1>14 DEF Elapse, ChangeDestination, database
<1>15. CASE UNCHANGED vars
  BY <1>1, <1>15 DEF vars, database
<1>16. ASSUME NEW w \in Workers, WorkerStep(w) \/ Crash(w) \/ TimeLimit(w)
       PROVE  WithinBudget'
  BY <1>5, <1>6, <1>7, <1>8, <1>9, <1>10, <1>11, <1>12, <1>13, <1>16 DEF WorkerStep, FinalizeStep
<1> QED BY <1>2, <1>3, <1>4, <1>14, <1>15, <1>16 DEF Next

\* What the documentation says of max_attempts is so if an event has one
\* message at a time and no worker is lost: the worker's comparison then ends
\* the retries in time, over replays, time limits and edited destinations.
THEOREM OneMessageKeepsTheBudget ==
    ASSUME "worker_crash" \notin Disturbances
    PROVE  Spec /\ []OneMessage => []AttemptBudget
<1>1. Init => WithinBudget
  BY MaxAttemptsAssumption
     DEF Init, WithinBudget, AttemptBudget, LeftForMessages, LeftForWorkers, InDate, Informed
<1>2. TypeOK /\ OneMessage /\ OneMessage' /\ WithinBudget /\ [Next]_vars => WithinBudget'
  BY StepWithinBudget
<1>3. WithinBudget => AttemptBudget
  BY DEF WithinBudget
<1> QED
  BY <1>1, <1>2, <1>3, Typing, PTL DEF Spec

-----------------------------------------------------------------------------
(* Delivery implements DeliveryOutcome: every step of the web process, the  *)
(* workers, the broker and the operator is a step of the promise, or does   *)
(* not show in it.                                                          *)

\* Functions on an initial segment of the ids are tables.
LEMMA FunctionIsSeq ==
    ASSUME NEW S, NEW n \in Nat, NEW f \in [1..n -> S]
    PROVE  f \in Seq(S) /\ Len(f) = n
<1>1. f \in Seq(S)
  BY SeqDef
<1> QED
  BY <1>1, LenProperties

\* A step that leaves events' status, the attempts' events and numbers, the
\* accepted POSTs and the replays alone does not show.
LEMMA Stutter ==
    ASSUME status' = status, replays' = replays, accepted' = accepted,
           attempts' = attempts
    PROVE  UNCHANGED <<PromisedOutcome, PromisedTried, PromisedReached, PromisedRequests>>
BY DEF PromisedOutcome, PromisedTried, PromisedReached, PromisedRequests,
       Tried, Reached, AttemptsOf

\* The evidence is unchanged when the attempts are.
LEMMA EvidenceSame ==
    ASSUME attempts' = attempts, accepted' = accepted
    PROVE  PromisedTried' = PromisedTried /\ PromisedReached' = PromisedReached
BY DEF PromisedTried, PromisedReached, Tried, Reached, AttemptsOf

\* Setting the status of one event sets one outcome.
LEMMA OutcomeSet ==
    ASSUME TypeOK, NEW e \in Events, NEW s,
           status' = [status EXCEPT ![e] = s]
    PROVE  PromisedOutcome' = [PromisedOutcome EXCEPT ![e] = OutcomeOf(s)]
<1>1. \A f \in Events : status'[f] = IF f = e THEN s ELSE status[f]
  BY DEF TypeOK
<1>2. \A f \in Events : OutcomeOf(status'[f]) = IF f = e THEN OutcomeOf(s)
                                                        ELSE OutcomeOf(status[f])
  BY <1>1
<1>3. PromisedOutcome' = [f \in Events |-> OutcomeOf(status'[f])]
  BY DEF PromisedOutcome, OutcomeOf
<1>4. [PromisedOutcome EXCEPT ![e] = OutcomeOf(s)] =
         [f \in Events |-> IF f = e THEN OutcomeOf(s) ELSE OutcomeOf(status[f])]
  BY DEF PromisedOutcome
<1> QED
  BY <1>2, <1>3, <1>4

\* Every status that is no verdict shows as an open outcome.
LEMMA OpenSet ==
    ASSUME TypeOK, NEW e \in Events,
           NEW s \in {"received", "queued", "delivering", "failed"},
           status' = [status EXCEPT ![e] = s]
    PROVE  PromisedOutcome' = [PromisedOutcome EXCEPT ![e] = "open"]
<1>1. OutcomeOf(s) = "open"
  BY DEF OutcomeOf
<1> QED
  BY <1>1, OutcomeSet

\* An event that exists has an outcome.
LEMMA OutcomeKnown ==
    ASSUME TypeOK, NEW e \in Events, status[e] # "absent"
    PROVE  /\ PromisedOutcome[e] \in {"open", "delivered", "dead"}
           /\ status[e] # "delivered" => PromisedOutcome[e] \in {"open", "dead"}
BY DEF PromisedOutcome, OutcomeOf

THEOREM StepRefinement ==
    ASSUME TypeOK, Inductive, [Next]_vars
    PROVE  [Promise!Next]_(Promise!vars)
<1> USE DEF Promise!vars
<1>1. CASE UNCHANGED vars
  BY <1>1, Stutter DEF vars, database
<1>2. ASSUME NEW e \in Events, Ingest(e) PROVE Promise!Accept(e)
  <2>1. PICK s \in {"queued", "received"} : status' = [status EXCEPT ![e] = s]
    BY <1>2 DEF Ingest
  <2>2. PromisedOutcome' = [PromisedOutcome EXCEPT ![e] = "open"]
    BY <2>1, OpenSet
  <2>3. PromisedOutcome[e] = "none"
    BY <1>2 DEF Ingest, PromisedOutcome, OutcomeOf
  <2>4. PromisedTried' = PromisedTried /\ PromisedReached' = PromisedReached
    BY <1>2, EvidenceSame DEF Ingest
  <2>5. PromisedRequests' = PromisedRequests
    BY <1>2 DEF Ingest, PromisedRequests
  <2> QED
    BY <2>2, <2>3, <2>4, <2>5 DEF Promise!Accept
<1>3. ASSUME NEW e \in Events, Replay(e) PROVE Promise!Request(e)
  <2> DEFINE new == [event |-> e, status |-> "queued"]
             seen_new == [event |-> e, status |-> "queued"]
             Shown == [event : Events, status : {"queued", "completed", "failed"}]
  <2>1. new \in ReplayRequest /\ seen_new \in Shown
    BY TableIsFunction DEF TypeOK, ReplayRequest
  <2>2. replays' = Append(replays, new)
    BY <1>3 DEF Replay
  <2>3. /\ \A r \in DOMAIN replays : replays[r] \in ReplayRequest
        /\ DOMAIN replays = 1..Len(replays)
        /\ Len(replays) \in Nat
    BY TableIsFunction DEF TypeOK
  <2>4. PromisedRequests \in Seq(Shown) /\ Len(PromisedRequests) = Len(replays)
    <3>1. PromisedRequests \in [DOMAIN replays -> Shown]
      BY <2>3 DEF PromisedRequests, ReplayRequest
    <3> HIDE DEF Shown
    <3> QED
      BY <2>3, <3>1, FunctionIsSeq
  <2>5. PromisedRequests' = Append(PromisedRequests, seen_new)
    <3> DEFINE after == Append(PromisedRequests, seen_new)
    <3>1. /\ DOMAIN replays' = DOMAIN replays \cup {Len(replays) + 1}
          /\ Len(replays) + 1 \notin DOMAIN replays
          /\ \A r \in DOMAIN replays : replays'[r] = replays[r]
          /\ replays'[Len(replays) + 1] = new
      BY <2>1, <2>2, NewRow DEF TypeOK
    <3>2. /\ after \in Seq(Shown)
          /\ DOMAIN after = DOMAIN PromisedRequests \cup {Len(replays) + 1}
          /\ \A r \in DOMAIN PromisedRequests : after[r] = PromisedRequests[r]
          /\ after[Len(replays) + 1] = seen_new
      BY <2>1, <2>4, NewRow
    <3>3. after = [r \in DOMAIN after |-> after[r]]
      <4>1. after \in [1..Len(after) -> Shown]
        BY <3>2, LenProperties
      <4> QED
        BY <4>1
    <3>4. DOMAIN PromisedRequests = DOMAIN replays
      BY DEF PromisedRequests
    <3>5. DOMAIN after = DOMAIN replays'
      BY <3>1, <3>2, <3>4
    <3>6. \A r \in DOMAIN replays' :
             after[r] = [event |-> replays'[r].event, status |-> replays'[r].status]
      BY <3>1, <3>2, <3>4 DEF PromisedRequests
    <3> HIDE DEF after
    <3>7. PromisedRequests' = after
      BY <3>3, <3>5, <3>6 DEF PromisedRequests
    <3> QED
      BY <3>7 DEF after
  <2>6. PromisedOutcome' = [PromisedOutcome EXCEPT ![e] = "open"]
    <3>1. status' = [status EXCEPT ![e] = "queued"]
      BY <1>3 DEF Replay
    <3> QED
      BY <3>1, OpenSet
  <2>7. PromisedOutcome[e] # "none"
    BY <1>3, OutcomeKnown DEF Replay
  <2>8. PromisedTried' = PromisedTried /\ PromisedReached' = PromisedReached
    BY <1>3, EvidenceSame DEF Replay, worker
  <2> QED
    BY <2>5, <2>6, <2>7, <2>8 DEF Promise!Request
<1>4. ASSUME NEW w \in Workers, BeginSkipped(w) \/ SaveFailed(w)
      PROVE  job[w] \in Events /\ Promise!Reopen(job[w])
  <2>1. job[w] \in Events /\ status[job[w]] # "absent"
    BY <1>4 DEF BeginSkipped, SaveFailed, At, TypeOK, Inductive, KnownAfterIngest
  <2>2. status' = [status EXCEPT ![job[w]] = "failed"]
    BY <1>4 DEF BeginSkipped, SaveFailed
  <2>3. PromisedOutcome' = [PromisedOutcome EXCEPT ![job[w]] = "open"]
    BY <2>1, <2>2, OpenSet
  <2>4. PromisedOutcome[job[w]] # "none"
    BY <2>1, OutcomeKnown
  <2>5. attempts' = attempts /\ accepted' = accepted /\ replays' = replays
    BY <1>4 DEF BeginSkipped, SaveFailed
  <2>6. PromisedTried' = PromisedTried /\ PromisedReached' = PromisedReached
    BY <2>5, EvidenceSame
  <2>7. PromisedRequests' = PromisedRequests
    BY <2>5 DEF PromisedRequests
  <2> QED
    BY <2>1, <2>3, <2>4, <2>6, <2>7 DEF Promise!Reopen
<1>5. ASSUME NEW w \in Workers, BeginAttempt(w)
      PROVE  /\ job[w] \in Events
             /\ \E n \in Promise!NextNumbers(job[w]) : Promise!Attempt(job[w], n)
  <2> DEFINE e == job[w]
             n == attempt_count[e] + 1
             new == [event |-> e, number |-> n, status |-> "pending"]
             id == Len(attempts) + 1
  <2>1. e \in Events /\ attempt_count[e] \in Nat
    BY <1>5 DEF BeginAttempt, At, TypeOK
  <2>2. new \in Attempt
    BY <2>1 DEF Attempt
  <2>3. attempts' = Append(attempts, new) /\ accepted' = accepted /\ replays' = replays
    BY <1>5 DEF BeginAttempt
  <2>4. /\ DOMAIN attempts' = DOMAIN attempts \cup {id}
        /\ id \notin DOMAIN attempts
        /\ \A i \in DOMAIN attempts : attempts'[i] = attempts[i]
        /\ attempts'[id] = new
    BY <2>2, <2>3, NewRow DEF TypeOK
  <2>5. PromisedTried' = [PromisedTried EXCEPT ![e] = @ \cup {n}]
    <3> HIDE DEF new, id
    <3>1. new.event = e /\ new.number = n
      BY DEF new
    <3>2. ASSUME NEW f \in Events
          PROVE  Tried(f)' = IF f = e THEN Tried(f) \cup {n} ELSE Tried(f)
      <4>1. AttemptsOf(f)' = IF f = e THEN AttemptsOf(f) \cup {id} ELSE AttemptsOf(f)
        BY <2>4, <3>1 DEF AttemptsOf
      <4>2. \A i \in AttemptsOf(f) : attempts'[i].number = attempts[i].number
        BY <2>4 DEF AttemptsOf
      <4> QED
        BY <2>4, <3>1, <4>1, <4>2 DEF Tried
    <3> HIDE DEF e, n
    <3> QED
      BY <3>2 DEF PromisedTried
  <2>6. PromisedReached' = PromisedReached
    <3>1. id \notin accepted
      BY <2>4 DEF Inductive, AcceptedAreBegun
    <3> HIDE DEF id, new
    <3>2. ASSUME NEW f \in Events PROVE Reached(f)' = Reached(f)
      BY <2>3, <2>4, <3>1 DEF Reached, AttemptsOf
    <3> QED
      BY <3>2 DEF PromisedReached
  <2>7. n \in Promise!NextNumbers(e)
    <3>1. attempt_count[e] = 0 \/ attempt_count[e] \in 1..attempt_count[e]
      BY <2>1
    <3>2. 1..attempt_count[e] \subseteq PromisedTried[e]
      BY <2>1 DEF Inductive, CountsAreTried, PromisedTried
    <3> QED
      BY <2>1, <3>1, <3>2 DEF Promise!NextNumbers
  <2>8. PromisedRequests' = PromisedRequests
    BY <2>3 DEF PromisedRequests
  <2>9. PromisedOutcome' = [PromisedOutcome EXCEPT ![e] = "open"]
    <3>1. status' = [status EXCEPT ![e] = "delivering"]
      BY <1>5 DEF BeginAttempt
    <3> QED
      BY <2>1, <3>1, OpenSet
  <2>10. PromisedOutcome[e] \in {"open", "dead"}
    BY <1>5, <2>1, OutcomeKnown
       DEF BeginAttempt, AlreadyDelivered, At, Inductive, KnownAfterIngest
  <2>11. Promise!Attempt(e, n)
    BY <2>5, <2>6, <2>8, <2>9, <2>10 DEF Promise!Attempt
  <2> QED
    BY <2>1, <2>7, <2>11
<1>6. ASSUME NEW w \in Workers, Post(w)
      PROVE  job[w] \in Events /\ (Promise!Arrive(job[w]) \/ UNCHANGED Promise!vars)
  <2>1. job[w] \in Events /\ row[w] \in AttemptsOf(job[w])
    BY <1>6 DEF Post, At, InHand, TypeOK, Inductive, OwnRow
  <2>2. attempts' = attempts /\ status' = status /\ replays' = replays
    BY <1>6 DEF Post, database
  <2>3. CASE accepted' = accepted
    BY <2>1, <2>2, <2>3, Stutter
  <2>4. CASE accepted' = accepted \cup {row[w]}
    <3>1. ASSUME NEW f \in Events
          PROVE  Reached(f)' = IF f = job[w] THEN TRUE ELSE Reached(f)
      BY <2>1, <2>2, <2>4 DEF Reached, AttemptsOf
    <3>2. PromisedReached' = [PromisedReached EXCEPT ![job[w]] = TRUE]
      BY <3>1 DEF PromisedReached
    <3>3. PromisedTried[job[w]] # {}
      BY <2>1 DEF PromisedTried, Tried
    <3>4. UNCHANGED <<PromisedOutcome, PromisedTried, PromisedRequests>>
      BY <2>2 DEF PromisedOutcome, PromisedTried, PromisedRequests, Tried, AttemptsOf
    <3> QED
      BY <2>1, <3>2, <3>3, <3>4 DEF Promise!Arrive
  <2> QED
    BY <1>6, <2>1, <2>3, <2>4 DEF Post
<1>7. ASSUME NEW w \in Workers, SaveAttempt(w) PROVE UNCHANGED Promise!vars
  <2>1. status' = status /\ replays' = replays /\ accepted' = accepted
    BY <1>7 DEF SaveAttempt
  <2>2. /\ DOMAIN attempts' = DOMAIN attempts
        /\ \A i \in DOMAIN attempts : /\ attempts'[i].event = attempts[i].event
                                      /\ attempts'[i].number = attempts[i].number
    <3>1. DOMAIN attempts' = DOMAIN attempts
      BY <1>7 DEF SaveAttempt
    <3> QED
      BY <3>1, StepExtendsHistory DEF Inductive, ExtendsHistory
  <2>3. \A f : AttemptsOf(f)' = AttemptsOf(f)
    BY <2>2 DEF AttemptsOf
  <2>4. \A f : Tried(f)' = Tried(f) /\ (Reached(f)' <=> Reached(f))
    BY <2>1, <2>2, <2>3 DEF Tried, Reached, AttemptsOf
  <2> QED
    BY <2>1, <2>4 DEF PromisedOutcome, PromisedTried, PromisedReached, PromisedRequests
<1>8. ASSUME NEW w \in Workers, NEW good \in BOOLEAN,
             IF good THEN SaveDelivered(w) ELSE SaveDeadLettered(w)
      PROVE  job[w] \in Events /\ Promise!Settle(job[w], good)
  <2>1. job[w] \in Events /\ InHand(w) /\ status[job[w]] # "absent"
    BY <1>8 DEF SaveDelivered, SaveDeadLettered, At, InHand, TypeOK, Inductive,
                KnownAfterIngest
  <2>2. IF good THEN ok[w] ELSE BudgetSpent(w)
    BY <1>8 DEF SaveDelivered, SaveDeadLettered
  <2>3. Promise!Justified(job[w], good)
    BY <2>1, <2>2, HandEvidence
       DEF Promise!Justified, Inductive, PromisedReached, PromisedTried, Exhausted
  <2>4. PromisedOutcome' = [PromisedOutcome EXCEPT
                              ![job[w]] = IF good THEN "delivered" ELSE "dead"]
    BY <1>8, <2>1, OutcomeSet DEF SaveDelivered, SaveDeadLettered, OutcomeOf
  <2>5. PromisedOutcome[job[w]] # "none"
    BY <2>1, OutcomeKnown
  <2>6. attempts' = attempts /\ accepted' = accepted /\ replays' = replays
    BY <1>8 DEF SaveDelivered, SaveDeadLettered
  <2>7. PromisedTried' = PromisedTried /\ PromisedReached' = PromisedReached
    BY <2>6, EvidenceSame
  <2>8. PromisedRequests' = PromisedRequests
    BY <2>6 DEF PromisedRequests
  <2> QED
    BY <2>1, <2>3, <2>4, <2>5, <2>7, <2>8 DEF Promise!Settle
<1>9. ASSUME NEW w \in Workers, FinalizeReplays(w)
      PROVE  job[w] \in Events /\ Promise!Judge(job[w], ok[w])
  <2>1. job[w] \in Events /\ InHand(w) /\ (ok[w] \/ BudgetSpent(w))
    BY <1>9 DEF FinalizeReplays, At, InHand, TypeOK, Inductive, VerdictInHand
  <2>2. Promise!Justified(job[w], ok[w])
    BY <2>1, HandEvidence
       DEF Promise!Justified, Inductive, PromisedReached, PromisedTried, Exhausted
  <2>3. \A r \in DOMAIN replays : replays[r] \in ReplayRequest
    BY TableIsFunction DEF TypeOK
  <2>4. /\ DOMAIN replays' = DOMAIN replays
        /\ \A r \in DOMAIN replays :
              /\ replays'[r].event = replays[r].event
              /\ replays'[r].status =
                    IF replays[r].event = job[w] /\ replays[r].status = "queued"
                    THEN IF ok[w] THEN "completed" ELSE "failed"
                    ELSE replays[r].status
    BY <1>9, <2>3 DEF FinalizeReplays, ReplayRequest
  <2>5. PromisedRequests' = [r \in DOMAIN PromisedRequests |->
                      IF PromisedRequests[r].event = job[w]
                            /\ PromisedRequests[r].status = "queued"
                      THEN [PromisedRequests[r] EXCEPT !.status =
                                IF ok[w] THEN "completed" ELSE "failed"]
                      ELSE PromisedRequests[r]]
    BY <2>4 DEF PromisedRequests
  <2>6. status' = status /\ attempts' = attempts /\ accepted' = accepted
    BY <1>9 DEF FinalizeReplays
  <2>7. UNCHANGED <<PromisedOutcome, PromisedTried, PromisedReached>>
    BY <2>6, EvidenceSame DEF PromisedOutcome
  <2> QED
    BY <2>1, <2>2, <2>5, <2>7 DEF Promise!Judge
<1>10. ASSUME NEW e \in Events,
              \/ Delay(e) \/ Elapse(e) \/ Sweep(e) \/ WebCrash(e)
              \/ \E w \in Workers : Take(w, e)
              \/ \E d \in DestinationState : ChangeDestination(e, d)
       PROVE  UNCHANGED Promise!vars
  BY <1>10, Stutter DEF Delay, Elapse, Sweep, WebCrash, Take, ChangeDestination, database
<1>11. ASSUME NEW w \in Workers,
              \/ BeginDelivered(w) \/ Load(w) \/ WriteAudit(w) \/ Retry(w) \/ Ack(w)
              \/ Crash(w) \/ TimeLimit(w)
       PROVE  UNCHANGED Promise!vars
  BY <1>11, Stutter DEF BeginDelivered, Load, WriteAudit, Retry, Ack, Crash, TimeLimit,
                        database
<1>12. ASSUME NEW w \in Workers, WorkerStep(w) \/ Crash(w) \/ TimeLimit(w)
       PROVE  [Promise!Next]_(Promise!vars)
  <2>1. \A good \in BOOLEAN : (IF good THEN SaveDelivered(w) ELSE SaveDeadLettered(w)) =>
           job[w] \in Events /\ Promise!Settle(job[w], good)
    BY <1>8
  <2>2. SaveDelivered(w) => job[w] \in Events /\ Promise!Settle(job[w], TRUE)
    BY <2>1
  <2>3. SaveDeadLettered(w) => job[w] \in Events /\ Promise!Settle(job[w], FALSE)
    BY <2>1
  <2>4. ok[w] \in BOOLEAN
    BY DEF TypeOK
  <2> HIDE DEF Promise!vars
  <2> QED
    BY <1>4, <1>5, <1>6, <1>7, <1>9, <1>11, <1>12, <2>2, <2>3, <2>4
       DEF WorkerStep, FinalizeStep, Promise!Next
<1> HIDE DEF Promise!vars
<1> QED
  BY <1>1, <1>2, <1>3, <1>10, <1>12 DEF Next, Promise!Next, Promise!vars

\* Delivery implements the promise, for all values of its constants.
THEOREM Refinement == Spec => KeepsPromise
<1>1. Init => Promise!Init
  <2> SUFFICES ASSUME Init PROVE Promise!Init
    OBVIOUS
  <2>1. attempts = <<>> /\ replays = <<>> /\ accepted = {}
    BY DEF Init
  <2>2. \A e \in Events : OutcomeOf(status[e]) = "none"
    BY DEF Init, OutcomeOf
  <2>3. \A e : AttemptsOf(e) = {}
    BY <2>1 DEF AttemptsOf
  <2>4. \A e : Tried(e) = {} /\ Reached(e) = FALSE
    BY <2>3 DEF Tried, Reached
  <2>5. PromisedRequests = <<>>
    BY <2>1 DEF PromisedRequests
  <2>6. PromisedOutcome = [e \in Events |-> "none"]
    BY <2>2 DEF PromisedOutcome
  <2>7. PromisedTried = [e \in Events |-> {}]
    BY <2>4 DEF PromisedTried
  <2>8. PromisedReached = [e \in Events |-> FALSE]
    BY <2>4 DEF PromisedReached
  <2> QED
    BY <2>5, <2>6, <2>7, <2>8 DEF Promise!Init
<1>2. TypeOK /\ Inductive /\ [Next]_vars => [Promise!Next]_(Promise!vars)
  BY StepRefinement
<1> QED
  BY <1>1, <1>2, Typing, Induction, PTL DEF Spec, KeepsPromise, Promise!Spec
=============================================================================
