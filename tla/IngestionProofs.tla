--------------------------- MODULE IngestionProofs ---------------------------
(***************************************************************************)
(* Ingestion for any threads, notifications and disturbances: what was     *)
(* acknowledged is stored, what is stored was handed over once at most,    *)
(* is stored and logged once, and redeliveries make no second row.         *)
(***************************************************************************)
EXTENDS Ingestion, FiniteSetTheorems, TLAPS

TypedThread ==
    /\ pc \in [Threads -> Steps] /\ job \in [Threads -> Notifications \cup {NoNotification}]
    /\ \A t \in Threads : pc[t] # "idle" => job[t] \in Notifications

TypedTables ==
    /\ answers \in [Notifications -> SUBSET {200, 202, 401, 404, 500}]
    /\ broker \in [Keys -> 0..2]
    /\ audit \in [Keys \X {"received", "duplicate"} -> 0..2]

Typed == TypedThread /\ TypedTables

\* A thread about to answer 200, or to call delay(), has a row to show.
HasRow == \A t \in Threads : At(t, "duplicate") \/ At(t, "delay") => Stored(Key(t))

\* One thread at most is about to enqueue an event, and nobody has before it.
OneCaller ==
    /\ \A t \in Threads : At(t, "delay") =>
          /\ \E r \in rows : r.key = Key(t) /\ r.status = "queued"
          /\ Key(t) \in Keys => broker[Key(t)] = 0
    /\ \A t, u \in Threads : At(t, "delay") /\ At(u, "delay") /\ Key(t) = Key(u) => t = u

\* The constraint on keys, and the entry written in the same transaction.
OneRow ==
    /\ \A r, s \in rows : r.key = s.key => r = s
    /\ \A k \in Keys : audit[<<k, "received">>] = IF Stored(k) THEN 1 ELSE 0

Inductive == Typed /\ HasRow /\ OneCaller /\ OneRow /\ AcknowledgedIsStored /\ EnqueuedOnce

-----------------------------------------------------------------------------

\* The key of a request depends only on what never changes.
LEMMA KeyStays ==
    ASSUME UNCHANGED given
    PROVE  \A n, t : KeyOf(n, t)' = KeyOf(n, t)
BY DEF given, KeyOf, Named, IdAt, Places

\* A database without rows, and threads without requests.
LEMMA InitInductive == Init => Inductive
<1> SUFFICES ASSUME Init PROVE Inductive
  OBVIOUS
<1>1. Typed
  BY DEF Init, Typed, TypedThread, TypedTables, Steps
<1>2. HasRow /\ OneCaller
  BY DEF Init, HasRow, OneCaller, At
<1>3. OneRow /\ AcknowledgedIsStored /\ EnqueuedOnce
  BY DEF Init, OneRow, Stored, AcknowledgedIsStored, Acknowledged, EnqueuedOnce
<1> QED BY <1>1, <1>2, <1>3 DEF Inductive

\* Steps that leave the tables alone and take no thread to a step that needs a
\* row: at most they answer without a 2xx.
Harmless ==
    /\ Typed' /\ UNCHANGED <<given, rows, broker>>
    /\ \A k \in Keys : audit'[<<k, "received">>] = audit[<<k, "received">>]
    /\ \A t \in Threads : pc'[t] \in {"duplicate", "delay"} => pc'[t] = pc[t] /\ job'[t] = job[t]
    /\ \A n \in Notifications : Acknowledged(n)' => Acknowledged(n)

\* Nothing that the invariant speaks of is lost by such a step.
LEMMA HarmlessKeeps == ASSUME Inductive, Harmless PROVE Inductive'
<1>1. \A n, t : KeyOf(n, t)' = KeyOf(n, t)
  BY KeyStays DEF Harmless
<1>2. \A k : Stored(k)' <=> Stored(k)
  BY DEF Harmless, Stored
<1>3. \A t \in Threads : At(t, "duplicate")' \/ At(t, "delay")' =>
          Key(t)' = Key(t) /\ pc'[t] = pc[t]
  BY <1>1 DEF Harmless, At, Key
<1>4. HasRow' /\ OneCaller'
  BY <1>2, <1>3 DEF Inductive, Harmless, HasRow, OneCaller, At
<1>5. OneRow' /\ EnqueuedOnce'
  BY <1>2 DEF Inductive, Harmless, OneRow, EnqueuedOnce
<1>6. AcknowledgedIsStored'
  BY <1>1, <1>2 DEF Inductive, Harmless, AcknowledgedIsStored
<1> QED BY <1>4, <1>5, <1>6 DEF Inductive, Harmless

-----------------------------------------------------------------------------
(* What the parts of the actions do.                                        *)

\* Only thread t takes a step, to this one.
Moves(t, step) ==
    /\ TypedThread' /\ pc'[t] = step
    /\ \A u \in Threads : u # t => pc'[u] = pc[u] /\ job'[u] = job[u]

\* A thread that has answered, or has been lost, holds no request.
LEMMA RestMoves == ASSUME Typed, NEW t \in Threads, Rest(t) PROVE Moves(t, "idle")
BY DEF Typed, TypedThread, Rest, Goto, Moves, Steps

\* A thread that goes on keeps the request it has.
LEMMA GotoMoves ==
    ASSUME Typed, NEW t \in Threads, NEW step \in Steps, pc[t] # "idle",
           Goto(t, step), job' = job
    PROVE  Moves(t, step) /\ job'[t] = job[t] /\ job[t] \in Notifications
BY DEF Typed, TypedThread, Goto, Moves

\* An answer counts for the notification of the request, and for no other.
LEMMA AnswerCounts ==
    ASSUME Typed, NEW t \in Threads, NEW code \in {200, 202, 401, 404, 500},
           Answer(t, code)
    PROVE  /\ Moves(t, "idle")
           /\ answers' \in [Notifications -> SUBSET {200, 202, 401, 404, 500}]
           /\ \A n \in Notifications : Acknowledged(n)' =>
                 Acknowledged(n) \/ (n = job[t] /\ code \in {200, 202})
<1>1. Moves(t, "idle")
  BY RestMoves DEF Answer
<1>2. answers \in [Notifications -> SUBSET {200, 202, 401, 404, 500}]
  BY DEF Typed, TypedTables
<1>3. answers' = [answers EXCEPT ![job[t]] = @ \cup {code}]
  BY DEF Answer
<1>4. \A n \in Notifications :
         answers'[n] = IF n = job[t] THEN answers[n] \cup {code} ELSE answers[n]
  BY <1>2, <1>3
<1>5. answers' \in [Notifications -> SUBSET {200, 202, 401, 404, 500}]
  <2> DEFINE Codes == {200, 202, 401, 404, 500}
  <2>1. ASSUME NEW n \in Notifications, NEW c \in answers'[n] PROVE c \in Codes
    <3>1. answers[n] \in SUBSET Codes
      BY <1>2
    <3>2. answers'[n] = answers[n] \cup {code} \/ answers'[n] = answers[n]
      BY <1>4
    <3>3. c \in answers[n] \/ c = code
      BY <3>2
    <3> QED BY <3>1, <3>3
  <2>2. \A n \in Notifications : answers'[n] \in SUBSET Codes
    BY <2>1
  <2>3. answers' = [n \in Notifications |-> answers'[n]]
    BY <1>2, <1>3
  <2> HIDE DEF Codes
  <2>4. answers' \in [Notifications -> SUBSET Codes]
    BY <2>2, <2>3
  <2> QED BY <2>4 DEF Codes
<1> QED BY <1>1, <1>4, <1>5 DEF Acknowledged

\* A step of a thread to where it needs no row, with an answer that is no 2xx
\* or none at all, is harmless.
LEMMA StepAside ==
    ASSUME Typed, NEW t \in Threads, NEW step \in Steps \ {"duplicate", "delay"},
           Moves(t, step), UNCHANGED <<given, rows, audit, broker>>,
           \/ UNCHANGED answers
           \/ \E code \in {401, 404, 500} : Answer(t, code)
    PROVE  Harmless
<1>1. /\ answers' \in [Notifications -> SUBSET {200, 202, 401, 404, 500}]
      /\ \A n \in Notifications : Acknowledged(n)' => Acknowledged(n)
  <2>1. CASE UNCHANGED answers
    BY <2>1 DEF Typed, TypedTables, Acknowledged
  <2>2. CASE \E code \in {401, 404, 500} : Answer(t, code)
    BY <2>2, AnswerCounts
  <2> QED BY <2>1, <2>2
<1>2. Typed'
  BY <1>1 DEF Typed, TypedTables, Moves
<1>3. \A u \in Threads : pc'[u] \in {"duplicate", "delay"} => pc'[u] = pc[u] /\ job'[u] = job[u]
  BY DEF Moves
<1> QED BY <1>1, <1>2, <1>3 DEF Harmless

\* The program's steps and disturbances that only read the tables or answer
\* without a 2xx are harmless.
LEMMA ReceiveHarmless ==
    ASSUME Typed, NEW t \in Threads, NEW n \in Notifications, Receive(t, n) PROVE Harmless
<1>1. UNCHANGED <<given, rows, audit, broker>>
  BY DEF Receive, database
<1>2. CASE active
  <2>1. Moves(t, "verify")
    BY <1>2 DEF Receive, Goto, Typed, TypedThread, Moves, Steps
  <2> QED BY <1>1, <1>2, <2>1, StepAside DEF Receive, Steps
<1>3. CASE ~active
  <2>1. answers' = [answers EXCEPT ![n] = @ \cup {404}] /\ UNCHANGED thread
    BY <1>3 DEF Receive
  <2>2. /\ answers' \in [Notifications -> SUBSET {200, 202, 401, 404, 500}]
        /\ \A m \in Notifications :
              answers'[m] = IF m = n THEN answers[m] \cup {404} ELSE answers[m]
    <3> DEFINE Codes == SUBSET {200, 202, 401, 404, 500}
    <3>1. \A a \in Codes : a \cup {404} \in Codes
      OBVIOUS
    <3>2. answers \in [Notifications -> Codes]
      BY DEF Typed, TypedTables
    <3> HIDE DEF Codes
    <3>3. /\ answers' \in [Notifications -> Codes]
          /\ \A m \in Notifications :
                answers'[m] = IF m = n THEN answers[m] \cup {404} ELSE answers[m]
      BY <2>1, <3>1, <3>2
    <3> QED BY <3>3 DEF Codes
  <2>3. \A m \in Notifications : Acknowledged(m)' => Acknowledged(m)
    BY <2>2 DEF Acknowledged
  <2>4. Typed'
    BY <1>1, <2>1, <2>2 DEF Typed, TypedThread, TypedTables, thread
  <2> QED BY <1>1, <2>1, <2>3, <2>4 DEF Harmless, thread
<1> QED BY <1>2, <1>3

LEMMA VerifyHarmless ==
    ASSUME Typed, NEW t \in Threads, Verify(t) \/ VerifyLate(t) PROVE Harmless
<1>1. UNCHANGED <<given, rows, audit, broker>>
  BY DEF Verify, VerifyLate, database
<1>2. CASE Answer(t, 401)
  BY <1>1, <1>2, AnswerCounts, StepAside DEF Steps
<1>3. CASE Goto(t, "destination") /\ UNCHANGED <<job, answers>>
  <2>1. pc[t] # "idle"
    BY DEF Verify, VerifyLate, At
  <2>2. Moves(t, "destination")
    BY <1>3, <2>1, GotoMoves DEF Steps
  <2> QED BY <1>1, <1>3, <2>2, StepAside DEF Steps
<1> QED BY <1>2, <1>3 DEF Verify, VerifyLate

LEMMA LoadDestinationHarmless ==
    ASSUME Typed, NEW t \in Threads, LoadDestination(t) PROVE Harmless
<1>1. UNCHANGED <<given, rows, audit, broker>> /\ pc[t] # "idle"
  BY DEF LoadDestination, database, At
<1>2. CASE Answer(t, 500)
  BY <1>1, <1>2, AnswerCounts, StepAside DEF Steps
<1>3. CASE Goto(t, "find") /\ UNCHANGED <<job, answers>>
  <2>1. Moves(t, "find")
    BY <1>1, <1>3, GotoMoves DEF Steps
  <2> QED BY <1>1, <1>3, <2>1, StepAside DEF Steps
<1> QED BY <1>2, <1>3 DEF LoadDestination

LEMMA DelayFailsHarmless ==
    ASSUME Typed, NEW t \in Threads, DelayFails(t) PROVE Harmless
<1>1. UNCHANGED <<given, rows, audit, broker>> /\ Answer(t, 500)
  BY DEF DelayFails, database
<1> QED BY <1>1, AnswerCounts, StepAside DEF Steps

LEMMA CrashHarmless == ASSUME Typed, NEW t \in Threads, Crash(t) PROVE Harmless
<1>1. UNCHANGED <<given, rows, audit, broker, answers>> /\ Rest(t)
  BY DEF Crash, database
<1> QED BY <1>1, RestMoves, StepAside DEF Steps

LEMMA OutsideHarmless == ASSUME Typed, Edit \/ Roll \/ UNCHANGED vars PROVE Harmless
<1>1. UNCHANGED <<given, rows, audit, broker, answers, thread>>
  BY DEF Edit, Roll, vars, database
<1>2. Typed'
  BY <1>1 DEF Typed, TypedThread, TypedTables, thread
<1> QED BY <1>1, <1>2 DEF Harmless, thread, Acknowledged

-----------------------------------------------------------------------------
(* The steps that need a row or make one.                                   *)

\* A thread finds the row of its key: it will answer that it is a duplicate.
LEMMA FoundKeeps ==
    ASSUME Inductive, NEW t \in Threads, pc[t] # "idle", Stored(Key(t)),
           Goto(t, "duplicate"), UNCHANGED <<given, rows, audit, broker, answers, job>>
    PROVE  Inductive'
<1>1. Moves(t, "duplicate")
  BY GotoMoves DEF Inductive, Steps
<1>2. \A n, u : KeyOf(n, u)' = KeyOf(n, u)
  BY KeyStays
<1>3. /\ \A k : Stored(k)' <=> Stored(k)
      /\ \A u \in Threads : Key(u)' = Key(u)
  BY <1>2 DEF Stored, Key
<1>4. \A u \in Threads : pc'[u] = "delay" => pc[u] = "delay"
  BY <1>1 DEF Moves
<1>5. Typed'
  BY <1>1 DEF Inductive, Typed, TypedTables, Moves
<1>6. HasRow'
  BY <1>1, <1>3 DEF Inductive, HasRow, At, Moves
<1>7. OneCaller'
  BY <1>3, <1>4 DEF Inductive, OneCaller, At
<1>8. OneRow' /\ EnqueuedOnce'
  BY <1>3 DEF Inductive, OneRow, EnqueuedOnce
<1>9. AcknowledgedIsStored'
  BY <1>2, <1>3 DEF Inductive, AcknowledgedIsStored, Acknowledged
<1> QED BY <1>5, <1>6, <1>7, <1>8, <1>9 DEF Inductive

\* A duplicate is acknowledged and logged: its event has a row, and its other
\* entry in the log is the same.
LEMMA DuplicateKeeps ==
    ASSUME Inductive, NEW t \in Threads, Duplicate(t) PROVE Inductive'
<1>1. /\ At(t, "duplicate") /\ Log(t, "duplicate") /\ Answer(t, 200)
      /\ UNCHANGED <<given, rows, broker>>
  BY DEF Duplicate
<1>2. /\ Moves(t, "idle")
      /\ answers' \in [Notifications -> SUBSET {200, 202, 401, 404, 500}]
      /\ \A n \in Notifications : Acknowledged(n)' => Acknowledged(n) \/ n = job[t]
  BY <1>1, AnswerCounts DEF Inductive
<1>3. /\ audit' \in [Keys \X {"received", "duplicate"} -> 0..2]
      /\ \A k \in Keys : audit'[<<k, "received">>] = audit[<<k, "received">>]
  <2>1. audit \in [Keys \X {"received", "duplicate"} -> 0..2]
    BY DEF Inductive, Typed, TypedTables
  <2>2. \A n \in 0..2 : Count(n) \in 0..2
    BY DEF Count
  <2>3. audit' = [audit EXCEPT ![<<Key(t), "duplicate">>] = Count(@)]
    BY <1>1 DEF Log
  <2> QED BY <2>1, <2>2, <2>3
<1>4. \A n, u : KeyOf(n, u)' = KeyOf(n, u)
  BY <1>1, KeyStays
<1>5. \A k : Stored(k)' <=> Stored(k)
  BY <1>1 DEF Stored
<1>6. \A u \in Threads : pc'[u] \in {"duplicate", "delay"} =>
          u # t /\ pc'[u] = pc[u] /\ Key(u)' = Key(u)
  BY <1>2, <1>4 DEF Moves, Key
<1>7. Typed'
  BY <1>1, <1>2, <1>3 DEF Inductive, Typed, TypedTables, Moves
<1>8. HasRow' /\ OneCaller'
  BY <1>1, <1>5, <1>6 DEF Inductive, HasRow, OneCaller, At
<1>9. OneRow' /\ EnqueuedOnce'
  BY <1>1, <1>3, <1>5 DEF Inductive, OneRow, EnqueuedOnce
<1>10. AcknowledgedIsStored'
  <2>1. Stored(KeyOf(job[t], t))
    BY <1>1 DEF Inductive, HasRow, Key
  <2> QED BY <1>2, <1>4, <1>5, <2>1 DEF Inductive, AcknowledgedIsStored
<1> QED BY <1>7, <1>8, <1>9, <1>10 DEF Inductive

\* delay() is called for the first time: its caller was the only one.
LEMMA DelayKeeps ==
    ASSUME Inductive, NEW t \in Threads, Delay(t) PROVE Inductive'
<1>1. /\ At(t, "delay") /\ broker' = [broker EXCEPT ![Key(t)] = Count(@)] /\ Answer(t, 202)
      /\ UNCHANGED <<given, rows, audit>>
  BY DEF Delay, database
<1>2. /\ Moves(t, "idle")
      /\ answers' \in [Notifications -> SUBSET {200, 202, 401, 404, 500}]
      /\ \A n \in Notifications : Acknowledged(n)' => Acknowledged(n) \/ n = job[t]
  BY <1>1, AnswerCounts DEF Inductive
<1>3. /\ broker' \in [Keys -> 0..2]
      /\ \A k \in Keys : broker'[k] = IF k = Key(t) THEN 1 ELSE broker[k]
  <2>1. broker \in [Keys -> 0..2]
    BY DEF Inductive, Typed, TypedTables
  <2>2. \A n \in 0..2 : Count(n) \in 0..2
    BY DEF Count
  <2>3. Key(t) \in Keys => Count(broker[Key(t)]) = 1
    BY <1>1 DEF Inductive, OneCaller, Count
  <2> QED BY <1>1, <2>1, <2>2, <2>3
<1>4. \A n, u : KeyOf(n, u)' = KeyOf(n, u)
  BY <1>1, KeyStays
<1>5. \A k : Stored(k)' <=> Stored(k)
  BY <1>1 DEF Stored
<1>6. \A u \in Threads : pc'[u] \in {"duplicate", "delay"} =>
          u # t /\ pc'[u] = pc[u] /\ Key(u)' = Key(u)
  BY <1>2, <1>4 DEF Moves, Key
<1>7. Typed'
  BY <1>1, <1>2, <1>3 DEF Inductive, Typed, TypedTables, Moves
<1>8. HasRow'
  BY <1>5, <1>6 DEF Inductive, HasRow, At
<1>9. OneCaller'
  <2>1. \A u \in Threads : pc'[u] = "delay" => Key(u) # Key(t)
    BY <1>1, <1>6 DEF Inductive, OneCaller, At
  <2> QED BY <1>1, <1>3, <1>6, <2>1 DEF Inductive, OneCaller, At
<1>10. OneRow'
  BY <1>1, <1>5 DEF Inductive, OneRow
<1>11. EnqueuedOnce'
  <2>1. \E r \in rows : r.key = Key(t) /\ r.status = "queued"
    BY <1>1 DEF Inductive, OneCaller
  <2> QED BY <1>1, <1>3, <2>1 DEF Inductive, EnqueuedOnce
<1>12. AcknowledgedIsStored'
  <2>1. Stored(KeyOf(job[t], t))
    BY <1>1 DEF Inductive, HasRow, Key
  <2> QED BY <1>2, <1>4, <1>5, <2>1 DEF Inductive, AcknowledgedIsStored
<1> QED BY <1>7, <1>8, <1>9, <1>10, <1>11, <1>12 DEF Inductive

\* The row and its entry in the log appear together, for a key that had neither;
\* if it is to be enqueued, no other thread is about to.
LEMMA NewRowKeeps ==
    ASSUME Inductive, NEW t \in Threads, At(t, "insert"), ~Stored(Key(t)),
           UNCHANGED <<given, broker>>,
           rows' = rows \cup {[key |-> Key(t), of |-> job[t], status |-> initial[t].status]},
           Log(t, "received"),
           \/ /\ initial[t].status = "queued" /\ Goto(t, "delay")
              /\ UNCHANGED <<answers, job>>
           \/ Answer(t, 202)
    PROVE  Inductive'
<1> DEFINE new == [key |-> Key(t), of |-> job[t], status |-> initial[t].status]
<1>1. /\ Moves(t, "idle") \/ (Moves(t, "delay") /\ initial[t].status = "queued" /\ job'[t] = job[t])
      /\ answers' \in [Notifications -> SUBSET {200, 202, 401, 404, 500}]
      /\ \A n \in Notifications : Acknowledged(n)' => Acknowledged(n) \/ n = job[t]
  <2>1. CASE Answer(t, 202)
    BY <2>1, AnswerCounts DEF Inductive
  <2>2. CASE initial[t].status = "queued" /\ Goto(t, "delay") /\ UNCHANGED <<answers, job>>
    <3>1. Moves(t, "delay") /\ job'[t] = job[t]
      BY <2>2, GotoMoves DEF Inductive, Steps, At
    <3> QED BY <2>2, <3>1 DEF Inductive, Typed, TypedTables, Acknowledged
  <2> QED BY <2>1, <2>2
<1>2. /\ audit' \in [Keys \X {"received", "duplicate"} -> 0..2]
      /\ \A k \in Keys : audit'[<<k, "received">>] =
                          IF k = Key(t) THEN 1 ELSE audit[<<k, "received">>]
  <2>1. audit \in [Keys \X {"received", "duplicate"} -> 0..2]
    BY DEF Inductive, Typed, TypedTables
  <2>2. \A n \in 0..2 : Count(n) \in 0..2
    BY DEF Count
  <2>3. Key(t) \in Keys => Count(audit[<<Key(t), "received">>]) = 1
    BY DEF Inductive, OneRow, Count
  <2>4. audit' = [audit EXCEPT ![<<Key(t), "received">>] = Count(@)]
    BY DEF Log
  <2> QED BY <2>1, <2>2, <2>3, <2>4
<1>3. \A n, u : KeyOf(n, u)' = KeyOf(n, u)
  BY KeyStays
<1>4. /\ new \in rows' /\ new.key = Key(t) /\ new.status = initial[t].status
      /\ \A r : r \in rows' <=> r \in rows \/ r = new
  OBVIOUS
<1> HIDE DEF new
<1>5. \A k : Stored(k)' <=> Stored(k) \/ k = Key(t)
  BY <1>4 DEF Stored
<1>6. \A u \in Threads : u # t => pc'[u] = pc[u] /\ Key(u)' = Key(u)
  BY <1>1, <1>3 DEF Moves, Key
<1>7. \A u \in Threads : u # t /\ pc[u] = "delay" => Key(u) # Key(t)
  BY DEF Inductive, HasRow, At
<1>8. pc'[t] = "idle" \/ (pc'[t] = "delay" /\ Key(t)' = Key(t) /\ new.status = "queued")
  BY <1>1, <1>3, <1>4 DEF Moves, Key
<1>9. Typed'
  BY <1>1, <1>2 DEF Inductive, Typed, TypedTables, Moves
<1>10. HasRow'
  BY <1>5, <1>6, <1>8 DEF Inductive, HasRow, At
<1>11. OneCaller'
  <2>1. Key(t) \in Keys => broker[Key(t)] = 0
    BY DEF Inductive, EnqueuedOnce, Typed, TypedTables, Stored
  <2>2. ASSUME NEW u \in Threads, pc'[u] = "delay"
        PROVE  /\ \E r \in rows' : r.key = Key(u)' /\ r.status = "queued"
               /\ Key(u)' \in Keys => broker[Key(u)'] = 0
    BY <1>4, <1>6, <1>8, <2>1, <2>2 DEF Inductive, OneCaller, At
  <2>3. ASSUME NEW u \in Threads, NEW v \in Threads,
               pc'[u] = "delay", pc'[v] = "delay", Key(u)' = Key(v)'
        PROVE  u = v
    BY <1>6, <1>7, <1>8, <2>3 DEF Inductive, OneCaller, At
  <2>4. Keys' = Keys
    BY DEF Keys
  <2> QED BY <2>2, <2>3, <2>4 DEF OneCaller, At
<1>12. OneRow'
  <2>1. \A r \in rows : r.key # new.key
    BY <1>4 DEF Stored
  <2>2. \A r, s \in rows' : r.key = s.key => r = s
    BY <1>4, <2>1 DEF Inductive, OneRow
  <2>3. \A k \in Keys : audit'[<<k, "received">>] = IF Stored(k)' THEN 1 ELSE 0
    BY <1>2, <1>5 DEF Inductive, OneRow
  <2> QED BY <2>2, <2>3 DEF OneRow, Keys
<1>13. EnqueuedOnce'
  BY <1>4 DEF Inductive, EnqueuedOnce, Keys
<1>14. AcknowledgedIsStored'
  <2>1. Key(t) = KeyOf(job[t], t)
    BY DEF Key
  <2> QED BY <1>1, <1>3, <1>5, <2>1 DEF Inductive, AcknowledgedIsStored
<1> QED BY <1>9, <1>10, <1>11, <1>12, <1>13, <1>14 DEF Inductive

-----------------------------------------------------------------------------

\* Find, insert, recover: each ends at a row, at the next search or at a 500.
LEMMA SearchKeeps ==
    ASSUME Inductive, NEW t \in Threads, Find(t) \/ Insert(t) \/ Recover(t)
    PROVE  Inductive'
<1>1. CASE Find(t)
  <2>1. UNCHANGED <<given, rows, audit, broker, answers, job>> /\ pc[t] # "idle"
    BY <1>1 DEF Find, database, At
  <2>2. CASE Stored(Key(t))
    BY <1>1, <2>1, <2>2, FoundKeeps DEF Find
  <2>3. CASE ~Stored(Key(t))
    <3>1. Goto(t, "insert")
      BY <1>1, <2>3 DEF Find
    <3>2. Moves(t, "insert")
      BY <2>1, <3>1, GotoMoves DEF Inductive, Steps
    <3>3. Harmless
      BY <2>1, <3>2, StepAside DEF Inductive, Steps
    <3> QED BY <3>3, HarmlessKeeps
  <2> QED BY <2>2, <2>3
<1>2. CASE Insert(t)
  <2>1. UNCHANGED <<given, broker>> /\ pc[t] # "idle" /\ At(t, "insert")
    BY <1>2 DEF Insert, At
  <2>2. CASE /\ Stored(Key(t)) /\ Goto(t, "duplicate")
             /\ UNCHANGED <<rows, audit, answers, job>>
    BY <2>1, <2>2, FoundKeeps
  <2>3. CASE Goto(t, "recover") /\ UNCHANGED <<rows, audit, answers, job>>
    <3>1. Moves(t, "recover")
      BY <2>1, <2>3, GotoMoves DEF Inductive, Steps
    <3>2. Harmless
      BY <2>1, <2>3, <3>1, StepAside DEF Inductive, Steps
    <3> QED BY <3>2, HarmlessKeeps
  <2>4. CASE /\ ~Stored(Key(t))
             /\ rows' = rows \cup {[key |-> Key(t), of |-> job[t], status |-> initial[t].status]}
             /\ Log(t, "received")
             /\ IF initial[t].status = "queued"
                THEN Goto(t, "delay") /\ UNCHANGED <<answers, job, source, initial>>
                ELSE Answer(t, 202)
    BY <2>1, <2>4, NewRowKeeps
  <2> QED BY <1>2, <2>2, <2>3, <2>4 DEF Insert
<1>3. CASE Recover(t)
  <2>1. UNCHANGED <<given, rows, audit, broker>> /\ pc[t] # "idle"
    BY <1>3 DEF Recover, database, At
  <2>2. CASE Stored(Key(t))
    BY <1>3, <2>1, <2>2, FoundKeeps DEF Recover
  <2>3. CASE Answer(t, 500)
    <3>1. Moves(t, "idle")
      BY <2>3, AnswerCounts DEF Inductive
    <3>2. Harmless
      BY <2>1, <2>3, <3>1, StepAside DEF Inductive, Steps
    <3> QED BY <3>2, HarmlessKeeps
  <2> QED BY <1>3, <2>2, <2>3 DEF Recover
<1> QED BY <1>1, <1>2, <1>3

LEMMA StepInductive == Inductive /\ [Next]_vars => Inductive'
<1> SUFFICES ASSUME Inductive, [Next]_vars PROVE Inductive'
  OBVIOUS
<1>1. Typed
  BY DEF Inductive
<1>2. ASSUME NEW t \in Threads, Step(t) PROVE Inductive'
  <2>1. CASE Verify(t) \/ LoadDestination(t)
    BY <1>1, <2>1, VerifyHarmless, LoadDestinationHarmless, HarmlessKeeps
  <2>2. CASE Find(t) \/ Insert(t) \/ Recover(t)
    BY <2>2, SearchKeeps
  <2>3. CASE Duplicate(t) \/ Delay(t)
    BY <2>3, DuplicateKeeps, DelayKeeps
  <2> QED BY <1>2, <2>1, <2>2, <2>3 DEF Step
<1>3. ASSUME NEW t \in Threads, VerifyLate(t) \/ DelayFails(t) \/ Crash(t) PROVE Inductive'
  BY <1>1, <1>3, VerifyHarmless, DelayFailsHarmless, CrashHarmless, HarmlessKeeps
<1>4. ASSUME NEW t \in Threads, NEW n \in Notifications, Receive(t, n) PROVE Inductive'
  BY <1>1, <1>4, ReceiveHarmless, HarmlessKeeps
<1>5. CASE Edit \/ Roll \/ UNCHANGED vars
  BY <1>1, <1>5, OutsideHarmless, HarmlessKeeps
<1> QED BY <1>2, <1>3, <1>4, <1>5 DEF Next

\* The invariant holds of every execution.
LEMMA AlwaysInductive == Spec => []Inductive
BY InitInductive, StepInductive, PTL DEF Spec

\* What was answered with 2xx is stored, whatever requests, edits and crashes
\* were in between (ingestion.py:104-130, views.py:36-49).
THEOREM AcknowledgedStored == Spec => []AcknowledgedIsStored
<1>1. Inductive => AcknowledgedIsStored
  BY DEF Inductive
<1> QED BY <1>1, AlwaysInductive, PTL

\* The requests of all threads together enqueue an event once at most, and only
\* one stored as queued (views.py:38-39).
THEOREM Enqueued == Spec => []EnqueuedOnce
<1>1. Inductive => EnqueuedOnce
  BY DEF Inductive
<1> QED BY <1>1, AlwaysInductive, PTL

\* An event has one row, and the log one entry for it, exactly if it is stored
\* (ingestion.py:104-119).
THEOREM Received == Spec => []ReceivedOnce
<1>1. ASSUME Inductive PROVE ReceivedOnce
  <2>1. ASSUME NEW k \in Keys
        PROVE  /\ audit[<<k, "received">>] = Cardinality({r \in rows : r.key = k})
               /\ audit[<<k, "received">>] <= 1
    <3>1. CASE Stored(k)
      <4>1. PICK r \in rows : r.key = k
        BY <3>1 DEF Stored
      <4>2. {s \in rows : s.key = k} = {r}
        BY <1>1, <4>1 DEF Inductive, OneRow
      <4>3. Cardinality({s \in rows : s.key = k}) = 1
        BY <4>2, FS_Singleton
      <4> QED BY <1>1, <3>1, <4>3 DEF Inductive, OneRow
    <3>2. CASE ~Stored(k)
      <4>1. {s \in rows : s.key = k} = {}
        BY <3>2 DEF Stored
      <4>2. Cardinality({s \in rows : s.key = k}) = 0
        BY <4>1, FS_EmptySet
      <4> QED BY <1>1, <3>2, <4>2 DEF Inductive, OneRow
    <3> QED BY <3>1, <3>2
  <2> QED BY <2>1 DEF ReceivedOnce
<1>2. Inductive => ReceivedOnce
  BY <1>1
<1> QED BY <1>2, AlwaysInductive, PTL

-----------------------------------------------------------------------------
(* Types, and which notification a row is of.                               *)

\* What never changes: a notification has ids only where its provider puts them.
TypedGiven ==
    /\ provider \in Providers /\ form \in [Notifications -> Forms]
    /\ \A n \in Notifications : form[n].places \subseteq DOMAIN Places(provider)

TypedSource ==
    /\ signer \in Seq(Secrets) /\ signer # <<>>
    /\ active \in BOOLEAN /\ secret \in Secrets
    /\ destination \in {"active", "inactive", "none"} /\ disturbed \in Nat

\* What the threads have read.
TypedReads ==
    /\ source \in [Threads -> [secret : Secrets, destination : BOOLEAN]]
    /\ initial \in [Threads -> [status : {"received", "queued"}, destination : BOOLEAN]]

\* A row has the key that some thread made of its notification.
RowsAreNamed ==
    \A r \in rows :
        /\ r \in [key : Keys, of : Notifications, status : {"received", "queued"}]
        /\ \E t \in Threads : r.key = KeyOf(r.of, t)

Origins == TypedGiven /\ TypedSource /\ TypedReads /\ RowsAreNamed

\* There are at most three places to look at, and one is the request's.
LEMMA PlacesOfProviders ==
    ASSUME TypedGiven
    PROVE  /\ DOMAIN Places(provider) \subseteq 1..3
           /\ \A i, j \in DOMAIN Places(provider) : i < j => Places(provider)[i] # "x-request-id"
           /\ \A j \in DOMAIN Places(provider) : j \in Nat /\ (1..j) \subseteq DOMAIN Places(provider)
<1>1. provider \in {"generic", "stripe", "github", "shopify", "slack"}
  BY DEF TypedGiven, Providers
<1>2. /\ DOMAIN Places(provider) \in {1..1, 1..2, 1..3}
      /\ \A i, j \in DOMAIN Places(provider) : i < j => Places(provider)[i] # "x-request-id"
  BY <1>1 DEF Places
<1> QED BY <1>2

\* The place whose id becomes the key: the first that has one.
First(n) ==
    CHOOSE i \in DOMAIN Places(provider) :
        /\ Places(provider)[i] \in Named(n)
        /\ \A j \in 1..i - 1 : Places(provider)[j] \notin Named(n)

LEMMA FirstIsThere ==
    ASSUME TypedGiven, NEW n \in Notifications, Named(n) # {}
    PROVE  /\ First(n) \in DOMAIN Places(provider)
           /\ Places(provider)[First(n)] \in Named(n)
           /\ \A j \in 1..First(n) - 1 : Places(provider)[j] \notin Named(n)
<1>1. PICK k \in DOMAIN Places(provider) : Places(provider)[k] \in Named(n)
  BY DEF Named
<1>2. k \in 1..3 /\ (1..k) \subseteq DOMAIN Places(provider)
  BY PlacesOfProviders
<1> DEFINE Here(i) == i \in DOMAIN Places(provider) /\ Places(provider)[i] \in Named(n)
<1>3. \E i \in DOMAIN Places(provider) : Here(i) /\ \A j \in 1..i - 1 : ~Here(j)
  <2>1. CASE Here(1)
    BY <2>1
  <2>2. CASE ~Here(1) /\ Here(2)
    BY <2>2
  <2>3. CASE ~Here(1) /\ ~Here(2)
    <3>1. k = 3 /\ Here(3)
      BY <1>1, <1>2, <2>3
    <3>2. \A j \in 1..2 : j = 1 \/ j = 2
      OBVIOUS
    <3> QED BY <2>3, <3>1, <3>2
  <2> QED BY <2>1, <2>2, <2>3
<1>4. \A i \in DOMAIN Places(provider) : (1..i - 1) \subseteq DOMAIN Places(provider)
  BY PlacesOfProviders
<1>5. \E i \in DOMAIN Places(provider) :
        /\ Places(provider)[i] \in Named(n)
        /\ \A j \in 1..i - 1 : Places(provider)[j] \notin Named(n)
  BY <1>3, <1>4
<1> QED BY <1>5 DEF First

\* A key is one of Keys, and the same for every thread, unless the notification
\* has no id but that of the request.
LEMMA KeysOfNotification ==
    ASSUME TypedGiven, NEW n \in Notifications, NEW t \in Threads
    PROVE  /\ KeyOf(n, t) \in Keys
           /\ \A u \in Threads : Named(n) # {"x-request-id"} => KeyOf(n, u) = KeyOf(n, t)
<1>1. CASE Named(n) = {}
  <2>1. form[n].body \in Bodies
    BY DEF TypedGiven, Forms
  <2>2. \A u \in Threads : KeyOf(n, u) = <<"body", form[n].body>>
    BY <1>1 DEF KeyOf
  <2> QED BY <2>1, <2>2 DEF Keys
<1>2. CASE Named(n) # {}
  <2> DEFINE place == Places(provider)[First(n)]
  <2>1. \A u \in Threads : KeyOf(n, u) = IdAt(n, u, place)
    BY <1>2 DEF KeyOf, First
  <2>2. /\ First(n) \in DOMAIN Places(provider) /\ place \in Named(n)
        /\ \A j \in 1..First(n) - 1 : Places(provider)[j] \notin Named(n)
    BY <1>2, FirstIsThere
  <2>3. place = "x-request-id" => Named(n) = {place}
    <3> SUFFICES ASSUME place = "x-request-id", NEW p \in Named(n) PROVE p = place
      BY <2>2
    <3>1. PICK i \in DOMAIN Places(provider) : p = Places(provider)[i]
      BY DEF Named
    <3>2. i \in Nat /\ First(n) \in Nat /\ i >= 1
      BY <2>2, PlacesOfProviders
    <3>3. ~(i < First(n))
      BY <2>2, <3>1, <3>2
    <3>4. ~(First(n) < i)
      BY <2>2, PlacesOfProviders
    <3> QED BY <3>1, <3>2, <3>3, <3>4
  <2>4. IdAt(n, t, place) \in Keys
    BY DEF IdAt, Keys
  <2>5. place # "x-request-id" => \A u \in Threads : IdAt(n, u, place) = IdAt(n, t, place)
    BY DEF IdAt
  <2> HIDE DEF place
  <2> QED BY <2>1, <2>3, <2>4, <2>5
<1> QED BY <1>1, <1>2

LEMMA InitOrigins == Init => Origins
<1> SUFFICES ASSUME Init PROVE Origins
  OBVIOUS
<1>1. TypedGiven
  BY DEF Init, TypedGiven
<1>2. TypedSource
  <2>1. <<"old">> \in Seq(Secrets) /\ <<"old">> # <<>>
    BY DEF Secrets
  <2> QED BY <2>1 DEF Init, TypedSource, Secrets
<1>3. TypedReads
  <2>1. NoSource \in [secret : Secrets, destination : BOOLEAN]
    BY DEF NoSource, Secrets
  <2>2. NoRow \in [status : {"received", "queued"}, destination : BOOLEAN]
    BY DEF NoRow
  <2> QED BY <2>1, <2>2 DEF Init, TypedReads
<1>4. RowsAreNamed
  BY DEF Init, RowsAreNamed
<1> QED BY <1>1, <1>2, <1>3, <1>4 DEF Origins

\* Steps that store nothing keep each row's origin.
LEMMA RowsStay ==
    ASSUME Origins, UNCHANGED <<given, rows>>
    PROVE  TypedGiven' /\ RowsAreNamed'
<1>1. TypedGiven' /\ Keys' = Keys
  BY DEF Origins, TypedGiven, Places, given, Keys
<1>2. \A n, t : KeyOf(n, t)' = KeyOf(n, t)
  BY KeyStays
<1> QED BY <1>1, <1>2 DEF Origins, RowsAreNamed

\* A thread that forgets its request forgets what it has read.
LEMMA RestReads ==
    ASSUME TypedReads, NEW t \in Threads, Rest(t) PROVE TypedReads'
<1>1. NoSource \in [secret : Secrets, destination : BOOLEAN]
  BY DEF NoSource, Secrets
<1>2. NoRow \in [status : {"received", "queued"}, destination : BOOLEAN]
  BY DEF NoRow
<1> QED BY <1>1, <1>2 DEF TypedReads, Rest

\* What a thread does with a request leaves types as they are.
LEMMA ThreadReads ==
    ASSUME Origins, NEW t \in Threads,
           \/ \E n \in Notifications : Receive(t, n)
           \/ Step(t) \/ VerifyLate(t) \/ DelayFails(t) \/ Crash(t)
    PROVE  TypedReads' /\ TypedSource' /\ UNCHANGED given
<1> DEFINE Source == [secret : Secrets, destination : BOOLEAN]
           Row == [status : {"received", "queued"}, destination : BOOLEAN]
<1>1. source \in [Threads -> Source] /\ initial \in [Threads -> Row]
  BY DEF Origins, TypedReads
<1>2. TypedReads' <=> source' \in [Threads -> Source] /\ initial' \in [Threads -> Row]
  BY DEF TypedReads, Secrets
<1>3. UNCHANGED <<given, signer, active, secret, destination>>
      /\ (disturbed' = disturbed \/ disturbed' = disturbed + 1)
  <2>1. CASE Step(t)
    BY <2>1 DEF Step, Verify, LoadDestination, Find, Insert, Recover, Duplicate, Delay, database
  <2>2. CASE \/ \E n \in Notifications : Receive(t, n)
             \/ VerifyLate(t) \/ DelayFails(t) \/ Crash(t)
    BY <2>2 DEF Receive, VerifyLate, DelayFails, Crash, Disturb, database
  <2> QED BY <2>1, <2>2
<1>4. TypedSource'
  <2>1. disturbed' \in Nat
    BY <1>3 DEF Origins, TypedSource
  <2> QED BY <1>3, <2>1 DEF Origins, TypedSource, Secrets
<1>5. CASE Rest(t) \/ UNCHANGED <<source, initial>>
  <2> HIDE DEF Source, Row
  <2>1. CASE UNCHANGED <<source, initial>>
    BY <1>1, <1>2, <1>3, <1>4, <2>1
  <2> QED BY <1>3, <1>4, <1>5, <2>1, RestReads DEF Origins
<1>6. CASE \E n \in Notifications : Receive(t, n)
  <2>1. [secret |-> secret, destination |-> destination # "none"] \in Source
    BY DEF Origins, TypedSource
  <2> HIDE DEF Source, Row
  <2>2. \/ UNCHANGED <<source, initial>>
        \/ /\ initial' = initial
           /\ source' = [source EXCEPT ![t] =
                  [secret |-> secret, destination |-> destination # "none"]]
    BY <1>6 DEF Receive, thread
  <2>3. TypedReads'
    BY <1>1, <1>2, <2>1, <2>2
  <2> QED BY <1>3, <1>4, <2>3
<1>7. CASE LoadDestination(t)
  <2> DEFINE read == [status |-> IF source[t].destination /\ destination = "active"
                                 THEN "queued" ELSE "received",
                      destination |-> source[t].destination]
  <2>1. source[t] \in Source
    BY <1>1
  <2>2. source[t].destination \in BOOLEAN
    BY <2>1
  <2>3. read \in Row
    BY <2>2
  <2>4. Rest(t) \/ (source' = source /\ initial' = [initial EXCEPT ![t] = read])
    BY <1>7 DEF LoadDestination, Answer
  <2> HIDE DEF Source, Row, read
  <2>5. CASE source' = source /\ initial' = [initial EXCEPT ![t] = read]
    <3>1. TypedReads'
      BY <1>1, <1>2, <2>3, <2>5
    <3> QED BY <1>3, <1>4, <3>1
  <2> QED BY <1>5, <2>4, <2>5
<1>8. CASE Verify(t) \/ Find(t) \/ Insert(t) \/ Recover(t) \/ Duplicate(t) \/ Delay(t)
  BY <1>5, <1>8 DEF Verify, Find, Insert, Recover, Duplicate, Delay, Answer
<1>9. CASE VerifyLate(t) \/ DelayFails(t) \/ Crash(t)
  BY <1>5, <1>9 DEF VerifyLate, DelayFails, Crash, Answer
<1> QED BY <1>6, <1>7, <1>8, <1>9 DEF Step

\* The row a thread inserts has the key it made of its notification.
LEMMA NewRowNamed ==
    ASSUME Inductive, Origins, NEW t \in Threads, Insert(t) PROVE RowsAreNamed'
<1> DEFINE new == [key |-> Key(t), of |-> job[t], status |-> initial[t].status]
<1>1. rows' = rows \/ rows' = rows \cup {new}
  BY DEF Insert
<1>2. UNCHANGED given /\ job[t] \in Notifications
  BY DEF Insert, At, Inductive, Typed, TypedThread
<1>3. \A n, u : KeyOf(n, u)' = KeyOf(n, u)
  BY <1>2, KeyStays
<1>4. Key(t) \in Keys /\ Key(t) = KeyOf(job[t], t)
  BY <1>2, KeysOfNotification DEF Key, Origins
<1>5. initial[t].status \in {"received", "queued"}
  BY DEF Origins, TypedReads
<1>6. new \in [key : Keys, of : Notifications, status : {"received", "queued"}]
      /\ new.of = job[t] /\ new.key = Key(t)
  BY <1>2, <1>4, <1>5
<1> HIDE DEF new
<1>7. \A r \in rows' : r \in rows \/ r = new
  BY <1>1
<1>8. Keys' = Keys
  BY DEF Keys
<1> QED BY <1>3, <1>4, <1>6, <1>7, <1>8 DEF Origins, RowsAreNamed

LEMMA StepOrigins == Inductive /\ Origins /\ [Next]_vars => Origins'
<1> SUFFICES ASSUME Inductive, Origins, [Next]_vars PROVE Origins'
  OBVIOUS
<1>1. CASE \E t \in Threads : \/ \E n \in Notifications : Receive(t, n)
                              \/ Step(t) \/ VerifyLate(t) \/ DelayFails(t) \/ Crash(t)
  <2>1. PICK t \in Threads : \/ \E n \in Notifications : Receive(t, n)
                             \/ Step(t) \/ VerifyLate(t) \/ DelayFails(t) \/ Crash(t)
    BY <1>1
  <2>2. TypedReads' /\ TypedSource' /\ UNCHANGED given
    BY <2>1, ThreadReads
  <2>3. rows' = rows \/ Insert(t)
    BY <2>1 DEF Step, Receive, Verify, LoadDestination, Find, Recover, Duplicate, Delay,
                VerifyLate, DelayFails, Crash, database
  <2>4. TypedGiven'
    BY <2>2 DEF Origins, TypedGiven, Places, given
  <2>5. RowsAreNamed'
    BY <2>2, <2>3, NewRowNamed, RowsStay
  <2> QED BY <2>2, <2>4, <2>5 DEF Origins
<1>2. CASE Edit \/ Roll \/ UNCHANGED vars
  <2>1. UNCHANGED <<given, rows, source, initial>>
    BY <1>2 DEF Edit, Roll, vars, database, thread
  <2>2. TypedGiven' /\ RowsAreNamed' /\ TypedReads'
    BY <2>1, RowsStay DEF Origins, TypedReads, Secrets
  <2>3. signer' \in Seq(Secrets) /\ signer' # <<>>
    <3>1. <<"old", "new">> \in Seq(Secrets) /\ <<"new">> \in Seq(Secrets)
      BY DEF Secrets
    <3>2. <<"old", "new">> # <<>> /\ <<"new">> # <<>>
      OBVIOUS
    <3>3. signer' = signer \/ signer' = <<"old", "new">> \/ signer' = <<"new">>
      BY <1>2 DEF Edit, Roll, vars
    <3> QED BY <3>1, <3>2, <3>3 DEF Origins, TypedSource
  <2>4. /\ active' \in BOOLEAN /\ secret' \in Secrets /\ disturbed' \in Nat
        /\ destination' \in {"active", "inactive", "none"}
    <3>1. active' = active \/ active' = ~active
      BY <1>2 DEF Edit, Roll, vars, database
    <3>2. active' \in BOOLEAN
      BY <3>1 DEF Origins, TypedSource
    <3>3. secret' = secret \/ secret' \in Secrets
      BY <1>2 DEF Edit, Roll, vars, database
    <3>4. destination' = destination \/ destination' \in {"active", "inactive", "none"}
      BY <1>2 DEF Edit, Roll, vars, database
    <3>5. disturbed' = disturbed \/ disturbed' = disturbed + 1
      BY <1>2 DEF Edit, Roll, vars, Disturb
    <3> QED BY <3>2, <3>3, <3>4, <3>5 DEF Origins, TypedSource
  <2> QED BY <2>2, <2>3, <2>4 DEF Origins, TypedSource, Secrets
<1> QED BY <1>1, <1>2 DEF Next

LEMMA AlwaysOrigins == Spec => []Origins
BY InitOrigins, StepOrigins, AlwaysInductive, PTL DEF Spec

\* Types: in particular every row has a key of Keys and the notification it was
\* made from (ingestion.py:104-119).
THEOREM Typing == Spec => []TypeOK
<1>1. ASSUME Inductive, Origins PROVE TypeOK
  <2>1. \A r \in rows : r \in [key : Keys, of : Notifications, status : {"received", "queued"}]
    BY <1>1 DEF Origins, RowsAreNamed
  <2> QED BY <1>1, <2>1 DEF Inductive, Typed, TypedThread, TypedTables,
                            Origins, TypedGiven, TypedSource, TypedReads, TypeOK
<1>2. Inductive /\ Origins => TypeOK
  BY <1>1
<1> QED BY <1>2, AlwaysInductive, AlwaysOrigins, PTL

\* Whichever threads handled its redeliveries, and in whatever order, they made
\* one row of a notification, unless nothing but the id of the request names it
\* (ingestion.py:61-68, 104-130).
THEOREM OneOfEach == Spec => []RedeliveriesAreOne
<1>1. ASSUME Inductive, Origins PROVE RedeliveriesAreOne
  <2> SUFFICES ASSUME NEW r \in rows, NEW s \in rows, r.of = s.of, r # s
               PROVE  Named(r.of) = {"x-request-id"}
    BY DEF RedeliveriesAreOne
  <2>1. PICK t \in Threads : r.key = KeyOf(r.of, t)
    BY <1>1 DEF Origins, RowsAreNamed
  <2>2. PICK u \in Threads : s.key = KeyOf(r.of, u)
    BY <1>1 DEF Origins, RowsAreNamed
  <2>3. r.key # s.key
    BY <1>1 DEF Inductive, OneRow
  <2>4. r.of \in Notifications
    BY <1>1 DEF Origins, RowsAreNamed
  <2> QED BY <1>1, <2>1, <2>2, <2>3, <2>4, KeysOfNotification DEF Origins
<1>2. Inductive /\ Origins => RedeliveriesAreOne
  BY <1>1
<1> QED BY <1>2, AlwaysInductive, AlwaysOrigins, PTL
=============================================================================
