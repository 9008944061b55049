------------------------------ MODULE Delivery ------------------------------
(***************************************************************************)
(* The life of a webhook event from its row in the database to a verdict: *)
(* the web process that stores and enqueues it, the broker that holds      *)
(* "deliver_webhook_event" messages, the Celery workers that run           *)
(* deliver_event, the beat task that sweeps due events, and the operator   *)
(* who replays events and edits destinations.                              *)
(*                                                                         *)
(* Database rows are read and written by several processes at once, so     *)
(* every action is one transaction or one autocommitted statement of the   *)
(* code; what a worker remembers between two of them is in its own         *)
(* variables.  The clock is reduced to "is next_attempt_at in the past".   *)
(***************************************************************************)
EXTENDS Integers, Sequences

CONSTANTS
    Events,          \* rows of WebhookEvent that may be created
    Workers,         \* Celery worker processes (start.sh runs two)
    NoEvent,         \* what an idle worker works on
    MaxAttempts,     \* WebhookEvent.max_attempts
    Disturbances,    \* the kinds of outside interference allowed
    MaxDisturbances, \* bound: how many of them happen
    MaxAttemptRows,  \* bound: rows of DeliveryAttempt
    MaxReplays,      \* bound: rows of ReplayRequest
    MaxMessages      \* bound: messages per event at which the sweep pauses

DisturbanceKinds == {"worker_crash", "time_limit", "web_crash", "destination"}

ASSUME MaxAttemptsAssumption == MaxAttempts \in Nat \ {0}
ASSUME NoEventAssumption == NoEvent \notin Events
ASSUME DisturbancesAssumption == Disturbances \subseteq DisturbanceKinds
ASSUME BoundsAssumption ==
    /\ MaxDisturbances \in Nat
    /\ MaxAttemptRows \in Nat
    /\ MaxReplays \in Nat
    /\ MaxMessages \in Nat

VARIABLES
    status,        \* WebhookEvent.status, "absent" before the row exists
    attempt_count, \* WebhookEvent.attempt_count
    due,           \* next_attempt_at <= now
    destination,   \* the event's destination: active, inactive or none
    attempts,      \* rows of DeliveryAttempt in the order of their ids
    replays,       \* rows of ReplayRequest in the order of their ids
    audit,         \* <<event, action>> pairs present in AuditLog
    accepted,      \* ids of attempts whose POST the receiver answered with 2xx
    web,           \* requests that committed and have not called delay() yet
    broker,        \* messages for an event that no worker holds
    pc,            \* the next step of a worker
    job,           \* the event a worker delivers
    row,           \* id of the DeliveryAttempt the worker created
    seen,          \* attempt_count in the snapshot deliver_event loaded
    ok,            \* the result of perform_delivery
    disturbed      \* the disturbances so far, in their order

database == <<status, attempt_count, due, attempts, replays>>
worker == <<pc, job, row, seen, ok>>
vars == <<database, worker, destination, audit, accepted, web, broker, disturbed>>

EventStatus == {"absent", "received", "queued", "delivering", "delivered",
                "failed", "dead_lettered"}
DestinationState == {"active", "inactive", "none"}
Attempt == [event : Events, number : Nat,
            status : {"pending", "succeeded", "failed"}]
ReplayRequest == [event : Events, status : {"queued", "completed", "failed"}]
AuditAction == {"received", "skipped", "delivered", "delivery_failed",
                "dead_lettered", "replay_queued"}
Steps == {"idle", "begin", "load", "post", "save_attempt", "save_event",
          "replays", "audit", "retry", "ack"}

TypeOK ==
    /\ status \in [Events -> EventStatus]
    /\ attempt_count \in [Events -> Nat]
    /\ due \in [Events -> BOOLEAN]
    /\ destination \in [Events -> DestinationState]
    /\ attempts \in Seq(Attempt)
    /\ replays \in Seq(ReplayRequest)
    /\ audit \subseteq Events \X AuditAction
    /\ accepted \subseteq Nat
    /\ web \in [Events -> Nat]
    /\ broker \in [Events -> Nat]
    /\ pc \in [Workers -> Steps]
    /\ job \in [Workers -> Events \cup {NoEvent}]
    /\ row \in [Workers -> Nat]
    /\ seen \in [Workers -> Nat]
    /\ ok \in [Workers -> BOOLEAN]
    /\ disturbed \in Seq(DisturbanceKinds)
    /\ \A w \in Workers : pc[w] # "idle" => job[w] \in Events

Init ==
    /\ status = [e \in Events |-> "absent"]
    /\ attempt_count = [e \in Events |-> 0]
    /\ due = [e \in Events |-> TRUE]
    /\ destination \in [Events -> DestinationState]
    /\ attempts = <<>>
    /\ replays = <<>>
    /\ audit = {}
    /\ accepted = {}
    /\ web = [e \in Events |-> 0]
    /\ broker = [e \in Events |-> 0]
    /\ pc = [w \in Workers |-> "idle"]
    /\ job = [w \in Workers |-> NoEvent]
    /\ row = [w \in Workers |-> 0]
    /\ seen = [w \in Workers |-> 0]
    /\ ok = [w \in Workers |-> FALSE]
    /\ disturbed = <<>>

-----------------------------------------------------------------------------
(* What the tables say about an event.                                      *)

AttemptsOf(e) == {i \in DOMAIN attempts : attempts[i].event = e}

\* The attempt numbers that were begun for e.
Tried(e) == {attempts[i].number : i \in AttemptsOf(e)}

\* Every attempt number the budget allows was begun.
Exhausted(e) == 1..MaxAttempts \subseteq Tried(e)

\* The receiver accepted one of the POSTs of e.
Reached(e) == \E i \in AttemptsOf(e) : i \in accepted

-----------------------------------------------------------------------------
(* The web process.                                                         *)

\* WebhookIngestView.post of a request that is no duplicate: the row, its
\* audit entry, and in the view a call of delay() that is still to come.
Ingest(e) ==
    /\ status[e] = "absent"
    /\ LET queued == destination[e] = "active"
       IN /\ status' = [status EXCEPT ![e] = IF queued THEN "queued" ELSE "received"]
          /\ web' = [web EXCEPT ![e] = @ + (IF queued THEN 1 ELSE 0)]
    /\ audit' = audit \cup {<<e, "received">>}
    /\ UNCHANGED <<attempt_count, due, attempts, replays, destination,
                   accepted, broker, worker, disturbed>>

\* replay_event: one transaction; the caller calls delay() afterwards.
Replay(e) ==
    /\ status[e] # "absent"
    /\ Len(replays) < MaxReplays
    /\ replays' = Append(replays, [event |-> e, status |-> "queued"])
    /\ status' = [status EXCEPT ![e] = "queued"]
    /\ attempt_count' = [attempt_count EXCEPT ![e] = 0]
    /\ due' = [due EXCEPT ![e] = TRUE]
    /\ audit' = audit \cup {<<e, "replay_queued">>}
    /\ web' = [web EXCEPT ![e] = @ + 1]
    /\ UNCHANGED <<attempts, destination, accepted, broker, worker, disturbed>>

\* deliver_webhook_event.delay(), after the transaction committed.
Delay(e) ==
    /\ web[e] > 0
    /\ web' = [web EXCEPT ![e] = @ - 1]
    /\ broker' = [broker EXCEPT ![e] = @ + 1]
    /\ UNCHANGED <<database, destination, audit, accepted, worker, disturbed>>

-----------------------------------------------------------------------------
(* Beat and the clock.                                                      *)

Elapse(e) ==
    /\ ~due[e]
    /\ due' = [due EXCEPT ![e] = TRUE]
    /\ UNCHANGED <<status, attempt_count, attempts, replays, destination,
                   audit, accepted, web, broker, worker, disturbed>>

\* Bug: the sweep forgets events that were queued and never delivered.
SweptStatusFailedOnly == {"failed"}

SweptStatus == {"queued", "failed"}

\* enqueue_due_webhook_events, one event of the batch.
Sweep(e) ==
    /\ status[e] \in SweptStatus
    /\ due[e]
    /\ broker[e] < MaxMessages
    /\ broker' = [broker EXCEPT ![e] = @ + 1]
    /\ UNCHANGED <<database, destination, audit, accepted, web, worker, disturbed>>

-----------------------------------------------------------------------------
(* A worker running deliver_webhook_event.                                  *)

At(w, step) == pc[w] = step
Goto(w, step) == pc' = [pc EXCEPT ![w] = step]

\* The task is over and its local variables are gone.
Rest(w) ==
    /\ Goto(w, "idle")
    /\ job' = [job EXCEPT ![w] = NoEvent]
    /\ row' = [row EXCEPT ![w] = 0]
    /\ seen' = [seen EXCEPT ![w] = 0]
    /\ ok' = [ok EXCEPT ![w] = FALSE]

\* The worker reserves a message; with acks_late it is acknowledged at the end.
Take(w, e) ==
    /\ At(w, "idle")
    /\ broker[e] > 0
    /\ broker' = [broker EXCEPT ![e] = @ - 1]
    /\ Goto(w, "begin")
    /\ job' = [job EXCEPT ![w] = e]
    /\ UNCHANGED <<database, destination, audit, accepted, web, row, seen, ok, disturbed>>

\* Bug: begin_delivery_attempt has no early return.
NeverDelivered(e) == FALSE

AlreadyDelivered(e) == status[e] = "delivered"

\* begin_delivery_attempt of an event that is already delivered.
BeginDelivered(w) ==
    /\ At(w, "begin")
    /\ AlreadyDelivered(job[w])
    /\ Goto(w, "ack")
    /\ UNCHANGED <<database, destination, audit, accepted, web, broker,
                   job, row, seen, ok, disturbed>>

\* begin_delivery_attempt when there is no active destination:
\* mark_event_without_destination leaves next_attempt_at and replays alone.
BeginSkipped(w) ==
    LET e == job[w]
    IN /\ At(w, "begin")
       /\ ~AlreadyDelivered(e)
       /\ destination[e] # "active"
       /\ status' = [status EXCEPT ![e] = "failed"]
       /\ audit' = audit \cup {<<e, "skipped">>}
       /\ Goto(w, "ack")
       /\ UNCHANGED <<attempt_count, due, attempts, replays, destination,
                      accepted, web, broker, job, row, seen, ok, disturbed>>

\* begin_delivery_attempt creates a numbered, pending DeliveryAttempt.
BeginAttempt(w) ==
    LET e == job[w]
        n == attempt_count[e] + 1
    IN /\ At(w, "begin")
       /\ ~AlreadyDelivered(e)
       /\ destination[e] = "active"
       /\ Len(attempts) < MaxAttemptRows
       /\ attempt_count' = [attempt_count EXCEPT ![e] = n]
       /\ status' = [status EXCEPT ![e] = "delivering"]
       /\ attempts' = Append(attempts, [event |-> e, number |-> n,
                                        status |-> "pending"])
       /\ row' = [row EXCEPT ![w] = Len(attempts) + 1]
       /\ Goto(w, "load")
       /\ UNCHANGED <<due, replays, destination, audit, accepted, web, broker,
                      job, seen, ok, disturbed>>

\* deliver_event reads the attempt, the event and the destination again; the
\* attempt count it will judge by is the one of this moment.  A destination
\* deleted meanwhile fails the attempt without a request.
Load(w) ==
    /\ At(w, "load")
    /\ seen' = [seen EXCEPT ![w] = attempt_count[job[w]]]
    /\ Goto(w, IF destination[job[w]] = "none" THEN "save_attempt" ELSE "post")
    /\ UNCHANGED <<database, destination, audit, accepted, web, broker,
                   job, row, ok, disturbed>>

\* Bug: any answer counts as success, whatever its status code.
PostAnyAnswer(w) ==
    /\ At(w, "post")
    /\ accepted' \in {accepted, accepted \cup {row[w]}}
    /\ \E answer \in BOOLEAN : ok' = [ok EXCEPT ![w] = answer]
    /\ Goto(w, "save_attempt")
    /\ UNCHANGED <<database, destination, audit, web, broker, job, row, seen, disturbed>>

\* perform_delivery: the receiver accepts and the worker learns it, the
\* receiver accepts and the answer is lost, or the request fails.
Post(w) ==
    /\ At(w, "post")
    /\ \/ /\ accepted' = accepted \cup {row[w]}
          /\ \E answer \in BOOLEAN : ok' = [ok EXCEPT ![w] = answer]
       \/ /\ accepted' = accepted
          /\ ok' = [ok EXCEPT ![w] = FALSE]
    /\ Goto(w, "save_attempt")
    /\ UNCHANGED <<database, destination, audit, web, broker, job, row, seen, disturbed>>

\* Bug: the result is saved in the event's latest attempt.
SaveLatestAttempt(w) ==
    /\ At(w, "save_attempt")
    /\ attempts' = [attempts EXCEPT ![Len(attempts)].status =
                        IF ok[w] THEN "succeeded" ELSE "failed"]
    /\ Goto(w, "save_event")
    /\ UNCHANGED <<status, attempt_count, due, replays, destination, audit,
                   accepted, web, broker, job, row, seen, ok, disturbed>>

\* finalize_delivery_attempt, first statement: attempt.save().
SaveAttempt(w) ==
    /\ At(w, "save_attempt")
    /\ attempts' = [attempts EXCEPT ![row[w]].status =
                        IF ok[w] THEN "succeeded" ELSE "failed"]
    /\ Goto(w, "save_event")
    /\ UNCHANGED <<status, attempt_count, due, replays, destination, audit,
                   accepted, web, broker, job, row, seen, ok, disturbed>>

\* Bug: off by one.
BudgetSpentEarly(w) == seen[w] + 1 >= MaxAttempts

\* finalize_delivery_attempt: event.save() of the branch taken, judged by the
\* snapshot; attempt_count is not among the fields written back.
BudgetSpent(w) == seen[w] >= MaxAttempts

\* Bug: update_fields does not name "status".
SaveDeliveredUnnamed(w) ==
    /\ At(w, "save_event")
    /\ ok[w]
    /\ Goto(w, "replays")
    /\ UNCHANGED <<database, destination, audit, accepted, web, broker,
                   job, row, seen, ok, disturbed>>

SaveDelivered(w) ==
    /\ At(w, "save_event")
    /\ ok[w]
    /\ status' = [status EXCEPT ![job[w]] = "delivered"]
    /\ Goto(w, "replays")
    /\ UNCHANGED <<attempt_count, due, attempts, replays, destination, audit,
                   accepted, web, broker, job, row, seen, ok, disturbed>>

\* Bug: a dead letter does not settle the replays.
SaveDeadLetteredOnly(w) ==
    /\ At(w, "save_event")
    /\ ~ok[w]
    /\ BudgetSpent(w)
    /\ status' = [status EXCEPT ![job[w]] = "dead_lettered"]
    /\ due' = [due EXCEPT ![job[w]] = TRUE]
    /\ Goto(w, "audit")
    /\ UNCHANGED <<attempt_count, attempts, replays, destination, audit,
                   accepted, web, broker, job, row, seen, ok, disturbed>>

SaveDeadLettered(w) ==
    /\ At(w, "save_event")
    /\ ~ok[w]
    /\ BudgetSpent(w)
    /\ status' = [status EXCEPT ![job[w]] = "dead_lettered"]
    /\ due' = [due EXCEPT ![job[w]] = TRUE]
    /\ Goto(w, "replays")
    /\ UNCHANGED <<attempt_count, attempts, replays, destination, audit,
                   accepted, web, broker, job, row, seen, ok, disturbed>>

SaveFailed(w) ==
    /\ At(w, "save_event")
    /\ ~ok[w]
    /\ ~BudgetSpent(w)
    /\ status' = [status EXCEPT ![job[w]] = "failed"]
    /\ due' = [due EXCEPT ![job[w]] = FALSE]
    /\ Goto(w, "audit")
    /\ UNCHANGED <<attempt_count, attempts, replays, destination, audit,
                   accepted, web, broker, job, row, seen, ok, disturbed>>

\* Bugs: every replay is judged again, and every verdict is a success.
FinalizeAllReplays(w) ==
    /\ At(w, "replays")
    /\ LET verdict == IF ok[w] THEN "completed" ELSE "failed"
       IN replays' = [r \in DOMAIN replays |-> [replays[r] EXCEPT !.status = verdict]]
    /\ Goto(w, "audit")
    /\ UNCHANGED <<status, attempt_count, due, attempts, destination, audit,
                   accepted, web, broker, job, row, seen, ok, disturbed>>

CompleteReplays(w) ==
    /\ At(w, "replays")
    /\ replays' = [r \in DOMAIN replays |-> [replays[r] EXCEPT !.status = "completed"]]
    /\ Goto(w, "audit")
    /\ UNCHANGED <<status, attempt_count, due, attempts, destination, audit,
                   accepted, web, broker, job, row, seen, ok, disturbed>>

\* finalize_pending_replays: every queued replay of the event gets the verdict.
FinalizeReplays(w) ==
    /\ At(w, "replays")
    /\ LET verdict == IF ok[w] THEN "completed" ELSE "failed"
       IN replays' = [r \in DOMAIN replays |->
                        IF replays[r].event = job[w] /\ replays[r].status = "queued"
                        THEN [replays[r] EXCEPT !.status = verdict]
                        ELSE replays[r]]
    /\ Goto(w, "audit")
    /\ UNCHANGED <<status, attempt_count, due, attempts, destination, audit,
                   accepted, web, broker, job, row, seen, ok, disturbed>>

WriteAudit(w) ==
    LET entry == CASE ok[w] -> "delivered"
                   [] ~ok[w] /\ BudgetSpent(w) -> "dead_lettered"
                   [] OTHER -> "delivery_failed"
    IN /\ At(w, "audit")
       /\ audit' = audit \cup {<<job[w], entry>>}
       /\ Goto(w, IF entry = "delivery_failed" THEN "retry" ELSE "ack")
       /\ UNCHANGED <<database, destination, accepted, web, broker,
                      job, row, seen, ok, disturbed>>

\* Bug: the message of the next attempt is taken away instead of added.
RetryAcked(w) ==
    /\ At(w, "retry")
    /\ broker' = [broker EXCEPT ![job[w]] = @ - 1]
    /\ Goto(w, "ack")
    /\ UNCHANGED <<database, destination, audit, accepted, web, job, row, seen, ok, disturbed>>

\* apply_async(countdown=...): the delay is the time the message stays around.
Retry(w) ==
    /\ At(w, "retry")
    /\ broker' = [broker EXCEPT ![job[w]] = @ + 1]
    /\ Goto(w, "ack")
    /\ UNCHANGED <<database, destination, audit, accepted, web, job, row, seen, ok, disturbed>>

Ack(w) ==
    /\ At(w, "ack")
    /\ Rest(w)
    /\ UNCHANGED <<database, destination, audit, accepted, web, broker, disturbed>>

-----------------------------------------------------------------------------
(* Disturbances.                                                            *)

Disturb(kind) ==
    /\ kind \in Disturbances
    /\ Len(disturbed) < MaxDisturbances
    /\ disturbed' = Append(disturbed, kind)

\* Bug: the message was acknowledged when the worker took it.
CrashAckedEarly(w) ==
    /\ ~At(w, "idle")
    /\ Disturb("worker_crash")
    /\ Rest(w)
    /\ UNCHANGED <<database, destination, audit, accepted, web, broker>>

\* The worker process is lost: the message is rejected back to the queue.
Crash(w) ==
    /\ ~At(w, "idle")
    /\ Disturb("worker_crash")
    /\ broker' = [broker EXCEPT ![job[w]] = @ + 1]
    /\ Rest(w)
    /\ UNCHANGED <<database, destination, audit, accepted, web>>

\* The soft or hard time limit ends the task: a failed task is acknowledged.
TimeLimit(w) ==
    /\ ~At(w, "idle")
    /\ Disturb("time_limit")
    /\ Rest(w)
    /\ UNCHANGED <<database, destination, audit, accepted, web, broker>>

\* The web process dies, or the broker refuses, between commit and delay().
WebCrash(e) ==
    /\ web[e] > 0
    /\ Disturb("web_crash")
    /\ web' = [web EXCEPT ![e] = @ - 1]
    /\ UNCHANGED <<database, destination, audit, accepted, broker, worker>>

\* An operator switches a destination on or off, or deletes it (SET_NULL).
ChangeDestination(e, d) ==
    /\ destination[e] \notin {d, "none"}
    /\ Disturb("destination")
    /\ destination' = [destination EXCEPT ![e] = d]
    /\ UNCHANGED <<database, audit, accepted, web, broker, worker>>

-----------------------------------------------------------------------------
FinalizeStep(w) ==
    \/ SaveAttempt(w) \/ SaveDelivered(w) \/ SaveDeadLettered(w) \/ SaveFailed(w)
    \/ FinalizeReplays(w) \/ WriteAudit(w)

WorkerStep(w) ==
    \/ BeginDelivered(w) \/ BeginSkipped(w) \/ BeginAttempt(w)
    \/ Load(w) \/ Post(w) \/ FinalizeStep(w) \/ Retry(w) \/ Ack(w)

Next ==
    \/ \E e \in Events :
          \/ Ingest(e) \/ Replay(e) \/ Delay(e) \/ Elapse(e) \/ Sweep(e)
          \/ WebCrash(e)
          \/ \E w \in Workers : Take(w, e)
          \/ \E d \in DestinationState : ChangeDestination(e, d)
    \/ \E w \in Workers : WorkerStep(w) \/ Crash(w) \/ TimeLimit(w)

Spec == Init /\ [][Next]_vars

\* Workers that are alive finish their tasks, the queue is first-in first-out
\* (a message is not passed over for ever), beat fires every 30 seconds, the
\* clock advances, and a request that committed reaches delay() or dies.
Fairness ==
    /\ \A w \in Workers : WF_vars(WorkerStep(w))
    /\ \A e \in Events :
          /\ SF_vars(\E w \in Workers : Take(w, e))
          /\ WF_vars(Delay(e))
          /\ WF_vars(Elapse(e))
          /\ WF_vars(Sweep(e))

FairSpec == Spec /\ Fairness

-----------------------------------------------------------------------------
(* Safety.                                                                  *)

\* An event is shown as delivered only if one of its own attempts was really
\* accepted by the receiver, whatever other workers, crashes and replays did
\* in between (finalize_delivery_attempt, delivery.py:228-231).
DeliveredMeansAccepted ==
    \A e \in Events : status[e] = "delivered" => Reached(e)

\* An event is dead-lettered only after every attempt number of its budget was
\* begun, although the worker judges by a snapshot that other workers and
\* replays make stale (delivery.py:242, README "after max_attempts").
DeadLetterIsEarned ==
    \A e \in Events : status[e] = "dead_lettered" => Exhausted(e)

\* The verdict of a replay has the same evidence as the event's, although it
\* is written later and in a statement of its own (delivery.py:180-198).
ReplayVerdictIsEarned ==
    \A r \in DOMAIN replays :
        /\ replays[r].status = "completed" => Reached(replays[r].event)
        /\ replays[r].status = "failed" => Exhausted(replays[r].event)

\* An attempt recorded as succeeded was accepted: a row never gets the result
\* of another worker's request (delivery.py:207-214).
SucceededMeansAccepted ==
    \A i \in DOMAIN attempts : attempts[i].status = "succeeded" => i \in accepted

\* A time limit has ended some task.
Struck == \E i \in DOMAIN disturbed : disturbed[i] = "time_limit"

\* An event marked as delivering has a message or a worker that will still
\* decide it, as long as no time limit has struck; deliver_event would otherwise
\* leave it in that status for ever, since the sweep does not look for it
\* (tasks.py:20).
NoStrandedDelivery ==
    ~Struck => \A e \in Events : status[e] = "delivering" =>
        \/ broker[e] > 0
        \/ \E w \in Workers :
              /\ job[w] = e
              /\ pc[w] \in {"begin", "load", "post", "save_attempt", "save_event"}

\* README.md:35, "automatic dead-lettering after max_attempts": no event is
\* attempted more often than its budget.  The code does not keep it, since
\* begin_delivery_attempt does not compare the count (delivery.py:89): a second
\* message of the event, or one handed back after a crash, is one attempt more.
AttemptBudget ==
    \A e \in Events : attempt_count[e] <= MaxAttempts

-----------------------------------------------------------------------------
(* The inductive invariant behind the safety properties.                    *)

\* Steps at which a worker has a DeliveryAttempt to finish.
InHand(w) == pc[w] \in {"load", "post", "save_attempt", "save_event",
                        "replays", "audit", "retry"}

\* The attempt is one of the event's, and no other worker has it.
OwnRow ==
    /\ \A w \in Workers : InHand(w) => row[w] \in AttemptsOf(job[w])
    /\ \A v, w \in Workers : InHand(v) /\ InHand(w) /\ row[v] = row[w] => v = w

\* Nothing of an earlier task is left when the next one begins.
FreshLocals ==
    \A w \in Workers :
        /\ pc[w] \in {"idle", "begin", "load"} => seen[w] = 0
        /\ pc[w] \in {"idle", "begin", "load", "post"} => ~ok[w]

\* The attempt is pending until its own worker saves it.
PendingUntilSaved ==
    \A w \in Workers : pc[w] \in {"load", "post", "save_attempt"} =>
        attempts[row[w]].status = "pending"

\* A counter, or the snapshot of one, never runs ahead of the attempts begun,
\* even after a replay has put the counter back to 0.
CountsAreTried ==
    /\ \A e \in Events : 1..attempt_count[e] \subseteq Tried(e)
    /\ \A w \in Workers : InHand(w) => 1..seen[w] \subseteq Tried(job[w])

\* A verdict that is still to be written to the replays has its evidence.
VerdictInHand ==
    \A w \in Workers :
        /\ InHand(w) /\ ok[w] => row[w] \in accepted
        /\ pc[w] = "replays" /\ ~ok[w] => BudgetSpent(w)

\* The receiver has accepted only what was begun.
AcceptedAreBegun == accepted \subseteq DOMAIN attempts

\* Nobody knows of an event before its row is committed.
KnownAfterIngest ==
    \A e \in Events : status[e] = "absent" =>
        web[e] = 0 /\ broker[e] = 0 /\ \A w \in Workers : job[w] # e

\* The strengthening under which the safety properties are inductive: what a
\* worker carries from one statement of finalize_delivery_attempt to the next
\* (delivery.py:206-248) is still backed by the tables when it is written.
Inductive ==
    /\ OwnRow
    /\ FreshLocals
    /\ PendingUntilSaved
    /\ CountsAreTried
    /\ VerdictInHand
    /\ AcceptedAreBegun
    /\ KnownAfterIngest
    /\ DeliveredMeansAccepted
    /\ DeadLetterIsEarned
    /\ ReplayVerdictIsEarned
    /\ SucceededMeansAccepted

-----------------------------------------------------------------------------
(* What a step may never do.                                                *)

\* The history of attempts is only extended: a finished attempt keeps its
\* verdict, and no step of another worker or a replay changes whose it is
\* (DeliveryAttempt rows are created at delivery.py:94 and saved at 214).
ExtendsHistory ==
    \A i \in DOMAIN attempts :
       /\ i \in DOMAIN attempts'
       /\ attempts'[i].event = attempts[i].event
       /\ attempts'[i].number = attempts[i].number
       /\ attempts[i].status # "pending" => attempts'[i] = attempts[i]

AttemptsAreHistory == [][ExtendsHistory]_vars

\* Only a replay takes an event out of "delivered".  The early return of
\* begin_delivery_attempt (delivery.py:83) gives this when one worker at a
\* time runs deliver_event; with two it does not hold.
DeliveredIsFinal ==
    [][\A e \in Events :
          status[e] = "delivered" /\ status'[e] # "delivered" => Replay(e)]_vars

-----------------------------------------------------------------------------
(* Liveness.                                                                *)

\* An event whose destination stays active is delivered or dead-lettered in
\* the end, through lost calls of delay() as long as no time limit strikes:
\* retries and the sweep see to it (tasks.py:12, 16-26).
EventuallySettles ==
    \A e \in Events :
        <>[](destination[e] = "active" /\ ~Struck) =>
            (status[e] \in {"queued", "delivering", "failed"} ~>
                status[e] \in {"delivered", "dead_lettered"})

\* A replay gets a verdict, too, if the destination stays active and no time
\* limit strikes; one could between the event's save and the replay's
\* (delivery.py:232, 247).
ReplaysSettle ==
    \A r \in 1..MaxReplays, e \in Events :
        <>[](destination[e] = "active" /\ ~Struck) =>
            ((r \in DOMAIN replays /\ replays[r].event = e
                                   /\ replays[r].status = "queued") ~>
                (r \in DOMAIN replays /\ replays[r].status # "queued"))

-----------------------------------------------------------------------------
(* The promise this design implements.                                      *)

OutcomeOf(s) ==
    CASE s = "absent" -> "none"
      [] s = "delivered" -> "delivered"
      [] s = "dead_lettered" -> "dead"
      [] OTHER -> "open"

PromisedOutcome == [e \in Events |-> OutcomeOf(status[e])]
PromisedTried == [e \in Events |-> Tried(e)]
PromisedReached == [e \in Events |-> Reached(e)]
PromisedRequests == [r \in DOMAIN replays |->
                       [event |-> replays[r].event, status |-> replays[r].status]]

Promise == INSTANCE DeliveryOutcome WITH
    outcome <- PromisedOutcome,
    tried <- PromisedTried,
    reached <- PromisedReached,
    requests <- PromisedRequests

\* Every step of the workers, the web process, the broker and the operator is
\* a step the promise allows: attempt numbers are used in order, verdicts have
\* evidence and are final for a replay.
KeepsPromise == Promise!Spec

=============================================================================
