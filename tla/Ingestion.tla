------------------------------ MODULE Ingestion ------------------------------
(***************************************************************************)
(* How a provider's notification becomes one row: the requests in which    *)
(* the provider sends it, again and again until one is answered with 2xx,  *)
(* the threads of the web process that handle them at the same time, and   *)
(* the operator who edits the source and its destination meanwhile.        *)
(*                                                                         *)
(* One source; the constraint on idempotency keys is per source.  Each     *)
(* action is one statement or one transaction; what a thread has read      *)
(* before is in its own variables.                                         *)
(***************************************************************************)
EXTENDS Integers, Sequences, FiniteSets

CONSTANTS
    Threads,         \* threads of the web process
    Notifications,   \* what the provider has to tell
    NoNotification,  \* what an idle thread works on
    Bodies,          \* bodies of requests
    Disturbances,    \* the kinds of outside interference allowed
    MaxDisturbances  \* bound: how many of them happen

DisturbanceKinds == {"web_crash", "broker", "late", "operator", "provider"}

ASSUME NoNotificationAssumption == NoNotification \notin Notifications
ASSUME DisturbancesAssumption ==
    Disturbances \subseteq DisturbanceKinds /\ MaxDisturbances \in Nat

VARIABLES
    provider,    \* WebhookSource.provider
    form,        \* of a notification: the places of its id, and its body
    signer,      \* the secrets with which the provider signs
    answers,     \* the status codes the provider got for a notification
    active,      \* WebhookSource.is_active
    secret,      \* WebhookSource.signing_secret
    destination, \* of WebhookSource.default_destination: active, inactive or none
    rows,        \* WebhookEvent: key, the notification stored, status
    audit,       \* counts of <<key, action>> in AuditLog, from 2 on not counted
    broker,      \* calls of delay() for a key, from 2 on not counted
    pc,          \* the next step of a thread
    job,         \* the notification it handles
    source,      \* the source as the thread has read it
    initial,     \* initial_status, and whether the row will have a destination
    disturbed    \* how many disturbances there were

given == <<provider, form>>
database == <<active, secret, destination, rows, audit>>
thread == <<pc, job, source, initial>>
vars == <<given, signer, answers, database, broker, thread, disturbed>>

Providers == {"generic", "stripe", "github", "shopify", "slack"}
Secrets == {"none", "old", "new"}
Steps == {"idle", "verify", "destination", "find", "insert", "recover", "duplicate", "delay"}
Forms == [places : SUBSET (1..3), body : Bodies]

-----------------------------------------------------------------------------
(* Reading a request.                                                       *)

\* Bug: the id of the request goes before that of the event.
PlacesRequestFirst(p) ==
    CASE p = "stripe" -> <<"id">>
      [] p = "github" -> <<"x-github-delivery">>
      [] p = "shopify" -> <<"x-shopify-webhook-id">>
      [] p = "slack" -> <<"event_id", "trigger_id">>
      [] OTHER -> <<"x-request-id", "x-webhook-id", "x-event-id">>

\* Where extract_event_metadata looks for the event's id, in this order: in the
\* payload of Stripe and Slack, in the headers of the others.
Places(p) ==
    CASE p = "stripe" -> <<"id">>
      [] p = "github" -> <<"x-github-delivery">>
      [] p = "shopify" -> <<"x-shopify-webhook-id">>
      [] p = "slack" -> <<"event_id", "trigger_id">>
      [] OTHER -> <<"x-webhook-id", "x-event-id", "x-request-id">>

\* The places at which a notification has an id.
Named(n) == {Places(provider)[i] : i \in form[n].places \cap DOMAIN Places(provider)}

\* What stands there.  A payload that is no object has no id anywhere; the id of
\* a request is another one when the notification is sent again.
IdAt(n, t, place) == IF place = "x-request-id" THEN <<n, t>> ELSE <<n>>

\* Bug: no event id, no key.
KeyOfIdOnly(n, t) ==
    IF Named(n) = {} THEN <<"body", "">>
    ELSE LET i == CHOOSE i \in DOMAIN Places(provider) :
                    /\ Places(provider)[i] \in Named(n)
                    /\ \A j \in 1..i - 1 : Places(provider)[j] \notin Named(n)
         IN IdAt(n, t, Places(provider)[i])

\* idempotency_key: the first id that is there, or else the hash of the body.
KeyOf(n, t) ==
    IF Named(n) = {} THEN <<"body", form[n].body>>
    ELSE LET i == CHOOSE i \in DOMAIN Places(provider) :
                    /\ Places(provider)[i] \in Named(n)
                    /\ \A j \in 1..i - 1 : Places(provider)[j] \notin Named(n)
         IN IdAt(n, t, Places(provider)[i])

Keys == {<<"body", b>> : b \in Bodies} \cup {<<n>> : n \in Notifications}
        \cup (Notifications \X Threads)

\* Stripe and Slack sign a time with the body, and it must not be long ago.
Timed == provider \in {"stripe", "slack"}

\* Bug: only the first of several signatures is compared.
ConsideredFirst == {signer[1]}

\* The signatures a verifier compares: Stripe may send several v1.
Considered == IF provider = "stripe" THEN {signer[i] : i \in DOMAIN signer} ELSE {signer[1]}

-----------------------------------------------------------------------------
TypeOK ==
    /\ provider \in Providers /\ form \in [Notifications -> Forms]
    /\ signer \in Seq(Secrets) /\ signer # <<>>
    /\ answers \in [Notifications -> SUBSET {200, 202, 401, 404, 500}]
    /\ active \in BOOLEAN /\ secret \in Secrets
    /\ destination \in {"active", "inactive", "none"}
    /\ rows \subseteq [key : Keys, of : Notifications, status : {"received", "queued"}]
    /\ audit \in [Keys \X {"received", "duplicate"} -> 0..2]
    /\ broker \in [Keys -> 0..2]
    /\ pc \in [Threads -> Steps] /\ job \in [Threads -> Notifications \cup {NoNotification}]
    /\ source \in [Threads -> [secret : Secrets, destination : BOOLEAN]]
    /\ initial \in [Threads -> [status : {"received", "queued"}, destination : BOOLEAN]]
    /\ disturbed \in Nat
    /\ \A t \in Threads : pc[t] # "idle" => job[t] \in Notifications

NoSource == [secret |-> "none", destination |-> FALSE]
NoRow == [status |-> "received", destination |-> FALSE]

Init ==
    /\ provider \in Providers /\ form \in [Notifications -> Forms]
    /\ \A n \in Notifications : form[n].places \subseteq DOMAIN Places(provider)
    /\ signer = <<"old">> /\ answers = [n \in Notifications |-> {}]
    /\ active = TRUE /\ secret \in {"none", "old"}
    /\ destination \in {"active", "inactive", "none"}
    /\ rows = {} /\ audit = [a \in Keys \X {"received", "duplicate"} |-> 0]
    /\ broker = [k \in Keys |-> 0]
    /\ pc = [t \in Threads |-> "idle"] /\ job = [t \in Threads |-> NoNotification]
    /\ source = [t \in Threads |-> NoSource] /\ initial = [t \in Threads |-> NoRow]
    /\ disturbed = 0

At(t, step) == pc[t] = step
Goto(t, step) == pc' = [pc EXCEPT ![t] = step]
Key(t) == KeyOf(job[t], t)
Stored(k) == \E r \in rows : r.key = k
Count(n) == IF n < 2 THEN n + 1 ELSE 2
Log(t, action) == audit' = [audit EXCEPT ![<<Key(t), action>>] = Count(@)]

\* The thread forgets the request.
Rest(t) ==
    /\ Goto(t, "idle")
    /\ job' = [job EXCEPT ![t] = NoNotification]
    /\ source' = [source EXCEPT ![t] = NoSource]
    /\ initial' = [initial EXCEPT ![t] = NoRow]

Answer(t, code) ==
    /\ Rest(t)
    /\ answers' = [answers EXCEPT ![job[t]] = @ \cup {code}]

Disturb(kind) ==
    /\ kind \in Disturbances
    /\ disturbed < MaxDisturbances
    /\ disturbed' = disturbed + 1

-----------------------------------------------------------------------------
(* The view.                                                                *)

Acknowledged(n) == answers[n] \cap {200, 202} # {}

\* A request comes in, again as long as none was answered with 2xx: the provider
\* does not wait for the end of another it gave up.  A source that is switched
\* off is not found.
Receive(t, n) ==
    /\ At(t, "idle") /\ ~Acknowledged(n)
    /\ IF active
       THEN /\ Goto(t, "verify")
            /\ job' = [job EXCEPT ![t] = n]
            /\ source' = [source EXCEPT ![t] =
                   [secret |-> secret, destination |-> destination # "none"]]
            /\ UNCHANGED <<answers, initial>>
       ELSE /\ answers' = [answers EXCEPT ![n] = @ \cup {404}]
            /\ UNCHANGED thread
    /\ UNCHANGED <<given, signer, database, broker, disturbed>>

\* verify_source_signature, of a request that was not long under way.
Verify(t) ==
    /\ At(t, "verify")
    /\ IF source[t].secret \in {"none"} \cup Considered
       THEN Goto(t, "destination") /\ UNCHANGED <<job, source, initial, answers>>
       ELSE Answer(t, 401)
    /\ UNCHANGED <<given, signer, database, broker, disturbed>>

\* A time that was signed more than five minutes ago is stale.
VerifyLate(t) ==
    /\ At(t, "verify")
    /\ Timed /\ source[t].secret # "none"
    /\ Disturb("late")
    /\ Answer(t, 401)
    /\ UNCHANGED <<given, signer, database, broker>>

\* ingest_event reads the destination the source had; it may be deleted by now.
LoadDestination(t) ==
    /\ At(t, "destination")
    /\ IF source[t].destination /\ destination = "none"
       THEN Answer(t, 500)
       ELSE /\ initial' = [initial EXCEPT ![t] =
                   [status |-> IF source[t].destination /\ destination = "active"
                               THEN "queued" ELSE "received",
                    destination |-> source[t].destination]]
            /\ Goto(t, "find") /\ UNCHANGED <<job, source, answers>>
    /\ UNCHANGED <<given, signer, database, broker, disturbed>>

\* get_or_create looks for the row first.
Find(t) ==
    /\ At(t, "find")
    /\ Goto(t, IF Stored(Key(t)) THEN "duplicate" ELSE "insert")
    /\ UNCHANGED <<given, signer, answers, database, broker, job, source, initial, disturbed>>

\* Bug: the row and its audit entry are written without a transaction.
InsertAudited(t) ==
    /\ At(t, "insert")
    /\ IF Stored(Key(t)) THEN Goto(t, "duplicate") /\ UNCHANGED <<rows, audit, answers, job, source, initial>>
       ELSE /\ Log(t, "received")
            /\ IF initial[t].destination /\ destination = "none"
               THEN Goto(t, "recover") /\ UNCHANGED <<rows, answers, job, source, initial>>
               ELSE /\ rows' = rows \cup {[key |-> Key(t), of |-> job[t], status |-> initial[t].status]}
                    /\ IF initial[t].status = "queued"
                       THEN Goto(t, "delay") /\ UNCHANGED <<answers, job, source, initial>>
                       ELSE Answer(t, 202)
    /\ UNCHANGED <<given, signer, active, secret, destination, broker, disturbed>>

\* get_or_create inserts.  If another request has stored the key meanwhile, it
\* finds that row; if the destination is deleted, the commit fails.  Otherwise
\* the row and its audit entry are there at once.
Insert(t) ==
    /\ At(t, "insert")
    /\ \/ /\ Stored(Key(t)) /\ Goto(t, "duplicate")
          /\ UNCHANGED <<rows, audit, answers, job, source, initial>>
       \/ /\ ~Stored(Key(t)) /\ initial[t].destination /\ destination = "none"
          /\ Goto(t, "recover")
          /\ UNCHANGED <<rows, audit, answers, job, source, initial>>
       \/ /\ ~Stored(Key(t)) /\ ~(initial[t].destination /\ destination = "none")
          /\ rows' = rows \cup {[key |-> Key(t), of |-> job[t], status |-> initial[t].status]}
          /\ Log(t, "received")
          /\ IF initial[t].status = "queued"
             THEN Goto(t, "delay") /\ UNCHANGED <<answers, job, source, initial>>
             ELSE Answer(t, 202)
    /\ UNCHANGED <<given, signer, active, secret, destination, broker, disturbed>>

\* Bug: an IntegrityError is always taken for a duplicate.
RecoverAsDuplicate(t) ==
    /\ At(t, "recover") /\ Goto(t, "duplicate")
    /\ UNCHANGED <<given, signer, answers, database, broker, job, source, initial, disturbed>>

\* The IntegrityError of a commit: the row of another request, or none.
Recover(t) ==
    /\ At(t, "recover")
    /\ IF Stored(Key(t)) THEN Goto(t, "duplicate") /\ UNCHANGED <<job, source, initial, answers>>
       ELSE Answer(t, 500)
    /\ UNCHANGED <<given, signer, database, broker, disturbed>>

\* Bug: a duplicate is enqueued as well.
DuplicateEnqueued(t) ==
    /\ At(t, "duplicate")
    /\ Log(t, "duplicate")
    /\ broker' = [broker EXCEPT ![Key(t)] = Count(@)]
    /\ Answer(t, 200)
    /\ UNCHANGED <<given, signer, active, secret, destination, rows, disturbed>>

Duplicate(t) ==
    /\ At(t, "duplicate")
    /\ Log(t, "duplicate")
    /\ Answer(t, 200)
    /\ UNCHANGED <<given, signer, active, secret, destination, rows, broker, disturbed>>

Delay(t) ==
    /\ At(t, "delay")
    /\ broker' = [broker EXCEPT ![Key(t)] = Count(@)]
    /\ Answer(t, 202)
    /\ UNCHANGED <<given, signer, database, disturbed>>

\* The broker refuses the message: delay() raises.
DelayFails(t) ==
    /\ At(t, "delay")
    /\ Disturb("broker")
    /\ Answer(t, 500)
    /\ UNCHANGED <<given, signer, database, broker>>

-----------------------------------------------------------------------------
(* Disturbances.                                                            *)

\* The web process is lost, or the provider gives up: no answer.
Crash(t) ==
    /\ ~At(t, "idle")
    /\ Disturb("web_crash")
    /\ Rest(t)
    /\ UNCHANGED <<given, signer, answers, database, broker>>

\* The operator switches the source or its destination, deletes the destination
\* (SET_NULL), or enters another secret.
Edit ==
    /\ Disturb("operator")
    /\ \/ active' = ~active /\ UNCHANGED <<secret, destination>>
       \/ /\ destination # "none" /\ destination' \in {"active", "inactive", "none"} \ {destination}
          /\ UNCHANGED <<active, secret>>
       \/ secret' \in Secrets \ {"none", secret} /\ UNCHANGED <<active, destination>>
    /\ UNCHANGED <<given, signer, answers, rows, audit, broker, thread>>

\* The provider takes a new secret; Stripe signs with both for a while.
Roll ==
    /\ Disturb("provider")
    /\ \/ provider = "stripe" /\ signer = <<"old">> /\ signer' = <<"old", "new">>
       \/ signer' = <<"new">>
    /\ UNCHANGED <<given, answers, database, broker, thread>>

-----------------------------------------------------------------------------
Step(t) ==
    \/ Verify(t) \/ LoadDestination(t) \/ Find(t) \/ Insert(t) \/ Recover(t)
    \/ Duplicate(t) \/ Delay(t)

Next ==
    \/ \E t \in Threads :
          \/ \E n \in Notifications : Receive(t, n)
          \/ Step(t) \/ VerifyLate(t) \/ DelayFails(t) \/ Crash(t)
    \/ Edit \/ Roll

Spec == Init /\ [][Next]_vars

\* A thread goes on with its request, and a provider sends again.
Fairness ==
    /\ \A t \in Threads : WF_vars(Step(t))
    /\ \A n \in Notifications : SF_vars(\E t \in Threads : Receive(t, n))

FairSpec == Spec /\ Fairness

-----------------------------------------------------------------------------

\* What the provider need not send again is stored: neither the IntegrityError
\* of a commit nor a request that overtakes another makes a 2xx of nothing
\* (ingestion.py:120-121, views.py:41-49).
AcknowledgedIsStored ==
    \A n \in Notifications : Acknowledged(n) => \E t \in Threads : Stored(KeyOf(n, t))

\* However often and at the same time a notification is sent, its event is
\* handed to a worker once at most, and only if it was stored as queued; the
\* sweep does the rest (views.py:38-39).
EnqueuedOnce ==
    \A k \in Keys : broker[k] > 0 =>
        broker[k] = 1 /\ \E r \in rows : r.key = k /\ r.status = "queued"

\* Each event has one row and one entry in the audit log that it came, those of
\* commits that failed included (ingestion.py:104-119).
ReceivedOnce ==
    \A k \in Keys :
        /\ audit[<<k, "received">>] = Cardinality({r \in rows : r.key = k})
        /\ audit[<<k, "received">>] <= 1

\* Redeliveries make no second event, unless nothing but the id of the request
\* tells what they deliver (ingestion.py:61-68).
RedeliveriesAreOne ==
    \A r, s \in rows : r.of = s.of /\ r # s => Named(r.of) = {"x-request-id"}

\* A provider that keeps sending gets its notification stored and acknowledged
\* in the end, once the source is on and has one of the secrets it signs with,
\* whatever was deleted, changed or lost in between (views.py:21-49).
StoredInTheEnd ==
    \A n \in Notifications :
        <>[](active /\ (secret = "none" \/ \E i \in DOMAIN signer : signer[i] = secret))
            => <>Acknowledged(n)
=============================================================================
