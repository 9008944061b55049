# Verification of WebhookOps

TLA+ models of WebhookOps, model-checked with TLC and partly proved with TLAPS. WebhookOps
receives webhooks, stores them, and forwards each to a public endpoint or, through
a reverse tunnel, to a private application. Paths below are relative to the
repository; `W` stands for `webhook_ops/webhooks`, `T` for
`agent/src/tunnel/main.cpp`, `A` for `agent/src/agent/main.cpp`.

## 1. The system

| part | code | state | operations | talks to |
|---|---|---|---|---|
| Ingestion | `W/ingestion.py`, `W/views.py` (ingest view), `W/signatures.py` | rows of `WebhookEvent` with a unique (source, idempotency key), audit entries | verify signature, `ingest_event` (get or create in a transaction), `delay()` | senders (HTTP), database, broker |
| Delivery | `W/delivery.py`, `W/tasks.py` | `status`, `attempt_count`, `next_attempt_at` of an event, rows of `DeliveryAttempt` | `begin_delivery_attempt`, `perform_delivery`, `finalize_delivery_attempt`, retry with countdown, the sweep every 30 s | database, broker, receivers, the tunnel's proxy |
| Replay | `W/replay.py`, called from `W/api.py` and `W/admin.py` | rows of `ReplayRequest`, the event's counters | `replay_event`, then `delay()`; settled by delivery | database, broker |
| Agent registry | `W/agents.py`, `W/views.py` (tunnel views), `W/models.py` | `Agent.status`, `last_seen_at`, `tunnel_secret`, `is_active` | enrolment, `verify_agent_auth`, `record_agent_status`, the operator's edits | tunnel controller |
| Tunnel controller | `T` | sessions by agent id, selected agent (also in a state file), stream ids | accept and authenticate agents, accept proxy clients, choose the agent, report status, REPL commands | agents, proxy clients, Django |
| Agent | `A` | the connection, its target streams | connect and reconnect, serve Open, Data, Close, heartbeats | controller, private targets |
| Streams | `T` (`ProxyStream`, `handle_proxy_client`, `read_loop`), `A` (`handle_open`, `handle_data`, `target_reader`) | the two stream tables and the sockets they name | Open, OpenOk, Data, Close, Error | each other |
| Wire and configuration | `agent/src/common` (`channel`, `net`, `protocol`, `config`, `crypto`), `parse_args` and the HTTP parsing of `T` and `A` | the bytes under way, the settings of a process | frames over sockets, TLS, `host:port` parsing, options and config files, the request header | sockets, files |

Web, beat and two Celery worker processes share one database; a worker talks to the
others through rows and messages only. Celery acknowledges a message after the task
(`acks_late`) and puts it back if the worker process is lost
(`webhook_ops/settings.py:139-140`); a task that raises or runs into its time limit
is acknowledged. The tunnel is threads: one accepts agents and does their handshake,
one accepts proxy clients, one reads each session, one serves each proxy client, and
one is detached for every status report.

### What is hard here

* A provider sends a notification again until it gets a 2xx, while an older request for it is
  still under way in another thread; rows, audit entries and `delay()` follow in steps, and a
  commit fails for more reasons than a duplicate.
* Delivery is a sequence of autocommitted statements, two workers may run it for one
  event, and each decides by a snapshot taken before its POST.
* A crash or the time limit may fall between any two of these statements.
* `delay()` comes after the commit it announces.
* Session registration, removal and status reports of the tunnel run in different
  threads, and sessions of one agent overlap when it reconnects.
* Streams are opened, fed and closed from both ends, with a 10 s timeout on opening, and
  up to four threads may be the one that ends a stream.
* Descriptor numbers come back: a thread that still holds a closed one uses the next.
* Frames of all streams share one socket in each direction, which takes and gives any
  number of bytes at a time, may be full, and breaks at any byte.
* The agent reads and handles the frames of all streams in one thread, which may be held by a
  target that does not read; the controller's reader writes to clients in the same way.
* A process that writes to a peer that is gone may be ended by SIGPIPE.

### What makes each part correct

* *Delivery*: a verdict has evidence (delivered only if the receiver accepted, dead
  only after the whole budget); nothing stays undecided; the attempt history is true.
* *Replay*: a replay gets one verdict, with evidence, and gets it eventually.
* *Ingestion*: one row per key however many requests race; every accepted event is
  stored, and enqueued or found by the sweep.
* *Registry and controller*: an agent that is connected is found; a dead session is
  not used; the row says what the connection is.
* *Streams*: bytes go to the client that opened the stream; whatever is opened at one
  end is closed at the other.
* *Wire and configuration*: frames arrive whole and in order; the agent dials the endpoint
  the client named, if its list has it; the target reads what the client sent; the settings
  in force are the ones that were given.

## 2. Plan

Done, in this order:

1. `Delivery` (with `DeliveryOutcome`, `MCDelivery`, `DeliveryProofs`): the pipeline and
   its replays.
2. `AgentSessions` (with `AgentSessionProofs`): the controller's
   sessions, the selected agent and its file, reconnects, the agent's row and the order
   in which reports reach it.
3. `Streams` (with `MCStreams`, `StreamsProofs`, `StreamsIsolation`, `StreamsAnswers`): Open, OpenOk, Data, Close and Error
   between proxy client, controller, agent and target.
4. `Endpoints`, `Settings`, `Handshakes`, `ProxyRequests`, `Wire` (with `WireProofs`, which
   implements `Messages`), composed in `ProxyPath` (with `MCProxyPath`, `ProxyPathProofs`): from
   the command lines and a client's bytes to the bytes its target reads.
5. `Ingestion` (with `IngestionProofs`): the ingest view in all its threads,
   resent requests, signatures, keys, a destination that is deleted meanwhile.

Left, in the order of what they would add: the sweep over more events than it takes, enrolment (a new secret while the agent is
connected), `Streams` on top of the sessions of `AgentSessions` instead of the single agent
it has, and a crash of the controller while it writes the state file.

## 3. Modules

### Delivery

One module for everything that changes a `WebhookEvent`: the ingest view, `replay_event`,
the workers, beat and the operator. Its actions are the transactions and autocommitted
statements of the code in their order; a worker's `pc` names the next one.

| variables | code |
|---|---|
| `status`, `attempt_count` | the columns of `WebhookEvent` |
| `due` | `next_attempt_at <= now`; `Elapse` is the passing of time |
| `destination` | whether the event has a destination and it is active |
| `attempts`, `replays` | the tables, indexed by id |
| `audit` | the audit entries, as a set |
| `web` | committed requests that still have to call `delay()` |
| `broker` | messages nobody has reserved; the countdown of a retry is the time a message stays there |
| `job`, `row`, `seen`, `ok` | locals of `deliver_event`: event, attempt, the reloaded `attempt_count`, the result |
| `accepted` | what receivers answered with 2xx; the code cannot see it, the properties can |

`begin_delivery_attempt` is three actions (delivered already, no active destination, a new
attempt); `finalize_delivery_attempt` is `SaveAttempt`, one of three saves of the event,
`FinalizeReplays` and `WriteAudit`. `Post` distinguishes an accepted POST, an accepted
POST whose answer is lost, and a failure. The sweep's query and its `delay()` calls are one
action per event: a message that was enqueued later is one that waited in the queue. Its
limit of 100 rows is not part of this module. Two destinations never matter to one event,
so each event has its own.

Disturbances (`worker_crash`, `time_limit`, `web_crash`, `destination`) are selected per run
and counted. Definitions named in a comment *Bug* are deliberate mistakes: they
are no part of the specification, and replacing the correct definition by one of them makes
the property named with it in `PROJECT.json` fail.

### Ingestion

The requests of one source in all the threads of the web process. gunicorn starts as many
processes as `WEB_CONCURRENCY` says, and `ingest_event` is written for
several (`W/ingestion.py:104-121`).

| variables | code |
|---|---|
| `provider`, `form` | the source's provider; at which places a notification carries an id, and its body |
| `active`, `secret`, `destination` | the source's row and the state of its default destination |
| `rows`, `audit` | `WebhookEvent` (key, whose notification, `initial_status`) and counts in `AuditLog` |
| `broker` | how often `delay()` was called for a key |
| `pc`, `job`, `source`, `initial` | the next step of a thread and what it has read |
| `signer`, `answers` | the provider: the secrets it signs with, the status codes it got |

`Receive` reads the source (or answers 404), `Verify` is the signature, `LoadDestination` the
lazy read of `default_destination`, which fails if it was deleted (500). `Find` and `Insert`
are `get_or_create`: what another thread stored between the two is found by the constraint.
The reference to the destination is checked at commit, so a destination deleted since makes
the whole transaction fail with an `IntegrityError`, which the code takes for a duplicate and
looks for the row (`Recover`): there may be none (500), or the one of another request.
`Delay` may fail after the commit. An id of a notification is the same in each of its requests,
except `x-request-id`, which is that of the request. Not modelled: the audit entry of a rejected
signature, the event type, and columns that are too short for an id.

### DeliveryOutcome

What a sender may rely on: attempt numbers are used in order, `delivered` needs an accepted
attempt, `dead` needs the whole budget, a replay is judged once and on the same evidence.
It deliberately allows an event to be reopened by a late result, because the code does.
`Delivery` implements it under `OutcomeOf`, `PromisedTried`, `PromisedReached` and
`PromisedRequests`.

### AgentSessions

The control connections of the tunnel. A session is one connection, numbered in the order
of dialling, and goes through the stages of the accept thread (`waiting`, `handshake`,
`proved`, `verified`, `registered`, `greeted`), its reader (`reading`, `leaving`) and `over`.
There is one action for each stretch of code between two points where another thread can
see or change something.

| variables | code |
|---|---|
| `owner`, `stage`, `alive`, `link` | an `AgentSession`: `id_`, the thread that has it, `alive_`, whether its connection still works |
| `first` | the first frame after the proof that reaches the agent; `connect_once` looks at that one |
| `agents`, `selected` | `agents_` and `selected_agent_`, under `agents_mu_` |
| `saved`, `restored` | the state file; what `load_selected_agent` made of it |
| `proxy` | the session that `select_agent` returned to a proxy thread that has not sent yet |
| `phase`, `conn` | what `Agent::run` is doing and on which session |
| `row`, `reports` | `Agent.status` and the reports under way: each is posted in a thread of its own, then Django reads the row and writes it back in two statements |

`is_active` stays true, since no report writes it. Both the state file and the
authentication callback are configured; with `StatusReports` false there is no status URL.
Secrets are not told apart: the HMAC fails only through the row. A broken connection is
noticed by whoever uses it next; one that stays silent for ever would stop the accept
thread, which reads Hello and the proof without a timeout (`T:747`, `T:764`). An agent whose
frame loop a target holds (see Streams) does not notice it, and does not dial again until that
target reads or goes; targets are not in this module. The
descriptor that `close()` takes from a reader in another thread is not modelled.

### Streams

Proxy clients and targets, joined through one agent. There is one action for each stretch
of code between two points where another thread can interfere: a blocking read or write, a
lock, the exchange of `client_closed` or `closed`.

| variables | code |
|---|---|
| `up`, `starts`, `nextId` | the controller process; `next_stream_id_`, which wraps at `IdSpace` |
| `pc`, `session`, `id`, `fd`, `shut`, `flags` | what a proxy thread does next; the `ProxyStream` it made |
| `fds`, `tfds` | whose connection a descriptor number is, in each process; the lowest free one is given out |
| `streams`, `alive`, `hand` | an `AgentSession`: `streams_`, `alive_`, and the frame its reader is in the middle of |
| `link`, `toAgent`, `toController` | the connection and the frames under way, at most `Capacity` one way: a sender waits for room |
| `agentUp`, `conn`, `connected`, `targets`, `task` | the `Agent`: `channel_`, `connected_`, `streams_`, the frame its loop is in the middle of |
| `serving`, `relay`, `tfd`, `tshut` | the agent's opening thread and target reader of a request; its `TargetStream` |
| `left`, `ended`, `asking`, `answering` | which clients and targets have closed their end or have a chunk to give |
| `answered`, `spurned`, `slipped` | what the code cannot see and the properties speak of |

A stream's bytes are known by the request whose client or target wrote them, and each end
writes one chunk: what matters is where they come out. `slipped` marks that a thread used a
number after its descriptor was closed and given to someone else, which the code allows
(`T:955`, `T:677`, `A:308`); the properties say what holds in the other executions.
`session_loop` handles a Data frame itself, and `handle_data` ends in a `send_all` without a
time limit (`A:308`). While its target is there and does not read, nothing need come of that
write (`Stalled`): the loop takes no frame of any other stream, no Close, not even the end of
the connection, `toAgent` fills, and proxy threads wait for room. `FeedTarget` is what happens
when the target reads, goes, or is closed by its own reader.
`close_all_streams` marks its streams in one step and closes them in another. Sessions follow one another without overlap and the newest is chosen, since how they
are set up and chosen is `AgentSessions`. Processes end by `stop` or by SIGPIPE (`pipe`).

### Endpoints, Settings, Handshakes, ProxyRequests

The pure parts, as operators. A text is a sequence of tokens: separators, numerals and
names. `Numeral` says what a numeral denotes, so that a port may be `080` or too large, and
`Decimal` which one `std::to_string` prints. Blanks and case are left out. `Endpoints` has
`parse_host_port`, `endpoint_to_string` and the payload of an Open frame. `Settings` is what
both programs do with defaults, a file and options: `TunnelProgram` and `AgentProgram` name
the settings of each. `Handshakes` says which settings get a control connection; OpenSSL and
HMAC are taken at their promise. `ProxyRequests` finds the end of a header in a stream
and parses and rewrites the header, of which each line is one token.

### Wire and Messages

`Wire` is one direction of a control connection: threads that write frames under a lock
(`todo`, `frame`, `result`, `usable`), the sockets (`pipe`, at most `Room` bytes, and
`link`), and the loop that reads (`got`, `listening`). `Write` and `Read` move any number
of bytes that there is room for or that are wanted. The nine bytes of a header are two
tokens, the second with the length of the payload, so a header can be cut, but not a number
inside it. `Messages` is what it promises: the frames that were read are the beginning of the
frames that were written.

### ProxyPath

Two programs that start (`Start`), the agent that dials (`Join`), one proxy client, its
thread and its target, and a second thread that sends a frame of its own over the same wire.
It extends the modules above and takes every operator from them. The variables are the
settings of the two programs (`agent`, `tunnel`), the locals of `handle_proxy_client` (`pp`,
`buffer`, `request`, `reply`), what the agent has done with the frames (`handled`, `opening`,
`dialled`, `fed`), and those of `Wire`. `session_loop` reads a frame and handles it in one thread, so
the agent's end of the socket is read only when every frame that was read is dealt with
(`Reading`, `Connection`), and dealing with one may last for ever (`Busy`: a write to the target
or a reply that nobody reads). The agent's answer to the Open frame travels in the other
direction of the connection, where `Wire` could be instantiated again; here the proxy
thread sees it at once (`granted`).

## 4. Runs

| run | instance | shows |
|---|---|---|
| `delivery_overlap` | 2 workers, 1 event, budget 2, 3 attempts, 1 replay, 1 lost worker | verdicts have evidence, history true, nothing stranded, the refinement |
| `delivery_settles` | 1 worker, 6 attempts, 1 replay, 1 disturbance of any kind but a lost worker, fair | events and replays settle, delivered is final until a replay |
| `ingestion_race` | 1 notification of every form and provider, 2 threads, 3 disturbances of any kind, fair | what is acknowledged is stored, one row, enqueued once, stored in the end; which ids make an event |
| `sessions_selection` | 2 agents, 5 sessions, 1 request, 1 disturbance, no reports, fair | the table never goes back, how a live session is lost, the selection, the inductive invariant, broken sessions leave, agents get connected |
| `sessions_reports` | 1 agent, 2 sessions, 2 disturbances, reports, fair | heartbeats repair the row |
| `streams_reuse` | 2 requests, 1 client descriptor, 2 target descriptors, 2 ids, 2 sessions, room for 1 frame each way, 1 disturbance of any kind | bytes and descriptors stay with their streams, answers arrive |
| `streams_settle` | 2 requests at once, a plain one whose target answers and a tunnel whose target is silent, 1 target descriptor, 1 session, room for 1 frame, no disturbance, fair | requests end and targets are released, unless a target that does not read holds the agent's loop for ever or the readers block each other |
| `proxy_path` | a few hundred pairs of command lines, 12 requests, room for 4 bytes, 12 tokens per read, fair | settings, handshake, endpoint, header and frames, to the bytes the target reads |

*Delivery.* One event suffices because no action of one event reads another's row; workers, not
events, compete. A budget of 2 has an attempt that is retried and one that is not, and
three attempt rows allow the third attempt that overlap makes possible. In the liveness
run `MaxAttemptRows` is large enough that it never blocks a worker (a blocked worker would
leave its event undecided and fail the property).

*Ingestion.* Two threads are the race: a third would find what the second finds. Three
disturbances let a destination be deleted, a secret be changed at both ends or a process
be lost around a failing commit. The provider sends the notification as often as it likes, so
the number of requests has no bound. A second notification would meet it only through an equal
key, which is the same as a resent request.

*AgentSessions.* Two agents compete for the selection and for the accept thread; two
sessions of the same agent twice over give a session that is replaced while it is registered,
read and leaving. Four sessions are what two agents need when one connection breaks and one
Open frame makes an agent dial again, or when the controller restarts; the fifth tells executions
in which an agent runs out of connections, of which `AgentsConnect` says nothing. The reports of one agent
concern its own row only, so one agent is enough for them; two sessions give reports that
overtake those of a later session.

*Streams.* In `streams_reuse` the second client gets the descriptor number of the first as
soon as that is closed, so every thread of the first stream can meet the second. Two ids
wrap at the second request, and the id 0, which is the control stream's number, is given out.
Two sessions let a thread of the agent outlive its own. One frame of room makes senders
wait at every frame. In `streams_settle` the two clients are served at the same time
and their targets share a number. Two things can hold up a session for good (`Stuck`), and the
properties except just these, where they last: a target that does not read holds the agent's
frame loop (`Stalled`), or the two readers wait for each other's room (`Crossed`). The run has
both while a request is under way; `RequestsEnd` fails if either is not excepted, and
`TargetsReleased` fails without `Stalled`. That nothing else does is what the run shows. Since
each request comes once, that it ends is the same as that from some time on none is being
served, which is how `RequestsEnd` says it. One chunk at each end is enough for a frame that waits, one that is
written, and one that comes after the end.

*ProxyPath.* Every form of a setting, a file or a request in the code (options in either
order, repeated, empty, invalid; comments, old names, broken lines; absolute URLs, CONNECT,
IPv6, two Host headers, none, other ports, a header that is too long) is combined with one sound
choice of everything else, since they meet only in the operators. Room for 4 bytes cuts
frames inside the header and inside the payload; the frames of the second thread fit between
any two of the first. `ReadSize` covers a whole small header and its body, so that both
come in one read, and in two.

Runs that must fail, each refuting a sentence of the documentation:

| run | sentence | what happens |
|---|---|---|
| `delivery_budget` | "automatic dead-lettering after `max_attempts`" (README.md:35) | retry and sweep both enqueue; attempt 3 of 2 is begun |
| `delivery_time_limit` | "forwards each event" (README.md:22) | the task is acknowledged, the event stays in `delivering` |
| `sessions_row` | "to keep the `Agent` row in sync" (README.md:177) | the offline report overtakes the online one; the row of a gone agent stays online |
| `sessions_served` | "reachable through a connected reverse-tunnel agent" (README.md:23) | `remove_agent` of an old session removes its successor; the agent is connected and never chosen |

Under which conditions three of these do hold is proved (section 5): `OneMessageKeepsTheBudget`,
`ReportsInTurnSync`, `WithoutOverlapServed`.

*Fairness* (`FairSpec` of each module). `Delivery`: a worker that is not lost continues its
task; a waiting message is taken sooner or later if workers keep becoming idle (strong
fairness: the queue is first-in first-out); beat fires and the clock advances; a request
that is not lost calls `delay()`. Nothing is assumed about receivers, operators or
disturbances. `Ingestion`: a thread goes on with its request, and a provider sends again
whenever it can, until a 2xx (strong fairness: threads become idle again and again).
`AgentSessions`: the threads of the controller and of agents go on, including the agent's dialling every 2 s and its heartbeats every 5 s, and Django answers reports;
nothing is assumed about proxy threads. `Streams`: threads go on where they are not blocked, and
clients give up in the end, as the worker's HTTP client does when its time is over; targets
and the network owe nothing. So the agent's frame loop is fair except in a write to a target
that is there (`~Stalled /\ FrameLoop`): that it gets out of it is nowhere assumed.
`ProxyPath`: the two ends of a socket write and read as long as it holds and has room or bytes,
the agent's only between two frames; an Open frame is dealt with, as it only starts a thread, and
of no other frame is that assumed. `FramesArrive` excepts an agent that is held by a frame for
ever (`<>[]Busy`), and fails without that.

Deadlock is not checked: with all bounds used up and all work done these systems stop.

## 5. Proofs

`DeliveryProofs` holds for any sets of events and workers, any
positive budget, any bounds and any disturbances (assumptions `MaxAttemptsAssumption`,
`NoEventAssumption`, `BoundsAssumption`).

* `Typing`: type correctness.
* `Induction`: `Inductive`. The safety properties are not inductive alone: that a delivered
  event was accepted rests on what a worker carries from its POST to its save. The
  strengthening says that a worker's row belongs to its event and to no other worker
  (`OwnRow`), that locals of the last task are gone (`FreshLocals`), that only the owner
  finishes a row (`PendingUntilSaved`), that neither a counter nor a snapshot of it runs ahead
  of the attempts begun, even across a replay's reset (`CountsAreTried`), that the result in
  hand is backed (`VerdictInHand`), and two facts about what exists (`AcceptedAreBegun`,
  `KnownAfterIngest`). Each conjunct has a lemma; `StepExtendsHistory` and `EvidenceStays` say
  once that evidence is never lost.
* `Delivered`, `DeadLettered`, `ReplayVerdict`, `Succeeded`, `History` follow from it.
* `NotStranded` assumes that no time limit strikes: a step gives up an event in `delivering`
  only by deciding it or by handing its message back.
* `DeliveredStays`: delivered is final until a replay (`DeliveredIsFinal`), as long as no two
  workers run one event's task at the same time (`OneAtATime`). The invariant behind it,
  `NotYetDelivered`, is that nobody else delivers an event a worker still has to save: the
  worker looked before it began. `OneWorkerIsEnough` discharges the hypothesis, which
  `acks_late` and the sweep break with more workers, for a single one, as in
  `delivery_settles`.
* `OneMessageKeepsTheBudget`: where the statement that `delivery_budget` refutes does hold. If
  an event has one message at a time (`OneMessage`: neither the sweep nor a replay adds one to
  a message that waits or that a worker is about) and no worker is lost, `attempt_count` stays
  within `max_attempts`, with any number of workers and over replays, time limits, lost calls
  of `delay()` and edited destinations. The invariant `WithinBudget` says that wherever a
  message is or can come from an attempt is left (`LeftForMessages`, `LeftForWorkers`) and
  that the snapshot a worker judges by is in date (`InDate`). One worker alone would not do:
  two messages of one event, one after the other, are an attempt too many.
* `Refinement`: `Spec => DeliveryOutcome`, one case per action in `StepRefinement`.

`IngestionProofs` holds for any threads, notifications, bodies and disturbances.

* `AcknowledgedStored`, `Enqueued` and `Received` follow from `Inductive`. It adds to them
  that a thread about to answer 200 or to call `delay()` has a row to show (`HasRow`), that one
  thread at most is about to enqueue an event that nobody has enqueued before (`OneCaller`), and
  that rows have different keys and the log has one entry for each (`OneRow`), on which
  `Cardinality` rests. Most steps answer without a 2xx or only read: `Harmless` says so and
  `HarmlessKeeps` concludes from it; finding, making and using a row have lemmas of their own
  (`FoundKeeps`, `NewRowKeeps`, `DuplicateKeeps`, `DelayKeeps`).
* `Typing`: type correctness.
* `OneOfEach`: `RedeliveriesAreOne`. Beside `Inductive` it carries `Origins`: the key of
  every row is the one that some thread makes of the notification the row names. Two rows have
  different keys (`OneRow`), and two keys of one notification differ only if nothing but
  `x-request-id` names it.

`AgentSessionProofs` holds for any agents, any number of sessions and any disturbances.

* `Typing`: type correctness.
* `Induction`: `Inductive`, which adds to the three properties that the accept thread takes
  connections in order and one at a time (`AcceptOrder`), so that a session is later
  than all registered before it, and that the table names sessions of its agents that still
  have a thread (`TableIsOwned`). `StillOrMoves` separates the steps that touch no session's
  life from the rest.
* `Newest`, `Dropped` and `Selection` follow. `Dropped` is the exact reach of the defect that
  `sessions_served` shows: a live session is lost to an older one of the same agent and to
  nothing else. `Selection` also says that the loop of `select_agent` over all agents
  (`T:819-824`) is never entered with an agent registered.
* `WithoutOverlapServed` and `ReportsInTurnSync` say where the statements that `sessions_served`
  and `sessions_row` refute do hold, and so what breaks them. A connected agent can be chosen
  if the thread of each session has ended before the agent's next session is registered
  (`OneSession`): `RegisteredAreListed` is inductive then. A row that says online is about
  an agent that has a session, once everything has arrived, if at most one report about an
  agent is under way (`OneReport`), no post is lost and the controller is not restarted:
  whatever says online, a row or a report, has a session that is read or a report of its end
  behind it (`Reporting`). Both invariants were model-checked with two agents, with the
  hypothesis as a constraint, before they were proved.

`StreamsProofs` holds for any requests, descriptors, ids, sessions, room and disturbances.

* `TypeCorrect`: type correctness. `Typed` adds to it what a thread that got past a step has
  (`Grounded`: a session, a descriptor).
* `DescriptorsAreOwn`: `OwnDescriptors`. For clients the table and `client_closed` say the
  same thing at every step (`OwnClients`). For targets that is so only because no two
  opening threads serve one Open frame, so the induction also carries that an Open frame under way,
  a thread that serves it and a target that came of it exclude each other
  (`OpenedOnce`). `Owned` is the three together. Most steps only close descriptors and open
  nothing; `Calm` says so once, `CalmKeeps` concludes from it, and the few others (`Accept`,
  `SendOpen`, `TakeFrame`, `OpenTarget` and those that end a process) have proofs of their own.

`StreamsIsolation` and `StreamsAnswers` build on it. Both suppose finitely many clients and no
more of them than stream ids (`Cardinality(Requests) <= IdSpace`), since both programs know a
stream by its id alone and an id that is given out a second time while the first stream is
still about mixes the two; the id space of the code is 2^32.

* `BytesStayApart`: `Isolation`. The invariant `Isolated` speaks of executions in which no thread
  was overtaken by a close and the controller was not restarted (`Sane`), as the property
  does. There ids are given out in their order and each once (`Numbered`), the tables
  have a stream under the id and at the stage its threads are in (`Placed`), and every
  frame under way and every one in a hand carries the bytes of the stream it names (`Sound`).
  Most steps only take frames and streams away: `Tame` says so, and `TameKeeps` concludes from it.
* `AnswersReachClients`: `AnswersArrive`. A client whose tunnel was opened and whose answer has not come
  is one of three things at every step: refused before it was opened, given up by somebody whose
  doing the property leaves out, or held (`Held`); and if held, its stream is not
  opened yet (`Unopened`), served (`Served`), or answered with the Data frame on its way ahead of
  everything that ends the stream (`Sent`, by `Leads`: a place in a queue). `Linked`, `Begun` and
  `Blank` say what the agent knows of it meanwhile. `QuietKept` disposes of all steps
  that concern another client. `Linked`, `Begun`, `Blank` and the trichotomy were
  model-checked on the instance of `streams_reuse` before they were proved.

`ProxyPathProofs` is about the operators of `Endpoints` and about the whole path, for any
command lines, files, requests, sizes of reads and room in the sockets.

* Endpoints, for all hosts and ports: what the controller prints into an Open frame the
  agent reads back (`OpenPayloadReadBack`, for hosts without a line feed), the text of an endpoint
  is read back as that endpoint (`EndpointReadBack`, unless the host begins with a bracket), and one
  text stands for one endpoint (`TextNamesOneEndpoint`), on which the agent's decision by text
  rests. They assume that `std::to_string` prints a numeral that denotes its argument
  (`DecimalAssumption`).
* `NamedHostIsJoined`: `JoinsTheNamedHost`, of any certificates and authorities.
* `OnlyTheEndpointAsked` (`DialsWhatWasAsked`), `OnlyTheClientIsRead`
  (`TargetReadsTheClient`), `PathImplementsMessages` (`FramesInOrder`) and `PathTypes`
  (`TypeOK`) follow from one invariant, `Path`. It has the line of bytes of `WireProofs`
  (`WireInv`); what the thread has read and not read, which together are the client's stream, so
  that the header it finds in pieces is the one it would find in the whole (`Heard`,
  `HeaderOfWhole`); that the frame being written is the one the thread's step calls for
  (`Writes`); that the only Open frame sent is the request's and what the agent has of it
  came from there (`Opens`); that no data is sent before the agent's answer (`Granted`); and
  offsets that lay the Data frames one behind the other on what the target is to read, which
  the target has up to the last frame dealt with and the client's unread bytes continue
  (`Tracked`). Each action has a lemma, or shares one with those like it. They suppose
  that frames can carry the bytes and that the other client sends neither Open frames nor
  data on this stream (`FramesFit`), and that the `means` and `rewritten` of a request say what
  its header says when it is read at once, and name an endpoint that can be put in an Open
  frame (`Understood`); all the requests of `MCProxyPath` do. The conjuncts of `Path` other than `WireInv` were
  model-checked on the instance of `proxy_path`, with the offsets computed, before they were proved.
* `FailedFrameIsNotRead`: `FailedNeverArrives`. Frames are compared by what they say, so the
  property means something only where no frame is sent twice: `NextFresh` shows that each step
  of the path begins a frame that was not written before (`Said`: how far the thread is when a
  frame of a kind has been written; `Fresh`: what is unread begins differently from all
  that was sent). It supposes that the bytes behind a header differ from one another and from
  the first of what the header becomes (`ToldApart`), as in `MCProxyPath`, where a byte stands
  for its place in the stream; `Said` and `Fresh` were model-checked on `proxy_path` first.
* `LastWordCounts`: `SettingsAsGiven`, of every command line and every file. `LastWordWins` is
  the statement about `parse_args` alone: the last option for a setting, else its last line,
  else the default, and the list of the agent is what options and lines name, no less and no
  more. `config_get_all` and `parse_args` are recursive functions on `0..n`. Since no
  lemma can take the property to be shown as a parameter, each has a lemma of its own that
  applies `UpTo` (a set that has 0 and with each number its successor has all up to `n`, by
  the least number it lacks) to the set of steps at which its claim holds: `AllGathered` over
  the lines (from `GatheringStep`), `AllApplied` and `AllOptions` over the options (from
  `OptionTaken`, `ApplyingStep`). What is assumed is that options and lines are sequences
  (`Given`, `FilesAndDefaults`) and that the controller's default endpoints are printed as they
  are written.
* `OnlyTheListedIsDialled`: with the theorems on endpoints and `OnlyTheEndpointAsked`, from the command line to
  the connection. What the agent dials is what the client asked for, and some option `allow`,
  or line of its file, is read as just that endpoint (`OnlyListed`), although the list and the
  request are compared as printed texts: `TextTellsEndpoint` excludes that the text of one
  that was not read at all, or of another host and port, passes. It supposes that every port
  a text can give is printed (`PortsPrinted`) and that what options and files name are texts
  (`ListedTexts`). `OnlyListed`, and what is supposed of options, lines and ports, were checked on the
  instance of `proxy_path`.

`WireProofs` is about `Wire` alone, with any threads that send any frames of any payload
(`WireSpec`), any room in the sockets and a break at any byte: `WireImplementsMessages`
says that the frames that are read are those that were written, whole, once and in
order. The invariant `WireInv` places everything on one line of bytes: the frames lie
one behind the other, the reader has the beginning of the first that is not read yet, the
pipe goes on from there, and what a thread has still to write goes on where the pipe ends
(`Placed`). The lock gives that only one thread has something to write (`Alone`);
`Found` is the reader's side, that it never asks for a byte of the next frame and
decodes only a whole one. The line is extended at its end when a frame is begun
(`LayOne`) and never changed before that. It takes an infinite line, so `Placed` has no run of
its own; `proxy_path` checks `FramesInOrder` itself.

* `FailedStaysAway` (`FailedNeverArrives`): what was given up is not read, provided that a
  frame that is begun equals none that was written (`NewStep`). `Unwritten` says so of the
  frame in hand and of one whose send failed, after which the session is not used again.

Every safety property that a passing run checks is proved for all values of the constants, under
the hypotheses named above. Only model-checked are the liveness properties (`EventuallySettles`,
`ReplaysSettle`, `BrokenSessionsLeave`, `AgentsConnect`, `HeartbeatsRepair`, `RequestsEnd`,
`TargetsReleased`, `FramesArrive`, `StoredInTheEnd`), since the prover does not reason about
fairness, and the counterexamples of the four runs that expect one.

## 6. Not modelled

* *Ingestion*: HMAC (a signature is right if its secret is one of those that signed), the
  reading of JSON and headers beyond which ids are there, event types, lengths of columns.
* *The sweep's limit* of 100 events, the newest first. An event without an active destination
  becomes failed and keeps its `next_attempt_at`, so it is due for every sweep; a hundred of
  these keep an older event, whose message was lost, from every sweep. `EventuallySettles` is
  about fewer due events than that.
* *Requests of one thread* in `Ingestion`: the thread stands for the id of a request
  (`x-request-id`), so a thread that serves again repeats an id that would be a new one. The answer goes out in the
  step of `delay()` or of the insert: that it is lost just behind them is seen only by
  way of a second request in flight. A notification is stored if a row has its key, so one
  without an id counts as stored under an earlier one with an equal body, as in the code.
* *A frame found and marked in two steps*: `ReadFrame` does `find_stream` and sets the flag
  (`T:646-656`) in one, with no other thread that could tell. Threads of an old session that
  send on `channel_` while the agent shakes hands again are left out, like other uses of
  `channel_` across `Agent::run`.
* *Free settings* (paths, URLs and tokens that may be empty) and boolean flags are in `Settings`,
  but `SettingsAsGiven` is only about the settings that must be filled, endpoints, the list and the
  pair of certificate and key.
* *Time limits on sockets*: there are none in the code. What a target that does not read does
  to an agent is in `Streams` and `ProxyPath`, but not in `AgentSessions`, whose `AgentsConnect`
  supposes that no target holds the loop of an agent whose connection has broken.
* *Enrolment*, which writes a new secret for an agent; the operator's free edits in the admin
  site beyond those of `Delivery` and `AgentSessions`.
* *The console* of the controller apart from choosing an agent and quitting; logging.
* *Tunnel*: the size limit of a frame (16 MiB, more than any sender of the code puts in one),
  name resolution and reachability (any allowed target may or may not connect), HTTP
  between controller and Django (a report arrives or is lost, an answer is yes or no), two TLS
  calls at the same time on one connection, data races on `channel_`.
* `send_frame` and `recv_frame` of `protocol.cpp`, which nothing calls.
* Formatting, bodies, templates; Celery, Redis, PostgreSQL, gunicorn, OpenSSL and the
  kernel, of which only what the code relies on is stated (marked external in `PROJECT.json`).
