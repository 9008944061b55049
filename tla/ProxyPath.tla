----------------------------- MODULE ProxyPath -----------------------------
(***************************************************************************)
(* From the command lines of the two tunnel programs and the bytes of one  *)
(* proxy client to the bytes its target reads: settings, handshake, the    *)
(* request's header and its rewriting, the frames on the wire next to      *)
(* those of another stream, the agent's list of targets.  What becomes of  *)
(* streams that end, clash or outlive their session is in Streams.         *)
(***************************************************************************)
EXTENDS Handshakes, ProxyRequests, Wire

CONSTANTS
    Cases,        \* options of the agent and of the controller, with what a client
                  \*   sends and what it means by it
    Proxy, Rival, \* the threads of this client and of another one
    RivalFrame,   \* what the other one sends
    ReadSize,     \* how much one recv takes, 4096 or 32768 bytes in the code
    HeaderLimit   \* how much header is too much, 64 KiB in the code

ASSUME ProxyPathAssumption ==
    Threads = {Proxy, Rival} /\ Proxy # Rival /\ ReadSize \in Nat \ {0} /\ HeaderLimit \in Nat

VARIABLES
    launch, agent, tunnel,  \* the options, and what became of them
    ask,                    \* the client's request
    phase,                  \* how far the two programs have got
    pp,                     \* what the proxy thread does next
    unread,                 \* what the client has sent and the thread not read
    buffer,                 \* what it has read of the header
    request,                \* what it made of it
    reply,                  \* what the client was told
    handled,                \* number of frames the agent has dealt with
    opening,                \* payload of an Open in a thread of its own
    granted,                \* the agent's answer to it
    dialled,                \* the endpoint the agent has connected to
    fed                     \* what the target has read

setup == <<launch, agent, tunnel, ask, phase>>
client == <<unread, buffer, request, reply>>
target == <<handled, opening, granted, dialled, fed>>
vars == <<setup, pp, client, target, wire>>

Id == 1
OpenFrame == [type |-> "Open", id |-> Id,
              payload |-> make_open_payload(request.endpoint.host, request.endpoint.port)]
DataFrame(bytes) == [type |-> "Data", id |-> Id, payload |-> bytes]
CloseFrame == [type |-> "Close", id |-> Id, payload |-> <<>>]

TypeOK ==
    /\ phase \in {"starting", "resolved", "joined", "apart"}
    /\ pp \in {"reading", "parsed", "opening", "waiting", "granted", "copying", "sending",
               "closing", "over"}
    /\ reply \in {"none", "200", "400", "502"}
    /\ granted \in {"none", "ok", "error"}
    /\ handled \in 0..Len(received)
    /\ \A t \in Threads : result[t] \in {"none", "ok", "failed"}
    /\ Len(pipe) <= Room

Init ==
    /\ \E c \in Cases : launch = c.launch /\ ask = c.ask
    /\ agent = AgentDefault /\ tunnel = TunnelDefault /\ phase = "starting"
    /\ pp = "reading" /\ unread = <<>> /\ buffer = <<>> /\ request = Bad /\ reply = "none"
    /\ handled = 0 /\ opening = <<>> /\ granted = "none" /\ dialled = Invalid /\ fed = <<>>
    /\ WireInit

-----------------------------------------------------------------------------
(* Both programs start; the agent dials.                                    *)

Start ==
    /\ phase = "starting" /\ phase' = "resolved"
    /\ agent' = parse_args(AgentProgram, AgentDefault, launch.agent)
    /\ tunnel' = parse_args(TunnelProgram, TunnelDefault, launch.tunnel)
    /\ UNCHANGED <<launch, ask, pp, client, target, wire>>

\* The client comes as soon as the agent is there; otherwise it is told 503.
Join ==
    /\ phase = "resolved"
    /\ \E yes \in BOOLEAN :
         IF /\ agent.ok /\ tunnel.ok
            /\ Secured(agent, tunnel) /\ Authentic(agent, tunnel, yes)
         THEN phase' = "joined" /\ unread' = ask.stream
         ELSE phase' = "apart" /\ UNCHANGED unread
    /\ UNCHANGED <<launch, agent, tunnel, ask, pp, buffer, request, reply, target, wire>>

-----------------------------------------------------------------------------
(* The proxy thread.                                                        *)

Pieces == 1..(IF Len(unread) < ReadSize THEN Len(unread) ELSE ReadSize)

\* read_http_header, one recv: the marker may be anywhere in what there is.
ReadHeader ==
    /\ phase = "joined" /\ pp = "reading"
    /\ \E n \in Pieces :
         LET piece == SubSeq(unread, 1, n)
             all == buffer \o piece
         IN /\ unread' = SubSeq(unread, n + 1, Len(unread))
            /\ \/ /\ HasHeader(all)
                  /\ buffer' = all
                  /\ request' = parse_proxy_request(Header(all), Leftover(all))
                  /\ pp' = IF request'.ok THEN "parsed" ELSE "over"
                  /\ reply' = IF request'.ok THEN "none" ELSE "400"
               \/ /\ ~HasHeader(all)
                  /\ buffer' = all
                  /\ pp' = IF Len(all) < HeaderLimit THEN "reading" ELSE "over"
                  /\ UNCHANGED <<request, reply>>
    /\ UNCHANGED <<setup, target, wire>>

\* recv returns 0: the connection is closed without a word.
HeaderEnds ==
    /\ phase = "joined" /\ pp = "reading" /\ unread = <<>>
    /\ pp' = "over"
    /\ UNCHANGED <<setup, client, target, wire>>

SendOpen ==
    /\ pp = "parsed"
    /\ Begin(Proxy, OpenFrame)
    /\ pp' = "opening"
    /\ UNCHANGED <<setup, client, target>>

\* 502 for a failed send, an Error, or no answer in ten seconds.
Opened ==
    /\ \/ pp = "opening" /\ result[Proxy] = "failed" /\ pp' = "over" /\ reply' = "502"
       \/ pp = "opening" /\ result[Proxy] = "ok" /\ pp' = "waiting" /\ UNCHANGED reply
       \/ pp = "waiting" /\ granted # "ok" /\ pp' = "over" /\ reply' = "502"
       \/ pp = "waiting" /\ granted = "ok" /\ pp' = "granted" /\ UNCHANGED reply
    /\ UNCHANGED <<setup, unread, buffer, request, target, wire>>

\* CONNECT is answered, and the client goes on; anything else is passed on.
Greet ==
    /\ pp = "granted" /\ request.connect
    /\ reply' = "200" /\ pp' = "copying"
    /\ unread' = unread \o ask.later
    /\ UNCHANGED <<setup, buffer, request, target, wire>>

SendInitial ==
    /\ pp = "granted" /\ ~request.connect
    /\ Begin(Proxy, DataFrame(request.data))
    /\ pp' = "sending"
    /\ UNCHANGED <<setup, client, target>>

Copy ==
    /\ pp = "copying"
    /\ \E n \in Pieces :
         /\ Begin(Proxy, DataFrame(SubSeq(unread, 1, n)))
         /\ unread' = SubSeq(unread, n + 1, Len(unread))
    /\ pp' = "sending"
    /\ UNCHANGED <<setup, buffer, request, reply, target>>

Sent ==
    /\ pp = "sending" /\ result[Proxy] # "none"
    /\ pp' = IF result[Proxy] = "ok" THEN "copying" ELSE "over"
    /\ UNCHANGED <<setup, client, target, wire>>

\* The client has closed its end.
SendClose ==
    /\ pp = "copying" /\ unread = <<>>
    /\ Begin(Proxy, CloseFrame)
    /\ pp' = "closing"
    /\ UNCHANGED <<setup, client, target>>

Closed ==
    /\ pp = "closing" /\ result[Proxy] # "none"
    /\ pp' = "over"
    /\ UNCHANGED <<setup, client, target, wire>>

RivalSends ==
    /\ phase = "joined" /\ todo[Rival] = <<>> /\ frame[Rival] # RivalFrame
    /\ Begin(Rival, RivalFrame)
    /\ UNCHANGED <<setup, pp, client, target>>

-----------------------------------------------------------------------------
(* The agent.                                                               *)

\* Bug: session_loop goes on when recv_frame has returned nothing, and deals
\* with the last frame once more.
HandleFrameAgain ==
    /\ handled < Len(received) \/ (~listening /\ received # <<>>)
    /\ handled' = handled + 1
    /\ LET f == received[IF handled < Len(received) THEN handled' ELSE Len(received)] IN
       /\ opening' = IF f.type = "Open" THEN f.payload ELSE opening
       /\ fed' = IF f.type = "Data" /\ f.id = Id /\ dialled # Invalid
                 THEN fed \o f.payload ELSE fed
    /\ UNCHANGED <<setup, pp, client, granted, dialled, wire>>

\* session_loop: an Open gets a thread, Data goes to the target of its stream.
HandleFrame ==
    /\ handled < Len(received)
    /\ handled' = handled + 1
    /\ LET f == received[handled'] IN
       /\ opening' = IF f.type = "Open" THEN f.payload ELSE opening
       /\ fed' = IF f.type = "Data" /\ f.id = Id /\ dialled # Invalid
                 THEN fed \o f.payload ELSE fed
    /\ UNCHANGED <<setup, pp, client, granted, dialled, wire>>

\* Bug: the host is enough.
AllowedHost(endpoint) ==
    \E text \in agent.allow : parse_host_port(text, 0).host = endpoint.host

Allowed(endpoint) == endpoint_to_string(endpoint.host, endpoint.port) \in agent.allow

\* handle_open: the payload, the list, the connection.
HandleOpen ==
    /\ opening # <<>> /\ granted = "none"
    /\ LET endpoint == parse_open_payload(opening) IN
       \/ /\ endpoint # Invalid /\ Allowed(endpoint)
          /\ dialled' = endpoint /\ granted' = "ok"
       \/ granted' = "error" /\ UNCHANGED dialled
    /\ UNCHANGED <<setup, pp, client, handled, opening, fed, wire>>

-----------------------------------------------------------------------------

\* session_loop reads a frame and deals with it in one thread.
Reading == handled = Len(received)

\* The sockets and their two ends: the agent's reads on only when the frame
\* before has been dealt with.
Connection ==
    /\ phase = "joined"
    /\ \/ \E t \in Threads : Write(t) \/ WriteFails(t)
       \/ Reading /\ (Read \/ ReadFails)
       \/ Break
    /\ UNCHANGED <<setup, pp, client, target>>

Next ==
    \/ Start \/ Join
    \/ ReadHeader \/ HeaderEnds \/ SendOpen \/ Opened \/ Greet \/ SendInitial \/ Copy
    \/ Sent \/ SendClose \/ Closed \/ RivalSends
    \/ HandleFrame \/ HandleOpen
    \/ Connection

Spec == Init /\ [][Next]_vars

\* The agent is in handle_data or handle_close: it writes to a target, or a
\* reply to the controller, and either may not read.
Busy == ~Reading /\ received[handled + 1].type # "Open"

\* The sockets of the two programs go on taking and giving bytes as long as
\* there is a connection and the agent reads; an Open frame only starts a thread.
FairSpec ==
    /\ Spec
    /\ \A t \in Threads : WF_vars(Connection /\ Write(t))
    /\ WF_vars(Connection /\ Read)
    /\ WF_vars(~Busy /\ HandleFrame)

-----------------------------------------------------------------------------
(* Properties.                                                              *)

\* What the last option with one of the names says, if there is one.
LastOption(options, names) ==
    LET given == {i \in DOMAIN options : options[i].name \in names}
    IN IF given = {} THEN <<>> ELSE options[CHOOSE i \in given : \A j \in given : j <= i].value

FileOf(options) ==
    LET given == {i \in DOMAIN options : options[i].name = "config"}
    IN IF given = {} THEN <<>> ELSE Files[options[CHOOSE i \in given : \A j \in given : i <= j].value]

\* The lines of the file for a key, and what the last of them says.
LinesFor(options, key) ==
    {i \in DOMAIN FileOf(options) :
       Content(FileOf(options)[i]) # <<>> /\ Key(FileOf(options)[i]) = <<key>>}
LastLine(options, key) ==
    LET lines == LinesFor(options, key)
    IN IF lines = {} THEN <<>>
       ELSE Value(FileOf(options)[CHOOSE i \in lines : \A j \in lines : j <= i])

Wins(options, n, default) ==
    LET said == LastOption(options, IF n = "secret" THEN {n, "token"} ELSE {n})
        legacy == IF n = "secret" THEN LastLine(options, "token") ELSE <<>>
    IN IF said # <<>> THEN said
       ELSE IF LastLine(options, n) # <<>> THEN LastLine(options, n)
       ELSE IF legacy # <<>> THEN legacy ELSE default

GoesBy(prog, cfg, default, options) ==
    /\ \A n \in prog.filled : cfg.value[n] = Wins(options, n, default.value[n])
    /\ \A n \in prog.endpoints : cfg.value[n] = Canonical(Wins(options, n, default.value[n]))

\* A program that starts goes by the last option, else by the last line of its
\* file, else by the default; the list has the endpoints of all its options and
\* lines and no other; a controller with TLS has both a certificate and a key.
SettingsAsGiven ==
    phase = "resolved" =>
        /\ agent.ok =>
             /\ GoesBy(AgentProgram, agent, AgentDefault, launch.agent)
             /\ agent.allow =
                  {Canonical(o.value) : o \in {p \in ToSet(launch.agent) : p.name = "allow"}}
                  \cup {Canonical(Value(FileOf(launch.agent)[i])) :
                          i \in LinesFor(launch.agent, "allow")}
        /\ tunnel.ok =>
             /\ GoesBy(TunnelProgram, tunnel, TunnelDefault, launch.tunnel)
             /\ tunnel.tls => tunnel.value["tls_cert"] # <<>> /\ tunnel.value["tls_key"] # <<>>

\* An agent that was told to use TLS, and not told otherwise, sends its frames
\* only to a host that shows a certificate for the name it dials, from an
\* issuer it trusts.
JoinsTheNamedHost ==
    phase = "joined" /\ agent.tls /\ ~agent.insecure =>
        LET certificate == Certificates[tunnel.value["tls_cert"]] IN
        /\ certificate.name = parse_host_port(agent.value["tunnel"], 0).host
        /\ certificate.issuer \in SystemIssuers
           \/ /\ agent.value["tls_ca"] \in DOMAIN Authorities
              /\ certificate.issuer = Authorities[agent.value["tls_ca"]]

\* The agent connects only to the endpoint the client asked for, in whatever
\* form it did, and only if the list has it.
DialsWhatWasAsked ==
    dialled # Invalid =>
        /\ dialled = ask.means
        /\ \E text \in agent.allow : parse_host_port(text, 0) = dialled

\* A frame that was begun arrives, unless the connection breaks or the agent is
\* held by an earlier one for ever: no reader waits for bytes that nobody
\* writes, and no sender keeps the lock.
FramesArrive ==
    <>[]Busy \/ \A t \in Threads :
        todo[t] # <<>> ~> (~link \/ (todo[t] = <<>> /\ received = sent))

\* What a target reads is what its client sent, in this order and with nothing
\* of another stream, however the header was cut into pieces: the rewritten
\* header and the body of a plain request, and what follows a CONNECT.  (Of
\* that, what came in one piece with the end of the header is lost.)
TargetReadsTheClient ==
    IsPrefix(fed, IF request.connect
                  THEN SubSeq(ask.body, Len(Leftover(buffer)) + 1, Len(ask.body)) \o ask.later
                  ELSE ask.rewritten \o ask.body)
=============================================================================
