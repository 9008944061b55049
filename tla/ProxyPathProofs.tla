--------------------------- MODULE ProxyPathProofs ---------------------------
(***************************************************************************)
(* Theorems about the path of a request: what the two programs can say to  *)
(* each other about endpoints; which host the agent joins; that it dials   *)
(* what the client asked for, and that the target reads what the client    *)
(* sent, however the bytes come and wherever the connection breaks; that a *)
(* frame whose send failed is not read; which settings the programs go by, *)
(* and that the agent dials only what its operator put on the list.        *)
(***************************************************************************)
EXTENDS ProxyPath, WireProofs, WellFoundedInduction

-----------------------------------------------------------------------------
(* Endpoints as texts, for every host and port: the controller prints one   *)
(* into an Open frame, and the agent compares them as texts.                *)

\* Looking for a separator from either end finds the only or the last one.
LEMMA FirstFound ==
    ASSUME NEW c, NEW text, NEW i \in Places(c, text),
           \A j \in Places(c, text) : i <= j, DOMAIN text \in SUBSET Int
    PROVE  FirstPlace(c, text) = i
<1>1. FirstPlace(c, text) \in Places(c, text)
      /\ \A j \in Places(c, text) : FirstPlace(c, text) <= j
  BY DEF FirstPlace
<1>2. Places(c, text) \in SUBSET Int
  BY DEF Places
<1> QED BY <1>1, <1>2, SMT

LEMMA LastFound ==
    ASSUME NEW c, NEW text, NEW i \in Places(c, text),
           \A j \in Places(c, text) : j <= i, DOMAIN text \in SUBSET Int
    PROVE  LastPlace(c, text) = i
<1>1. LastPlace(c, text) \in Places(c, text)
      /\ \A j \in Places(c, text) : j <= LastPlace(c, text)
  BY DEF LastPlace
<1>2. Places(c, text) \in SUBSET Int
  BY DEF Places
<1> QED BY <1>1, <1>2, SMT

\* A text of a host, a separator and one more token, taken apart.
LEMMA TakenApart ==
    ASSUME NEW host \in Text, NEW c \in Tokens, NEW t \in Tokens, NEW text,
           text = Joined(host, c, t)
    PROVE  /\ text \in Text /\ Len(host) \in Nat /\ Len(text) = Len(host) + 2
           /\ \A i \in 1..Len(host) : text[i] = host[i]
           /\ text[Len(host) + 1] = c /\ text[Len(host) + 2] = t
           /\ DOMAIN host = 1..Len(host) /\ DOMAIN text = 1..Len(host) + 2
           /\ Before(Len(host) + 1, text) = host
           /\ After(Len(host) + 1, text) = <<t>>
<1>1. <<c, t>> \in Seq(Tokens) /\ Len(<<c, t>>) = 2 /\ <<c, t>>[1] = c /\ <<c, t>>[2] = t
  OBVIOUS
<1>2. /\ text \in Seq(Tokens) /\ Len(text) = Len(host) + 2
      /\ \A i \in 1..Len(host) : text[i] = host[i]
      /\ text[Len(host) + 1] = c /\ text[Len(host) + 2] = t
      /\ Len(host) \in Nat /\ DOMAIN host = 1..Len(host)
  BY <1>1 DEF Text, Joined
<1>3. DOMAIN text = 1..Len(host) + 2
  BY <1>2
<1>4. Before(Len(host) + 1, text) = host
  <2>1. SubSeq(text, 1, Len(host) + 1 - 1) \in Seq(Tokens)
        /\ Len(SubSeq(text, 1, Len(host) + 1 - 1)) = Len(host)
        /\ \A i \in 1..Len(host) : SubSeq(text, 1, Len(host) + 1 - 1)[i] = text[i]
    BY <1>2
  <2> QED BY <2>1, <1>2 DEF Before, Text
<1>5. After(Len(host) + 1, text) = <<t>>
  <2>1. After(Len(host) + 1, text) = SubSeq(text, Len(host) + 2, Len(host) + 2)
    BY <1>2 DEF After
  <2>2. SubSeq(text, Len(host) + 2, Len(host) + 2) \in Seq(Tokens)
        /\ Len(SubSeq(text, Len(host) + 2, Len(host) + 2)) = 1
        /\ SubSeq(text, Len(host) + 2, Len(host) + 2)[1] = text[Len(host) + 2]
    BY <1>2
  <2> QED BY <2>1, <2>2, <1>2
<1> QED BY <1>2, <1>3, <1>4, <1>5 DEF Text

\* What std::to_string prints of a port is read back as that port.
LEMMA PortReadBack ==
    ASSUME NEW port \in Ports, port \in DOMAIN Decimal, NEW default
    PROVE  /\ Decimal[port] \in Tokens /\ Decimal[port] \notin Separators
           /\ Port(<<Decimal[port]>>, default) = port /\ port # 0
<1>1. Decimal[port] \in DOMAIN Numeral /\ Numeral[Decimal[port]] = port
  BY DecimalAssumption
<1>2. Decimal[port] \in Tokens /\ Decimal[port] \notin Separators
  BY <1>1, NumeralAssumption
<1>3. Stoi(<<Decimal[port]>>) = port
  BY <1>1 DEF Stoi
<1>4. port # 0
  BY DEF Ports
<1> QED BY <1>2, <1>3, <1>4 DEF Port

\* The agent reads from an Open frame the endpoint the controller put there, if
\* the host has no line feed.
THEOREM OpenPayloadReadBack ==
    ASSUME NEW host \in Text, host # <<>>, Places("\n", host) = {},
           NEW port \in Ports, port \in DOMAIN Decimal
    PROVE  parse_open_payload(make_open_payload(host, port)) = Endpoint(host, port)
<1> SUFFICES ASSUME NEW text, text = Joined(host, "\n", Decimal[port])
             PROVE  parse_open_payload(text) = Endpoint(host, port)
  BY DEF make_open_payload
<1>1. Decimal[port] \in Tokens /\ Decimal[port] \notin Separators
      /\ Port(<<Decimal[port]>>, 0) = port
  BY PortReadBack
<1>2. /\ text \in Text
      /\ \A i \in 1..Len(host) : text[i] = host[i]
      /\ text[Len(host) + 1] = "\n" /\ text[Len(host) + 2] = Decimal[port]
      /\ DOMAIN text = 1..Len(host) + 2
      /\ Before(Len(host) + 1, text) = host
      /\ After(Len(host) + 1, text) = <<Decimal[port]>>
  <2>1. "\n" \in Tokens
    BY TokensAssumption DEF Separators
  <2> QED BY <1>1, <2>1, TakenApart, SMTT(30)
<1>3. Len(host) \in Nat /\ DOMAIN host = 1..Len(host)
  BY <1>1, <1>2 DEF Text
<1>4. Decimal[port] # "\n"
  BY <1>1 DEF Separators
<1>5. Places("\n", text) = {Len(host) + 1}
  BY <1>2, <1>3, <1>4 DEF Places
<1>6. FirstPlace("\n", text) = Len(host) + 1
  <2>1. DOMAIN text \in SUBSET Int
    BY <1>2, <1>3
  <2>2. \A j \in Places("\n", text) : Len(host) + 1 <= j
    BY <1>5, <1>3
  <2> QED BY <1>5, <2>1, <2>2, FirstFound, Zenon
<1>7. port # 0
  BY PortReadBack
<1> QED
  BY <1>1, <1>2, <1>5, <1>6, <1>7 DEF parse_open_payload

\* The text of an endpoint is read back as that endpoint, whatever the default
\* port and however many colons the host has, unless it starts with a bracket.
THEOREM EndpointReadBack ==
    ASSUME NEW host \in Text, host # <<>>, host[1] # "[",
           NEW port \in Ports, port \in DOMAIN Decimal, NEW default
    PROVE  parse_host_port(endpoint_to_string(host, port), default) = Endpoint(host, port)
<1> SUFFICES ASSUME NEW text, text = Joined(host, ":", Decimal[port])
             PROVE  parse_host_port(text, default) = Endpoint(host, port)
  BY DEF endpoint_to_string
<1>1. Decimal[port] \in Tokens /\ Decimal[port] \notin Separators
      /\ Port(<<Decimal[port]>>, default) = port
  BY PortReadBack
<1>2. /\ text \in Text
      /\ \A i \in 1..Len(host) : text[i] = host[i]
      /\ text[Len(host) + 1] = ":" /\ text[Len(host) + 2] = Decimal[port]
      /\ DOMAIN text = 1..Len(host) + 2 /\ Len(text) = Len(host) + 2
      /\ Before(Len(host) + 1, text) = host
      /\ After(Len(host) + 1, text) = <<Decimal[port]>>
  <2>1. ":" \in Tokens
    BY TokensAssumption DEF Separators
  <2> QED BY <1>1, <2>1, TakenApart, SMTT(30)
<1>3. Len(host) \in Nat \ {0}
  BY DEF Text
<1>4. Decimal[port] # ":"
  BY <1>1 DEF Separators
<1>5. Len(host) + 1 \in Places(":", text) /\ \A j \in Places(":", text) : j <= Len(host) + 1
  BY <1>2, <1>3, <1>4 DEF Places
<1>6. LastPlace(":", text) = Len(host) + 1
  <2>1. DOMAIN text \in SUBSET Int
    BY <1>2, <1>3
  <2> QED BY <1>5, <2>1, LastFound, Zenon
<1>7. Head(text) # "["
  BY <1>2, <1>3 DEF Text
<1>8. Cut(text) = <<host, <<Decimal[port]>>>>
  BY <1>2, <1>5, <1>6, <1>7 DEF Cut, CutAtLast
<1>9. port # 0
  BY PortReadBack
<1> QED
  BY <1>1, <1>8, <1>9 DEF parse_host_port

\* What is in front of the last colon of such a text, and behind it.
LEMMA HostAndToken ==
    ASSUME NEW host \in Text, NEW token \in Tokens, NEW text, text = Joined(host, ":", token)
    PROVE  /\ Len(host) \in Nat /\ Len(text) = Len(host) + 2
           /\ Before(Len(host) + 1, text) = host /\ text[Len(host) + 2] = token
<1>1. ":" \in Tokens
  BY TokensAssumption DEF Separators
<1> QED BY <1>1, TakenApart

\* Two endpoints have the same text only if they are the same: what is looked
\* up in the agent's list as a text stands for one host and one port.
THEOREM TextNamesOneEndpoint ==
    ASSUME NEW h1 \in Text, NEW h2 \in Text,
           NEW p1 \in Ports, p1 \in DOMAIN Decimal, NEW p2 \in Ports, p2 \in DOMAIN Decimal,
           endpoint_to_string(h1, p1) = endpoint_to_string(h2, p2)
    PROVE  h1 = h2 /\ p1 = p2
<1>1. Decimal[p1] \in Tokens /\ Decimal[p2] \in Tokens
  BY PortReadBack
<1>2. ASSUME NEW text, text = Joined(h1, ":", Decimal[p1]),
             NEW other, other = Joined(h2, ":", Decimal[p2]), text = other
      PROVE  h1 = h2 /\ p1 = p2
  <2>1. /\ Len(h1) \in Nat /\ Len(text) = Len(h1) + 2
        /\ Before(Len(h1) + 1, text) = h1 /\ text[Len(h1) + 2] = Decimal[p1]
    <3>1. text = Joined(h1, ":", Decimal[p1])
      BY <1>2
    <3> QED BY <3>1, <1>1, HostAndToken
  <2>2. /\ Len(h2) \in Nat /\ Len(other) = Len(h2) + 2
        /\ Before(Len(h2) + 1, other) = h2 /\ other[Len(h2) + 2] = Decimal[p2]
    <3>1. other = Joined(h2, ":", Decimal[p2])
      BY <1>2
    <3> QED BY <3>1, <1>1, HostAndToken
  <2>3. Len(h1) = Len(h2)
    BY <1>2, <2>1, <2>2
  <2> QED BY <1>2, <2>1, <2>2, <2>3, DecimalAssumption
<1> QED BY <1>2 DEF endpoint_to_string

-----------------------------------------------------------------------------
(* The connection on the path does what one direction of it does by itself. *)

LEMMA ConnectionIsWire ==
    Connection => phase = "joined" /\ WireNext /\ UNCHANGED <<setup, pp, client, target>>
BY DEF Connection, WireNext

-----------------------------------------------------------------------------
(* Settings in force, and the host the agent joins.                         *)

\* The frames of an agent that uses TLS and was not told otherwise go only to a
\* host whose certificate is for the name the agent dials, from an issuer it
\* trusts (Channel::client, channel.cpp).
THEOREM NamedHostIsJoined == Spec => []JoinsTheNamedHost
<1> DEFINE Admitted == phase = "joined" => Secured(agent, tunnel)
<1>1. Init => Admitted
  BY DEF Init
<1>2. Admitted /\ [Next]_vars => Admitted'
  <2> SUFFICES ASSUME Admitted, [Next]_vars PROVE Admitted'
    OBVIOUS
  <2>1. ASSUME UNCHANGED <<phase, agent, tunnel>> PROVE Admitted'
    BY <2>1
  <2>2. CASE Start
    BY <2>2 DEF Start
  <2>3. CASE Join
    BY <2>3 DEF Join
  <2>4. CASE UNCHANGED vars
    BY <2>1, <2>4 DEF vars, setup
  <2>5. CASE Next /\ ~Start /\ ~Join
    <3>1. UNCHANGED setup
      BY <2>5, ConnectionIsWire
         DEF Next, ReadHeader, HeaderEnds, SendOpen, Opened, Greet, SendInitial, Copy,
                  Sent, SendClose, Closed, RivalSends, HandleFrame, HandleOpen
    <3> QED BY <2>1, <3>1 DEF setup
  <2> QED BY <2>2, <2>3, <2>4, <2>5
<1>3. Admitted => JoinsTheNamedHost
  BY DEF JoinsTheNamedHost, Secured, Trusts
<1> QED BY <1>1, <1>2, <1>3, PTL DEF Spec

-----------------------------------------------------------------------------
(* Sequences of bytes.                                                      *)

\* c is b behind a.
Behind(a, b, c) ==
    /\ c \in Seq(Bytes) /\ Len(c) = Len(a) + Len(b) /\ Len(a) \in Nat /\ Len(b) \in Nat
    /\ \A i \in 1..Len(a) : c[i] = a[i]
    /\ \A i \in 1..Len(b) : c[Len(a) + i] = b[i]

LEMMA Both ==
    ASSUME NEW a \in Seq(Bytes), NEW b \in Seq(Bytes)
    PROVE  Behind(a, b, a \o b)
BY DEF Behind

\* b and c are the first n of a, and the others.
Halved(a, n, b, c) ==
    /\ b \in Seq(Bytes) /\ Len(b) = n /\ \A i \in 1..n : b[i] = a[i]
    /\ c \in Seq(Bytes) /\ Len(c) = Len(a) - n
    /\ \A i \in 1..Len(a) - n : c[i] = a[n + i]

LEMMA Halves ==
    ASSUME NEW a \in Seq(Bytes), NEW n \in 0..Len(a)
    PROVE  Halved(a, n, SubSeq(a, 1, n), SubSeq(a, n + 1, Len(a)))
BY DEF Halved

\* Sequences that agree everywhere are the same.
LEMMA Same ==
    ASSUME NEW a \in Seq(Bytes), NEW b \in Seq(Bytes), Len(a) = Len(b),
           \A i \in 1..Len(a) : a[i] = b[i]
    PROVE  a = b
OBVIOUS

\* Two cuts of one sequence, given by what is where.
CutElsewhere(a, b, n, d, e) ==
    /\ Len(d) = Len(a) + n /\ Len(e) = Len(b) - n
    /\ \A i \in 1..Len(a) : d[i] = a[i]
    /\ \A i \in 1..n : d[Len(a) + i] = b[i]
    /\ \A i \in 1..Len(b) - n : e[i] = b[n + i]

LEMMA CutsAgree ==
    ASSUME NEW a \in Seq(Bytes), NEW b \in Seq(Bytes), NEW n \in 0..Len(b),
           NEW d \in Seq(Bytes), NEW e \in Seq(Bytes), CutElsewhere(a, b, n, d, e)
    PROVE  d \o e = a \o b
<1>1. Len(a) \in Nat /\ Len(b) \in Nat /\ n \in Nat /\ Len(d) \in Nat /\ Len(e) \in Nat
  OBVIOUS
<1>2. PICK g, h : Behind(d, e, g) /\ Behind(a, b, h) /\ g = d \o e /\ h = a \o b
  BY Both
<1>3. /\ g \in Seq(Bytes) /\ Len(g) = Len(d) + Len(e)
      /\ \A i \in 1..Len(d) : g[i] = d[i]
      /\ \A i \in 1..Len(e) : g[Len(d) + i] = e[i]
  BY <1>2 DEF Behind
<1>4. /\ h \in Seq(Bytes) /\ Len(h) = Len(a) + Len(b)
      /\ \A i \in 1..Len(a) : h[i] = a[i]
      /\ \A i \in 1..Len(b) : h[Len(a) + i] = b[i]
  BY <1>2 DEF Behind
<1>5. /\ Len(d) = Len(a) + n /\ Len(e) = Len(b) - n
      /\ \A i \in 1..Len(a) : d[i] = a[i]
      /\ \A i \in 1..n : d[Len(a) + i] = b[i]
      /\ \A i \in 1..Len(b) - n : e[i] = b[n + i]
  BY DEF CutElsewhere
<1>6. Len(g) = Len(h)
  BY <1>1, <1>3, <1>4, <1>5
<1>7. ASSUME NEW i \in 1..Len(g)
      PROVE  g[i] = h[i]
  <2>1. CASE i \in 1..Len(a)
    <3>1. i \in 1..Len(d)
      BY <2>1, <1>1, <1>5
    <3> QED BY <2>1, <3>1, <1>3, <1>4, <1>5
  <2>2. ASSUME NEW j \in 1..n, i = Len(a) + j
        PROVE  g[i] = h[i]
    <3>1. i \in 1..Len(d) /\ j \in 1..Len(b)
      BY <2>2, <1>1, <1>5
    <3>2. d[i] = b[j] /\ h[i] = b[j]
      BY <2>2, <3>1, <1>4, <1>5
    <3> QED BY <3>1, <3>2, <1>3
  <2>3. ASSUME NEW j \in 1..Len(b) - n, i = Len(a) + (n + j)
        PROVE  g[i] = h[i]
    <3>1. j \in 1..Len(e) /\ n + j \in 1..Len(b) /\ i = Len(d) + j
      BY <2>3, <1>1, <1>5
    <3>2. g[i] = b[n + j]
      BY <3>1, <1>3, <1>5
    <3> QED BY <2>3, <3>1, <3>2, <1>4
  <2>4. \/ i \in 1..Len(a)
        \/ i - Len(a) \in 1..n /\ i = Len(a) + (i - Len(a))
        \/ i - (Len(a) + n) \in 1..Len(b) - n /\ i = Len(a) + (n + (i - (Len(a) + n)))
    <3>1. i \in 1..(Len(a) + n) + (Len(b) - n)
      BY <1>3, <1>5
    <3> QED BY <3>1, <1>1
  <2> QED BY <2>1, <2>2, <2>3, <2>4
<1> QED BY <1>2, <1>3, <1>4, <1>6, <1>7, Same

\* What is taken from the front of b goes to the end of a.
LEMMA MovedOn ==
    ASSUME NEW a \in Seq(Bytes), NEW b \in Seq(Bytes), NEW n \in 0..Len(b)
    PROVE  /\ a \o SubSeq(b, 1, n) \in Seq(Bytes) /\ SubSeq(b, n + 1, Len(b)) \in Seq(Bytes)
           /\ (a \o SubSeq(b, 1, n)) \o SubSeq(b, n + 1, Len(b)) = a \o b
<1>1. PICK d, e, f : f = SubSeq(b, 1, n) /\ d = a \o f /\ e = SubSeq(b, n + 1, Len(b))
  OBVIOUS
<1>2. Halved(b, n, f, e)
  BY <1>1, Halves
<1>3. f \in Seq(Bytes) /\ e \in Seq(Bytes) /\ Len(f) = n
  BY <1>2 DEF Halved
<1>4. Behind(a, f, d)
  BY <1>1, <1>3, Both
<1>5. d \in Seq(Bytes) /\ CutElsewhere(a, b, n, d, e)
  BY <1>2, <1>3, <1>4 DEF Halved, Behind, CutElsewhere
<1>6. d \o e = a \o b
  BY <1>3, <1>5, CutsAgree
<1> QED BY <1>1, <1>3, <1>5, <1>6

\* What is behind the front is what was put there.
LEMMA BackAgain ==
    ASSUME NEW a \in Seq(Bytes), NEW b \in Seq(Bytes), NEW c, Behind(a, b, c)
    PROVE  SubSeq(c, Len(a) + 1, Len(c)) = b
<1>1. PICK d, e : d = SubSeq(c, 1, Len(a)) /\ e = SubSeq(c, Len(a) + 1, Len(c))
  OBVIOUS
<1>2. c \in Seq(Bytes) /\ Len(a) \in 0..Len(c) /\ Len(c) = Len(a) + Len(b) /\ Len(b) \in Nat
  BY DEF Behind
<1>3. Halved(c, Len(a), d, e)
  BY <1>1, <1>2, Halves
<1>4. e \in Seq(Bytes) /\ Len(e) = Len(b) /\ \A i \in 1..Len(b) : e[i] = c[Len(a) + i]
  BY <1>2, <1>3 DEF Halved
<1>5. \A i \in 1..Len(b) : c[Len(a) + i] = b[i]
  BY DEF Behind
<1>6. e = b
  BY <1>4, <1>5, Same
<1> QED BY <1>1, <1>6

-----------------------------------------------------------------------------
(* The header, however it is cut.                                           *)

\* There is a least.
LEMMA LeastOf ==
    ASSUME NEW T \in SUBSET Nat, T # {}
    PROVE  \E i \in T : \A j \in T : i <= j
<1>1. PICK i \in T : \A j \in T : ~(<<j, i>> \in OpToRel(<, Nat))
  BY NatLessThanWellFounded, WFMin
<1>2. \A j \in T : ~(j < i)
  BY <1>1 DEF OpToRel
<1> QED BY <1>2

\* Where the header of a stream ends.
LEMMA EndOfHeader ==
    ASSUME NEW a \in Seq(Bytes), HasHeader(a)
    PROVE  /\ HeaderEnd(a) - 3 \in Markers(a) /\ \A j \in Markers(a) : HeaderEnd(a) - 3 <= j
           /\ HeaderEnd(a) \in 0..Len(a)
<1>1. Len(a) \in Nat /\ Markers(a) \in SUBSET Nat /\ Markers(a) # {}
  BY DEF HasHeader, Markers
<1>2. PICK i \in Markers(a) : i = (CHOOSE k \in Markers(a) : \A j \in Markers(a) : k <= j)
                              /\ \A j \in Markers(a) : i <= j
  BY <1>1, LeastOf
<1>3. HeaderEnd(a) = 3 + i
  BY <1>2 DEF HeaderEnd
<1>4. i \in 1..Len(a) - 3
  BY DEF Markers
<1> QED BY <1>1, <1>2, <1>3, <1>4

\* What a marker is depends on what it covers.
LEMMA SameMarkers ==
    ASSUME NEW a \in Seq(Bytes), NEW b \in Seq(Bytes), NEW c, Behind(a, b, c),
           NEW i \in 1..Len(a) - 3
    PROVE  i \in Markers(c) <=> i \in Markers(a)
<1>1. /\ c \in Seq(Bytes) /\ Len(c) = Len(a) + Len(b) /\ Len(a) \in Nat /\ Len(b) \in Nat
      /\ \A k \in 1..Len(a) : c[k] = a[k]
  BY DEF Behind
<1>2. i \in Nat /\ i >= 1 /\ i + 3 <= Len(a) /\ i + 3 <= Len(c) /\ i \in 1..Len(c) - 3
  BY <1>1
<1>3. PICK d, e : d = SubSeq(a, i, i + 3) /\ e = SubSeq(c, i, i + 3)
  OBVIOUS
<1>4. d \in Seq(Bytes) /\ Len(d) = 4 /\ \A k \in 1..4 : d[k] = a[i + k - 1]
  BY <1>1, <1>2, <1>3
<1>5. e \in Seq(Bytes) /\ Len(e) = 4 /\ \A k \in 1..4 : e[k] = c[i + k - 1]
  BY <1>1, <1>2, <1>3
<1>6. \A k \in 1..4 : i + k - 1 \in 1..Len(a)
  BY <1>1, <1>2
<1>7. d = e
  <2>1. \A k \in 1..4 : d[k] = e[k]
    BY <1>1, <1>4, <1>5, <1>6
  <2>2. \A k \in 1..Len(d) : d[k] = e[k]
    BY <1>4, <2>1
  <2> QED BY <1>4, <1>5, <2>2, Same
<1> QED BY <1>2, <1>3, <1>7 DEF Markers

\* A header that is there is the header of all that follows, too.
LEMMA HeaderOfWhole ==
    ASSUME NEW a \in Seq(Bytes), NEW b \in Seq(Bytes), NEW c, Behind(a, b, c), HasHeader(a)
    PROVE  /\ HasHeader(c) /\ Header(c) = Header(a) /\ Leftover(a) \in Seq(Bytes)
           /\ Behind(Leftover(a), b, Leftover(c))
<1> DEFINE h == HeaderEnd(a)
<1>1. /\ c \in Seq(Bytes) /\ Len(c) = Len(a) + Len(b) /\ Len(a) \in Nat /\ Len(b) \in Nat
      /\ \A k \in 1..Len(a) : c[k] = a[k]
      /\ \A k \in 1..Len(b) : c[Len(a) + k] = b[k]
  BY DEF Behind
<1>2. /\ h - 3 \in Markers(a) /\ \A j \in Markers(a) : h - 3 <= j
      /\ h \in 0..Len(a) /\ h - 3 \in 1..Len(a) - 3
  BY EndOfHeader DEF Markers
<1>3. h - 3 \in Markers(c)
  BY <1>2, SameMarkers
<1>4. \A j \in Markers(c) : h - 3 <= j
  <2>1. TAKE j \in Markers(c)
  <2>2. j \in 1..Len(c) - 3
    BY DEF Markers
  <2>3. CASE j <= Len(a) - 3
    <3>1. j \in Markers(a)
      BY <1>1, <2>2, <2>3, SameMarkers
    <3> QED BY <3>1, <1>2
  <2>4. CASE ~(j <= Len(a) - 3)
    BY <1>1, <1>2, <2>2, <2>4
  <2> QED BY <2>3, <2>4
<1>5. HasHeader(c)
  BY <1>3 DEF HasHeader
<1>6. HeaderEnd(c) = h
  <2>1. HeaderEnd(c) - 3 \in Markers(c) /\ HeaderEnd(c) - 3 <= h - 3 /\ HeaderEnd(c) \in Nat
    BY <1>1, <1>3, <1>5, EndOfHeader
  <2>2. h - 3 <= HeaderEnd(c) - 3
    BY <1>4, <2>1
  <2> QED BY <1>2, <2>1, <2>2
<1> HIDE DEF h
<1>7. PICK d, e, f, g : /\ d = SubSeq(a, 1, h) /\ e = SubSeq(a, h + 1, Len(a))
                        /\ f = SubSeq(c, 1, h) /\ g = SubSeq(c, h + 1, Len(c))
  OBVIOUS
<1>8. h \in 0..Len(a) /\ h \in 0..Len(c)
  BY <1>1, <1>2
<1>9. Halved(a, h, d, e) /\ Halved(c, h, f, g)
  BY <1>1, <1>7, <1>8, Halves
<1>10. d = f
  <2>1. /\ d \in Seq(Bytes) /\ Len(d) = h /\ \A i \in 1..h : d[i] = a[i]
        /\ f \in Seq(Bytes) /\ Len(f) = h /\ \A i \in 1..h : f[i] = c[i]
    BY <1>9 DEF Halved
  <2>2. \A i \in 1..h : i \in 1..Len(a)
    BY <1>1, <1>8
  <2> QED BY <1>1, <2>1, <2>2, Same
<1>11. Behind(e, b, g)
  <2>1. /\ e \in Seq(Bytes) /\ Len(e) = Len(a) - h /\ \A i \in 1..Len(a) - h : e[i] = a[h + i]
        /\ g \in Seq(Bytes) /\ Len(g) = Len(c) - h /\ \A i \in 1..Len(c) - h : g[i] = c[h + i]
    BY <1>9 DEF Halved
  <2>2. Len(g) = Len(e) + Len(b) /\ Len(e) \in Nat
    BY <1>1, <1>8, <2>1
  <2>3. ASSUME NEW i \in 1..Len(e) PROVE g[i] = e[i]
    <3>1. i \in 1..Len(a) - h /\ i \in 1..Len(c) - h /\ h + i \in 1..Len(a)
      BY <1>1, <1>8, <2>1
    <3> QED BY <1>1, <2>1, <3>1
  <2>4. ASSUME NEW i \in 1..Len(b) PROVE g[Len(e) + i] = b[i]
    <3>1. Len(e) + i \in 1..Len(c) - h /\ h + (Len(e) + i) = Len(a) + i
      BY <1>1, <1>8, <2>1
    <3> QED BY <1>1, <2>1, <3>1
  <2> QED BY <1>1, <2>1, <2>2, <2>3, <2>4 DEF Behind
<1>12. Header(a) = d /\ Leftover(a) = e /\ Header(c) = f /\ Leftover(c) = g
  BY <1>6, <1>7 DEF Header, Leftover, h
<1>13. e \in Seq(Bytes)
  BY <1>9 DEF Halved
<1> QED BY <1>5, <1>10, <1>11, <1>12, <1>13

-----------------------------------------------------------------------------
(* What the theorems about the path assume of the requests and of the other *)
(* client.                                                                  *)

\* An endpoint that an Open frame and an entry of the list can name.
Sayable(e) ==
    /\ e \in [host : Text, port : Ports] /\ e.port \in DOMAIN Decimal
    /\ e.host # <<>> /\ e.host[1] # "[" /\ Places("\n", e.host) = {}

\* What the client means is what its header says when it is read at once.
Understood(a) ==
    /\ a.stream \in Seq(Bytes) /\ a.body \in Seq(Bytes)
    /\ a.later \in Seq(Bytes) /\ a.rewritten \in Seq(Bytes)
    /\ HasHeader(a.stream) =>
         LET lines == Lines(Header(a.stream)) IN
         /\ Leftover(a.stream) = a.body
         /\ parse_proxy_request(Header(a.stream), <<>>).ok =>
              /\ Destination(lines) = a.means /\ Sayable(a.means)
              /\ Head(lines).method # "CONNECT" => Rewritten(lines, a.means) = a.rewritten

\* Data of the client's own stream.
Mine(f) == f.type = "Data" /\ f.id = Id

\* Frames can carry all this, and the other client sends on another stream.
FramesFit ==
    /\ {"Open", "Data", "Close"} \subseteq Types /\ Id \in Ids /\ Tokens \subseteq Bytes
    /\ RivalFrame \in WireFrame /\ RivalFrame.type # "Open" /\ ~Mine(RivalFrame)

-----------------------------------------------------------------------------
(* The inductive invariant.                                                 *)

\* What the target may read at most.
Whole == IF request.connect
         THEN SubSeq(ask.body, Len(Leftover(buffer)) + 1, Len(ask.body)) \o ask.later
         ELSE ask.rewritten \o ask.body

\* Nothing has happened before the agent is there.
Untouched ==
    /\ pp = "reading" /\ buffer = <<>> /\ request = Bad /\ handled = 0 /\ opening = <<>>
    /\ granted = "none" /\ dialled = Invalid /\ fed = <<>> /\ sent = <<>> /\ received = <<>>
    /\ \A t \in Threads : todo[t] = <<>>

\* Steps of the proxy thread at which it has a request and goes on with it.
HasRequest == pp \in {"parsed", "opening", "waiting", "granted", "copying", "sending", "closing"}

\* What is read and what is not are the client's stream; the request is the one
\* that the header of the whole stream makes.
Heard ==
    /\ \E c \in Cases : ask = c.ask
    /\ phase = "joined" \/ Untouched
    /\ pp = "reading" => request = Bad
    /\ pp = "reading" /\ phase = "joined" =>
         /\ buffer \in Seq(Bytes) /\ unread \in Seq(Bytes) /\ buffer \o unread = ask.stream
    /\ HasRequest => request.ok
    /\ IF request.ok THEN request.endpoint = ask.means /\ Sayable(ask.means) ELSE request = Bad
    /\ Whole \in Seq(Bytes)

\* The frame a thread is writing is the one its step calls for.
Writes ==
    /\ todo[Proxy] # <<>> =>
         /\ result[Proxy] = "none"
         /\ \/ pp = "opening" /\ frame[Proxy] = OpenFrame
            \/ pp = "sending" /\ frame[Proxy] = DataFrame(frame[Proxy].payload)
            \/ pp = "closing" /\ frame[Proxy] = CloseFrame
    /\ todo[Rival] # <<>> => frame[Rival] = RivalFrame

\* What arrived is what was sent, and the only Open frame is the request's.
Opens ==
    /\ Len(received) <= Len(sent) /\ handled \in 0..Len(received)
    /\ \A k \in 1..Len(received) : received[k] = sent[k]
    /\ \A k \in 1..Len(sent) : sent[k].type = "Open" => request.ok /\ sent[k] = OpenFrame
    /\ opening # <<>> => request.ok /\ opening = OpenFrame.payload
    /\ dialled # Invalid => request.ok /\ dialled = request.endpoint /\ Allowed(dialled)

\* Data is sent only after the agent's answer, when it has the target.
Granted ==
    /\ pp \in {"granted", "copying", "sending", "closing"} => granted = "ok"
    /\ granted = "ok" => dialled # Invalid
    /\ \A k \in 1..Len(sent) : Mine(sent[k]) => granted = "ok"

\* p is what Whole has behind its first n.
Piece(p, n) ==
    /\ p \in Seq(Bytes) /\ n + Len(p) <= Len(Whole)
    /\ \A i \in 1..Len(p) : p[i] = Whole[n + i]

\* What is left to read is what Whole has behind its first n.
Left(n) == Piece(unread, n) /\ n + Len(unread) = Len(Whole)

\* The data frames carry Whole piece by piece, up to c[k] with the k-th frame;
\* the target has read what those carried that the agent has dealt with.
Carried(c) ==
    /\ c \in [Nat -> Nat]
    /\ \A k \in 1..Len(sent) :
         IF Mine(sent[k])
         THEN Piece(sent[k].payload, c[k - 1]) /\ c[k] = c[k - 1] + Len(sent[k].payload)
         ELSE c[k] = c[k - 1]
    /\ Piece(fed, 0) /\ Len(fed) = c[handled]

\* What the client has still to say goes on where the last frame ended.
GoesOn(c) ==
    LET n == c[Len(sent)] IN
    /\ pp \in {"reading", "parsed", "opening", "waiting", "granted"} =>
         \A k \in 0..Len(sent) : c[k] = 0
    /\ pp \in {"parsed", "opening", "waiting", "granted"} =>
         IF request.connect THEN unread \in Seq(Bytes) /\ unread \o ask.later = Whole
         ELSE request.data \in Seq(Bytes) /\ unread \in Seq(Bytes) /\ request.data \o unread = Whole
    /\ pp = "copying" => Left(n)
    /\ pp = "sending" /\ todo[Proxy] = <<>> /\ result[Proxy] = "ok" => Left(n)
    /\ pp = "sending" /\ todo[Proxy] # <<>> =>
         Piece(frame[Proxy].payload, n) /\ Left(n + Len(frame[Proxy].payload))

\* All of it.
Tracked == \E c : Carried(c) /\ GoesOn(c)
Path == WireInv /\ Results /\ Heard /\ Writes /\ Opens /\ Granted /\ Tracked

-----------------------------------------------------------------------------
(* What the steps of the wire do to frames.                                 *)

Calm ==
    /\ UNCHANGED <<frame, result, sent, received>>
    /\ \A t \in Threads : todo'[t] = <<>> <=> todo[t] = <<>>

\* A send that comes to its end, well or not.
Ends(t, outcome) ==
    /\ todo[t] # <<>> /\ todo'[t] = <<>> /\ \A u \in Threads \ {t} : todo'[u] = todo[u]
    /\ result' = [result EXCEPT ![t] = outcome] /\ UNCHANGED <<frame, received>>
Wrote(t) == Ends(t, "ok") /\ sent' = Append(sent, frame[t])
GaveUp(t) == Ends(t, "failed") /\ UNCHANGED sent

Arrives == Channel!Receive /\ UNCHANGED <<todo, frame, result>>

LEMMA WireEffect ==
    ASSUME WireInv, WireNext
    PROVE  Calm \/ Arrives \/ \E t \in Threads : Wrote(t) \/ GaveUp(t)
<1>1. todo \in [Threads -> Seq(WireByte)]
  BY DEF WireInv, Typed
<1>2. ASSUME NEW t \in Threads, Write(t)
      PROVE  Calm \/ Wrote(t)
  <2>1. PICK n \in 1..Len(todo[t]) :
          /\ todo' = [todo EXCEPT ![t] = SubSeq(todo[t], n + 1, Len(todo[t]))]
          /\ IF n = Len(todo[t])
             THEN sent' = Append(sent, frame[t]) /\ result' = [result EXCEPT ![t] = "ok"]
             ELSE UNCHANGED <<sent, result>>
    BY <1>2 DEF Write
  <2>2. UNCHANGED <<frame, received>>
    BY <1>2 DEF Write, reading
  <2>3. todo[t] \in Seq(WireByte) /\ Len(todo[t]) \in Nat /\ todo[t] # <<>>
    BY <1>1
  <2>4. PICK b : b = SubSeq(todo[t], n + 1, Len(todo[t]))
    OBVIOUS
  <2>5. todo'[t] = b /\ (\A u \in Threads \ {t} : todo'[u] = todo[u])
    BY <1>1, <2>1, <2>4
  <2>6. b = <<>> <=> n = Len(todo[t])
    <3>1. \A d \in Seq(WireByte) : \A k \in 1..Len(d) :
            SubSeq(d, k + 1, Len(d)) \in Seq(WireByte)
            /\ Len(SubSeq(d, k + 1, Len(d))) = Len(d) - k
      OBVIOUS
    <3>2. b \in Seq(WireByte) /\ Len(b) = Len(todo[t]) - n
      BY <2>3, <2>4, <3>1
    <3> QED BY <2>3, <3>2
  <2>7. CASE n = Len(todo[t])
    BY <2>1, <2>2, <2>3, <2>5, <2>6, <2>7 DEF Wrote, Ends
  <2>8. CASE n # Len(todo[t])
    BY <2>1, <2>2, <2>3, <2>5, <2>6, <2>8 DEF Calm
  <2> QED BY <2>7, <2>8
<1>3. ASSUME NEW t \in Threads, WriteFails(t)
      PROVE  GaveUp(t)
  BY <1>1, <1>3 DEF WriteFails, GaveUp, Ends, reading
<1>4. ASSUME Read
      PROVE  Calm \/ Arrives
  BY <1>4, ReadKeeps DEF Read, Calm, Arrives, sending, Channel!Receive
<1>5. ASSUME ReadFails \/ Break
      PROVE  Calm
  BY <1>5 DEF ReadFails, Break, Calm, sending, reading
<1> QED BY <1>2, <1>3, <1>4, <1>5 DEF WireNext

\* A send that begins, or fails at once because the session is no longer used.
Begun(t, f) ==
    /\ \A u \in Threads : todo[u] = <<>>
    /\ \A u \in Threads \ {t} : todo'[u] = <<>> /\ result'[u] = result[u]
    /\ frame'[t] = f
    /\ \/ todo'[t] # <<>> /\ result'[t] = "none"
       \/ todo'[t] = <<>> /\ result'[t] = "failed"
    /\ UNCHANGED <<sent, received>>

LEMMA BeginEffect ==
    ASSUME WireInv, Results, NEW t \in Threads, NEW f \in WireFrame, Begin(t, f)
    PROVE  Begun(t, f) /\ Results'
<1>1. todo \in [Threads -> Seq(WireByte)] /\ frame \in [Threads -> WireFrame]
  BY DEF WireInv, Typed
<1>2. Encode(f) # <<>>
  <2>1. Encode(f) \in Seq(WireByte) /\ Len(Encode(f)) = Size(f) /\ Size(f) \in Nat /\ Size(f) >= 2
    BY Encoded, SizeIs
  <2> QED BY <2>1
<1>3. UNCHANGED <<sent, received>>
  BY DEF Begin, reading
<1>4. PICK bytes, r : /\ todo' = [todo EXCEPT ![t] = bytes] /\ result' = [result EXCEPT ![t] = r]
                      /\ \/ bytes # <<>> /\ r = "none"
                         \/ bytes = <<>> /\ r = "failed"
  <2>1. CASE usable
    BY <1>2, <2>1 DEF Begin
  <2>2. CASE ~usable
    BY <2>2 DEF Begin
  <2> QED BY <2>1, <2>2
<1>5. frame' = [frame EXCEPT ![t] = f] /\ \A u \in Threads : todo[u] = <<>>
  BY DEF Begin
<1> QED BY <1>1, <1>3, <1>4, <1>5 DEF Begun, Results

\* A part of what fits in frames does.
LEMMA DataFits ==
    ASSUME FramesFit, NEW p \in Seq(Bytes)
    PROVE  DataFrame(p) \in WireFrame /\ Mine(DataFrame(p)) /\ DataFrame(p).payload = p
           /\ CloseFrame \in WireFrame /\ ~Mine(CloseFrame) /\ CloseFrame.type # "Open"
           /\ DataFrame(p).type # "Open"
BY DEF FramesFit, DataFrame, CloseFrame, WireFrame, Mine

\* What the controller says to the agent, and how the agent reads it.
LEMMA OpenFits ==
    ASSUME FramesFit, Sayable(request.endpoint)
    PROVE  /\ OpenFrame \in WireFrame /\ ~Mine(OpenFrame) /\ OpenFrame.type = "Open"
           /\ parse_open_payload(OpenFrame.payload) = request.endpoint
           /\ parse_host_port(endpoint_to_string(request.endpoint.host, request.endpoint.port), 0)
                = request.endpoint
<1> DEFINE host == request.endpoint.host
           port == request.endpoint.port
<1>1. /\ host \in Text /\ port \in Ports /\ port \in DOMAIN Decimal
      /\ host # <<>> /\ host[1] # "[" /\ Places("\n", host) = {}
      /\ request.endpoint = Endpoint(host, port)
  BY DEF Sayable, Endpoint
<1> HIDE DEF host, port
<1>2. /\ parse_open_payload(make_open_payload(host, port)) = Endpoint(host, port)
      /\ parse_host_port(endpoint_to_string(host, port), 0) = Endpoint(host, port)
  BY <1>1, OpenPayloadReadBack, EndpointReadBack
<1>3. make_open_payload(host, port) \in Seq(Bytes)
  <2>1. Decimal[port] \in Tokens /\ "\n" \in Tokens
    BY <1>1, PortReadBack, TokensAssumption DEF Separators
  <2>2. PICK p : p = Joined(host, "\n", Decimal[port])
    OBVIOUS
  <2>3. p \in Seq(Tokens)
    BY <1>1, <2>1, <2>2, TakenApart DEF Text
  <2>4. \A q \in Seq(Tokens) : q \in Seq(Bytes)
    BY DEF FramesFit
  <2> QED BY <2>2, <2>3, <2>4 DEF make_open_payload
<1>4. OpenFrame = [type |-> "Open", id |-> Id, payload |-> make_open_payload(host, port)]
  BY DEF OpenFrame, host, port
<1>5. OpenFrame \in WireFrame /\ ~Mine(OpenFrame) /\ OpenFrame.type = "Open"
      /\ OpenFrame.payload = make_open_payload(host, port)
  BY <1>3, <1>4 DEF FramesFit, WireFrame, Mine
<1> QED BY <1>1, <1>2, <1>5 DEF host, port

-----------------------------------------------------------------------------
(* What a step leaves alone, it leaves true.                                *)

LEMMA HeardOn ==
    ASSUME Heard, phase = "joined", UNCHANGED <<phase, ask, request, buffer>>,
           pp' = "reading" => pp = "reading" /\ UNCHANGED unread,
           HasRequest' => HasRequest
    PROVE  Heard'
<1>1. Whole' = Whole
  BY DEF Whole
<1> QED BY <1>1 DEF Heard

LEMMA WritesOn ==
    ASSUME Writes, UNCHANGED <<todo, frame, result>>, todo[Proxy] = <<>> \/ UNCHANGED <<pp, request>>
    PROVE  Writes'
BY DEF Writes, OpenFrame, DataFrame, CloseFrame

LEMMA OpensOn ==
    ASSUME Opens, UNCHANGED <<sent, received, handled, opening, dialled, request, agent>>
    PROVE  Opens'
BY DEF Opens, OpenFrame, Allowed

LEMMA GrantedOn ==
    ASSUME Granted, UNCHANGED <<granted, dialled, sent>>,
           pp' \in {"granted", "copying", "sending", "closing"} =>
               pp \in {"granted", "copying", "sending", "closing"} \/ granted = "ok"
    PROVE  Granted'
BY DEF Granted

LEMMA CarriedOn ==
    ASSUME NEW c, Carried(c), UNCHANGED <<sent, handled, fed>>, Whole' = Whole
    PROVE  Carried(c)'
BY DEF Carried, Piece

LEMMA WholeOn ==
    UNCHANGED <<ask, request, buffer>> => Whole' = Whole
BY DEF Whole

\* Every step of the invariant but those on the wire leaves the threads' sends
\* alone.
LEMMA QuietOn ==
    ASSUME Path, UNCHANGED wire
    PROVE  WireInv' /\ Results'
BY StepKeeps DEF Path, wire, Results

\* Two threads, and the numbers of frames.
LEMMA Counts ==
    ASSUME Path
    PROVE  /\ Threads = {Proxy, Rival} /\ Proxy # Rival
           /\ sent \in Seq(WireFrame) /\ received \in Seq(WireFrame)
           /\ Len(sent) \in Nat /\ Len(received) \in Nat
           /\ \A k \in 1..Len(sent) : sent[k] \in WireFrame
           /\ handled \in 0..Len(received) /\ handled \in 0..Len(sent)
BY ProxyPathAssumption DEF Path, WireInv, Typed, Opens

\* A thread that has a request is one that was joined, and the request is sayable.
LEMMA Requested ==
    ASSUME Path, HasRequest
    PROVE  phase = "joined" /\ request.ok /\ request.endpoint = ask.means /\ Sayable(request.endpoint)
BY DEF Path, Heard, Untouched, HasRequest

-----------------------------------------------------------------------------
(* Before the agent is there.                                               *)

LEMMA OnlyWhenJoined ==
    ASSUME Path, phase # "joined", Next
    PROVE  Start \/ Join
<1>1. Untouched
  BY DEF Path, Heard
<1>2. Len(received) = 0 /\ handled = 0
  BY <1>1 DEF Untouched
<1>3. ~HandleFrame
  BY <1>2 DEF HandleFrame
<1>4. ~HandleOpen
  BY <1>1 DEF Untouched, HandleOpen
<1>5. /\ ~ReadHeader /\ ~HeaderEnds /\ ~SendOpen /\ ~Opened /\ ~Greet /\ ~SendInitial /\ ~Copy
      /\ ~Sent /\ ~SendClose /\ ~Closed /\ ~RivalSends
  BY <1>1 DEF Untouched, ReadHeader, HeaderEnds, SendOpen, Opened, Greet, SendInitial, Copy,
     Sent, SendClose, Closed, RivalSends
<1> QED BY <1>3, <1>4, <1>5, ConnectionIsWire DEF Next

LEMMA StartKeeps ==
    ASSUME Path, FramesFit, \A k \in Cases : Understood(k.ask), phase # "joined", Start \/ Join
    PROVE  Path'
<1>1. Untouched
  BY DEF Path, Heard
<1>2. /\ UNCHANGED <<ask, pp, buffer, request, handled, opening, granted, dialled, fed>>
      /\ UNCHANGED wire
  <2>1. CASE Start
    BY <2>1 DEF Start, client, target
  <2>2. CASE Join
    BY <2>2 DEF Join, target
  <2> QED BY <2>1, <2>2
<1>3. UNCHANGED <<todo, frame, result, sent, received>>
  BY <1>2 DEF wire
<1>4. WireInv' /\ Results'
  BY <1>2, QuietOn
<1>5. Whole' = Whole /\ Whole \in Seq(Bytes)
  BY <1>2, WholeOn DEF Path, Heard
<1>6. Untouched'
  BY <1>1, <1>2, <1>3 DEF Untouched
<1>7. Heard'
  <2>1. ask.stream \in Seq(Bytes) /\ \E k \in Cases : ask = k.ask
    BY DEF Path, Heard, Understood
  <2>2. phase' = "joined" => unread' = ask.stream
    BY DEF Start, Join
  <2>3. buffer' = <<>> /\ request' = Bad /\ pp' = "reading"
    BY <1>6 DEF Untouched
  <2>4. \A s \in Seq(Bytes) : <<>> \o s = s /\ <<>> \in Seq(Bytes)
    OBVIOUS
  <2>5. ~Bad.ok
    BY DEF Bad
  <2>6. phase' = "joined" => buffer' \in Seq(Bytes) /\ unread' \in Seq(Bytes) /\ buffer' \o unread' = ask'.stream
    BY <1>2, <2>1, <2>2, <2>3, <2>4
  <2> QED BY <1>2, <1>5, <1>6, <2>1, <2>3, <2>5, <2>6 DEF Heard, HasRequest
<1>8. Writes'
  BY <1>2, <1>3, WritesOn DEF Path
<1>9. Opens' /\ Granted'
  BY <1>2, <1>3, <1>6, GrantedOn DEF Path, Opens, OpenFrame, Untouched, Granted
<1>10. Tracked'
  <2>1. PICK c : Carried(c) /\ GoesOn(c)
    BY DEF Path, Tracked
  <2>2. Carried(c)'
    BY <1>2, <1>3, <1>5, <2>1, CarriedOn
  <2>3. GoesOn(c)'
    BY <1>1, <1>2, <1>3, <2>1 DEF GoesOn, Untouched
  <2> QED BY <2>2, <2>3 DEF Tracked
<1> QED BY <1>4, <1>7, <1>8, <1>9, <1>10 DEF Path

-----------------------------------------------------------------------------
(* On the wire, the two programs do what Wire allows.                       *)

\* The frames the proxy thread begins.
LEMMA FramesBegun ==
    ASSUME Path, FramesFit
    PROVE  /\ SendOpen => OpenFrame \in WireFrame
           /\ SendInitial => request.data \in Seq(Bytes) /\ DataFrame(request.data) \in WireFrame
           /\ Copy => /\ unread \in Seq(Bytes)
                      /\ \A n \in Pieces : n \in 0..Len(unread)
                                           /\ DataFrame(SubSeq(unread, 1, n)) \in WireFrame
<1>1. PICK c : GoesOn(c)
  BY DEF Path, Tracked
<1>2. ASSUME SendOpen
      PROVE  OpenFrame \in WireFrame
  <2>1. HasRequest
    BY <1>2 DEF SendOpen, HasRequest
  <2> QED BY <2>1, Requested, OpenFits
<1>3. ASSUME SendInitial
      PROVE  request.data \in Seq(Bytes)
  BY <1>1, <1>3 DEF SendInitial, GoesOn
<1>4. ASSUME Copy
      PROVE  unread \in Seq(Bytes)
  BY <1>1, <1>4 DEF Copy, GoesOn, Left, Piece
<1>5. ASSUME unread \in Seq(Bytes), NEW n \in Pieces
      PROVE  n \in 0..Len(unread) /\ DataFrame(SubSeq(unread, 1, n)) \in WireFrame
  <2>1. n \in 0..Len(unread)
    BY <1>5, ProxyPathAssumption DEF Pieces
  <2>2. SubSeq(unread, 1, n) \in Seq(Bytes)
    BY <1>5, <2>1, Halves DEF Halved
  <2> QED BY <2>1, <2>2, DataFits
<1>6. ASSUME SendInitial
      PROVE  DataFrame(request.data) \in WireFrame
  BY <1>3, <1>6, DataFits
<1> QED BY <1>2, <1>3, <1>4, <1>5, <1>6

LEMMA StepIsWire ==
    ASSUME Path, FramesFit, [Next]_vars
    PROVE  [Step]_wire
<1>1. Threads = {Proxy, Rival}
  BY ProxyPathAssumption
<1>2. CloseFrame \in WireFrame /\ RivalFrame \in WireFrame
  <2>1. <<>> \in Seq(Bytes)
    OBVIOUS
  <2> QED BY <2>1, DataFits DEF FramesFit
<1>3. ASSUME NEW t \in Threads, NEW f \in WireFrame, Begin(t, f)
      PROVE  [Step]_wire
  BY <1>3 DEF Step
<1>4. CASE UNCHANGED vars
  BY <1>4 DEF vars
<1>5. CASE Start \/ Join
  BY <1>5 DEF Start, Join
<1>6. CASE ReadHeader \/ HeaderEnds
  BY <1>6 DEF ReadHeader, HeaderEnds
<1>7. CASE SendOpen
  BY <1>1, <1>3, <1>7, FramesBegun DEF SendOpen
<1>8. CASE Opened \/ Greet
  BY <1>8 DEF Opened, Greet
<1>9. CASE SendInitial
  BY <1>1, <1>3, <1>9, FramesBegun DEF SendInitial
<1>10. CASE Copy
  BY <1>1, <1>3, <1>10, FramesBegun DEF Copy
<1>11. CASE Sent \/ Closed
  BY <1>11 DEF Sent, Closed
<1>12. CASE SendClose
  BY <1>1, <1>2, <1>3, <1>12 DEF SendClose
<1>13. CASE RivalSends
  BY <1>1, <1>2, <1>3, <1>13 DEF RivalSends
<1>14. CASE HandleFrame \/ HandleOpen
  BY <1>14 DEF HandleFrame, HandleOpen
<1>15. CASE WireNext
  BY <1>15 DEF Step
<1> QED BY <1>4, <1>5, <1>6, <1>7, <1>8, <1>9, <1>10, <1>11, <1>12, <1>13, <1>14, <1>15,
           ConnectionIsWire DEF Next

-----------------------------------------------------------------------------
(* The header and the request.                                              *)

\* What is behind a in c is b, and what is before it is a.
LEMMA FrontAgain ==
    ASSUME NEW a \in Seq(Bytes), NEW b \in Seq(Bytes), NEW c, Behind(a, b, c)
    PROVE  SubSeq(c, 1, Len(a)) = a
<1>1. PICK d, e : d = SubSeq(c, 1, Len(a)) /\ e = SubSeq(c, Len(a) + 1, Len(c))
  OBVIOUS
<1>2. c \in Seq(Bytes) /\ Len(a) \in 0..Len(c)
  BY DEF Behind
<1>3. Halved(c, Len(a), d, e)
  BY <1>1, <1>2, Halves
<1>4. d \in Seq(Bytes) /\ Len(d) = Len(a) /\ \A i \in 1..Len(a) : d[i] = c[i]
  BY <1>2, <1>3 DEF Halved
<1>5. \A i \in 1..Len(a) : c[i] = a[i]
  BY DEF Behind
<1>6. d = a
  BY <1>4, <1>5, Same
<1> QED BY <1>1, <1>6

\* It makes no difference where three parts are put together.
LEMMA Regrouped ==
    ASSUME NEW a \in Seq(Bytes), NEW b \in Seq(Bytes), NEW d \in Seq(Bytes), NEW c, Behind(b, d, c)
    PROVE  (a \o b) \o d = a \o c /\ a \o b \in Seq(Bytes)
<1>1. c \in Seq(Bytes) /\ Len(b) \in 0..Len(c)
  BY DEF Behind
<1>2. (a \o SubSeq(c, 1, Len(b))) \o SubSeq(c, Len(b) + 1, Len(c)) = a \o c
  BY <1>1, MovedOn
<1>3. SubSeq(c, 1, Len(b)) = b /\ SubSeq(c, Len(b) + 1, Len(c)) = d
  BY FrontAgain, BackAgain
<1>4. a \o b \in Seq(Bytes)
  BY Both DEF Behind
<1> QED BY <1>2, <1>3, <1>4

\* The bytes behind the header are the request's, and decide nothing else.
LEMMA Parsed ==
    ASSUME NEW h, NEW s
    PROVE  LET lines == Lines(h) r == parse_proxy_request(h, s) IN
           /\ r.ok <=> parse_proxy_request(h, <<>>).ok
           /\ ~r.ok => r = Bad
           /\ r.ok => /\ r.endpoint = Destination(lines)
                      /\ r.connect <=> Head(lines).method = "CONNECT"
                      /\ ~r.connect => r.data = Rewritten(lines, Destination(lines)) \o s
<1> DEFINE lines == Lines(h)
           dest == Destination(lines)
           connect == Head(lines).method = "CONNECT"
           bad == lines = <<>> \/ h[1].kind # "request" \/ dest = Invalid
           data(u) == IF connect THEN <<>> ELSE Rewritten(lines, dest) \o u
           good(u) == [ok |-> TRUE, connect |-> connect, endpoint |-> dest, data |-> data(u)]
<1>1. \A u : parse_proxy_request(h, u) = IF bad THEN Bad ELSE good(u)
  BY DEF parse_proxy_request
<1>2. Bad.ok = FALSE
  BY DEF Bad
<1>3. \A u : /\ good(u).ok = TRUE /\ good(u).connect = connect /\ good(u).endpoint = dest
             /\ good(u).data = data(u)
  OBVIOUS
<1>4. ~connect => data(s) = Rewritten(lines, dest) \o s
  OBVIOUS
<1> HIDE DEF lines, dest, connect, bad, data, good
<1>5. CASE bad
  BY <1>1, <1>2, <1>5 DEF lines
<1>6. CASE ~bad
  <2>1. parse_proxy_request(h, s) = good(s) /\ parse_proxy_request(h, <<>>) = good(<<>>)
    BY <1>1, <1>6
  <2> QED BY <1>3, <1>4, <2>1 DEF lines, connect, dest
<1> QED BY <1>5, <1>6

\* The request that one recv completes is the one the client's stream holds, and
\* what has not been read of it is what Whole has behind the request's data.
RequestRead ==
    /\ request'.ok /\ request'.endpoint = ask.means /\ Sayable(ask.means)
    /\ unread' \in Seq(Bytes) /\ Whole' \in Seq(Bytes)
    /\ IF request'.connect THEN unread' \o ask.later = Whole'
       ELSE request'.data \in Seq(Bytes) /\ request'.data \o unread' = Whole'

LEMMA HeaderRead ==
    ASSUME Understood(ask), buffer' \in Seq(Bytes), unread' \in Seq(Bytes),
           buffer' \o unread' = ask.stream, HasHeader(buffer'), UNCHANGED ask,
           request' = parse_proxy_request(Header(buffer'), Leftover(buffer'))
    PROVE  RequestRead \/ request' = Bad
<1>1. PICK all, rest : all = buffer' /\ rest = unread'
  OBVIOUS
<1>2. PICK lo, h, body : lo = Leftover(all) /\ h = Header(all) /\ body = ask.body
  OBVIOUS
<1>3. all \in Seq(Bytes) /\ rest \in Seq(Bytes) /\ Behind(all, rest, ask.stream) /\ HasHeader(all)
  BY <1>1, Both
<1>4. HasHeader(ask.stream) /\ Header(ask.stream) = h /\ lo \in Seq(Bytes)
      /\ Behind(lo, rest, Leftover(ask.stream))
  BY <1>2, <1>3, HeaderOfWhole
<1>5. /\ ask.body \in Seq(Bytes) /\ ask.later \in Seq(Bytes) /\ ask.rewritten \in Seq(Bytes)
      /\ Leftover(ask.stream) = body
      /\ parse_proxy_request(h, <<>>).ok =>
           /\ Destination(Lines(h)) = ask.means /\ Sayable(ask.means)
           /\ Head(Lines(h)).method # "CONNECT" => Rewritten(Lines(h), ask.means) = ask.rewritten
  BY <1>2, <1>4 DEF Understood
<1>6. Behind(lo, rest, body)
  BY <1>4, <1>5
<1>7. PICK r : r = parse_proxy_request(h, lo)
  OBVIOUS
<1>8. request' = r
  BY <1>1, <1>2, <1>7
<1>9. /\ r.ok <=> parse_proxy_request(h, <<>>).ok
      /\ ~r.ok => r = Bad
      /\ r.ok => /\ r.endpoint = Destination(Lines(h))
                 /\ r.connect <=> Head(Lines(h)).method = "CONNECT"
                 /\ ~r.connect => r.data = Rewritten(Lines(h), Destination(Lines(h))) \o lo
  BY <1>7, Parsed
<1>10. CASE ~r.ok
  BY <1>8, <1>9, <1>10
<1>11. CASE r.ok
  <2>1. r.endpoint = ask.means /\ Sayable(ask.means)
    BY <1>5, <1>9, <1>11
  <2>2. CASE r.connect
    <3>1. Whole' = SubSeq(body, Len(lo) + 1, Len(body)) \o ask.later
      BY <1>1, <1>2, <1>8, <2>2 DEF Whole
    <3>2. SubSeq(body, Len(lo) + 1, Len(body)) = rest
      BY <1>3, <1>4, <1>6, BackAgain
    <3>3. rest \o ask.later = Whole' /\ Whole' \in Seq(Bytes)
      BY <1>3, <1>5, <3>1, <3>2, Both DEF Behind
    <3> QED BY <1>1, <1>3, <1>8, <1>11, <2>1, <2>2, <3>3 DEF RequestRead
  <2>3. CASE ~r.connect
    <3>1. Whole' = ask.rewritten \o body
      BY <1>2, <1>8, <2>3 DEF Whole
    <3>2. r.data = ask.rewritten \o lo
      BY <1>5, <1>9, <1>11, <2>3
    <3>3. r.data \in Seq(Bytes) /\ r.data \o rest = Whole'
      <4>1. (ask.rewritten \o lo) \o rest = ask.rewritten \o body
            /\ ask.rewritten \o lo \in Seq(Bytes)
        <5>1. ask.rewritten \in Seq(Bytes) /\ lo \in Seq(Bytes) /\ rest \in Seq(Bytes)
          BY <1>3, <1>4, <1>5
        <5> QED BY <5>1, <1>6, Regrouped, Zenon
      <4> QED BY <4>1, <3>1, <3>2, Zenon
    <3>4. Whole' \in Seq(Bytes)
      BY <1>3, <3>3, Both DEF Behind
    <3> QED BY <1>1, <1>3, <1>8, <1>11, <2>1, <2>3, <3>3, <3>4 DEF RequestRead
  <2> QED BY <2>2, <2>3
<1> QED BY <1>10, <1>11

\* As long as there is no request, nothing is sent for it.
LEMMA NothingYet ==
    ASSUME Path, request = Bad
    PROVE  /\ opening = <<>> /\ dialled = Invalid /\ granted # "ok" /\ todo[Proxy] = <<>>
           /\ \A k \in 1..Len(sent) : ~Mine(sent[k]) /\ sent[k].type # "Open"
<1>1. ~request.ok
  BY DEF Bad
<1>2. opening = <<>> /\ dialled = Invalid /\ \A k \in 1..Len(sent) : sent[k].type # "Open"
  BY <1>1 DEF Path, Opens
<1>3. granted # "ok" /\ \A k \in 1..Len(sent) : ~Mine(sent[k])
  BY <1>2 DEF Path, Granted
<1>4. ~HasRequest
  BY <1>1 DEF Path, Heard
<1>5. todo[Proxy] = <<>>
  BY <1>4 DEF Path, Writes, HasRequest
<1> QED BY <1>2, <1>3, <1>5

LEMMA ReadHeaderKeeps ==
    ASSUME Path, FramesFit, \A k \in Cases : Understood(k.ask), ReadHeader
    PROVE  Path'
<1>1. /\ pp = "reading" /\ phase = "joined" /\ request = Bad /\ UNCHANGED wire
      /\ UNCHANGED <<phase, ask, agent, handled, opening, granted, dialled, fed>>
  BY DEF ReadHeader, setup, target, Path, Heard
<1>2. UNCHANGED <<todo, frame, result, sent, received>>
  BY <1>1 DEF wire
<1>3. WireInv' /\ Results'
  BY <1>1, QuietOn
<1>4. /\ opening = <<>> /\ dialled = Invalid /\ granted # "ok" /\ todo[Proxy] = <<>>
      /\ \A k \in 1..Len(sent) : ~Mine(sent[k]) /\ sent[k].type # "Open"
  BY <1>1, NothingYet
<1>5. Understood(ask) /\ Whole \in Seq(Bytes) /\ ~Bad.ok /\ ~Bad.connect
  BY DEF Path, Heard, Bad
<1>6. PICK n \in Pieces :
        /\ buffer' = buffer \o SubSeq(unread, 1, n)
        /\ unread' = SubSeq(unread, n + 1, Len(unread))
  BY DEF ReadHeader
<1>7. buffer' \in Seq(Bytes) /\ unread' \in Seq(Bytes) /\ buffer' \o unread' = ask.stream
  <2>1. buffer \in Seq(Bytes) /\ unread \in Seq(Bytes) /\ buffer \o unread = ask.stream
    BY <1>1 DEF Path, Heard
  <2>2. n \in 0..Len(unread)
    BY <2>1, ProxyPathAssumption DEF Pieces
  <2> QED BY <1>6, <2>1, <2>2, MovedOn
<1>8. \/ RequestRead /\ pp' = "parsed"
      \/ request' = Bad /\ pp' \in {"reading", "over"}
  <2>1. \/ /\ HasHeader(buffer')
           /\ request' = parse_proxy_request(Header(buffer'), Leftover(buffer'))
           /\ pp' = IF request'.ok THEN "parsed" ELSE "over"
        \/ request' = Bad /\ pp' \in {"reading", "over"}
    BY <1>1 DEF ReadHeader
  <2>2. CASE request' = Bad /\ pp' \in {"reading", "over"}
    BY <2>2
  <2>3. CASE /\ HasHeader(buffer')
             /\ request' = parse_proxy_request(Header(buffer'), Leftover(buffer'))
             /\ pp' = IF request'.ok THEN "parsed" ELSE "over"
    <3>1. RequestRead \/ request' = Bad
      BY <1>1, <1>5, <1>7, <2>3, HeaderRead
    <3> QED BY <1>5, <2>3, <3>1 DEF RequestRead
  <2> QED BY <2>1, <2>2, <2>3
<1>9. Whole' \in Seq(Bytes)
  BY <1>1, <1>5, <1>8 DEF RequestRead, Whole
<1>10. Heard'
  <2>1. \E k \in Cases : ask' = k.ask
    BY <1>1 DEF Path, Heard
  <2>2. CASE RequestRead /\ pp' = "parsed"
    BY <1>1, <1>9, <2>1, <2>2 DEF Heard, RequestRead
  <2>3. CASE request' = Bad /\ pp' \in {"reading", "over"}
    BY <1>1, <1>5, <1>7, <1>9, <2>1, <2>3 DEF Heard, HasRequest
  <2> QED BY <1>8, <2>2, <2>3
<1>11. Writes'
  BY <1>2, <1>4, WritesOn DEF Path
<1>12. Opens'
  BY <1>1, <1>2, <1>4 DEF Path, Opens
<1>13. Granted'
  BY <1>1, <1>2, <1>4, <1>8 DEF Path, Granted
<1>14. Tracked'
  <2>1. PICK c : Carried(c) /\ GoesOn(c)
    BY DEF Path, Tracked
  <2>2. \A k \in 0..Len(sent) : c[k] = 0
    BY <1>1, <2>1 DEF GoesOn
  <2>3. Piece(fed, 0)'
    <3>1. Len(fed) = 0 /\ fed \in Seq(Bytes)
      BY <2>1, <2>2, Counts DEF Carried, Piece
    <3> QED BY <1>1, <1>9, <3>1 DEF Piece
  <2>4. Carried(c)'
    BY <1>1, <1>2, <1>4, <2>1, <2>3 DEF Carried
  <2>5. GoesOn(c)'
    BY <1>1, <1>2, <1>8, <2>2 DEF GoesOn, RequestRead
  <2> QED BY <2>4, <2>5 DEF Tracked
<1> QED BY <1>3, <1>10, <1>11, <1>12, <1>13, <1>14 DEF Path

-----------------------------------------------------------------------------
(* The rest of what the proxy thread does.                                  *)

GoesOnSending == {"granted", "copying", "sending", "closing"}

\* Its steps change neither what arrived nor what the agent does.
LEMMA ThreadOn ==
    ASSUME Path, phase = "joined", UNCHANGED <<setup, buffer, request, target>>,
           UNCHANGED <<sent, received>>,
           pp' = "reading" => pp = "reading" /\ UNCHANGED unread,
           HasRequest' => HasRequest,
           pp' \in GoesOnSending => pp \in GoesOnSending \/ granted = "ok"
    PROVE  Heard' /\ Opens' /\ Granted' /\ \A c : Carried(c) => Carried(c)'
<1>1. /\ UNCHANGED <<phase, ask, agent>>
      /\ UNCHANGED <<handled, opening, granted, dialled, fed>>
  BY DEF setup, target
<1>2. Heard'
  BY <1>1, HeardOn DEF Path
<1>3. Opens' /\ Granted'
  BY <1>1, OpensOn, GrantedOn DEF Path, GoesOnSending
<1>4. Whole' = Whole
  BY <1>1, WholeOn
<1>5. ASSUME NEW c, Carried(c) PROVE Carried(c)'
  BY <1>1, <1>4, <1>5, CarriedOn
<1> QED BY <1>2, <1>3, <1>5

\* Steps that send nothing.
LEMMA WaitsKeep ==
    ASSUME Path, HeaderEnds \/ Opened \/ Greet \/ Sent \/ Closed
    PROVE  Path'
<1>1. UNCHANGED <<setup, buffer, request, target>> /\ UNCHANGED wire
  BY DEF HeaderEnds, Opened, Greet, Sent, Closed, client
<1>2. UNCHANGED <<todo, frame, result, sent, received>>
  BY <1>1 DEF wire
<1>3. phase = "joined" /\ (pp' = "reading" => pp = "reading" /\ UNCHANGED unread)
      /\ (HasRequest' => HasRequest)
      /\ (pp' \in GoesOnSending => pp \in GoesOnSending \/ granted = "ok")
      /\ todo[Proxy] = <<>>
  <2>1. CASE HeaderEnds
    BY <2>1 DEF HeaderEnds, HasRequest, GoesOnSending, Path, Writes
  <2>2. CASE Opened
    BY <2>2 DEF Opened, HasRequest, GoesOnSending, Path, Writes, Heard, Untouched
  <2>3. CASE Greet
    BY <2>3 DEF Greet, HasRequest, GoesOnSending, Path, Writes, Heard, Untouched
  <2>4. CASE Sent
    BY <2>4 DEF Sent, HasRequest, GoesOnSending, Path, Writes, Heard, Untouched
  <2>5. CASE Closed
    BY <2>5 DEF Closed, HasRequest, GoesOnSending, Path, Writes, Heard, Untouched
  <2> QED BY <2>1, <2>2, <2>3, <2>4, <2>5
<1>4. WireInv' /\ Results'
  BY <1>1, QuietOn
<1>5. Heard' /\ Opens' /\ Granted' /\ \A c : Carried(c) => Carried(c)'
  BY <1>1, <1>2, <1>3, ThreadOn
<1>6. Writes'
  BY <1>2, <1>3, WritesOn DEF Path
<1>7. UNCHANGED ask /\ Whole' = Whole
  BY <1>1, WholeOn DEF setup
<1>8. Tracked'
  <2>1. PICK c : Carried(c) /\ GoesOn(c)
    BY DEF Path, Tracked
  <2>2. CASE HeaderEnds
    <3>1. pp' = "over"
      BY <2>2 DEF HeaderEnds
    <3>2. GoesOn(c)'
      BY <3>1 DEF GoesOn
    <3> QED BY <1>5, <2>1, <3>2 DEF Tracked
  <2>3. CASE Opened
    <3>1. /\ pp \in {"opening", "waiting"} /\ pp' \in {"over", "waiting", "granted"}
          /\ UNCHANGED unread
      BY <2>3 DEF Opened
    <3>2. GoesOn(c)'
      BY <1>1, <1>2, <1>7, <2>1, <3>1 DEF GoesOn
    <3> QED BY <1>5, <2>1, <3>2 DEF Tracked
  <2>4. CASE Greet
    <3>1. pp = "granted" /\ pp' = "copying" /\ request.connect /\ unread' = unread \o ask.later
      BY <2>4 DEF Greet
    <3>2. unread' = Whole /\ c[Len(sent)] = 0
      BY <2>1, <3>1, Counts DEF GoesOn
    <3>3. Left(0)'
      BY <1>7, <3>2 DEF Left, Piece, Path, Heard
    <3>4. GoesOn(c)'
      BY <1>2, <3>1, <3>2, <3>3 DEF GoesOn
    <3> QED BY <1>5, <2>1, <3>4 DEF Tracked
  <2>5. CASE Sent
    <3>1. /\ pp = "sending" /\ pp' \in {"copying", "over"} /\ UNCHANGED unread
          /\ pp' = "copying" => result[Proxy] = "ok"
      BY <2>5 DEF Sent, client
    <3>2. pp' = "copying" => Left(c[Len(sent)])
      BY <1>3, <2>1, <3>1 DEF GoesOn
    <3>3. pp' = "copying" => Left(c[Len(sent)])'
      BY <1>2, <1>7, <3>1, <3>2 DEF Left, Piece
    <3>4. GoesOn(c)'
      BY <1>2, <3>1, <3>3 DEF GoesOn
    <3> QED BY <1>5, <2>1, <3>4 DEF Tracked
  <2>6. CASE Closed
    <3>1. pp' = "over"
      BY <2>6 DEF Closed
    <3>2. GoesOn(c)'
      BY <3>1 DEF GoesOn
    <3> QED BY <1>5, <2>1, <3>2 DEF Tracked
  <2> QED BY <2>2, <2>3, <2>4, <2>5, <2>6
<1> QED BY <1>4, <1>5, <1>6, <1>8 DEF Path

LEMMA Reckoned ==
    \A n, m, u, w \in Nat : m <= u /\ n + u = w => n + m <= w /\ (n + m) + (u - m) = w
OBVIOUS

\* A part of what is left goes into a frame.
LEMMA PieceTaken ==
    ASSUME NEW n \in Nat, Left(n), Whole \in Seq(Bytes), Whole' = Whole,
           NEW m \in 0..Len(unread), unread' = SubSeq(unread, m + 1, Len(unread)),
           NEW p, p = SubSeq(unread, 1, m)
    PROVE  Piece(p, n)' /\ Left(n + Len(p))'
<1>1. unread \in Seq(Bytes) /\ n + Len(unread) = Len(Whole) /\ Len(unread) \in Nat /\ Len(Whole) \in Nat
      /\ \A i \in 1..Len(unread) : unread[i] = Whole[n + i]
  BY DEF Left, Piece
<1>2. Halved(unread, m, p, unread')
  BY <1>1, Halves
<1>3. /\ p \in Seq(Bytes) /\ Len(p) = m /\ \A i \in 1..m : p[i] = unread[i]
      /\ unread' \in Seq(Bytes) /\ Len(unread') = Len(unread) - m
      /\ \A i \in 1..Len(unread) - m : unread'[i] = unread[m + i]
  BY <1>2 DEF Halved
<1>4. \A i \in 1..m : p[i] = Whole[n + i]
  BY <1>1, <1>3
<1>5. ASSUME NEW i \in 1..Len(unread')
      PROVE  unread'[i] = Whole[(n + Len(p)) + i]
  <2>1. m + i \in 1..Len(unread) /\ n + (m + i) = (n + Len(p)) + i /\ i \in 1..Len(unread) - m
    BY <1>1, <1>3
  <2> QED BY <1>1, <1>3, <2>1
<1>6. n + Len(p) <= Len(Whole) /\ (n + Len(p)) + Len(unread') = Len(Whole)
  <2>1. Len(p) = m /\ Len(unread') = Len(unread) - m
    BY <1>3
  <2>2. /\ n + Len(unread) = Len(Whole) /\ m <= Len(unread)
        /\ n \in Nat /\ m \in Nat /\ Len(unread) \in Nat /\ Len(Whole) \in Nat
    BY <1>1
  <2> QED BY <2>1, <2>2, Reckoned, Zenon
<1> QED BY <1>3, <1>4, <1>5, <1>6 DEF Left, Piece

\* The frame that the proxy thread begins is the one its next step calls for.
LEMMA ThreadBegins ==
    ASSUME Path, FramesFit, SendOpen \/ SendInitial \/ Copy \/ SendClose
    PROVE  /\ phase = "joined" /\ HasRequest /\ pp' \in {"opening", "sending", "closing"}
           /\ pp' # "opening" => pp \in GoesOnSending
           /\ UNCHANGED <<setup, buffer, request, target>>
           /\ \E f \in WireFrame :
                /\ Begin(Proxy, f)
                /\ pp' = "opening" => f = OpenFrame
                /\ pp' = "sending" => f = DataFrame(f.payload)
                /\ pp' = "closing" => f = CloseFrame
                /\ SendInitial => f = DataFrame(request.data)
                /\ Copy => \E n \in Pieces : /\ f = DataFrame(SubSeq(unread, 1, n))
                                             /\ unread' = SubSeq(unread, n + 1, Len(unread))
<1>1. CASE SendOpen
  <2>1. Begin(Proxy, OpenFrame) /\ pp = "parsed" /\ pp' = "opening"
        /\ UNCHANGED <<setup, buffer, request, target>>
    BY <1>1 DEF SendOpen, client
  <2>2. ~SendInitial /\ ~Copy
    BY <2>1 DEF SendInitial, Copy
  <2>3. HasRequest
    BY <2>1 DEF HasRequest
  <2> QED BY <1>1, <2>1, <2>2, <2>3, FramesBegun, Requested
<1>2. CASE SendInitial
  <2>1. Begin(Proxy, DataFrame(request.data)) /\ pp = "granted" /\ pp' = "sending"
        /\ UNCHANGED <<setup, buffer, request, target>>
    BY <1>2 DEF SendInitial, client
  <2>2. ~Copy
    BY <2>1 DEF Copy
  <2>3. HasRequest /\ pp \in GoesOnSending
    BY <2>1 DEF HasRequest, GoesOnSending
  <2>4. DataFrame(request.data) \in WireFrame /\ DataFrame(request.data).payload = request.data
    BY <1>2, FramesBegun, DataFits
  <2> QED BY <2>1, <2>2, <2>3, <2>4, Requested
<1>3. CASE Copy
  <2>1. PICK n \in Pieces : /\ Begin(Proxy, DataFrame(SubSeq(unread, 1, n)))
                            /\ unread' = SubSeq(unread, n + 1, Len(unread))
    BY <1>3 DEF Copy
  <2>2. pp = "copying" /\ pp' = "sending" /\ UNCHANGED <<setup, buffer, request, target>>
    BY <1>3 DEF Copy
  <2>3. ~SendInitial
    BY <2>2 DEF SendInitial
  <2>4. HasRequest /\ pp \in GoesOnSending
    BY <2>2 DEF HasRequest, GoesOnSending
  <2>5. DataFrame(SubSeq(unread, 1, n)) \in WireFrame
    BY <1>3, FramesBegun
  <2>6. DataFrame(SubSeq(unread, 1, n)).payload = SubSeq(unread, 1, n)
    BY DEF DataFrame
  <2> QED BY <2>1, <2>2, <2>3, <2>4, <2>5, <2>6, Requested
<1>4. CASE SendClose
  <2>1. Begin(Proxy, CloseFrame) /\ pp = "copying" /\ pp' = "closing" /\ unread = <<>>
        /\ UNCHANGED <<setup, buffer, request, target>>
    BY <1>4 DEF SendClose, client
  <2>2. ~SendInitial /\ ~Copy
    BY <2>1 DEF SendInitial, Copy
  <2>3. HasRequest /\ pp \in GoesOnSending
    BY <2>1 DEF HasRequest, GoesOnSending
  <2>4. CloseFrame \in WireFrame
    <3>1. <<>> \in Seq(Bytes)
      OBVIOUS
    <3> QED BY <3>1, DataFits
  <2> QED BY <2>1, <2>2, <2>3, <2>4, Requested
<1> QED BY <1>1, <1>2, <1>3, <1>4

LEMMA BeginsKeep ==
    ASSUME Path, FramesFit, SendOpen \/ SendInitial \/ Copy \/ SendClose
    PROVE  Path'
<1>1. /\ phase = "joined" /\ HasRequest /\ pp' \in {"opening", "sending", "closing"}
      /\ pp' # "opening" => pp \in GoesOnSending
      /\ UNCHANGED <<setup, buffer, request, target>>
  BY ThreadBegins
<1>2. PICK f \in WireFrame :
        /\ Begin(Proxy, f)
        /\ pp' = "opening" => f = OpenFrame
        /\ pp' = "sending" => f = DataFrame(f.payload)
        /\ pp' = "closing" => f = CloseFrame
        /\ SendInitial => f = DataFrame(request.data)
        /\ Copy => \E n \in Pieces : /\ f = DataFrame(SubSeq(unread, 1, n))
                                     /\ unread' = SubSeq(unread, n + 1, Len(unread))
  BY ThreadBegins
<1>3. Begun(Proxy, f) /\ Results'
  BY <1>2, Counts, BeginEffect DEF Path
<1>4. WireInv'
  BY <1>2, Counts, BeginKeeps DEF Path
<1>5. UNCHANGED <<sent, received>> /\ frame'[Proxy] = f /\ todo'[Rival] = <<>>
      /\ (todo'[Proxy] # <<>> => result'[Proxy] = "none")
      /\ (todo'[Proxy] = <<>> => result'[Proxy] = "failed")
  BY <1>3, Counts DEF Begun
<1>6. Heard' /\ Opens' /\ Granted' /\ \A c : Carried(c) => Carried(c)'
  <2>1. HasRequest' => HasRequest
    BY <1>1
  <2>2. pp' \in GoesOnSending => pp \in GoesOnSending \/ granted = "ok"
    BY <1>1 DEF GoesOnSending
  <2> QED BY <1>1, <1>5, <2>1, <2>2, ThreadOn
<1>7. Writes'
  <2>1. OpenFrame' = OpenFrame /\ CloseFrame' = CloseFrame
    BY <1>1 DEF OpenFrame, CloseFrame
  <2>2. pp' = "sending" => frame'[Proxy] = DataFrame(frame'[Proxy].payload)
    BY <1>2, <1>5
  <2> QED BY <1>1, <1>2, <1>5, <2>1, <2>2 DEF Writes, DataFrame
<1>8. UNCHANGED ask /\ Whole' = Whole /\ Whole \in Seq(Bytes)
  BY <1>1, WholeOn DEF setup, Path, Heard
<1>9. Tracked'
  <2>1. PICK c : Carried(c) /\ GoesOn(c)
    BY DEF Path, Tracked
  <2>2. c[Len(sent)] \in Nat
    BY <2>1, Counts DEF Carried
  <2>3. CASE SendOpen
    <3>1. pp = "parsed" /\ pp' = "opening" /\ UNCHANGED unread
      BY <2>3 DEF SendOpen, client
    <3>2. GoesOn(c)'
      BY <1>1, <1>5, <1>8, <2>1, <3>1 DEF GoesOn
    <3> QED BY <1>6, <2>1, <3>2 DEF Tracked
  <2>4. CASE SendInitial
    <3>1. pp = "granted" /\ ~request.connect /\ pp' = "sending" /\ UNCHANGED unread
          /\ f.payload = request.data
      BY <1>2, <2>4 DEF SendInitial, client, DataFrame
    <3>2. /\ c[Len(sent)] = 0 /\ unread \in Seq(Bytes) /\ request.data \in Seq(Bytes)
          /\ request.data \o unread = Whole
      BY <2>1, <3>1, Counts DEF GoesOn
    <3>3. Behind(f.payload, unread, Whole) /\ f.payload \in Seq(Bytes)
      BY <3>1, <3>2, Both
    <3>4. Piece(f.payload, 0)' /\ Left(Len(f.payload))'
      BY <1>8, <3>1, <3>2, <3>3 DEF Behind, Piece, Left
    <3>5. c[Len(sent)] + Len(f.payload) = Len(f.payload)
      BY <3>2, <3>3
    <3>6. Piece(f.payload, c[Len(sent)])' /\ Left(c[Len(sent)] + Len(f.payload))'
      BY <1>5, <3>2, <3>4, <3>5
    <3>7. GoesOn(c)'
      BY <1>5, <3>1, <3>6 DEF GoesOn
    <3> QED BY <1>6, <2>1, <3>7 DEF Tracked
  <2>5. CASE Copy
    <3>1. pp = "copying" /\ pp' = "sending"
      BY <2>5 DEF Copy
    <3>2. PICK n \in Pieces : /\ f = DataFrame(SubSeq(unread, 1, n))
                              /\ unread' = SubSeq(unread, n + 1, Len(unread))
      BY <1>2, <2>5
    <3>3. f.payload = SubSeq(unread, 1, n) /\ n \in 0..Len(unread)
      BY <2>5, <3>2, FramesBegun DEF DataFrame
    <3>4. Left(c[Len(sent)])
      BY <2>1, <3>1 DEF GoesOn
    <3>5. Piece(f.payload, c[Len(sent)])' /\ Left(c[Len(sent)] + Len(f.payload))'
      BY <1>5, <1>8, <2>2, <3>2, <3>3, <3>4, PieceTaken
    <3>6. GoesOn(c)'
      BY <1>5, <3>1, <3>5 DEF GoesOn
    <3> QED BY <1>6, <2>1, <3>6 DEF Tracked
  <2>6. CASE SendClose
    <3>1. pp' = "closing"
      BY <2>6 DEF SendClose
    <3>2. GoesOn(c)'
      BY <3>1 DEF GoesOn
    <3> QED BY <1>6, <2>1, <3>2 DEF Tracked
  <2> QED BY <2>3, <2>4, <2>5, <2>6
<1> QED BY <1>3, <1>4, <1>6, <1>7, <1>9 DEF Path

\* A frame of the other client's does not concern this one.
LEMMA RivalSendsKeeps ==
    ASSUME Path, FramesFit, RivalSends
    PROVE  Path'
<1>1. phase = "joined" /\ UNCHANGED <<setup, pp, client, target>> /\ Begin(Rival, RivalFrame)
  BY DEF RivalSends
<1>2. Begun(Rival, RivalFrame) /\ Results' /\ WireInv'
  BY <1>1, Counts, BeginEffect, BeginKeeps DEF Path, FramesFit
<1>3. /\ UNCHANGED <<sent, received>> /\ frame'[Rival] = RivalFrame
      /\ todo[Proxy] = <<>> /\ todo'[Proxy] = <<>> /\ result'[Proxy] = result[Proxy]
  BY <1>2, Counts DEF Begun
<1>4. UNCHANGED <<buffer, request, unread>>
  BY <1>1 DEF client
<1>5. Heard' /\ Opens' /\ Granted' /\ \A c : Carried(c) => Carried(c)'
  <2>1. HasRequest' => HasRequest
    BY <1>1 DEF HasRequest
  <2> QED BY <1>1, <1>3, <1>4, <2>1, ThreadOn
<1>6. Writes'
  BY <1>3 DEF Writes
<1>7. UNCHANGED ask /\ Whole' = Whole
  BY <1>1, <1>4, WholeOn DEF setup
<1>8. Tracked'
  <2>1. PICK c : Carried(c) /\ GoesOn(c)
    BY DEF Path, Tracked
  <2>2. GoesOn(c)'
    BY <1>1, <1>3, <1>4, <1>7, <2>1 DEF GoesOn, Left, Piece
  <2> QED BY <1>5, <2>1, <2>2 DEF Tracked
<1> QED BY <1>2, <1>5, <1>6, <1>8 DEF Path

-----------------------------------------------------------------------------
(* The agent.                                                               *)

\* What a frame carries goes on where what was read so far ends.
LEMMA PieceAdded ==
    ASSUME NEW a, NEW p, Piece(a, 0), Piece(p, Len(a)), NEW d, d = a \o p
    PROVE  Piece(d, 0) /\ Len(d) = Len(a) + Len(p)
<1>1. /\ a \in Seq(Bytes) /\ \A i \in 1..Len(a) : a[i] = Whole[0 + i]
      /\ p \in Seq(Bytes) /\ Len(a) + Len(p) <= Len(Whole)
      /\ \A i \in 1..Len(p) : p[i] = Whole[Len(a) + i]
  BY DEF Piece
<1>2. Behind(a, p, d)
  BY <1>1, Both
<1>3. /\ d \in Seq(Bytes) /\ Len(d) = Len(a) + Len(p) /\ Len(a) \in Nat /\ Len(p) \in Nat
      /\ \A i \in 1..Len(a) : d[i] = a[i]
      /\ \A i \in 1..Len(p) : d[Len(a) + i] = p[i]
  BY <1>2 DEF Behind
<1>4. ASSUME NEW i \in 1..Len(d)
      PROVE  d[i] = Whole[0 + i]
  <2>1. CASE i \in 1..Len(a)
    BY <2>1, <1>1, <1>3
  <2>2. ASSUME NEW j \in 1..Len(p), i = Len(a) + j
        PROVE  d[i] = Whole[0 + i]
    BY <2>2, <1>1, <1>3
  <2>3. i \in 1..Len(a) \/ (i - Len(a) \in 1..Len(p) /\ i = Len(a) + (i - Len(a)))
    BY <1>3
  <2> QED BY <2>1, <2>2, <2>3
<1>5. 0 + Len(d) <= Len(Whole)
  BY <1>1, <1>3
<1> QED BY <1>3, <1>4, <1>5 DEF Piece

LEMMA HandleFrameKeeps ==
    ASSUME Path, FramesFit, HandleFrame
    PROVE  Path'
<1>1. /\ UNCHANGED wire /\ UNCHANGED <<phase, ask, agent, pp, unread, buffer, request, granted, dialled>>
      /\ handled < Len(received) /\ handled' = handled + 1
      /\ opening' = IF received[handled'].type = "Open" THEN received[handled'].payload ELSE opening
      /\ fed' = IF Mine(received[handled']) /\ dialled # Invalid
                THEN fed \o received[handled'].payload ELSE fed
  BY DEF HandleFrame, setup, client, Mine
<1>2. UNCHANGED <<todo, frame, result, sent, received>>
  BY <1>1 DEF wire
<1>3. WireInv' /\ Results'
  BY <1>1, QuietOn
<1>4. PICK f : f = received[handled'] /\ f = sent[handled']
  BY <1>1, Counts DEF Path, Opens
<1>5. handled' \in 1..Len(sent) /\ handled' \in 0..Len(received) /\ handled \in 0..Len(sent)
      /\ handled' - 1 = handled
  BY <1>1, Counts DEF Path, Opens
<1>6. phase = "joined"
  BY <1>1, Counts DEF Path, Heard, Untouched
<1>7. Heard'
  BY <1>1, <1>6, HeardOn DEF Path, HasRequest
<1>8. Writes'
  BY <1>1, <1>2, WritesOn DEF Path
<1>9. Opens'
  <2>1. opening' # <<>> => request.ok /\ opening' = OpenFrame.payload
    BY <1>1, <1>4, <1>5 DEF Path, Opens
  <2>2. OpenFrame' = OpenFrame /\ (Allowed(dialled)' <=> Allowed(dialled))
    BY <1>1 DEF OpenFrame, Allowed
  <2> QED BY <1>1, <1>2, <1>5, <2>1, <2>2 DEF Path, Opens
<1>10. Granted'
  BY <1>1, <1>2, GrantedOn DEF Path
<1>11. Whole' = Whole
  BY <1>1, WholeOn
<1>12. Tracked'
  <2>1. PICK c : Carried(c) /\ GoesOn(c)
    BY DEF Path, Tracked
  <2>2. c[handled] \in Nat /\ Piece(fed, 0) /\ Len(fed) = c[handled]
    BY <2>1, <1>5 DEF Carried
  <2>3. CASE Mine(f)
    <3>1. dialled # Invalid
      BY <1>4, <1>5, <2>3 DEF Path, Granted
    <3>2. fed' = fed \o f.payload
      BY <1>1, <1>4, <2>3, <3>1
    <3>3. Piece(f.payload, c[handled]) /\ c[handled'] = c[handled] + Len(f.payload)
      BY <1>4, <1>5, <2>1, <2>3 DEF Carried
    <3>4. PICK d : d = fed \o f.payload
      OBVIOUS
    <3>5. Piece(d, 0) /\ Len(d) = c[handled']
      <4>1. Piece(fed, 0) /\ Piece(f.payload, Len(fed))
        BY <2>2, <3>3
      <4>2. Piece(d, 0) /\ Len(d) = Len(fed) + Len(f.payload)
        BY <4>1, <3>4, PieceAdded, Zenon
      <4> QED BY <2>2, <3>3, <4>2
    <3>6. Piece(fed, 0)' /\ Len(fed') = c[handled']
      BY <1>11, <3>2, <3>4, <3>5 DEF Piece
    <3>7. Carried(c)'
      BY <1>2, <1>11, <2>1, <3>6 DEF Carried, Piece
    <3>8. GoesOn(c)'
      BY <1>1, <1>2, <1>11, <2>1 DEF GoesOn, Left, Piece
    <3> QED BY <3>7, <3>8 DEF Tracked
  <2>4. CASE ~Mine(f)
    <3>1. fed' = fed
      BY <1>1, <1>4, <2>4
    <3>2. c[handled'] = c[handled]
      BY <1>4, <1>5, <2>1, <2>4 DEF Carried
    <3>3. Carried(c)'
      BY <1>2, <1>11, <2>1, <2>2, <3>1, <3>2 DEF Carried, Piece
    <3>4. GoesOn(c)'
      BY <1>1, <1>2, <1>11, <2>1 DEF GoesOn, Left, Piece
    <3> QED BY <3>3, <3>4 DEF Tracked
  <2> QED BY <2>3, <2>4
<1> QED BY <1>3, <1>7, <1>8, <1>9, <1>10, <1>12 DEF Path

LEMMA HandleOpenKeeps ==
    ASSUME Path, FramesFit, HandleOpen
    PROVE  Path'
<1>1. /\ UNCHANGED wire
      /\ UNCHANGED <<phase, ask, agent, pp, unread, buffer, request, handled, opening, fed>>
      /\ opening # <<>> /\ granted = "none"
      /\ \/ /\ Allowed(parse_open_payload(opening)) /\ granted' = "ok"
            /\ dialled' = parse_open_payload(opening) /\ dialled' # Invalid
         \/ granted' = "error" /\ UNCHANGED dialled
  BY DEF HandleOpen, setup, client
<1>2. UNCHANGED <<todo, frame, result, sent, received>>
  BY <1>1 DEF wire
<1>3. WireInv' /\ Results'
  BY <1>1, QuietOn
<1>4. request.ok /\ opening = OpenFrame.payload /\ request.endpoint = ask.means /\ Sayable(ask.means)
  BY <1>1 DEF Path, Opens, Heard
<1>5. parse_open_payload(opening) = request.endpoint
  BY <1>4, OpenFits
<1>6. phase = "joined"
  BY <1>1 DEF Path, Heard, Untouched
<1>7. Heard'
  BY <1>1, <1>6, HeardOn DEF Path, HasRequest
<1>8. Writes'
  BY <1>1, <1>2, WritesOn DEF Path
<1>9. Opens'
  <2>1. dialled' # Invalid => dialled' = request.endpoint /\ Allowed(dialled)'
    <3>1. CASE granted' = "ok" /\ Allowed(parse_open_payload(opening)) /\ dialled' = parse_open_payload(opening)
      BY <1>1, <1>5, <3>1 DEF Allowed
    <3>2. CASE UNCHANGED dialled
      BY <1>1, <3>2 DEF Path, Opens, Allowed
    <3> QED BY <1>1, <3>1, <3>2
  <2>2. OpenFrame' = OpenFrame
    BY <1>1 DEF OpenFrame
  <2> QED BY <1>1, <1>2, <1>4, <2>1, <2>2 DEF Path, Opens
<1>10. Granted'
  BY <1>1, <1>2 DEF Path, Granted
<1>11. Whole' = Whole
  BY <1>1, WholeOn
<1>12. Tracked'
  <2>1. PICK c : Carried(c) /\ GoesOn(c)
    BY DEF Path, Tracked
  <2>2. Carried(c)'
    BY <1>1, <1>2, <1>11, <2>1, CarriedOn
  <2>3. GoesOn(c)'
    BY <1>1, <1>2, <1>11, <2>1 DEF GoesOn, Left, Piece
  <2> QED BY <2>2, <2>3 DEF Tracked
<1> QED BY <1>3, <1>7, <1>8, <1>9, <1>10, <1>12 DEF Path

-----------------------------------------------------------------------------
(* The wire.                                                                *)

\* Nobody but its own thread changes what a send has come to.
LEMMA WireEnds ==
    ASSUME Path, NEW t \in Threads, Wrote(t) \/ GaveUp(t)
    PROVE  /\ UNCHANGED <<frame, received>> /\ todo[t] # <<>> /\ todo'[t] = <<>>
           /\ \A u \in Threads \ {t} : todo[u] = <<>> /\ todo'[u] = <<>> /\ result'[u] = result[u]
           /\ Results'
           /\ Wrote(t) => result'[t] = "ok"
           /\ GaveUp(t) => result'[t] = "failed" /\ UNCHANGED sent
<1>1. Ends(t, "ok") \/ Ends(t, "failed")
  BY DEF Wrote, GaveUp
<1>2. /\ UNCHANGED <<frame, received>> /\ todo[t] # <<>> /\ todo'[t] = <<>>
      /\ \A u \in Threads \ {t} : todo'[u] = todo[u]
  BY <1>1 DEF Ends
<1>3. \A u \in Threads \ {t} : todo[u] = <<>>
  BY <1>2 DEF Path, WireInv, Alone
<1>4. result \in [Threads -> {"none", "ok", "failed"}]
  BY DEF Path, Results
<1>5. Results' /\ \A u \in Threads \ {t} : result'[u] = result[u]
  BY <1>1, <1>4 DEF Ends, Results
<1>6. /\ Wrote(t) => result'[t] = "ok"
      /\ GaveUp(t) => result'[t] = "failed" /\ UNCHANGED sent
  BY <1>4 DEF Wrote, GaveUp, Ends
<1> QED BY <1>2, <1>3, <1>5, <1>6

\* The frame that is written now is at the end of sent.
LEMMA LastSent ==
    ASSUME Path, NEW f \in WireFrame, sent' = Append(sent, f)
    PROVE  /\ Len(sent') = Len(sent) + 1 /\ sent'[Len(sent) + 1] = f
           /\ \A k \in 1..Len(sent) : sent'[k] = sent[k]
           /\ \A k \in 1..Len(sent') : k \in 1..Len(sent) \/ k = Len(sent) + 1
BY Counts

\* What the wire does leaves the two programs alone.
Alongside ==
    phase = "joined" /\ UNCHANGED <<setup, pp, client, target>> /\ WireInv' /\ Results'

LEMMA AlongsideOn ==
    ASSUME Path, Alongside
    PROVE  Heard' /\ Whole' = Whole
           /\ UNCHANGED <<phase, ask, agent, pp, unread, buffer, request>>
           /\ UNCHANGED <<handled, opening, granted, dialled, fed>>
<1>1. /\ UNCHANGED <<phase, ask, agent, pp, unread, buffer, request>>
      /\ UNCHANGED <<handled, opening, granted, dialled, fed>>
  BY DEF Alongside, setup, client, target
<1> QED BY <1>1, WholeOn, HeardOn DEF Path, Alongside, HasRequest

LEMMA CalmKeeps ==
    ASSUME Path, Alongside, Calm
    PROVE  Path'
<1>1. /\ Heard' /\ Whole' = Whole
      /\ UNCHANGED <<phase, ask, agent, pp, unread, buffer, request>>
      /\ UNCHANGED <<handled, opening, granted, dialled, fed>>
  BY AlongsideOn
<1>2. /\ UNCHANGED <<frame, result, sent, received>>
      /\ \A t \in Threads : todo'[t] = <<>> <=> todo[t] = <<>>
  BY DEF Calm
<1>3. Writes'
  BY <1>1, <1>2, Counts DEF Path, Writes, OpenFrame, DataFrame, CloseFrame
<1>4. Opens' /\ Granted'
  BY <1>1, <1>2, OpensOn, GrantedOn DEF Path
<1>5. PICK c : Carried(c) /\ GoesOn(c)
  BY DEF Path, Tracked
<1>6. Carried(c)'
  BY <1>1, <1>2, <1>5, CarriedOn
<1>7. GoesOn(c)'
  BY <1>1, <1>2, <1>5, Counts DEF GoesOn, Left, Piece
<1> QED BY <1>1, <1>3, <1>4, <1>6, <1>7 DEF Path, Tracked, Alongside

LEMMA ArrivesKeeps ==
    ASSUME Path, Alongside, Arrives
    PROVE  Path'
<1>1. /\ Heard' /\ Whole' = Whole
      /\ UNCHANGED <<phase, ask, agent, pp, unread, buffer, request>>
      /\ UNCHANGED <<handled, opening, granted, dialled, fed>>
  BY AlongsideOn
<1>2. /\ UNCHANGED <<todo, frame, result, sent>> /\ Len(received) < Len(sent)
      /\ received' = Append(received, sent[Len(received) + 1])
  BY DEF Arrives, Channel!Receive
<1>3. Writes'
  BY <1>1, <1>2, WritesOn DEF Path
<1>4. Opens'
  <2>1. /\ Len(received') = Len(received) + 1
        /\ \A k \in 1..Len(received) : received'[k] = received[k]
        /\ received'[Len(received) + 1] = sent[Len(received) + 1]
        /\ \A k \in 1..Len(received') : k \in 1..Len(received) \/ k = Len(received) + 1
    <3>1. received \in Seq(WireFrame) /\ sent[Len(received) + 1] \in WireFrame
          /\ Len(received) \in Nat
      BY <1>2, Counts
    <3> QED BY <1>2, <3>1
  <2>2. Len(received') <= Len(sent) /\ handled \in 0..Len(received')
    BY <1>2, <2>1, Counts
  <2>3. \A k \in 1..Len(received') : received'[k] = sent[k]
    BY <2>1 DEF Path, Opens
  <2>4. OpenFrame' = OpenFrame /\ (Allowed(dialled)' <=> Allowed(dialled))
    BY <1>1 DEF OpenFrame, Allowed
  <2> QED BY <1>1, <1>2, <2>2, <2>3, <2>4 DEF Path, Opens
<1>5. Granted'
  BY <1>1, <1>2, GrantedOn DEF Path
<1>6. PICK c : Carried(c) /\ GoesOn(c)
  BY DEF Path, Tracked
<1>7. Carried(c)'
  BY <1>1, <1>2, <1>6, CarriedOn
<1>8. GoesOn(c)'
  BY <1>1, <1>2, <1>6 DEF GoesOn, Left, Piece
<1> QED BY <1>1, <1>3, <1>4, <1>5, <1>7, <1>8 DEF Path, Tracked, Alongside

LEMMA GaveUpKeeps ==
    ASSUME Path, Alongside, NEW t \in Threads, GaveUp(t)
    PROVE  Path'
<1>1. /\ Heard' /\ Whole' = Whole
      /\ UNCHANGED <<phase, ask, agent, pp, unread, buffer, request>>
      /\ UNCHANGED <<handled, opening, granted, dialled, fed>>
  BY AlongsideOn
<1>2. /\ UNCHANGED <<frame, received, sent>> /\ todo'[t] = <<>> /\ result'[t] = "failed"
      /\ \A u \in Threads \ {t} : todo[u] = <<>> /\ todo'[u] = <<>> /\ result'[u] = result[u]
  BY WireEnds
<1>3. todo'[Proxy] = <<>> /\ todo'[Rival] = <<>>
      /\ (result'[Proxy] = "failed" \/ (todo[Proxy] = <<>> /\ result'[Proxy] = result[Proxy]))
  <2>1. t \in {Proxy, Rival} /\ Proxy # Rival /\ Threads = {Proxy, Rival}
    BY Counts
  <2>2. CASE t = Proxy
    <3>1. Rival \in Threads \ {t}
      BY <2>1, <2>2
    <3>2. todo'[Rival] = <<>> /\ todo'[Proxy] = <<>> /\ result'[Proxy] = "failed"
      BY <1>2, <2>2, <3>1
    <3> QED BY <3>2
  <2>3. CASE t = Rival
    <3>1. Proxy \in Threads \ {t}
      BY <2>1, <2>3
    <3>2. /\ todo'[Rival] = <<>> /\ todo'[Proxy] = <<>>
          /\ todo[Proxy] = <<>> /\ result'[Proxy] = result[Proxy]
      BY <1>2, <2>3, <3>1
    <3> QED BY <3>2
  <2> QED BY <2>1, <2>2, <2>3
<1>4. Writes'
  BY <1>3 DEF Writes
<1>5. Opens' /\ Granted'
  BY <1>1, <1>2, OpensOn, GrantedOn DEF Path
<1>6. PICK c : Carried(c) /\ GoesOn(c)
  BY DEF Path, Tracked
<1>7. Carried(c)'
  BY <1>1, <1>2, <1>6, CarriedOn
<1>8. GoesOn(c)'
  BY <1>1, <1>2, <1>3, <1>6 DEF GoesOn, Left, Piece
<1> QED BY <1>1, <1>4, <1>5, <1>7, <1>8 DEF Path, Tracked, Alongside

\* The offsets, with that behind the frame that is written now.
Extend(c, m, n) == [c EXCEPT ![m + 1] = n]
Further(c, f) ==
    Extend(c, Len(sent), IF Mine(f) THEN c[Len(sent)] + Len(f.payload) ELSE c[Len(sent)])

LEMMA Extended ==
    ASSUME NEW c \in [Nat -> Nat], NEW m \in Nat, NEW n \in Nat
    PROVE  /\ Extend(c, m, n) \in [Nat -> Nat] /\ Extend(c, m, n)[m + 1] = n
           /\ \A k \in 0..m : Extend(c, m, n)[k] = c[k]
BY DEF Extend

LEMMA FurtherIs ==
    ASSUME Path, NEW c, Carried(c), NEW f \in WireFrame, Mine(f) => Piece(f.payload, c[Len(sent)]),
           NEW d, d = Further(c, f),
           sent' = Append(sent, f), UNCHANGED <<handled, fed>>, Whole' = Whole
    PROVE  /\ Carried(d)' /\ \A k \in 0..Len(sent) : d[k] = c[k]
           /\ d[Len(sent')] = IF Mine(f) THEN c[Len(sent)] + Len(f.payload) ELSE c[Len(sent)]
<1>1. PICK m \in Nat : m = Len(sent) /\ handled \in 0..m /\ c \in [Nat -> Nat]
  BY Counts DEF Carried
<1>2. /\ Len(sent') = m + 1 /\ sent'[m + 1] = f
      /\ \A k \in 1..m : sent'[k] = sent[k]
      /\ \A k \in 1..Len(sent') : k \in 1..m \/ k = m + 1
  BY <1>1, LastSent
<1>3. f.payload \in Seq(Bytes) /\ Len(f.payload) \in Nat /\ c[m] \in Nat
  BY <1>1 DEF WireFrame
<1>4. PICK n : n = IF Mine(f) THEN c[m] + Len(f.payload) ELSE c[m]
  OBVIOUS
<1>5. n \in Nat
  BY <1>3, <1>4
<1>6. d = Extend(c, m, n)
  BY <1>1, <1>4 DEF Further
<1>7. d \in [Nat -> Nat] /\ d[m + 1] = n /\ \A k \in 0..m : d[k] = c[k]
  <2>1. c \in [Nat -> Nat] /\ m \in Nat /\ n \in Nat
    BY <1>1, <1>5
  <2>2. /\ Extend(c, m, n) \in [Nat -> Nat] /\ Extend(c, m, n)[m + 1] = n
        /\ \A k \in 0..m : Extend(c, m, n)[k] = c[k]
    BY <2>1, Extended
  <2> QED BY <1>6, <2>2, Zenon
<1>8. ASSUME NEW p, NEW k, Piece(p, k)
      PROVE  Piece(p, k)'
  BY <1>8 DEF Piece
<1>9. ASSUME NEW k \in 1..Len(sent')
      PROVE  (IF Mine(sent[k])
              THEN Piece(sent[k].payload, d[k - 1]) /\ d[k] = d[k - 1] + Len(sent[k].payload)
              ELSE d[k] = d[k - 1])'
  <2>1. PICK g : g = sent'[k]
    OBVIOUS
  <2>2. IF Mine(g) THEN Piece(g.payload, d[k - 1])' /\ d[k] = d[k - 1] + Len(g.payload)
        ELSE d[k] = d[k - 1]
    <3>1. CASE k \in 1..m
      <4>1. k \in 0..m /\ k - 1 \in 0..m
        BY <3>1
      <4>2. d[k] = c[k] /\ d[k - 1] = c[k - 1] /\ g = sent[k]
        BY <1>2, <1>7, <2>1, <3>1, <4>1
      <4>3. IF Mine(g) THEN Piece(g.payload, c[k - 1]) /\ c[k] = c[k - 1] + Len(g.payload)
            ELSE c[k] = c[k - 1]
        BY <1>1, <3>1, <4>2 DEF Carried
      <4> QED BY <1>8, <4>2, <4>3
    <3>2. CASE k = m + 1
      <4>1. k - 1 = m /\ m \in 0..m
        BY <1>1, <3>2
      <4>2. g = f /\ d[k] = n /\ d[k - 1] = c[m]
        BY <1>2, <1>7, <2>1, <3>2, <4>1
      <4>3. Mine(f) => Piece(f.payload, c[m])
        BY <1>1
      <4> QED BY <1>4, <1>8, <4>2, <4>3
    <3> QED BY <1>2, <3>1, <3>2
  <2> QED BY <2>1, <2>2
<1>10. Piece(fed, 0)' /\ Len(fed') = d[handled']
  <2>1. Piece(fed, 0) /\ Len(fed) = c[handled]
    BY DEF Carried
  <2>2. Piece(fed, 0)'
    BY <2>1 DEF Piece
  <2> QED BY <1>1, <1>7, <2>1, <2>2
<1>11. Carried(d)'
  BY <1>7, <1>9, <1>10 DEF Carried
<1> QED BY <1>1, <1>2, <1>4, <1>7, <1>11

\* The frame the proxy thread has written is the one its step called for.
LEMMA ThreadWrote ==
    ASSUME Path, FramesFit, todo[Proxy] # <<>>
    PROVE  /\ HasRequest /\ pp \in {"opening", "sending", "closing"}
           /\ pp = "opening" => frame[Proxy] = OpenFrame
           /\ pp # "opening" => frame[Proxy].type # "Open"
           /\ Mine(frame[Proxy]) <=> pp = "sending"
<1>1. /\ pp = "opening" => frame[Proxy] = OpenFrame
      /\ pp = "sending" => frame[Proxy] = DataFrame(frame[Proxy].payload)
      /\ pp = "closing" => frame[Proxy] = CloseFrame
      /\ pp \in {"opening", "sending", "closing"}
  BY DEF Path, Writes
<1>2. HasRequest
  BY <1>1 DEF HasRequest
<1>3. \A p : DataFrame(p).type = "Data" /\ DataFrame(p).id = Id
  BY DEF DataFrame
<1>4. OpenFrame.type = "Open" /\ CloseFrame.type = "Close"
  BY DEF OpenFrame, CloseFrame
<1>5. pp = "sending" => frame[Proxy].type = "Data" /\ frame[Proxy].id = Id
  BY <1>1, <1>3
<1>6. pp = "opening" => frame[Proxy].type = "Open"
  BY <1>1, <1>4
<1>7. pp = "closing" => frame[Proxy].type = "Close"
  BY <1>1, <1>4
<1> QED BY <1>1, <1>2, <1>5, <1>6, <1>7 DEF Mine

LEMMA WroteKeeps ==
    ASSUME Path, FramesFit, Alongside, NEW t \in Threads, Wrote(t)
    PROVE  Path'
<1>1. /\ Heard' /\ Whole' = Whole
      /\ UNCHANGED <<phase, ask, agent, pp, unread, buffer, request>>
      /\ UNCHANGED <<handled, opening, granted, dialled, fed>>
  BY AlongsideOn
<1>2. PICK f : f = frame[t] /\ f \in WireFrame /\ sent' = Append(sent, f)
  BY DEF Wrote, Path, WireInv, Typed
<1>3. /\ UNCHANGED <<frame, received>> /\ todo[t] # <<>> /\ todo'[t] = <<>> /\ result'[t] = "ok"
      /\ \A u \in Threads \ {t} : todo[u] = <<>> /\ todo'[u] = <<>> /\ result'[u] = result[u]
  BY WireEnds
<1>4. t \in {Proxy, Rival} /\ Proxy # Rival /\ Threads = {Proxy, Rival}
  BY Counts
<1>5. /\ Len(sent') = Len(sent) + 1 /\ sent'[Len(sent) + 1] = f /\ Len(sent) \in Nat
      /\ \A k \in 1..Len(sent) : sent'[k] = sent[k]
      /\ \A k \in 1..Len(sent') : k \in 1..Len(sent) \/ k = Len(sent) + 1
  BY <1>2, LastSent, Counts
<1>6. Writes'
  <2>1. \A u \in Threads : todo'[u] = <<>>
    BY <1>3
  <2> QED BY <1>4, <2>1 DEF Writes
<1>7. /\ f.type = "Open" => request.ok /\ f = OpenFrame
      /\ Mine(f) => t = Proxy /\ pp = "sending" /\ granted = "ok"
      /\ t = Proxy => (Mine(f) <=> pp = "sending")
  <2>1. CASE t = Proxy
    <3>1. /\ HasRequest /\ pp \in {"opening", "sending", "closing"}
          /\ pp = "opening" => f = OpenFrame
          /\ pp # "opening" => f.type # "Open"
          /\ Mine(f) <=> pp = "sending"
      BY <1>2, <1>3, <2>1, ThreadWrote
    <3>2. request.ok
      BY <3>1, Requested
    <3>3. pp = "sending" => granted = "ok"
      BY DEF Path, Granted
    <3> QED BY <2>1, <3>1, <3>2, <3>3
  <2>2. CASE t = Rival
    <3>1. f = RivalFrame
      BY <1>2, <1>3, <2>2 DEF Path, Writes
    <3>2. f.type # "Open" /\ ~Mine(f)
      BY <3>1 DEF FramesFit
    <3> QED BY <1>4, <2>2, <3>2
  <2> QED BY <1>4, <2>1, <2>2
<1>8. Opens'
  <2>1. OpenFrame' = OpenFrame /\ (Allowed(dialled)' <=> Allowed(dialled))
    BY <1>1 DEF OpenFrame, Allowed
  <2>2. /\ Len(received) <= Len(sent) /\ handled \in 0..Len(received) /\ Len(received) \in Nat
        /\ \A k \in 1..Len(received) : received[k] = sent[k]
        /\ \A k \in 1..Len(sent) : sent[k].type = "Open" => request.ok /\ sent[k] = OpenFrame
    BY Counts DEF Path, Opens
  <2>3. Len(received) <= Len(sent') /\ \A k \in 1..Len(received) : received[k] = sent'[k]
    <3>1. \A k \in 1..Len(received) : k \in 1..Len(sent)
      BY <1>5, <2>2
    <3> QED BY <1>5, <2>2, <3>1
  <2>4. \A k \in 1..Len(sent') : sent'[k].type = "Open" => request.ok /\ sent'[k] = OpenFrame
    BY <1>5, <1>7, <2>2
  <2> QED BY <1>1, <1>3, <2>1, <2>2, <2>3, <2>4 DEF Path, Opens
<1>9. Granted'
  <2>1. \A k \in 1..Len(sent') : Mine(sent'[k]) => granted = "ok"
    BY <1>5, <1>7 DEF Path, Granted
  <2>2. \A k \in 1..Len(sent') : Mine(sent[k])' <=> Mine(sent'[k])
    BY DEF Mine
  <2> QED BY <1>1, <2>1, <2>2 DEF Path, Granted
<1>10. Tracked'
  <2>1. PICK c : Carried(c) /\ GoesOn(c)
    BY DEF Path, Tracked
  <2>2. PICK d : d = Further(c, f)
    OBVIOUS
  <2>3. PICK n : n = c[Len(sent)]
    OBVIOUS
  <2>4. Mine(f) => Piece(f.payload, n) /\ Left(n + Len(f.payload))
    BY <1>2, <1>3, <1>7, <2>1, <2>3 DEF GoesOn
  <2>5. /\ Carried(d)' /\ \A k \in 0..Len(sent) : d[k] = c[k]
        /\ d[Len(sent')] = IF Mine(f) THEN n + Len(f.payload) ELSE n
    BY <1>1, <1>2, <2>1, <2>2, <2>3, <2>4, FurtherIs
  <2>6. GoesOn(d)'
    <3>1. pp \in {"reading", "parsed", "opening", "waiting", "granted"} =>
            \A k \in 0..Len(sent') : d[k] = 0
      <4>1. ASSUME pp \in {"reading", "parsed", "opening", "waiting", "granted"}
            PROVE  ~Mine(f) /\ n = 0 /\ \A k \in 0..Len(sent) : d[k] = 0
        BY <1>5, <1>7, <2>1, <2>3, <2>5, <4>1 DEF GoesOn
      <4>2. \A k \in 0..Len(sent') : k \in 0..Len(sent) \/ k = Len(sent')
        BY <1>5
      <4> QED BY <2>5, <4>1, <4>2
    <3>2. pp = "copying" => Left(d[Len(sent')])
      <4>1. ASSUME pp = "copying"
            PROVE  ~Mine(f) /\ Left(n)
        BY <1>7, <2>1, <2>3, <4>1 DEF GoesOn
      <4> QED BY <2>5, <4>1
    <3>3. pp = "sending" /\ result'[Proxy] = "ok" => Left(d[Len(sent')])
      <4>1. CASE t = Proxy
        BY <1>7, <2>4, <2>5, <4>1
      <4>2. CASE t = Rival
        <5>1. Proxy \in Threads \ {t} /\ ~Mine(f)
          BY <1>4, <1>7, <4>2
        <5>2. todo[Proxy] = <<>> /\ result'[Proxy] = result[Proxy]
          BY <1>3, <5>1
        <5>3. pp = "sending" /\ result'[Proxy] = "ok" => Left(n)
          BY <2>1, <2>3, <5>2 DEF GoesOn
        <5> QED BY <2>5, <5>1, <5>3
      <4> QED BY <1>4, <4>1, <4>2
    <3>4. todo'[Proxy] = <<>>
      BY <1>3, <1>4
    <3>5. /\ pp = "copying" => Left(d[Len(sent)])'
          /\ pp = "sending" /\ result'[Proxy] = "ok" => Left(d[Len(sent)])'
      BY <1>1, <3>2, <3>3 DEF Left, Piece
    <3> QED BY <1>1, <2>1, <3>1, <3>4, <3>5 DEF GoesOn
  <2> QED BY <2>5, <2>6 DEF Tracked
<1> QED BY <1>1, <1>6, <1>8, <1>9, <1>10 DEF Path, Alongside

LEMMA WireNextKeeps ==
    ASSUME Path, FramesFit, phase = "joined", WireNext, UNCHANGED <<setup, pp, client, target>>
    PROVE  Path'
<1>1. WireInv'
  BY StepKeeps DEF Path, Step
<1>2. Results /\ (UNCHANGED result => Results')
  BY DEF Path, Results
<1>3. CASE Calm
  BY <1>1, <1>2, <1>3, CalmKeeps DEF Calm, Alongside
<1>4. CASE Arrives
  BY <1>1, <1>2, <1>4, ArrivesKeeps DEF Arrives, Alongside
<1>5. ASSUME NEW t \in Threads, Wrote(t) \/ GaveUp(t)
      PROVE  Path'
  <2>1. Alongside
    BY <1>1, <1>5, WireEnds DEF Alongside
  <2> QED BY <1>5, <2>1, WroteKeeps, GaveUpKeeps
<1> QED BY <1>3, <1>4, <1>5, WireEffect DEF Path

-----------------------------------------------------------------------------
(* The theorems.                                                            *)

LEMMA InitPath ==
    ASSUME \A k \in Cases : Understood(k.ask), Init
    PROVE  Path
<1>1. /\ pp = "reading" /\ buffer = <<>> /\ request = Bad /\ handled = 0 /\ opening = <<>>
      /\ granted = "none" /\ dialled = Invalid /\ fed = <<>> /\ phase = "starting"
      /\ WireInit /\ \E k \in Cases : ask = k.ask
  BY DEF Init
<1>2. /\ sent = <<>> /\ received = <<>> /\ result = [t \in Threads |-> "none"]
      /\ todo = [t \in Threads |-> <<>>]
  BY <1>1 DEF WireInit
<1>3. Len(sent) = 0 /\ Len(received) = 0 /\ \A t \in Threads : todo[t] = <<>>
  BY <1>2
<1>4. WireInv /\ Results
  BY <1>1, <1>2, InitPlaced DEF Results
<1>5. Understood(ask) /\ ~Bad.ok /\ ~Bad.connect
  BY <1>1 DEF Bad
<1>6. Whole \in Seq(Bytes)
  <2>1. Whole = ask.rewritten \o ask.body
    BY <1>1, <1>5 DEF Whole
  <2> QED BY <1>5, <2>1, Both DEF Understood, Behind
<1>7. Heard
  BY <1>1, <1>2, <1>3, <1>5, <1>6 DEF Heard, Untouched, HasRequest
<1>8. Writes /\ Opens /\ Granted
  BY <1>1, <1>3, Counts, ProxyPathAssumption DEF Writes, Opens, Granted
<1>9. Tracked
  <2>1. PICK c \in [Nat -> Nat] : \A k \in Nat : c[k] = 0
    <3>1. [k \in Nat |-> 0] \in [Nat -> Nat] /\ \A k \in Nat : [j \in Nat |-> 0][k] = 0
      OBVIOUS
    <3> QED BY <3>1
  <2>2. Piece(fed, 0) /\ Len(fed) = 0
    BY <1>1, <1>6 DEF Piece
  <2>3. Carried(c)
    BY <1>1, <1>3, <2>1, <2>2 DEF Carried
  <2>4. GoesOn(c)
    BY <1>1, <1>3, <2>1 DEF GoesOn
  <2> QED BY <2>3, <2>4 DEF Tracked
<1> QED BY <1>4, <1>7, <1>8, <1>9 DEF Path

LEMMA NextPath ==
    ASSUME FramesFit, \A k \in Cases : Understood(k.ask), Path, [Next]_vars
    PROVE  Path'
<1>1. CASE UNCHANGED vars
  <2>1. /\ UNCHANGED <<launch, agent, tunnel, ask, phase, pp, unread, buffer, request, reply>>
        /\ UNCHANGED <<handled, opening, granted, dialled, fed>> /\ UNCHANGED wire
    BY <1>1 DEF vars, setup, client, target
  <2>2. WireInv' /\ Results'
    BY <2>1, QuietOn
  <2>3. UNCHANGED <<todo, frame, result, sent, received>>
    BY <2>1 DEF wire
  <2>4. Whole' = Whole
    BY <2>1, WholeOn
  <2>5. Heard'
    BY <2>1, <2>3, <2>4 DEF Path, Heard, Untouched, HasRequest
  <2>6. Writes' /\ Opens' /\ Granted'
    BY <2>1, <2>3, WritesOn, OpensOn, GrantedOn DEF Path
  <2>7. PICK c : Carried(c) /\ GoesOn(c)
    BY DEF Path, Tracked
  <2>8. Carried(c)'
    BY <2>1, <2>3, <2>4, <2>7, CarriedOn
  <2>9. GoesOn(c)'
    BY <2>1, <2>3, <2>4, <2>7 DEF GoesOn, Left, Piece
  <2> QED BY <2>2, <2>5, <2>6, <2>8, <2>9 DEF Path, Tracked
<1>2. CASE Next /\ phase # "joined"
  BY <1>2, OnlyWhenJoined, StartKeeps
<1>3. CASE Next /\ phase = "joined"
  <2>1. ~Start /\ ~Join
    BY <1>3 DEF Start, Join
  <2> QED BY <1>3, <2>1, ReadHeaderKeeps, WaitsKeep, BeginsKeep, RivalSendsKeeps, HandleFrameKeeps,
             HandleOpenKeeps, WireNextKeeps, ConnectionIsWire DEF Next
<1> QED BY <1>1, <1>2, <1>3

\* The agent connects only to the endpoint the client asked for, and only if its
\* list has it, through every form of request, the Open frame and the agent's
\* look-up (parse_proxy_request, make_open_payload, Agent::handle_open).
THEOREM OnlyTheEndpointAsked ==
    ASSUME FramesFit, \A k \in Cases : Understood(k.ask)
    PROVE  Spec => []DialsWhatWasAsked
<1>1. Init => Path
  BY InitPath
<1>2. Path /\ [Next]_vars => Path'
  BY NextPath
<1>3. Path => DialsWhatWasAsked
  <2> SUFFICES ASSUME Path, dialled # Invalid
               PROVE  /\ dialled = ask.means
                      /\ \E text \in agent.allow : parse_host_port(text, 0) = dialled
    BY DEF DialsWhatWasAsked
  <2>1. request.ok /\ dialled = request.endpoint /\ Allowed(dialled)
    BY DEF Path, Opens
  <2>2. dialled = ask.means /\ Sayable(request.endpoint)
    BY <2>1 DEF Path, Heard
  <2>3. parse_host_port(endpoint_to_string(dialled.host, dialled.port), 0) = dialled
    BY <2>1, <2>2, OpenFits
  <2> QED BY <2>1, <2>2, <2>3 DEF Allowed
<1> QED BY <1>1, <1>2, <1>3, PTL DEF Spec

\* What a target reads is a beginning of what its client sent it, in order and
\* with nothing of another stream, however the header was cut by recv and the
\* frames by the sockets (read_http_header, pump_socket_to_session).
THEOREM OnlyTheClientIsRead ==
    ASSUME FramesFit, \A k \in Cases : Understood(k.ask)
    PROVE  Spec => []TargetReadsTheClient
<1>1. Init => Path
  BY InitPath
<1>2. Path /\ [Next]_vars => Path'
  BY NextPath
<1>3. Path => TargetReadsTheClient
  <2> SUFFICES ASSUME Path PROVE IsPrefix(fed, Whole)
    BY DEF TargetReadsTheClient, Whole
  <2>1. PICK c : Carried(c)
    BY DEF Path, Tracked
  <2>2. PICK w : w = Whole
    OBVIOUS
  <2>3. /\ fed \in Seq(Bytes) /\ w \in Seq(Bytes) /\ Len(fed) <= Len(w)
        /\ \A i \in 1..Len(fed) : fed[i] = w[i]
    BY <2>1, <2>2 DEF Carried, Piece, Path, Heard
  <2>4. Len(fed) \in 0..Len(w) /\ Len(fed) \in 0..Len(fed)
    BY <2>3
  <2>5. PICK d, e : d = SubSeq(fed, 1, Len(fed)) /\ e = SubSeq(w, 1, Len(fed))
    OBVIOUS
  <2>6. /\ d \in Seq(Bytes) /\ Len(d) = Len(fed) /\ \A i \in 1..Len(fed) : d[i] = fed[i]
        /\ e \in Seq(Bytes) /\ Len(e) = Len(fed) /\ \A i \in 1..Len(fed) : e[i] = w[i]
    BY <2>3, <2>4, <2>5, Halves DEF Halved
  <2>7. d = e
    BY <2>3, <2>6, Same
  <2> QED BY <2>2, <2>3, <2>5, <2>7 DEF IsPrefix
<1> QED BY <1>1, <1>2, <1>3, PTL DEF Spec

\* The two programs and the other client use the connection as Wire allows, so
\* that the frames they exchange arrive whole, once and in order.
THEOREM PathImplementsMessages ==
    ASSUME FramesFit, \A k \in Cases : Understood(k.ask)
    PROVE  Spec => FramesInOrder
<1>1. Init => Path /\ Channel!Init
  BY InitPath DEF Init, WireInit, Channel!Init
<1>2. Path /\ [Next]_vars => Path'
  BY NextPath
<1>3. Path /\ [Next]_vars => [Channel!Next]_(Channel!vars)
  BY StepIsWire, StepRefines DEF Path
<1> QED BY <1>1, <1>2, <1>3, PTL DEF Spec, FramesInOrder, Channel!Spec

\* What does not depend on the requests.
Simple ==
    /\ phase \in {"starting", "resolved", "joined", "apart"}
    /\ pp \in {"reading", "parsed", "opening", "waiting", "granted", "copying", "sending",
               "closing", "over"}
    /\ reply \in {"none", "200", "400", "502"}
    /\ granted \in {"none", "ok", "error"}
    /\ Len(pipe) <= Room

\* The sockets never hold more than they have room for.
LEMMA PipeHolds ==
    ASSUME Typed, Len(pipe) <= Room, WireNext
    PROVE  Len(pipe') <= Room
<1>1. pipe \in Seq(WireByte) /\ Len(pipe) \in Nat /\ Room \in Nat
      /\ \A t \in Threads : todo[t] \in Seq(WireByte) /\ Len(todo[t]) \in Nat
  BY RoomAssumption DEF Typed
<1>2. ASSUME NEW t \in Threads, Write(t)
      PROVE  Len(pipe') <= Room
  <2>1. PICK n \in 1..Len(todo[t]) : Len(pipe) + n <= Room /\ pipe' = pipe \o SubSeq(todo[t], 1, n)
    BY <1>2 DEF Write
  <2>2. PICK b : b = SubSeq(todo[t], 1, n)
    OBVIOUS
  <2>3. n \in 0..Len(todo[t]) /\ todo[t] \in Seq(WireByte)
    BY <1>1
  <2>4. b \in Seq(WireByte) /\ Len(b) = n
    BY <2>2, <2>3, Parts
  <2>5. Len(pipe') = Len(pipe) + n
    BY <1>1, <2>1, <2>2, <2>4, Concatenated
  <2> QED BY <2>1, <2>5
<1>3. ASSUME Read
      PROVE  Len(pipe') <= Room
  <2>1. PICK n \in 1..Len(pipe) : pipe' = SubSeq(pipe, n + 1, Len(pipe))
    BY <1>3 DEF Read
  <2>2. n \in 0..Len(pipe)
    BY <1>1
  <2>3. Len(pipe') = Len(pipe) - n
    BY <1>1, <2>1, <2>2, Parts
  <2> QED BY <1>1, <2>2, <2>3
<1>4. ASSUME Break
      PROVE  Len(pipe') <= Room
  <2>1. PICK n \in 0..Len(pipe) : pipe' = SubSeq(pipe, 1, n)
    BY <1>4 DEF Break
  <2>2. Len(pipe') = n
    BY <1>1, <2>1, Parts
  <2> QED BY <1>1, <2>2
<1>5. ASSUME ReadFails \/ \E t \in Threads : WriteFails(t)
      PROVE  Len(pipe') <= Room
  BY <1>5 DEF ReadFails, WriteFails
<1> QED BY <1>2, <1>3, <1>4, <1>5 DEF WireNext

LEMMA SimpleKeeps ==
    ASSUME Path, Simple, [Next]_vars
    PROVE  Simple'
<1>1. Len(pipe') <= Room
  <2>1. CASE UNCHANGED pipe
    BY <2>1 DEF Simple
  <2>2. CASE WireNext
    BY <2>2, PipeHolds DEF Path, WireInv, Simple
  <2>3. \A t, f : Begin(t, f) => UNCHANGED pipe
    BY DEF Begin
  <2>4. UNCHANGED wire => UNCHANGED pipe
    BY DEF wire
  <2>5. UNCHANGED pipe \/ WireNext
    <3>1. CASE UNCHANGED vars
      BY <2>4, <3>1 DEF vars
    <3>2. CASE Start \/ Join \/ ReadHeader \/ HeaderEnds \/ Opened
      BY <2>4, <3>2 DEF Start, Join, ReadHeader, HeaderEnds, Opened
    <3>3. CASE Greet \/ Sent \/ Closed \/ HandleFrame \/ HandleOpen
      BY <2>4, <3>3 DEF Greet, Sent, Closed, HandleFrame, HandleOpen
    <3>4. CASE SendOpen \/ SendInitial \/ Copy \/ SendClose \/ RivalSends
      BY <2>3, <3>4 DEF SendOpen, SendInitial, Copy, SendClose, RivalSends
    <3> QED BY <3>1, <3>2, <3>3, <3>4, ConnectionIsWire DEF Next
  <2> QED BY <2>1, <2>2, <2>5
<1>2. ASSUME UNCHANGED <<phase, pp, reply, granted>>
      PROVE  Simple'
  BY <1>1, <1>2 DEF Simple
<1>3. CASE UNCHANGED vars
  BY <1>2, <1>3 DEF vars, setup, client, target
<1>4. CASE Start
  BY <1>1, <1>4 DEF Simple, Start, client, target
<1>5. CASE Join
  BY <1>1, <1>5 DEF Simple, Join, target
<1>6. CASE ReadHeader
  BY <1>1, <1>6 DEF Simple, ReadHeader, setup, target
<1>7. CASE HeaderEnds
  BY <1>1, <1>7 DEF Simple, HeaderEnds, setup, client, target
<1>8. CASE SendOpen
  BY <1>1, <1>8 DEF Simple, SendOpen, setup, client, target
<1>9. CASE Opened
  BY <1>1, <1>9 DEF Simple, Opened, setup, target
<1>10. CASE Greet
  BY <1>1, <1>10 DEF Simple, Greet, setup, target
<1>11. CASE SendInitial
  BY <1>1, <1>11 DEF Simple, SendInitial, setup, client, target
<1>12. CASE Copy
  BY <1>1, <1>12 DEF Simple, Copy, setup, target
<1>13. CASE Sent
  BY <1>1, <1>13 DEF Simple, Sent, setup, client, target
<1>14. CASE SendClose
  BY <1>1, <1>14 DEF Simple, SendClose, setup, client, target
<1>15. CASE Closed
  BY <1>1, <1>15 DEF Simple, Closed, setup, client, target
<1>16. CASE RivalSends
  BY <1>2, <1>16 DEF RivalSends, setup, client, target
<1>17. CASE HandleFrame
  BY <1>2, <1>17 DEF HandleFrame, setup, client
<1>18. CASE HandleOpen
  BY <1>1, <1>18 DEF Simple, HandleOpen, setup, client
<1>19. CASE WireNext /\ UNCHANGED <<setup, pp, client, target>>
  BY <1>2, <1>19 DEF setup, client, target
<1> QED BY <1>3, <1>4, <1>5, <1>6, <1>7, <1>8, <1>9, <1>10, <1>11, <1>12, <1>13, <1>14, <1>15,
           <1>16, <1>17, <1>18, <1>19, ConnectionIsWire DEF Next

\* Every variable stays within its type: the agent deals only with frames that
\* were read, and the sockets hold no more than they have room for.
THEOREM PathTypes ==
    ASSUME FramesFit, \A k \in Cases : Understood(k.ask)
    PROVE  Spec => []TypeOK
<1>1. Init => Path
  BY InitPath
<1>2. Init => Simple
  BY RoomAssumption DEF Init, WireInit, Simple
<1>3. Path /\ [Next]_vars => Path'
  BY NextPath
<1>4. Path /\ Simple /\ [Next]_vars => Simple'
  BY SimpleKeeps
<1>5. Path /\ Simple => TypeOK
  <2> SUFFICES ASSUME Path, Simple PROVE TypeOK
    OBVIOUS
  <2>1. \A t \in Threads : result[t] \in {"none", "ok", "failed"}
    BY DEF Path, Results
  <2>2. handled \in 0..Len(received)
    BY Counts
  <2> QED BY <2>1, <2>2 DEF TypeOK, Simple
<1> QED BY <1>1, <1>2, <1>3, <1>4, <1>5, PTL DEF Spec
-----------------------------------------------------------------------------
(* A send that failed.                                                      *)

Distinct(s) == \A i, j \in 1..Len(s) : s[i] = s[j] => i = j

\* The bytes a client sends behind its header can be told apart, and from the
\* first line of what the header becomes.
ToldApart(a) ==
    /\ Distinct(a.body \o a.later)
    /\ HasHeader(a.stream) /\ parse_proxy_request(Header(a.stream), <<>>).ok
       /\ Head(Lines(Header(a.stream))).method # "CONNECT" =>
         a.rewritten # <<>> /\ \A i \in 1..Len(a.body) : a.body[i] # a.rewritten[1]

\* How far the thread is when its frames have been written.
Said ==
    \A k \in 1..Len(sent) :
        /\ sent[k].type = "Open" => pp \notin {"reading", "parsed"}
        /\ Mine(sent[k]) => pp \notin {"reading", "parsed", "opening", "waiting", "granted"}
        /\ sent[k] = CloseFrame => pp \in {"closing", "over"}
        /\ sent[k] = RivalFrame => frame[Rival] = RivalFrame

\* p begins with a byte that will not be read again.
Leads(p) == p # <<>> /\ \A i \in 1..Len(unread) : unread[i] # p[1]

\* What the thread will send begins differently from all it has sent.
Fresh ==
    /\ pp \in {"parsed", "opening", "waiting", "granted"} =>
         IF request.connect THEN Distinct(unread \o ask.later)
         ELSE Distinct(unread) /\ Leads(request.data)
    /\ pp \in {"copying", "sending"} =>
         /\ Distinct(unread)
         /\ \A k \in 1..Len(sent) : Mine(sent[k]) => Leads(sent[k].payload)
    /\ pp = "sending" /\ todo[Proxy] # <<>> => Leads(frame[Proxy].payload)

\* What is behind the header when it is complete is the end of the body.
LEMMA RestOfBody ==
    ASSUME Understood(ask), buffer' \in Seq(Bytes), unread' \in Seq(Bytes),
           buffer' \o unread' = ask.stream, HasHeader(buffer'), UNCHANGED ask,
           request' = parse_proxy_request(Header(buffer'), Leftover(buffer')), request'.ok
    PROVE  /\ HasHeader(ask.stream) /\ parse_proxy_request(Header(ask.stream), <<>>).ok
           /\ \E lo \in Seq(Bytes) :
                /\ Behind(lo, unread', ask.body)
                /\ ~request'.connect =>
                     /\ Head(Lines(Header(ask.stream))).method # "CONNECT"
                     /\ request'.data = ask.rewritten \o lo
<1>1. PICK all, rest, lo, h : all = buffer' /\ rest = unread' /\ lo = Leftover(all) /\ h = Header(all)
  OBVIOUS
<1>2. all \in Seq(Bytes) /\ rest \in Seq(Bytes) /\ Behind(all, rest, ask.stream) /\ HasHeader(all)
  BY <1>1, Both
<1>3. HasHeader(ask.stream) /\ Header(ask.stream) = h /\ lo \in Seq(Bytes)
      /\ Behind(lo, rest, Leftover(ask.stream))
  BY <1>1, <1>2, HeaderOfWhole
<1>4. /\ Leftover(ask.stream) = ask.body
      /\ parse_proxy_request(h, <<>>).ok =>
           /\ Destination(Lines(h)) = ask.means
           /\ Head(Lines(h)).method # "CONNECT" => Rewritten(Lines(h), ask.means) = ask.rewritten
  BY <1>3 DEF Understood
<1>5. PICK r : r = parse_proxy_request(h, lo)
  OBVIOUS
<1>6. request' = r
  BY <1>1, <1>5
<1>7. /\ r.ok <=> parse_proxy_request(h, <<>>).ok
      /\ r.ok => /\ r.connect <=> Head(Lines(h)).method = "CONNECT"
                 /\ ~r.connect => r.data = Rewritten(Lines(h), Destination(Lines(h))) \o lo
  BY <1>5, Parsed
<1>8. parse_proxy_request(h, <<>>).ok
  BY <1>6, <1>7
<1>9. ~r.connect => Head(Lines(h)).method # "CONNECT" /\ r.data = ask.rewritten \o lo
  BY <1>4, <1>6, <1>7, <1>8
<1> QED BY <1>1, <1>3, <1>4, <1>6, <1>8, <1>9

\* The end of what can be told apart can.
LEMMA EndDistinct ==
    ASSUME NEW lo \in Seq(Bytes), NEW rest \in Seq(Bytes), NEW body, Behind(lo, rest, body),
           NEW later \in Seq(Bytes), Distinct(body \o later)
    PROVE  Distinct(rest \o later) /\ Distinct(rest)
<1>1. PICK c, d : c = body \o later /\ d = rest \o later
  OBVIOUS
<1>2. body \in Seq(Bytes) /\ Behind(body, later, c) /\ Behind(rest, later, d)
  <2>1. body \in Seq(Bytes)
    BY DEF Behind
  <2> QED BY <1>1, <2>1, Both
<1>3. /\ Len(c) = Len(body) + Len(later) /\ Len(d) = Len(rest) + Len(later)
      /\ Len(body) = Len(lo) + Len(rest)
      /\ Len(lo) \in Nat /\ Len(rest) \in Nat /\ Len(later) \in Nat
  BY <1>2 DEF Behind
<1>4. ASSUME NEW i \in 1..Len(d)
      PROVE  d[i] = c[Len(lo) + i] /\ Len(lo) + i \in 1..Len(c)
  <2>1. CASE i \in 1..Len(rest)
    <3>1. Len(lo) + i \in 1..Len(body)
      BY <1>3, <2>1
    <3>2. d[i] = rest[i] /\ body[Len(lo) + i] = rest[i] /\ c[Len(lo) + i] = body[Len(lo) + i]
      BY <1>2, <2>1, <3>1 DEF Behind
    <3> QED BY <1>3, <3>1, <3>2
  <2>2. CASE i \notin 1..Len(rest)
    <3>1. PICK j \in 1..Len(later) : i = Len(rest) + j
      <4>1. i - Len(rest) \in 1..Len(later) /\ i = Len(rest) + (i - Len(rest))
        BY <1>3, <2>2
      <4> QED BY <4>1
    <3>2. d[Len(rest) + j] = later[j] /\ c[Len(body) + j] = later[j]
      BY <1>2 DEF Behind
    <3>3. Len(lo) + i = Len(body) + j
      BY <1>3, <3>1
    <3> QED BY <1>3, <3>1, <3>2, <3>3
  <2> QED BY <2>1, <2>2
<1>5. Distinct(d)
  <2> SUFFICES ASSUME NEW i \in 1..Len(d), NEW j \in 1..Len(d), d[i] = d[j] PROVE i = j
    BY DEF Distinct
  <2>1. Len(lo) + i = Len(lo) + j
    BY <1>1, <1>4 DEF Distinct
  <2> QED BY <1>3, <2>1
<1>6. Distinct(rest)
  <2>1. \A i \in 1..Len(rest) : i \in 1..Len(d) /\ d[i] = rest[i]
    BY <1>2, <1>3 DEF Behind
  <2> QED BY <1>5, <2>1 DEF Distinct
<1> QED BY <1>1, <1>5, <1>6

\* The request's own data begin with the rewritten header.
LEMMA FirstOfBoth ==
    ASSUME NEW a \in Seq(Bytes), NEW b \in Seq(Bytes), a # <<>>
    PROVE  (a \o b)[1] = a[1] /\ a \o b # <<>>
OBVIOUS

LEMMA SaidOn ==
    ASSUME Said, UNCHANGED <<sent, frame>>,
           pp' \in {"reading", "parsed"} => pp \in {"reading", "parsed"},
           pp' \in {"reading", "parsed", "opening", "waiting", "granted"} =>
               pp \in {"reading", "parsed", "opening", "waiting", "granted"},
           pp \in {"closing", "over"} => pp' \in {"closing", "over"}
    PROVE  Said'
BY DEF Said, CloseFrame

LEMMA FreshOn ==
    ASSUME Fresh, UNCHANGED <<sent, frame, todo, pp, request, unread, ask>>
    PROVE  Fresh'
BY DEF Fresh, Leads

LEMMA InitFresh == Init => Said /\ Fresh
<1> SUFFICES ASSUME Init PROVE Said /\ Fresh
  OBVIOUS
<1>1. pp = "reading" /\ Len(sent) = 0
  BY DEF Init, WireInit
<1> QED BY <1>1 DEF Said, Fresh

LEMMA ReadHeaderFresh ==
    ASSUME Path, Said, Fresh, \A k \in Cases : Understood(k.ask) /\ ToldApart(k.ask), ReadHeader
    PROVE  Said' /\ Fresh'
<1>1. /\ pp = "reading" /\ phase = "joined" /\ request = Bad /\ UNCHANGED <<wire, ask>>
  BY DEF ReadHeader, setup, Path, Heard
<1>2. UNCHANGED <<todo, frame, sent>>
  BY <1>1 DEF wire
<1>3. \A k \in 1..Len(sent) : ~Mine(sent[k]) /\ sent[k].type # "Open" /\ sent[k] # CloseFrame
  BY <1>1, NothingYet DEF Said
<1>4. Said'
  <2>1. CloseFrame' = CloseFrame
    BY DEF CloseFrame
  <2> QED BY <1>2, <1>3, <2>1 DEF Said
<1>5. PICK n \in Pieces :
        /\ buffer' = buffer \o SubSeq(unread, 1, n)
        /\ unread' = SubSeq(unread, n + 1, Len(unread))
  BY DEF ReadHeader
<1>6. buffer' \in Seq(Bytes) /\ unread' \in Seq(Bytes) /\ buffer' \o unread' = ask.stream
  <2>1. buffer \in Seq(Bytes) /\ unread \in Seq(Bytes) /\ buffer \o unread = ask.stream
    BY <1>1 DEF Path, Heard
  <2>2. n \in 0..Len(unread)
    BY <2>1, ProxyPathAssumption DEF Pieces
  <2> QED BY <1>5, <2>1, <2>2, MovedOn
<1>7. Understood(ask) /\ ToldApart(ask)
  BY DEF Path, Heard
<1>8. pp' \in {"reading", "parsed", "over"}
      /\ (pp' = "parsed" => HasHeader(buffer') /\ request'.ok
                            /\ request' = parse_proxy_request(Header(buffer'), Leftover(buffer')))
  BY DEF ReadHeader
<1>9. CASE pp' # "parsed"
  BY <1>4, <1>8, <1>9 DEF Fresh
<1>10. CASE pp' = "parsed"
  <2>1. /\ HasHeader(ask.stream) /\ parse_proxy_request(Header(ask.stream), <<>>).ok
        /\ \E lo \in Seq(Bytes) :
             /\ Behind(lo, unread', ask.body)
             /\ ~request'.connect =>
                  /\ Head(Lines(Header(ask.stream))).method # "CONNECT"
                  /\ request'.data = ask.rewritten \o lo
    BY <1>1, <1>6, <1>7, <1>8, <1>10, RestOfBody
  <2>2. PICK lo \in Seq(Bytes) :
          /\ Behind(lo, unread', ask.body)
          /\ ~request'.connect =>
               /\ Head(Lines(Header(ask.stream))).method # "CONNECT"
               /\ request'.data = ask.rewritten \o lo
    BY <2>1
  <2>3. PICK rest : rest = unread'
    OBVIOUS
  <2>4. Distinct(rest \o ask.later) /\ Distinct(rest)
    BY <1>6, <1>7, <2>2, <2>3, EndDistinct DEF ToldApart, Understood
  <2>5. ASSUME ~request'.connect
        PROVE  Leads(request.data)'
    <3>1. ask.rewritten # <<>> /\ \A i \in 1..Len(ask.body) : ask.body[i] # ask.rewritten[1]
      BY <1>7, <2>1, <2>2, <2>5 DEF ToldApart
    <3>2. request'.data[1] = ask.rewritten[1] /\ request'.data # <<>>
      <4>1. ask.rewritten \in Seq(Bytes) /\ request'.data = ask.rewritten \o lo
        BY <1>7, <2>2, <2>5 DEF Understood
      <4> QED BY <3>1, <4>1, FirstOfBoth
    <3>3. \A i \in 1..Len(unread') : Len(lo) + i \in 1..Len(ask.body) /\ ask.body[Len(lo) + i] = unread'[i]
      BY <2>2 DEF Behind
    <3> QED BY <3>1, <3>2, <3>3 DEF Leads
  <2>6. Distinct(unread \o ask.later)' /\ Distinct(unread)'
    BY <1>1, <2>3, <2>4 DEF Distinct
  <2>7. Fresh'
    BY <1>10, <2>5, <2>6 DEF Fresh
  <2> QED BY <1>4, <2>7
<1> QED BY <1>9, <1>10

LEMMA WaitsFresh ==
    ASSUME Path, Said, Fresh, HeaderEnds \/ Opened \/ Greet \/ Sent \/ Closed
    PROVE  Said' /\ Fresh'
<1>1. UNCHANGED <<setup, buffer, request, target>> /\ UNCHANGED wire
  BY DEF HeaderEnds, Opened, Greet, Sent, Closed, client
<1>2. UNCHANGED <<todo, frame, sent, request, ask>>
  BY <1>1 DEF wire, setup
<1>3. Said'
  <2>1. CASE HeaderEnds
    BY <1>2, <2>1, SaidOn DEF HeaderEnds
  <2>2. CASE Opened
    BY <1>2, <2>2, SaidOn DEF Opened
  <2>3. CASE Greet
    BY <1>2, <2>3, SaidOn DEF Greet
  <2>4. CASE Sent
    BY <1>2, <2>4, SaidOn DEF Sent
  <2>5. CASE Closed
    BY <1>2, <2>5, SaidOn DEF Closed
  <2> QED BY <2>1, <2>2, <2>3, <2>4, <2>5
<1>4. Fresh'
  <2>1. CASE HeaderEnds \/ Closed
    BY <2>1 DEF HeaderEnds, Closed, Fresh
  <2>2. CASE Opened
    <3>1. /\ pp \in {"opening", "waiting"} /\ pp' \in {"over", "waiting", "granted"}
          /\ UNCHANGED unread
      BY <2>2 DEF Opened
    <3> QED BY <1>2, <3>1 DEF Fresh, Leads
  <2>3. CASE Greet
    <3>1. pp = "granted" /\ pp' = "copying" /\ request.connect /\ unread' = unread \o ask.later
      BY <2>3 DEF Greet
    <3>2. \A k \in 1..Len(sent) : ~Mine(sent[k])
      BY <3>1 DEF Said
    <3>3. Distinct(unread)'
      BY <3>1 DEF Fresh, Distinct
    <3> QED BY <1>2, <3>1, <3>2, <3>3 DEF Fresh
  <2>4. CASE Sent
    <3>1. pp = "sending" /\ pp' \in {"copying", "over"} /\ UNCHANGED unread
      BY <2>4 DEF Sent, client
    <3> QED BY <1>2, <3>1 DEF Fresh, Leads
  <2> QED BY <2>1, <2>2, <2>3, <2>4
<1> QED BY <1>3, <1>4

\* What the thread begins to send differs from all it has sent.
LEMMA BeginsFresh ==
    ASSUME Path, FramesFit, Said, Fresh, SendOpen \/ SendInitial \/ Copy \/ SendClose
    PROVE  /\ Said' /\ Fresh'
           /\ \E f \in WireFrame : Begin(Proxy, f) /\ ~Written(f)
<1>1. /\ UNCHANGED <<setup, buffer, request, target>>
      /\ pp' \in {"opening", "sending", "closing"}
  BY ThreadBegins
<1>2. PICK f \in WireFrame :
        /\ Begin(Proxy, f)
        /\ pp' = "opening" => f = OpenFrame
        /\ pp' = "sending" => f = DataFrame(f.payload)
        /\ pp' = "closing" => f = CloseFrame
        /\ SendInitial => f = DataFrame(request.data)
        /\ Copy => \E n \in Pieces : /\ f = DataFrame(SubSeq(unread, 1, n))
                                     /\ unread' = SubSeq(unread, n + 1, Len(unread))
  BY ThreadBegins
<1>3. UNCHANGED sent /\ frame'[Proxy] = f /\ frame'[Rival] = frame[Rival] /\ UNCHANGED ask
      /\ CloseFrame' = CloseFrame
  <2>1. frame' = [frame EXCEPT ![Proxy] = f] /\ UNCHANGED sent
    BY <1>2 DEF Begin
  <2>2. frame \in [Threads -> WireFrame] /\ Proxy \in Threads /\ Rival \in Threads /\ Proxy # Rival
    BY Counts DEF Path, WireInv, Typed
  <2> QED BY <1>1, <2>1, <2>2 DEF setup, CloseFrame
<1>4. CASE SendOpen
  <2>1. pp = "parsed" /\ pp' = "opening" /\ UNCHANGED unread
    BY <1>4 DEF SendOpen, client
  <2>2. ~Written(f)
    BY <1>2, <2>1 DEF Written, Said, OpenFrame
  <2>3. Said'
    BY <1>3, <2>1 DEF Said
  <2>4. Fresh'
    BY <1>1, <1>3, <2>1 DEF Fresh, Leads
  <2> QED BY <1>2, <2>2, <2>3, <2>4
<1>5. CASE SendInitial
  <2>1. pp = "granted" /\ ~request.connect /\ pp' = "sending" /\ UNCHANGED unread
        /\ f = DataFrame(request.data)
    BY <1>2, <1>5 DEF SendInitial, client
  <2>2. \A k \in 1..Len(sent) : ~Mine(sent[k])
    BY <2>1 DEF Said
  <2>3. Mine(f) /\ f.payload = request.data
    BY <2>1 DEF Mine, DataFrame
  <2>4. ~Written(f)
    BY <2>2, <2>3 DEF Written
  <2>5. Said'
    BY <1>3, <2>1, <2>2 DEF Said
  <2>6. Fresh'
    BY <1>1, <1>3, <2>1, <2>2, <2>3 DEF Fresh, Leads
  <2> QED BY <1>2, <2>4, <2>5, <2>6
<1>6. CASE Copy
  <2>1. pp = "copying" /\ pp' = "sending"
    BY <1>6 DEF Copy
  <2>2. PICK n \in Pieces : /\ f = DataFrame(SubSeq(unread, 1, n))
                            /\ unread' = SubSeq(unread, n + 1, Len(unread))
    BY <1>2, <1>6
  <2>3. PICK p : p = SubSeq(unread, 1, n)
    OBVIOUS
  <2>4. unread \in Seq(Bytes) /\ n \in 1..Len(unread)
    <3>1. PICK c : GoesOn(c)
      BY DEF Path, Tracked
    <3>2. unread \in Seq(Bytes)
      BY <2>1, <3>1 DEF GoesOn, Left, Piece
    <3> QED BY <3>2, ProxyPathAssumption DEF Pieces
  <2>5. Halved(unread, n, p, unread')
    BY <2>2, <2>3, <2>4, Halves
  <2>6. p # <<>> /\ p[1] = unread[1] /\ 1 \in 1..Len(unread)
        /\ Len(unread') = Len(unread) - n
        /\ \A i \in 1..Len(unread') :
             /\ unread'[i] = unread[n + i]
             /\ n + i \in 1..Len(unread) /\ n + i # 1
             /\ i \in Int
    BY <2>4, <2>5 DEF Halved
  <2>7. Mine(f) /\ f.payload = p
    BY <2>2, <2>3 DEF Mine, DataFrame
  <2>8. \A k \in 1..Len(sent) : Mine(sent[k]) =>
          Leads(sent[k].payload) /\ sent[k].payload # p
    <3>1. \A k \in 1..Len(sent) : Mine(sent[k]) => Leads(sent[k].payload)
      BY <2>1 DEF Fresh
    <3> QED BY <2>6, <3>1 DEF Leads
  <2>9. ~Written(f)
    BY <2>7, <2>8 DEF Written
  <2>10. Distinct(unread)
    BY <2>1 DEF Fresh
  <2>11. Distinct(unread)'
    <3> SUFFICES ASSUME NEW i \in 1..Len(unread'), NEW j \in 1..Len(unread'), unread'[i] = unread'[j]
                 PROVE  i = j
      BY DEF Distinct
    <3>1. unread[n + i] = unread[n + j] /\ n + i \in 1..Len(unread) /\ n + j \in 1..Len(unread)
      BY <2>6
    <3>2. n + i = n + j
      BY <2>10, <3>1 DEF Distinct
    <3> QED BY <2>4, <2>6, <3>2
  <2>12. Leads(p)'
    <3>1. \A i \in 1..Len(unread') : unread'[i] # p[1]
      BY <2>6, <2>10 DEF Distinct
    <3> QED BY <2>6, <3>1 DEF Leads
  <2>13. \A k \in 1..Len(sent) : Mine(sent[k]) => Leads(sent[k].payload)'
    BY <1>3, <2>6, <2>8 DEF Leads
  <2>14. Said'
    BY <1>3, <2>1 DEF Said
  <2>15. Fresh'
    <3>1. (frame[Proxy].payload)' = p
      BY <1>3, <2>7
    <3>2. Leads(frame[Proxy].payload)'
      BY <2>12, <3>1 DEF Leads
    <3> QED BY <1>3, <2>1, <2>11, <2>13, <3>2 DEF Fresh, Mine
  <2> QED BY <1>2, <2>9, <2>14, <2>15
<1>7. CASE SendClose
  <2>1. pp = "copying" /\ pp' = "closing" /\ f = CloseFrame
    BY <1>2, <1>7 DEF SendClose
  <2>2. ~Written(f)
    BY <2>1 DEF Written, Said
  <2>3. Said'
    BY <1>3, <2>1 DEF Said
  <2>4. Fresh'
    BY <2>1 DEF Fresh
  <2> QED BY <1>2, <2>2, <2>3, <2>4
<1> QED BY <1>4, <1>5, <1>6, <1>7

\* The other client's frame is sent once.
LEMMA RivalSendsFresh ==
    ASSUME Path, FramesFit, Said, Fresh, RivalSends
    PROVE  /\ Said' /\ Fresh'
           /\ \E f \in WireFrame : Begin(Rival, f) /\ ~Written(f)
<1>1. UNCHANGED <<setup, pp, client, target>> /\ Begin(Rival, RivalFrame) /\ frame[Rival] # RivalFrame
      /\ RivalFrame \in WireFrame
  BY DEF RivalSends, FramesFit
<1>2. ~Written(RivalFrame)
  BY <1>1 DEF Written, Said
<1>3. UNCHANGED sent /\ frame'[Proxy] = frame[Proxy] /\ UNCHANGED <<ask, request, unread>>
      /\ frame'[Rival] = RivalFrame
  <2>1. frame' = [frame EXCEPT ![Rival] = RivalFrame] /\ UNCHANGED sent
    BY <1>1 DEF Begin
  <2>2. frame \in [Threads -> WireFrame] /\ Proxy \in Threads /\ Rival \in Threads /\ Proxy # Rival
    BY Counts DEF Path, WireInv, Typed
  <2> QED BY <1>1, <2>1, <2>2 DEF setup, client
<1>4. todo'[Proxy] = <<>>
  BY <1>1, Counts, BeginEffect DEF Path, Begun
<1>5. Said'
  BY <1>1, <1>2, <1>3 DEF Said, CloseFrame
<1>6. Fresh'
  BY <1>1, <1>3, <1>4 DEF Fresh, Leads
<1> QED BY <1>1, <1>2, <1>5, <1>6

\* A frame that is written is one of the thread's, at its step, or the other's.
LEMMA WroteFresh ==
    ASSUME Path, FramesFit, RivalFrame.id # Id, Said, Fresh, NEW t \in Threads, Wrote(t),
           UNCHANGED <<setup, pp, client, target>>
    PROVE  Said' /\ Fresh'
<1>1. PICK f : f = frame[t] /\ f \in WireFrame /\ sent' = Append(sent, f)
  BY DEF Wrote, Path, WireInv, Typed
<1>2. UNCHANGED frame /\ todo[t] # <<>> /\ \A u \in Threads : todo'[u] = <<>>
  BY WireEnds
<1>3. /\ \A k \in 1..Len(sent) : sent'[k] = sent[k]
      /\ \A k \in 1..Len(sent') : k \in 1..Len(sent) \/ sent'[k] = f
  BY <1>1, LastSent
<1>4. UNCHANGED <<ask, request, unread>> /\ CloseFrame' = CloseFrame
  BY DEF setup, client, CloseFrame
<1>5. t \in {Proxy, Rival} /\ Proxy \in Threads
  BY Counts
<1>6. /\ f.type = "Open" => pp \notin {"reading", "parsed"}
      /\ Mine(f) => pp = "sending" /\ Leads(f.payload)
      /\ f = CloseFrame => pp = "closing"
      /\ f = RivalFrame => frame[Rival] = RivalFrame
  <2>1. CASE t = Proxy
    <3>1. /\ pp = "opening" => f = OpenFrame
          /\ pp = "sending" => f = DataFrame(f.payload)
          /\ pp = "closing" => f = CloseFrame
          /\ pp \in {"opening", "sending", "closing"}
      BY <1>1, <1>2, <2>1 DEF Path, Writes
    <3>2. f.id = Id
      BY <3>1 DEF OpenFrame, DataFrame, CloseFrame
    <3>3. /\ pp = "opening" => f.type = "Open"
          /\ pp = "sending" => f.type = "Data"
          /\ pp = "closing" => f.type = "Close"
      BY <3>1 DEF OpenFrame, DataFrame, CloseFrame
    <3>4. pp = "sending" => Leads(f.payload)
      BY <1>1, <1>2, <2>1 DEF Fresh
    <3>5. CloseFrame.type = "Close"
      BY DEF CloseFrame
    <3> QED BY <3>1, <3>2, <3>3, <3>4, <3>5 DEF Mine
  <2>2. CASE t = Rival
    <3>1. f = RivalFrame
      BY <1>1, <1>2, <2>2 DEF Path, Writes
    <3> QED BY <1>1, <2>2, <3>1 DEF FramesFit, CloseFrame
  <2> QED BY <1>5, <2>1, <2>2
<1>7. Said'
  BY <1>2, <1>3, <1>4, <1>6 DEF Said, Mine
<1>8. Fresh'
  <2>1. todo'[Proxy] = <<>>
    BY <1>2, <1>5
  <2>2. pp \in {"copying", "sending"} =>
          \A k \in 1..Len(sent') : Mine(sent'[k]) => Leads(sent'[k].payload)
    BY <1>3, <1>6 DEF Fresh
  <2>3. \A k \in 1..Len(sent') : Mine(sent[k])' <=> Mine(sent'[k])
    BY DEF Mine
  <2>4. \A k \in 1..Len(sent') : Leads(sent[k].payload)' <=> Leads(sent'[k].payload)
    BY <1>4 DEF Leads
  <2>5. Distinct(unread)' <=> Distinct(unread)
    BY <1>4 DEF Distinct
  <2>6. /\ Distinct(unread \o ask.later)' <=> Distinct(unread \o ask.later)
        /\ Leads(request.data)' <=> Leads(request.data)
    BY <1>4 DEF Leads
  <2> QED BY <1>4, <2>1, <2>2, <2>3, <2>4, <2>5, <2>6 DEF Fresh
<1> QED BY <1>7, <1>8

\* Every step keeps both, and is one that FailedStaysAway allows.
LEMMA NextFresh ==
    ASSUME Path, FramesFit, RivalFrame.id # Id, Said, Fresh,
           \A k \in Cases : Understood(k.ask) /\ ToldApart(k.ask), [Next]_vars
    PROVE  Said' /\ Fresh' /\ [NewStep]_wire
<1>1. CASE ReadHeader
  BY <1>1, ReadHeaderFresh DEF ReadHeader
<1>2. CASE HeaderEnds \/ Opened \/ Greet \/ Sent \/ Closed
  <2>1. UNCHANGED wire
    BY <1>2 DEF HeaderEnds, Opened, Greet, Sent, Closed
  <2> QED BY <1>2, <2>1, WaitsFresh
<1>3. CASE SendOpen \/ SendInitial \/ Copy \/ SendClose
  BY <1>3, BeginsFresh, Counts DEF NewStep
<1>4. CASE RivalSends
  BY <1>4, RivalSendsFresh, Counts DEF NewStep
<1>5. CASE Start \/ Join
  <2>1. UNCHANGED <<ask, pp, request>> /\ UNCHANGED wire /\ phase # "joined"
    BY <1>5 DEF Start, Join, client
  <2>2. pp = "reading"
    BY <2>1 DEF Path, Heard, Untouched
  <2>3. UNCHANGED <<sent, frame>>
    BY <2>1 DEF wire
  <2> QED BY <2>1, <2>2, <2>3, SaidOn DEF Fresh
<1>6. CASE HandleFrame \/ HandleOpen \/ UNCHANGED vars
  <2>1. UNCHANGED <<ask, pp, request, unread>> /\ UNCHANGED wire
    BY <1>6 DEF HandleFrame, HandleOpen, setup, client, vars
  <2>2. UNCHANGED <<sent, frame, todo>>
    BY <2>1 DEF wire
  <2> QED BY <2>1, <2>2, SaidOn, FreshOn
<1>7. CASE phase = "joined" /\ WireNext /\ UNCHANGED <<setup, pp, client, target>>
  <2>1. NewStep
    BY <1>7 DEF NewStep
  <2>2. UNCHANGED <<ask, request, unread>>
    BY <1>7 DEF setup, client
  <2>3. CASE Calm \/ Arrives
    <3>1. UNCHANGED <<sent, frame>> /\ (todo'[Proxy] = <<>> <=> todo[Proxy] = <<>>)
      BY <2>3, Counts DEF Calm, Arrives, Channel!Receive
    <3> QED BY <1>7, <2>1, <2>2, <3>1, SaidOn DEF Fresh, Leads
  <2>4. ASSUME NEW t \in Threads, Wrote(t)
        PROVE  Said' /\ Fresh'
    BY <1>7, <2>4, WroteFresh
  <2>5. ASSUME NEW t \in Threads, GaveUp(t)
        PROVE  Said' /\ Fresh'
    <3>1. UNCHANGED <<sent, frame>> /\ todo'[Proxy] = <<>>
      BY <2>5, WireEnds, Counts
    <3> QED BY <1>7, <2>2, <3>1, SaidOn DEF Fresh, Leads
  <2> QED BY <1>7, <2>1, <2>3, <2>4, <2>5, WireEffect DEF Path
<1> QED BY <1>1, <1>2, <1>3, <1>4, <1>5, <1>6, <1>7, ConnectionIsWire DEF Next

\* A frame that the controller gave up is never read by the agent, wherever in
\* it the connection broke: a failed send ends the session's use for all
\* (AgentSession::send), if the bytes of a client can be told apart, so that a
\* frame is not taken for one with the same content.
THEOREM FailedFrameIsNotRead ==
    ASSUME FramesFit, RivalFrame.id # Id, \A k \in Cases : Understood(k.ask) /\ ToldApart(k.ask)
    PROVE  Spec => []FailedNeverArrives
<1>1. Init => Path /\ Said /\ Fresh /\ Unwritten
  BY InitPath, InitFresh, InitUnwritten DEF Init
<1>2. Path /\ [Next]_vars => Path'
  BY NextPath
<1>3. Path /\ Said /\ Fresh /\ [Next]_vars => Said' /\ Fresh' /\ [NewStep]_wire
  BY NextFresh
<1>4. Path /\ Unwritten /\ [NewStep]_wire => Unwritten'
  BY UnwrittenKeeps DEF Path
<1>5. Path /\ Unwritten => FailedNeverArrives
  <2> SUFFICES ASSUME Path, Unwritten PROVE FailedNeverArrives
    OBVIOUS
  <2>1. received \in Seq(WireFrame) /\ Len(sent) \in Nat
    BY Counts
  <2>2. Len(received) <= Len(sent) /\ \A k \in 1..Len(received) : received[k] = sent[k]
    BY DEF Path, Opens
  <2> QED BY <2>1, <2>2, GivenUpIsNotRead
<1> QED BY <1>1, <1>2, <1>3, <1>4, <1>5, PTL DEF Spec

-----------------------------------------------------------------------------
(* Settings.  Of the options and of the lines of a file the last counts; a  *)
(* recursive function over them is followed from the first to the last.     *)

\* What holds at first and is kept by each step holds up to n.
LEMMA UpTo ==
    ASSUME NEW n \in Nat, NEW T, 0 \in T, \A k \in 0..n : k \in T /\ k < n => k + 1 \in T
    PROVE  \A k \in 0..n : k \in T
<1> SUFFICES ASSUME {k \in 0..n : k \notin T} # {} PROVE FALSE
  OBVIOUS
<1>1. PICK i \in {k \in 0..n : k \notin T} : \A j \in {k \in 0..n : k \notin T} : i <= j
  <2>1. {k \in 0..n : k \notin T} \in SUBSET Nat
    OBVIOUS
  <2> QED BY <2>1, LeastOf
<1>2. i # 0 /\ i - 1 \in 0..n /\ i - 1 < n /\ (i - 1) + 1 = i
  BY <1>1
<1>3. i - 1 \in T
  BY <1>1, <1>2
<1> QED BY <1>1, <1>2, <1>3

\* There is a last.
LEMMA GreatestOf ==
    ASSUME NEW n \in Nat, NEW T \in SUBSET (1..n), T # {}
    PROVE  \E i \in T : \A j \in T : j <= i
<1> DEFINE above == {k \in Nat : \A j \in T : j <= k}
<1>1. above \in SUBSET Nat /\ n \in above
  OBVIOUS
<1>2. PICK i \in above : \A j \in above : i <= j
  BY <1>1, LeastOf
<1>3. i \in Nat /\ \A j \in T : j <= i /\ j \in Nat /\ j >= 1
  BY <1>2
<1>4. CASE i \in T
  BY <1>3, <1>4
<1>5. CASE i \notin T
  <2>1. \A j \in T : j <= i - 1
    BY <1>3, <1>5
  <2>2. i - 1 \in Nat
    <3>1. PICK j \in T : j <= i /\ j \in Nat /\ j >= 1
      BY <1>3
    <3> QED BY <1>3, <3>1
  <2>3. i - 1 \in above
    BY <2>1, <2>2
  <2> QED BY <1>2, <1>3, <2>3
<1> QED BY <1>4, <1>5

\* A sequence, whatever it is of.
Listing(s) == Len(s) \in Nat /\ DOMAIN s = 1..Len(s)

\* The lines for a key, of all or of the first k.
Says(line, name) == Content(line) # <<>> /\ Key(line) = <<name>>
KeyLines(lines, name) == {i \in DOMAIN lines : Says(lines[i], name)}

\* The values of a key, line by line.
Gathered(lines, name, n, g) ==
    g = [i \in 0..n |->
           IF i = 0 THEN <<>>
           ELSE IF Content(lines[i]) # <<>> /\ Key(lines[i]) = <<name>>
                THEN Append(g[i - 1], Value(lines[i]))
                ELSE g[i - 1]]

LEMMA GatheringGoesOn ==
    ASSUME NEW lines, NEW name, NEW k \in Nat, NEW g, Gathered(lines, name, k, g)
    PROVE  \E h : Gathered(lines, name, k + 1, h)
<1> DEFINE next == IF Content(lines[k + 1]) # <<>> /\ Key(lines[k + 1]) = <<name>>
                   THEN Append(g[k], Value(lines[k + 1])) ELSE g[k]
           h == [i \in 0..k + 1 |-> IF i = k + 1 THEN next ELSE g[i]]
           F(f, i) == IF i = 0 THEN <<>>
                      ELSE IF Content(lines[i]) # <<>> /\ Key(lines[i]) = <<name>>
                           THEN Append(f[i - 1], Value(lines[i])) ELSE f[i - 1]
<1>1. g = [i \in 0..k |-> F(g, i)]
  BY DEF Gathered
<1>2. \A i \in 0..k : g[i] = F(g, i)
  <2> HIDE DEF F
  <2> QED BY <1>1
<1>3. next = F(g, k + 1)
  <2>1. k + 1 # 0 /\ (k + 1) - 1 = k
    OBVIOUS
  <2> QED BY <2>1
<1>4. ASSUME NEW i \in 0..k + 1
      PROVE  h[i] = F(h, i)
  <2>1. CASE i = 0
    <3>1. 0 \in 0..k /\ 0 # k + 1 /\ h[0] = g[0] /\ g[0] = F(g, 0)
      BY <1>2
    <3> QED BY <2>1, <3>1
  <2>2. CASE i # 0
    <3>1. i - 1 \in 0..k /\ i - 1 # k + 1 /\ i - 1 \in 0..k + 1
      BY <2>2
    <3>2. h[i - 1] = g[i - 1]
      BY <3>1
    <3>3. F(h, i) = F(g, i)
      BY <3>2
    <3>4. h[i] = F(g, i)
      BY <1>2, <1>3
    <3> QED BY <3>3, <3>4
  <2> QED BY <2>1, <2>2
<1>5. h = [i \in 0..k + 1 |-> F(h, i)]
  <2> DEFINE e == h
  <2>1. e = [i \in 0..k + 1 |-> IF i = k + 1 THEN next ELSE g[i]]
    OBVIOUS
  <2>2. \A i \in 0..k + 1 : e[i] = F(e, i)
    BY <1>4
  <2> HIDE DEF e, F, next
  <2>3. e = [i \in 0..k + 1 |-> F(e, i)]
    BY <2>1, <2>2
  <2> QED BY <2>3 DEF e
<1>6. Gathered(lines, name, k + 1, h)
  BY <1>5 DEF Gathered
<1> QED BY <1>6

LEMMA GetAll ==
    ASSUME NEW lines, NEW name, Len(lines) \in Nat
    PROVE  \E g : /\ Gathered(lines, name, Len(lines), g)
                  /\ config_get_all(lines, name) = g[Len(lines)]
<1> DEFINE T == {k \in 0..Len(lines) : \E g : Gathered(lines, name, k, g)}
<1>1. 0 \in T
  <2>1. Gathered(lines, name, 0, [i \in 0..0 |-> <<>>])
    BY DEF Gathered
  <2> QED BY <2>1
<1>2. \A k \in 0..Len(lines) : k \in T /\ k < Len(lines) => k + 1 \in T
  <2> SUFFICES ASSUME NEW k \in 0..Len(lines), k \in T, k < Len(lines) PROVE k + 1 \in T
    OBVIOUS
  <2>1. k \in Nat /\ k + 1 \in 0..Len(lines)
    OBVIOUS
  <2>2. \E h : Gathered(lines, name, k + 1, h)
    BY <2>1, GatheringGoesOn
  <2> QED BY <2>1, <2>2
<1>3. Len(lines) \in T
  <2>1. Len(lines) \in 0..Len(lines)
    OBVIOUS
  <2> HIDE DEF T
  <2> QED BY <1>1, <1>2, <2>1, UpTo
<1>4. PICK g : g = CHOOSE f : Gathered(lines, name, Len(lines), f)
  OBVIOUS
<1>5. Gathered(lines, name, Len(lines), g)
  BY <1>3, <1>4
<1>6. config_get_all(lines, name) = g[Len(lines)]
  BY <1>4 DEF config_get_all, Gathered
<1> QED BY <1>5, <1>6

\* What gathering has come to after k lines.
Gathering(lines, name, k, values) ==
    LET of == {i \in 1..k : Says(lines[i], name)} IN
    /\ values \in Seq({Value(lines[i]) : i \in 1..Len(lines)})
    /\ of = {} => values = <<>>
    /\ \A i \in of : (\A j \in of : j <= i) => values # <<>> /\ values[Len(values)] = Value(lines[i])
    /\ {values[i] : i \in 1..Len(values)} = {Value(lines[i]) : i \in of}

LEMMA GatheringStep ==
    ASSUME NEW lines, NEW name, Len(lines) \in Nat, NEW k \in Nat, k < Len(lines),
           NEW old, Gathering(lines, name, k, old),
           NEW new, new = IF Says(lines[k + 1], name) THEN Append(old, Value(lines[k + 1])) ELSE old
    PROVE  Gathering(lines, name, k + 1, new)
<1> DEFINE of(n) == {i \in 1..n : Says(lines[i], name)}
<1>1. PICK S : S = {Value(lines[i]) : i \in 1..Len(lines)}
  OBVIOUS
<1>2. old \in Seq(S) /\ Len(old) \in Nat
  BY <1>1 DEF Gathering
<1>3. CASE Says(lines[k + 1], name)
  <2>1. PICK v : v = Value(lines[k + 1])
    OBVIOUS
  <2>2. v \in S /\ k + 1 \in 1..Len(lines)
    <3>1. k + 1 \in 1..Len(lines)
      OBVIOUS
    <3> QED BY <1>1, <2>1, <3>1
  <2>3. /\ new = Append(old, v) /\ new \in Seq(S) /\ Len(new) = Len(old) + 1
        /\ new[Len(old) + 1] = v /\ \A i \in 1..Len(old) : new[i] = old[i]
    BY <1>2, <1>3, <2>1, <2>2
  <2>4. of(k + 1) = of(k) \cup {k + 1}
    BY <1>3
  <2>5. \A i \in of(k + 1) : (\A j \in of(k + 1) : j <= i) => new # <<>> /\ new[Len(new)] = Value(lines[i])
    <3>1. ASSUME NEW i \in of(k + 1), \A j \in of(k + 1) : j <= i
          PROVE  i = k + 1
      <4>1. k + 1 <= i /\ i \in 1..k + 1
        BY <2>4, <3>1
      <4> QED BY <4>1
    <3>2. new # <<>> /\ new[Len(new)] = v
      BY <1>2, <2>3
    <3> HIDE DEF of
    <3> QED BY <2>1, <3>1, <3>2
  <2>6. {new[i] : i \in 1..Len(new)} = {old[i] : i \in 1..Len(old)} \cup {v}
    BY <1>2, <2>3
  <2>7. {Value(lines[i]) : i \in of(k + 1)} = {Value(lines[i]) : i \in of(k)} \cup {v}
    <3> HIDE DEF of
    <3> QED BY <2>1, <2>4
  <2>8. {old[i] : i \in 1..Len(old)} = {Value(lines[i]) : i \in of(k)}
    BY DEF Gathering
  <2>9. of(k + 1) # {}
    BY <2>4
  <2>10. {new[i] : i \in 1..Len(new)} = {Value(lines[i]) : i \in of(k + 1)}
    BY <2>6, <2>7, <2>8
  <2> QED BY <1>1, <2>3, <2>5, <2>9, <2>10 DEF Gathering
<1>4. CASE ~Says(lines[k + 1], name)
  <2>1. of(k + 1) = of(k)
    BY <1>4
  <2>2. new = old
    BY <1>4
  <2> QED BY <2>1, <2>2 DEF Gathering
<1> QED BY <1>3, <1>4

LEMMA AllGathered ==
    ASSUME NEW lines, NEW name, Listing(lines)
    PROVE  Gathering(lines, name, Len(lines), config_get_all(lines, name))
<1>1. PICK n \in Nat : n = Len(lines)
  BY Zenon DEF Listing
<1>2. PICK g : Gathered(lines, name, n, g) /\ config_get_all(lines, name) = g[n]
  BY <1>1, GetAll
<1>3. /\ g[0] = <<>>
      /\ \A k \in 0..n : k < n =>
           g[k + 1] = IF Says(lines[k + 1], name) THEN Append(g[k], Value(lines[k + 1])) ELSE g[k]
  <2>1. 0 \in 0..n /\ \A k \in 0..n : k < n => k + 1 \in 0..n /\ k + 1 # 0 /\ (k + 1) - 1 = k
    OBVIOUS
  <2>2. 0 \in 0..n /\ 0 = 0
    OBVIOUS
  <2>3. \A i \in 0..n : g[i] = IF i = 0 THEN <<>>
                            ELSE IF Says(lines[i], name)
                                 THEN Append(g[i - 1], Value(lines[i])) ELSE g[i - 1]
    BY <1>2 DEF Gathered, Says
  <2> QED BY <2>1, <2>2, <2>3
<1> DEFINE T == {k \in 0..n : Gathering(lines, name, k, g[k])}
<1>4. 0 \in T
  <2>1. PICK S : S = {Value(lines[i]) : i \in 1..Len(lines)}
    OBVIOUS
  <2>2. {i \in 1..0 : Says(lines[i], name)} = {} /\ <<>> \in Seq(S) /\ Len(<<>>) = 0
        /\ {<<>>[i] : i \in 1..0} = {}
    OBVIOUS
  <2>3. {Value(lines[i]) : i \in {i \in 1..0 : Says(lines[i], name)}} = {}
    BY <2>2
  <2>4. Gathering(lines, name, 0, <<>>)
    BY <2>1, <2>2, <2>3 DEF Gathering
  <2> QED BY <1>3, <2>4
<1>5. \A k \in 0..n : k \in T /\ k < n => k + 1 \in T
  <2> SUFFICES ASSUME NEW k \in 0..n, k \in T, k < n PROVE k + 1 \in T
    OBVIOUS
  <2>1. k \in Nat /\ k + 1 \in 0..n
    OBVIOUS
  <2>2. Gathering(lines, name, k + 1, g[k + 1])
    BY <1>1, <1>3, <2>1, GatheringStep
  <2> QED BY <2>1, <2>2
<1>6. n \in T
  <2>1. n \in 0..n
    OBVIOUS
  <2> HIDE DEF T
  <2> QED BY <1>4, <1>5, <2>1, UpTo
<1> QED BY <1>1, <1>2, <1>6

\* config_get goes by the last line for the key.
LEMMA GetLast ==
    ASSUME NEW lines, NEW name, Listing(lines)
    PROVE  /\ KeyLines(lines, name) = {} => config_get(lines, name) = <<>>
           /\ \A i \in KeyLines(lines, name) :
                (\A j \in KeyLines(lines, name) : j <= i) => config_get(lines, name) = Value(lines[i])
           /\ ToSet(config_get_all(lines, name)) = {Value(lines[i]) : i \in KeyLines(lines, name)}
<1>1. PICK all : all = config_get_all(lines, name)
  OBVIOUS
<1>2. PICK S : S = {Value(lines[i]) : i \in 1..Len(lines)}
  OBVIOUS
<1>3. KeyLines(lines, name) = {i \in 1..Len(lines) : Says(lines[i], name)}
  BY DEF Listing, KeyLines
<1>4. /\ all \in Seq(S)
      /\ KeyLines(lines, name) = {} => all = <<>>
      /\ \A i \in KeyLines(lines, name) :
           (\A j \in KeyLines(lines, name) : j <= i) => all # <<>> /\ all[Len(all)] = Value(lines[i])
      /\ {all[i] : i \in 1..Len(all)} = {Value(lines[i]) : i \in KeyLines(lines, name)}
  <2>1. Gathering(lines, name, Len(lines), all)
    BY <1>1, AllGathered
  <2> QED BY <1>2, <1>3, <2>1 DEF Gathering
<1>5. DOMAIN all = 1..Len(all)
  BY <1>4
<1>6. config_get(lines, name) = IF all = <<>> THEN <<>> ELSE all[Len(all)]
  BY <1>1 DEF config_get
<1> QED BY <1>1, <1>4, <1>5, <1>6 DEF ToSet

\* A name has one use in a program.
Program(prog) ==
    /\ \A n \in prog.endpoints :
         n \notin prog.lists \cup prog.filled \cup prog.free \cup prog.flags \cup {"config", "token"}
    /\ \A n \in prog.lists :
         n \notin prog.filled \cup prog.free \cup prog.flags \cup {"config", "token"}
    /\ \A n \in prog.filled : n \notin prog.free \cup prog.flags \cup {"config", "token"}
    /\ \A n \in prog.free : n \notin prog.flags \cup {"config", "token"}
    /\ \A n \in prog.flags : n # "config"

LEMMA Programs == Program(AgentProgram) /\ Program(TunnelProgram)
BY DEF Program, AgentProgram, TunnelProgram

\* The shape of a program's settings.
SettingsOf(prog, c) ==
    /\ c = [ok |-> c.ok, tls |-> c.tls, insecure |-> c.insecure, allow |-> c.allow, value |-> c.value]
    /\ c.ok \in BOOLEAN
    /\ c.value = [n \in Single(prog) |-> c.value[n]]

Stored(prog, n, text) == IF n \in prog.endpoints THEN Canonical(text) ELSE text

\* What an option makes of settings that are not refused, as far as endpoints,
\* names, secrets and lists go.
Taken(prog, c, o, d) ==
    LET n == Named(prog, o.name) IN
    d.ok =>
      /\ c.ok
      /\ n \in prog.endpoints \cup prog.filled => o.value # <<>>
      /\ \A m \in prog.endpoints \cup prog.filled :
           d.value[m] = IF m = n THEN Stored(prog, m, o.value) ELSE c.value[m]
      /\ d.allow = IF n \in prog.lists THEN c.allow \cup {Canonical(o.value)} ELSE c.allow

LEMMA EmptyIsNoEndpoint == ~ValidEndpoint(<<>>)
<1>1. Places(":", <<>>) = {} /\ Cut(<<>>) = CutAtLast(<<>>)
  BY DEF Places, Cut
<1>2. Cut(<<>>)[1] = <<>>
  BY <1>1 DEF CutAtLast
<1> QED BY <1>2 DEF ValidEndpoint, parse_host_port

LEMMA RefusedShape ==
    ASSUME NEW prog, NEW c, SettingsOf(prog, c)
    PROVE  SettingsOf(prog, Refused(c)) /\ Refused(c).ok = FALSE
<1>1. PICK d : d = Refused(c)
  OBVIOUS
<1>2. /\ c = [ok |-> c.ok, tls |-> c.tls, insecure |-> c.insecure, allow |-> c.allow, value |-> c.value]
      /\ d = [c EXCEPT !.ok = FALSE]
  BY <1>1 DEF SettingsOf, Refused
<1>3. d = [ok |-> FALSE, tls |-> c.tls, insecure |-> c.insecure, allow |-> c.allow, value |-> c.value]
  BY <1>2
<1> QED BY <1>1, <1>3 DEF SettingsOf

\* Settings with another value for a name.
Set(c, n, v) == [c EXCEPT !.value[n] = v]
SetTls(c, n, v, tls) == [c EXCEPT !.value[n] = v, !.tls = tls]
Instead(prog, c, n, v, tls) ==
    [ok |-> c.ok, tls |-> tls, insecure |-> c.insecure, allow |-> c.allow,
     value |-> [m \in Single(prog) |-> IF m = n THEN v ELSE c.value[m]]]

LEMMA Reshaped ==
    ASSUME NEW prog, NEW c, SettingsOf(prog, c), NEW n \in Single(prog), NEW v, NEW tls
    PROVE  /\ Set(c, n, v) = Instead(prog, c, n, v, c.tls)
           /\ SetTls(c, n, v, tls) = Instead(prog, c, n, v, tls)
<1>1. PICK f : f = c.value
  OBVIOUS
<1>2. f = [m \in Single(prog) |-> f[m]]
  BY <1>1 DEF SettingsOf
<1>3. [f EXCEPT ![n] = v] = [m \in Single(prog) |-> IF m = n THEN v ELSE f[m]]
  BY <1>2
<1>4. PICK ok, a, b, l : c = [ok |-> ok, tls |-> a, insecure |-> b, allow |-> l, value |-> f]
  BY <1>1 DEF SettingsOf
<1>5. PICK g : g = [m \in Single(prog) |-> IF m = n THEN v ELSE f[m]]
  OBVIOUS
<1>6. /\ c.ok = ok /\ c.tls = a /\ c.insecure = b /\ c.allow = l
      /\ [c EXCEPT !.value = g] = [ok |-> ok, tls |-> a, insecure |-> b, allow |-> l, value |-> g]
      /\ [c EXCEPT !.value = g, !.tls = tls] =
           [ok |-> ok, tls |-> tls, insecure |-> b, allow |-> l, value |-> g]
  <2>1. c.ok = ok /\ c.tls = a /\ c.insecure = b /\ c.allow = l
    BY <1>4
  <2>2. PICK d : d = [ok |-> ok, tls |-> a, insecure |-> b, allow |-> l, value |-> g]
    OBVIOUS
  <2>3. [c EXCEPT !.value = g] = d
    BY <1>4, <2>2
  <2>4. [d EXCEPT !.tls = tls] = [ok |-> ok, tls |-> tls, insecure |-> b, allow |-> l, value |-> g]
    BY <2>2
  <2>5. [c EXCEPT !.value = g, !.tls = tls] = [d EXCEPT !.tls = tls]
    BY <2>3
  <2> QED BY <2>1, <2>2, <2>3, <2>4, <2>5
<1>7. /\ [c EXCEPT !.value[n] = v] = [c EXCEPT !.value = g]
      /\ [c EXCEPT !.value[n] = v, !.tls = tls] = [c EXCEPT !.value = g, !.tls = tls]
  <2>1. [c.value EXCEPT ![n] = v] = g
    BY <1>1, <1>3, <1>5
  <2> QED BY <2>1, Zenon
<1> QED BY <1>1, <1>5, <1>6, <1>7, Zenon DEF Set, SetTls, Instead

LEMMA OptionTaken ==
    ASSUME NEW prog, Program(prog), NEW c, SettingsOf(prog, c), NEW o,
           NEW d, d = WithOption(prog, c, o)
    PROVE  SettingsOf(prog, d) /\ Taken(prog, c, o, d)
<1>1. PICK n : n = Named(prog, o.name)
  OBVIOUS
<1>2. PICK v : v = o.value
  OBVIOUS
<1>3. c.ok \in BOOLEAN
  BY DEF SettingsOf
<1>4. CASE n = "config"
  <2>1. n \notin prog.endpoints \cup prog.lists \cup prog.filled \cup prog.free \cup prog.flags
    BY <1>4 DEF Program
  <2>2. d = c
    BY <1>1, <1>4, <2>1 DEF WithOption
  <2>3. \A m \in prog.endpoints \cup prog.filled : m # n
    BY <2>1
  <2> QED BY <1>1, <1>3, <2>1, <2>2, <2>3 DEF Taken
<1>5. CASE n \in prog.endpoints
  <2>1. n # "config" /\ n \notin prog.lists \cup prog.filled \cup prog.free \cup prog.flags
    BY <1>5 DEF Program
  <2>2. d = IF ValidEndpoint(v) THEN [c EXCEPT !.value[n] = Canonical(v)] ELSE Refused(c)
    BY <1>1, <1>2, <1>5, <2>1 DEF WithOption
  <2>3. CASE ValidEndpoint(v)
    <3>1. v # <<>>
      BY <2>3, EmptyIsNoEndpoint
    <3>2. n \in Single(prog)
      BY <1>5 DEF Single
    <3>3. d = [ok |-> c.ok, tls |-> c.tls, insecure |-> c.insecure, allow |-> c.allow,
               value |-> [m \in Single(prog) |-> IF m = n THEN Canonical(v) ELSE c.value[m]]]
      <4>1. d = Set(c, n, Canonical(v))
        BY <2>2, <2>3 DEF Set
      <4>2. d = Instead(prog, c, n, Canonical(v), c.tls)
        BY <3>2, <4>1, Reshaped
      <4> QED BY <4>2 DEF Instead
    <3>4. SettingsOf(prog, d)
      BY <1>3, <3>3 DEF SettingsOf
    <3>5. \A m \in prog.endpoints \cup prog.filled :
            d.value[m] = IF m = n THEN Stored(prog, m, v) ELSE c.value[m]
      BY <1>5, <3>3 DEF Single, Stored
    <3> QED BY <1>1, <1>2, <1>3, <2>1, <3>1, <3>3, <3>4, <3>5 DEF Taken
  <2>4. CASE ~ValidEndpoint(v)
    BY <2>2, <2>4, RefusedShape DEF Taken
  <2> QED BY <2>3, <2>4
<1>6. CASE n \in prog.lists
  <2>1. n # "config" /\ n \notin prog.endpoints \cup prog.filled \cup prog.free \cup prog.flags
    BY <1>6 DEF Program
  <2>2. d = IF ValidEndpoint(v) THEN [c EXCEPT !.allow = c.allow \cup {Canonical(v)}] ELSE Refused(c)
    BY <1>1, <1>2, <1>6, <2>1 DEF WithOption
  <2>3. CASE ValidEndpoint(v)
    <3>1. d = [ok |-> c.ok, tls |-> c.tls, insecure |-> c.insecure,
               allow |-> c.allow \cup {Canonical(v)}, value |-> c.value]
      <4>1. PICK l : l = c.allow \cup {Canonical(v)}
        OBVIOUS
      <4>2. PICK ok, a, b, k, f : c = [ok |-> ok, tls |-> a, insecure |-> b, allow |-> k, value |-> f]
        BY DEF SettingsOf
      <4>3. [c EXCEPT !.allow = l] = [ok |-> ok, tls |-> a, insecure |-> b, allow |-> l, value |-> f]
        BY <4>2
      <4>4. c.ok = ok /\ c.tls = a /\ c.insecure = b /\ c.value = f
        BY <4>2
      <4> QED BY <2>2, <2>3, <4>1, <4>3, <4>4
    <3>2. SettingsOf(prog, d)
      BY <3>1 DEF SettingsOf
    <3>3. \A m \in prog.endpoints \cup prog.filled : m # n
      BY <2>1
    <3> QED BY <1>1, <1>2, <1>3, <1>6, <2>1, <3>1, <3>2, <3>3 DEF Taken
  <2>4. CASE ~ValidEndpoint(v)
    BY <2>2, <2>4, RefusedShape DEF Taken
  <2> QED BY <2>3, <2>4
<1>7. CASE n \in prog.filled
  <2>1. n # "config" /\ n \notin prog.endpoints \cup prog.lists \cup prog.free \cup prog.flags
    BY <1>7 DEF Program
  <2>2. d = IF v # <<>> THEN [c EXCEPT !.value[n] = v] ELSE Refused(c)
    BY <1>1, <1>2, <1>7, <2>1 DEF WithOption
  <2>3. CASE v # <<>>
    <3>1. n \in Single(prog)
      BY <1>7 DEF Single
    <3>2. d = [ok |-> c.ok, tls |-> c.tls, insecure |-> c.insecure, allow |-> c.allow,
               value |-> [m \in Single(prog) |-> IF m = n THEN v ELSE c.value[m]]]
      <4>1. d = Set(c, n, v)
        BY <2>2, <2>3 DEF Set
      <4>2. d = Instead(prog, c, n, v, c.tls)
        BY <3>1, <4>1, Reshaped
      <4> QED BY <4>2 DEF Instead
    <3>3. SettingsOf(prog, d)
      BY <1>3, <3>2 DEF SettingsOf
    <3>4. \A m \in prog.endpoints \cup prog.filled :
            d.value[m] = IF m = n THEN Stored(prog, m, v) ELSE c.value[m]
      BY <1>7, <2>1, <3>2 DEF Single, Stored
    <3> QED BY <1>1, <1>2, <1>3, <2>1, <2>3, <3>2, <3>3, <3>4 DEF Taken
  <2>4. CASE v = <<>>
    BY <2>2, <2>4, RefusedShape DEF Taken
  <2> QED BY <2>3, <2>4
<1>8. CASE n \in prog.free
  <2>1. n # "config" /\ n \notin prog.endpoints \cup prog.lists \cup prog.filled \cup prog.flags
    BY <1>8 DEF Program
  <2>2. PICK tls : tls = (c.tls \/ n \in prog.implyTls)
    OBVIOUS
  <2>3. d = [c EXCEPT !.value[n] = v, !.tls = tls]
    BY <1>1, <1>2, <1>8, <2>1, <2>2 DEF WithOption
  <2>4. n \in Single(prog)
    BY <1>8 DEF Single
  <2>5. d = [ok |-> c.ok, tls |-> tls, insecure |-> c.insecure, allow |-> c.allow,
             value |-> [m \in Single(prog) |-> IF m = n THEN v ELSE c.value[m]]]
    <3>1. d = SetTls(c, n, v, tls)
      BY <2>3 DEF SetTls
    <3>2. d = Instead(prog, c, n, v, tls)
      BY <2>4, <3>1, Reshaped
    <3> QED BY <3>2 DEF Instead
  <2>6. SettingsOf(prog, d)
    BY <1>3, <2>5 DEF SettingsOf
  <2>7. \A m \in prog.endpoints \cup prog.filled : m # n /\ d.value[m] = c.value[m]
    BY <2>1, <2>5 DEF Single
  <2> QED BY <1>1, <1>2, <1>3, <2>1, <2>5, <2>6, <2>7 DEF Taken
<1>9. CASE n \in prog.flags
  <2>1. n # "config" /\ n \notin prog.endpoints \cup prog.lists \cup prog.filled \cup prog.free
    BY <1>9 DEF Program
  <2>2. PICK yes, insecure : yes = TRUE /\ insecure = (c.insecure \/ n = "tls_insecure")
    OBVIOUS
  <2>3. d = [c EXCEPT !.tls = yes, !.insecure = insecure]
    BY <1>1, <1>9, <2>1, <2>2 DEF WithOption
  <2>4. d = [ok |-> c.ok, tls |-> yes, insecure |-> insecure, allow |-> c.allow, value |-> c.value]
    <3>1. PICK ok, a, b, l, f : c = [ok |-> ok, tls |-> a, insecure |-> b, allow |-> l, value |-> f]
      BY DEF SettingsOf
    <3>2. PICK e : e = [ok |-> ok, tls |-> yes, insecure |-> b, allow |-> l, value |-> f]
      OBVIOUS
    <3>3. [c EXCEPT !.tls = yes] = e
      BY <3>1, <3>2
    <3>4. [e EXCEPT !.insecure = insecure] =
            [ok |-> ok, tls |-> yes, insecure |-> insecure, allow |-> l, value |-> f]
      BY <3>2
    <3>5. c.ok = ok /\ c.allow = l /\ c.value = f
      BY <3>1
    <3>6. d = [e EXCEPT !.insecure = insecure]
      BY <2>3, <3>3
    <3> QED BY <3>4, <3>5, <3>6
  <2>5. SettingsOf(prog, d)
    BY <2>4 DEF SettingsOf
  <2>6. \A m \in prog.endpoints \cup prog.filled : m # n /\ d.value[m] = c.value[m]
    BY <2>1, <2>4
  <2> QED BY <1>1, <1>3, <2>1, <2>4, <2>5, <2>6 DEF Taken
<1>10. CASE n \notin {"config"} \cup prog.endpoints \cup prog.lists \cup prog.filled \cup prog.free \cup prog.flags
  <2>1. d = Refused(c)
    BY <1>1, <1>10 DEF WithOption
  <2> QED BY <2>1, RefusedShape DEF Taken
<1> QED BY <1>4, <1>5, <1>6, <1>7, <1>8, <1>9, <1>10

\* What the file says.
LEMMA LastLineIsRead ==
    ASSUME NEW options, NEW key, Listing(FileOf(options))
    PROVE  /\ LinesFor(options, key) = KeyLines(FileOf(options), key)
           /\ LastLine(options, key) = config_get(FileOf(options), key)
<1>1. PICK lines, of : lines = FileOf(options) /\ of = KeyLines(lines, key)
  OBVIOUS
<1>2. LinesFor(options, key) = of
  BY <1>1 DEF LinesFor, KeyLines, Says
<1>3. LastLine(options, key) = IF of = {} THEN <<>> ELSE Value(lines[CHOOSE i \in of : \A j \in of : j <= i])
  BY <1>1, <1>2 DEF LastLine
<1>4. Listing(lines)
  BY <1>1
<1>5. CASE of = {}
  BY <1>1, <1>3, <1>4, <1>5, GetLast, <1>2
<1>6. CASE of # {}
  <2>1. PICK n \in Nat : n = Len(lines)
    BY <1>4, Zenon DEF Listing
  <2>2. of \in SUBSET (1..n)
    BY <1>1, <1>4, <2>1 DEF KeyLines, Listing
  <2>3. \E i \in of : \A j \in of : j <= i
    BY <1>6, <2>2, GreatestOf
  <2>4. PICK i \in of : /\ i = CHOOSE k \in of : \A j \in of : j <= k
                        /\ \A j \in of : j <= i
    BY <2>3
  <2>5. config_get(lines, key) = Value(lines[i])
    BY <1>1, <1>4, <2>4, GetLast
  <2> QED BY <1>1, <1>2, <1>3, <1>6, <2>4, <2>5
<1> QED BY <1>5, <1>6

FromFile(options, n) ==
    IF n = "secret" /\ LastLine(options, n) = <<>> THEN LastLine(options, "token")
    ELSE LastLine(options, n)

ListedLines(prog, options) == UNION {LinesFor(options, n) : n \in prog.lists}

LEMMA FileTaken ==
    ASSUME NEW prog, NEW default, SettingsOf(prog, default), default.allow = {},
           prog.endpoints \cap {"secret"} = {},
           NEW options, \A p \in DOMAIN Files : Listing(Files[p]),
           NEW c, c = load_config_arg(prog, default, options)
    PROVE  /\ SettingsOf(prog, c)
           /\ c.ok =>
                /\ \A n \in prog.endpoints \cup prog.filled :
                     c.value[n] = IF FromFile(options, n) = <<>> THEN default.value[n]
                                  ELSE Stored(prog, n, FromFile(options, n))
                /\ c.allow = {Canonical(Value(FileOf(options)[i])) : i \in ListedLines(prog, options)}
<1> DEFINE paths == {i \in DOMAIN options : options[i].name = "config"}
           first == CHOOSE i \in paths : \A j \in paths : i <= j
           lines == FileOf(options)
           Get(n) == config_get(lines, n)
           Listed == UNION {ToSet(config_get_all(lines, n)) : n \in prog.lists}
<1>1. CASE paths = {}
  <2>1. c = default /\ lines = <<>>
    BY <1>1 DEF load_config_arg, FileOf
  <2>2. \A n : LinesFor(options, n) = {} /\ LastLine(options, n) = <<>>
    BY <2>1 DEF LinesFor, LastLine
  <2>3. ListedLines(prog, options) = {} /\ \A n : FromFile(options, n) = <<>>
    BY <2>2 DEF ListedLines, FromFile
  <2> QED BY <2>1, <2>3
<1>2. CASE paths # {}
  <2>1. PICK path : path = options[first].value
    OBVIOUS
  <2>2. lines = Files[path]
    BY <1>2, <2>1 DEF FileOf
  <2>3. c = IF ~load_config_file(path) THEN Refused(default) ELSE WithFile(prog, default, lines)
    BY <1>2, <2>1, <2>2 DEF load_config_arg
  <2>4. CASE ~load_config_file(path)
    BY <2>3, <2>4, RefusedShape
  <2>5. CASE load_config_file(path)
    <3> DEFINE ok == /\ \A n \in prog.endpoints : Get(n) = <<>> \/ ValidEndpoint(Get(n))
                     /\ \A text \in Listed : ValidEndpoint(text)
               tls == \/ \E n \in prog.flags : Get(n) \in Truthy
                      \/ \E n \in prog.implyTls : Get(n) # <<>>
               insecure == "tls_insecure" \in prog.flags /\ Get("tls_insecure") \in Truthy
               allow == {Canonical(text) : text \in {t \in Listed : ValidEndpoint(t)}}
               Given(n) == IF n = "secret"
                           THEN IF Get("secret") # <<>> THEN Get("secret") ELSE Get("token")
                           ELSE Get(n)
               value == [n \in Single(prog) |->
                           CASE Given(n) = <<>> -> default.value[n]
                             [] n \in prog.endpoints /\ ValidEndpoint(Given(n)) -> Canonical(Given(n))
                             [] OTHER -> Given(n)]
    <3>1. \A n : /\ LastLine(options, n) = Get(n)
                /\ ToSet(config_get_all(lines, n)) = {Value(lines[i]) : i \in LinesFor(options, n)}
      <4>1. Listing(lines)
        BY <2>2, <2>5 DEF load_config_file
      <4> QED BY <4>1, LastLineIsRead, GetLast
    <3>2. WithFile(prog, default, lines) =
            [ok |-> ok, tls |-> tls, insecure |-> insecure, allow |-> allow, value |-> value]
      BY Zenon DEF WithFile
    <3>3. c = WithFile(prog, default, lines)
      BY <2>3, <2>5
    <3> HIDE DEF ok, tls, insecure, allow, value, Get, Listed, lines
    <3>4. /\ c = [ok |-> ok, tls |-> tls, insecure |-> insecure, allow |-> allow, value |-> value]
          /\ c.value = value /\ c.allow = allow
      BY <3>2, <3>3
    <3>5. (c.ok <=> ok) /\ c.ok \in BOOLEAN
      <4>1. ok \in BOOLEAN
        BY DEF ok
      <4> QED BY <3>4, <4>1
    <3>6. SettingsOf(prog, c)
      <4>1. c = [ok |-> c.ok, tls |-> c.tls, insecure |-> c.insecure, allow |-> c.allow, value |-> c.value]
        BY <3>4
      <4>2. c.value = [n \in Single(prog) |-> c.value[n]]
        BY <3>4 DEF value
      <4> QED BY <3>5, <4>1, <4>2 DEF SettingsOf
    <3>7. \A n \in prog.endpoints \cup prog.filled :
            n \in Single(prog) /\ Given(n) = FromFile(options, n)
      BY <3>1 DEF Single, FromFile
    <3>8. ASSUME c.ok, NEW n \in prog.endpoints \cup prog.filled
          PROVE  c.value[n] = IF FromFile(options, n) = <<>> THEN default.value[n]
                              ELSE Stored(prog, n, FromFile(options, n))
      <4>1. PICK said : said = FromFile(options, n)
        OBVIOUS
      <4>2. c.value[n] = CASE said = <<>> -> default.value[n]
                           [] n \in prog.endpoints /\ ValidEndpoint(said) -> Canonical(said)
                           [] OTHER -> said
        BY <3>4, <3>7, <4>1 DEF value
      <4>3. ASSUME n \in prog.endpoints, said # <<>>
            PROVE  ValidEndpoint(said)
        <5>1. said = Get(n)
          BY <3>1, <4>1, <4>3 DEF FromFile
        <5> QED BY <3>5, <3>8, <4>3, <5>1 DEF ok
      <4>4. ~ValidEndpoint(<<>>)
        BY EmptyIsNoEndpoint
      <4> QED BY <4>1, <4>2, <4>3, <4>4 DEF Stored
    <3>9. ASSUME c.ok
          PROVE  c.allow = {Canonical(Value(lines[i])) : i \in ListedLines(prog, options)}
      <4>1. \A text \in Listed : ValidEndpoint(text)
        BY <3>5, <3>9 DEF ok
      <4>2. Listed = {Value(lines[i]) : i \in ListedLines(prog, options)}
        BY <3>1 DEF ListedLines, Listed
      <4>3. c.allow = {Canonical(text) : text \in Listed}
        BY <3>4, <4>1 DEF allow
      <4> QED BY <4>2, <4>3
    <3> QED BY <3>6, <3>8, <3>9 DEF lines
  <2> QED BY <2>4, <2>5
<1> QED BY <1>1, <1>2

\* The settings after each option.
Applied(prog, default, options, n, g) ==
    g = [i \in 0..n |->
           IF i = 0 THEN load_config_arg(prog, default, options)
           ELSE WithOption(prog, g[i - 1], options[i])]

LEMMA ApplyingGoesOn ==
    ASSUME NEW prog, NEW default, NEW options, NEW k \in Nat, NEW g, Applied(prog, default, options, k, g)
    PROVE  \E h : Applied(prog, default, options, k + 1, h)
<1> DEFINE next == WithOption(prog, g[k], options[k + 1])
           h == [i \in 0..k + 1 |-> IF i = k + 1 THEN next ELSE g[i]]
           F(f, i) == IF i = 0 THEN load_config_arg(prog, default, options)
                      ELSE WithOption(prog, f[i - 1], options[i])
<1>1. g = [i \in 0..k |-> F(g, i)]
  BY DEF Applied
<1>2. \A i \in 0..k : g[i] = F(g, i)
  <2> HIDE DEF F
  <2> QED BY <1>1
<1>3. next = F(g, k + 1)
  <2>1. k + 1 # 0 /\ (k + 1) - 1 = k
    OBVIOUS
  <2> QED BY <2>1
<1>4. ASSUME NEW i \in 0..k + 1
      PROVE  h[i] = F(h, i)
  <2>1. CASE i = 0
    <3>1. 0 \in 0..k /\ 0 # k + 1 /\ h[0] = g[0] /\ g[0] = F(g, 0)
      BY <1>2
    <3> QED BY <2>1, <3>1
  <2>2. CASE i # 0
    <3>1. i - 1 \in 0..k /\ i - 1 # k + 1 /\ i - 1 \in 0..k + 1
      BY <2>2
    <3>2. h[i - 1] = g[i - 1]
      BY <3>1
    <3>3. F(h, i) = F(g, i)
      BY <3>2
    <3>4. h[i] = F(g, i)
      BY <1>2, <1>3
    <3> QED BY <3>3, <3>4
  <2> QED BY <2>1, <2>2
<1>5. h = [i \in 0..k + 1 |-> F(h, i)]
  <2> DEFINE e == h
  <2>1. e = [i \in 0..k + 1 |-> IF i = k + 1 THEN next ELSE g[i]]
    OBVIOUS
  <2>2. \A i \in 0..k + 1 : e[i] = F(e, i)
    BY <1>4
  <2> HIDE DEF e, F, next
  <2>3. e = [i \in 0..k + 1 |-> F(e, i)]
    BY <2>1, <2>2
  <2> QED BY <2>3 DEF e
<1>6. Applied(prog, default, options, k + 1, h)
  BY <1>5 DEF Applied
<1> QED BY <1>6

\* The two recursions have the same shape, but no lemma can take the step of one
\* as a parameter.
LEMMA AllApplied ==
    ASSUME NEW prog, NEW default, NEW options, Len(options) \in Nat
    PROVE  \E g :
             /\ Applied(prog, default, options, Len(options), g)
             /\ parse_args(prog, default, options) =
                  IF /\ \A n \in prog.required : g[Len(options)].value[n] # <<>>
                     /\ g[Len(options)].tls => \A n \in prog.withTls : g[Len(options)].value[n] # <<>>
                  THEN g[Len(options)] ELSE Refused(g[Len(options)])
<1> DEFINE T == {k \in 0..Len(options) : \E g : Applied(prog, default, options, k, g)}
<1>1. 0 \in T
  <2>1. Applied(prog, default, options, 0, [i \in 0..0 |-> load_config_arg(prog, default, options)])
    BY DEF Applied
  <2> QED BY <2>1
<1>2. \A k \in 0..Len(options) : k \in T /\ k < Len(options) => k + 1 \in T
  <2> SUFFICES ASSUME NEW k \in 0..Len(options), k \in T, k < Len(options) PROVE k + 1 \in T
    OBVIOUS
  <2>1. k \in Nat /\ k + 1 \in 0..Len(options)
    OBVIOUS
  <2>2. \E h : Applied(prog, default, options, k + 1, h)
    BY <2>1, ApplyingGoesOn
  <2> QED BY <2>1, <2>2
<1>3. Len(options) \in T
  <2>1. Len(options) \in 0..Len(options)
    OBVIOUS
  <2> HIDE DEF T
  <2> QED BY <1>1, <1>2, <2>1, UpTo
<1>4. PICK g : g = CHOOSE f : Applied(prog, default, options, Len(options), f)
  OBVIOUS
<1>5. Applied(prog, default, options, Len(options), g)
  BY <1>3, <1>4
<1>6. parse_args(prog, default, options) =
        IF /\ \A n \in prog.required : g[Len(options)].value[n] # <<>>
           /\ g[Len(options)].tls => \A n \in prog.withTls : g[Len(options)].value[n] # <<>>
        THEN g[Len(options)] ELSE Refused(g[Len(options)])
  BY <1>4 DEF parse_args, Applied
<1> QED BY <1>5, <1>6

\* The options for a name among the first k, and what these have come to.
For(prog, options, k, n) == {i \in 1..k : Named(prog, options[i].name) = n}
ForLists(prog, options, k) == {i \in 1..k : Named(prog, options[i].name) \in prog.lists}

Applying(prog, options, c0, k, c) ==
    /\ SettingsOf(prog, c)
    /\ c.ok =>
         /\ c0.ok
         /\ \A n \in prog.endpoints \cup prog.filled :
              /\ For(prog, options, k, n) = {} => c.value[n] = c0.value[n]
              /\ \A i \in For(prog, options, k, n) :
                   /\ options[i].value # <<>>
                   /\ (\A j \in For(prog, options, k, n) : j <= i) =>
                        c.value[n] = Stored(prog, n, options[i].value)
         /\ c.allow = c0.allow \cup {Canonical(options[i].value) : i \in ForLists(prog, options, k)}

LEMMA ApplyingStep ==
    ASSUME NEW prog, Program(prog), NEW options, NEW c0, NEW k \in Nat,
           NEW c, Applying(prog, options, c0, k, c),
           NEW d, d = WithOption(prog, c, options[k + 1])
    PROVE  Applying(prog, options, c0, k + 1, d)
<1>1. PICK m, v : m = Named(prog, options[k + 1].name) /\ v = options[k + 1].value
  OBVIOUS
<1>2. SettingsOf(prog, d) /\ Taken(prog, c, options[k + 1], d)
  BY OptionTaken DEF Applying
<1> SUFFICES ASSUME d.ok
             PROVE  /\ c0.ok
                    /\ \A n \in prog.endpoints \cup prog.filled :
                         /\ For(prog, options, k + 1, n) = {} => d.value[n] = c0.value[n]
                         /\ \A i \in For(prog, options, k + 1, n) :
                              /\ options[i].value # <<>>
                              /\ (\A j \in For(prog, options, k + 1, n) : j <= i) =>
                                   d.value[n] = Stored(prog, n, options[i].value)
                    /\ d.allow = c0.allow \cup {Canonical(options[i].value) : i \in ForLists(prog, options, k + 1)}
  BY <1>2 DEF Applying
<1>3. /\ c.ok
      /\ m \in prog.endpoints \cup prog.filled => v # <<>>
      /\ \A n \in prog.endpoints \cup prog.filled :
           d.value[n] = IF n = m THEN Stored(prog, n, v) ELSE c.value[n]
      /\ d.allow = IF m \in prog.lists THEN c.allow \cup {Canonical(v)} ELSE c.allow
  BY <1>1, <1>2 DEF Taken
<1>4. c0.ok
  BY <1>3 DEF Applying
<1>5. ASSUME NEW n \in prog.endpoints \cup prog.filled
      PROVE  /\ For(prog, options, k + 1, n) = {} => d.value[n] = c0.value[n]
             /\ \A i \in For(prog, options, k + 1, n) :
                  /\ options[i].value # <<>>
                  /\ (\A j \in For(prog, options, k + 1, n) : j <= i) =>
                       d.value[n] = Stored(prog, n, options[i].value)
  <2>1. PICK of, now : of = For(prog, options, k, n) /\ now = For(prog, options, k + 1, n)
    OBVIOUS
  <2>2. /\ of = {} => c.value[n] = c0.value[n]
        /\ \A i \in of : /\ options[i].value # <<>>
                         /\ (\A j \in of : j <= i) => c.value[n] = Stored(prog, n, options[i].value)
    BY <1>3, <2>1 DEF Applying
  <2>3. CASE n = m
    <3>1. now = of \cup {k + 1} /\ of \subseteq 1..k
      BY <1>1, <2>1, <2>3 DEF For
    <3>2. d.value[n] = Stored(prog, n, v) /\ v # <<>>
      BY <1>3, <2>3
    <3>3. \A i \in now : (\A j \in now : j <= i) => i = k + 1
      BY <3>1
    <3> QED BY <1>1, <2>1, <2>2, <3>1, <3>2, <3>3
  <2>4. CASE n # m
    <3>1. now = of
      BY <1>1, <2>1, <2>4 DEF For
    <3>2. d.value[n] = c.value[n]
      BY <1>3, <2>4
    <3> QED BY <2>1, <2>2, <3>1, <3>2
  <2> QED BY <2>3, <2>4
<1>6. d.allow = c0.allow \cup {Canonical(options[i].value) : i \in ForLists(prog, options, k + 1)}
  <2>1. PICK of, now : of = ForLists(prog, options, k) /\ now = ForLists(prog, options, k + 1)
    OBVIOUS
  <2>2. c.allow = c0.allow \cup {Canonical(options[i].value) : i \in of}
    BY <1>3, <2>1 DEF Applying
  <2>3. CASE m \in prog.lists
    <3>1. now = of \cup {k + 1}
      BY <1>1, <2>1, <2>3 DEF ForLists
    <3>2. {Canonical(options[i].value) : i \in now} = {Canonical(options[i].value) : i \in of} \cup {Canonical(v)}
      BY <1>1, <3>1
    <3> QED BY <1>3, <2>1, <2>2, <2>3, <3>2
  <2>4. CASE m \notin prog.lists
    <3>1. now = of
      BY <1>1, <2>1, <2>4 DEF ForLists
    <3> QED BY <1>3, <2>1, <2>2, <2>4, <3>1
  <2> QED BY <2>3, <2>4
<1> QED BY <1>4, <1>5, <1>6

\* All options.
LEMMA AllOptions ==
    ASSUME NEW prog, Program(prog), NEW default, SettingsOf(prog, default), default.allow = {},
           prog.endpoints \cap {"secret"} = {}, NEW options, Listing(options),
           \A p \in DOMAIN Files : Listing(Files[p]),
           NEW cfg, cfg = parse_args(prog, default, options), cfg.ok
    PROVE  /\ Applying(prog, options, load_config_arg(prog, default, options), Len(options), cfg)
           /\ \A n \in prog.required : cfg.value[n] # <<>>
           /\ cfg.tls => \A n \in prog.withTls : cfg.value[n] # <<>>
<1>1. PICK n \in Nat : n = Len(options)
  BY Zenon DEF Listing
<1>2. PICK c0 : c0 = load_config_arg(prog, default, options)
  OBVIOUS
<1>3. PICK g : /\ Applied(prog, default, options, n, g)
               /\ cfg = IF /\ \A m \in prog.required : g[n].value[m] # <<>>
                           /\ g[n].tls => \A m \in prog.withTls : g[n].value[m] # <<>>
                        THEN g[n] ELSE Refused(g[n])
  BY <1>1, AllApplied
<1>4. g[0] = c0 /\ \A k \in 0..n : k < n => g[k + 1] = WithOption(prog, g[k], options[k + 1])
  <2>1. 0 \in 0..n /\ \A k \in 0..n : k < n => k + 1 \in 0..n /\ k + 1 # 0 /\ (k + 1) - 1 = k
    OBVIOUS
  <2> QED BY <1>2, <1>3, <2>1 DEF Applied
<1> DEFINE T == {k \in 0..n : Applying(prog, options, c0, k, g[k])}
<1>5. 0 \in T
  <2>1. SettingsOf(prog, c0)
    BY <1>2, FileTaken
  <2>2. ForLists(prog, options, 0) = {} /\ \A m : For(prog, options, 0, m) = {}
    BY DEF For, ForLists
  <2>3. Applying(prog, options, c0, 0, c0)
    BY <2>1, <2>2 DEF Applying
  <2> QED BY <1>4, <2>3
<1>6. \A k \in 0..n : k \in T /\ k < n => k + 1 \in T
  <2> SUFFICES ASSUME NEW k \in 0..n, k \in T, k < n PROVE k + 1 \in T
    OBVIOUS
  <2>1. k \in Nat /\ k + 1 \in 0..n
    OBVIOUS
  <2>2. Applying(prog, options, c0, k + 1, g[k + 1])
    BY <1>4, <2>1, ApplyingStep
  <2> QED BY <2>1, <2>2
<1>7. n \in T
  <2>1. n \in 0..n
    OBVIOUS
  <2> HIDE DEF T
  <2> QED BY <1>5, <1>6, <2>1, UpTo
<1>8. Applying(prog, options, c0, n, g[n])
  BY <1>7
<1>9. Refused(g[n]).ok = FALSE
  BY <1>8, RefusedShape DEF Applying
<1>10. cfg = g[n] /\ (\A m \in prog.required : g[n].value[m] # <<>>)
       /\ (g[n].tls => \A m \in prog.withTls : g[n].value[m] # <<>>)
  BY <1>3, <1>9
<1> QED BY <1>1, <1>2, <1>8, <1>10

\* What the last of them says.
LEMMA LastOptionIsTaken ==
    ASSUME NEW prog, NEW options, Listing(options), NEW n, n # "token",
           NEW said, said = LastOption(options, IF n = "secret" THEN {n, "token"} ELSE {n})
    PROVE  LET of == For(prog, options, Len(options), n) IN
           \/ of = {} /\ said = <<>>
           \/ \E i \in of : said = options[i].value /\ \A j \in of : j <= i
<1>1. PICK k \in Nat : k = Len(options)
  BY Zenon DEF Listing
<1>2. PICK of : of = For(prog, options, k, n)
  OBVIOUS
<1>3. \A o : Named(prog, o.name) = n <=> o.name \in IF n = "secret" THEN {n, "token"} ELSE {n}
  BY DEF Named
<1>4. of = {i \in DOMAIN options : options[i].name \in IF n = "secret" THEN {n, "token"} ELSE {n}}
      /\ of \in SUBSET (1..k)
  <2>1. DOMAIN options = 1..k
    BY <1>1 DEF Listing
  <2> QED BY <1>2, <1>3, <2>1 DEF For
<1>5. said = IF of = {} THEN <<>> ELSE options[CHOOSE i \in of : \A j \in of : j <= i].value
  BY <1>4 DEF LastOption
<1>6. CASE of = {}
  BY <1>1, <1>2, <1>5, <1>6
<1>7. CASE of # {}
  <2>1. \E i \in of : \A j \in of : j <= i
    BY <1>4, <1>7, GreatestOf
  <2>2. PICK i \in of : /\ i = CHOOSE l \in of : \A j \in of : j <= l
                        /\ \A j \in of : j <= i
    BY <2>1
  <2> QED BY <1>1, <1>2, <1>5, <1>7, <2>2
<1> QED BY <1>6, <1>7

\* The last option wins, then the last line, then the default.
LEMMA LastWordWins ==
    ASSUME NEW prog, Program(prog), NEW default, SettingsOf(prog, default), default.allow = {},
           prog.endpoints \cap {"secret"} = {}, NEW options, Listing(options),
           \A p \in DOMAIN Files : Listing(Files[p]),
           \A n \in prog.endpoints : \/ default.value[n] = <<>> /\ n \in prog.required
                                     \/ Canonical(default.value[n]) = default.value[n],
           NEW cfg, cfg = parse_args(prog, default, options), cfg.ok
    PROVE  /\ GoesBy(prog, cfg, default, options)
           /\ cfg.allow = {Canonical(options[i].value) : i \in ForLists(prog, options, Len(options))}
                          \cup {Canonical(Value(FileOf(options)[i])) : i \in ListedLines(prog, options)}
<1>1. PICK c0 : c0 = load_config_arg(prog, default, options)
  OBVIOUS
<1>2. /\ Applying(prog, options, c0, Len(options), cfg)
      /\ \A n \in prog.required : cfg.value[n] # <<>>
  BY <1>1, AllOptions
<1>3. c0.ok
  BY <1>2 DEF Applying
<1>4. /\ \A n \in prog.endpoints \cup prog.filled :
           c0.value[n] = IF FromFile(options, n) = <<>> THEN default.value[n]
                         ELSE Stored(prog, n, FromFile(options, n))
      /\ c0.allow = {Canonical(Value(FileOf(options)[i])) : i \in ListedLines(prog, options)}
  BY <1>1, <1>3, FileTaken
<1>5. ASSUME NEW n \in prog.endpoints \cup prog.filled
      PROVE  \/ cfg.value[n] = default.value[n] /\ Wins(options, n, default.value[n]) = default.value[n]
             \/ cfg.value[n] = Stored(prog, n, Wins(options, n, default.value[n]))
  <2>1. PICK said, file : /\ said = LastOption(options, IF n = "secret" THEN {n, "token"} ELSE {n})
                          /\ file = FromFile(options, n)
    OBVIOUS
  <2>2. Wins(options, n, default.value[n]) =
          IF said # <<>> THEN said ELSE IF file # <<>> THEN file ELSE default.value[n]
    BY <2>1 DEF Wins, FromFile
  <2>3. n # "token"
    BY DEF Program
  <2>4. PICK of : of = For(prog, options, Len(options), n)
    OBVIOUS
  <2>5. \/ of = {} /\ said = <<>>
        \/ \E i \in of : said = options[i].value /\ \A j \in of : j <= i
    BY <2>1, <2>3, <2>4, LastOptionIsTaken, ZenonT(40)
  <2>6. /\ of = {} => cfg.value[n] = c0.value[n]
        /\ \A i \in of : /\ options[i].value # <<>>
                         /\ (\A j \in of : j <= i) => cfg.value[n] = Stored(prog, n, options[i].value)
    BY <1>2, <2>4 DEF Applying
  <2>7. c0.value[n] = IF file = <<>> THEN default.value[n] ELSE Stored(prog, n, file)
    BY <1>4, <2>1
  <2> QED BY <2>2, <2>5, <2>6, <2>7
<1>6. \A n \in prog.filled : cfg.value[n] = Wins(options, n, default.value[n])
  <2>1. \A n \in prog.filled : \A t : Stored(prog, n, t) = t
    BY DEF Program, Stored
  <2> QED BY <1>5, <2>1
<1>7. \A n \in prog.endpoints : cfg.value[n] = Canonical(Wins(options, n, default.value[n]))
  <2>1. \A n \in prog.endpoints : \A t : Stored(prog, n, t) = Canonical(t)
    BY DEF Stored
  <2>2. \A n \in prog.endpoints :
          cfg.value[n] = default.value[n] => Canonical(default.value[n]) = default.value[n]
    BY <1>2
  <2> QED BY <1>5, <2>1, <2>2
<1>8. cfg.allow = c0.allow \cup {Canonical(options[i].value) : i \in ForLists(prog, options, Len(options))}
  BY <1>2 DEF Applying
<1> QED BY <1>4, <1>6, <1>7, <1>8 DEF GoesBy

\* Command lines and files are sequences, and the controller's own endpoints are
\* written as it would write them.
Given(k) == Listing(k.launch.agent) /\ Listing(k.launch.tunnel)
FilesAndDefaults ==
    /\ \A p \in DOMAIN Files : Listing(Files[p])
    /\ \A n \in TunnelProgram.endpoints : Canonical(TunnelDefault.value[n]) = TunnelDefault.value[n]

LEMMA Defaults ==
    /\ SettingsOf(AgentProgram, AgentDefault) /\ AgentDefault.allow = {} /\ AgentDefault.ok
    /\ AgentProgram.endpoints = {"tunnel"} /\ AgentDefault.value["tunnel"] = <<>>
    /\ AgentProgram.required = {"tunnel"} /\ AgentProgram.lists = {"allow"}
    /\ SettingsOf(TunnelProgram, TunnelDefault) /\ TunnelDefault.allow = {} /\ TunnelDefault.ok
    /\ TunnelProgram.endpoints = {"control", "proxy"} /\ TunnelProgram.withTls = {"tls_cert", "tls_key"}
    /\ TunnelProgram.lists = {}
<1>1. /\ AgentProgram.endpoints = {"tunnel"} /\ AgentProgram.required = {"tunnel"}
      /\ AgentProgram.lists = {"allow"} /\ AgentProgram.filled = {"id", "secret"}
      /\ TunnelProgram.endpoints = {"control", "proxy"} /\ TunnelProgram.withTls = {"tls_cert", "tls_key"}
      /\ TunnelProgram.lists = {}
  BY DEF AgentProgram, TunnelProgram
<1>2. SettingsOf(AgentProgram, AgentDefault) /\ AgentDefault.allow = {} /\ AgentDefault.ok
  BY DEF SettingsOf, AgentDefault
<1>3. SettingsOf(TunnelProgram, TunnelDefault) /\ TunnelDefault.allow = {} /\ TunnelDefault.ok
  BY DEF SettingsOf, TunnelDefault
<1>4. AgentDefault.value["tunnel"] = <<>>
  BY <1>1 DEF AgentDefault, Single
<1> QED BY <1>1, <1>2, <1>3, <1>4

\* What the agent's list holds.
LEMMA ListIsGiven ==
    ASSUME NEW options, Listing(options), FilesAndDefaults,
           NEW cfg, cfg = parse_args(AgentProgram, AgentDefault, options), cfg.ok
    PROVE  /\ GoesBy(AgentProgram, cfg, AgentDefault, options)
           /\ cfg.allow = {Canonical(o.value) : o \in {p \in ToSet(options) : p.name = "allow"}}
                          \cup {Canonical(Value(FileOf(options)[i])) : i \in LinesFor(options, "allow")}
<1>1. /\ GoesBy(AgentProgram, cfg, AgentDefault, options)
      /\ cfg.allow = {Canonical(options[i].value) : i \in ForLists(AgentProgram, options, Len(options))}
                     \cup {Canonical(Value(FileOf(options)[i])) : i \in ListedLines(AgentProgram, options)}
  BY Programs, Defaults, LastWordWins DEF FilesAndDefaults
<1>2. ListedLines(AgentProgram, options) = LinesFor(options, "allow")
  BY Defaults DEF ListedLines
<1>3. ForLists(AgentProgram, options, Len(options)) = {i \in DOMAIN options : options[i].name = "allow"}
  <2>1. \A o : Named(AgentProgram, o.name) \in {"allow"} <=> o.name = "allow"
    BY DEF Named
  <2>2. DOMAIN options = 1..Len(options)
    BY DEF Listing
  <2> QED BY <2>1, <2>2, Defaults DEF ForLists
<1>4. {Canonical(options[i].value) : i \in {j \in DOMAIN options : options[j].name = "allow"}}
        = {Canonical(o.value) : o \in {p \in ToSet(options) : p.name = "allow"}}
  BY DEF ToSet
<1> QED BY <1>1, <1>2, <1>3, <1>4

\* What the two programs go by when they have started, and until they end.
Started ==
    phase # "starting" =>
      /\ agent = parse_args(AgentProgram, AgentDefault, launch.agent)
      /\ tunnel = parse_args(TunnelProgram, TunnelDefault, launch.tunnel)
      /\ phase = "joined" => agent.ok
Launched == \E k \in Cases : launch = k.launch

LEMMA StartedKeeps == Started /\ Launched /\ [Next]_vars => Started' /\ Launched'
<1> SUFFICES ASSUME Started, Launched, [Next]_vars PROVE Started' /\ Launched'
  OBVIOUS
<1>1. CASE Start
  BY <1>1 DEF Start, Started, Launched
<1>2. CASE Join
  BY <1>2 DEF Join, Started, Launched
<1>3. CASE UNCHANGED setup
  BY <1>3 DEF setup, Started, Launched
<1>4. \/ Start \/ Join \/ UNCHANGED setup
  BY ConnectionIsWire
     DEF Next, vars, ReadHeader, HeaderEnds, SendOpen, Opened, Greet, SendInitial, Copy, Sent,
     SendClose, Closed, RivalSends, HandleFrame, HandleOpen
<1> QED BY <1>1, <1>2, <1>3, <1>4

LEMMA StartedFits ==
    ASSUME Started, Launched, FilesAndDefaults, \A k \in Cases : Given(k), phase # "starting"
    PROVE  /\ agent.ok =>
                /\ GoesBy(AgentProgram, agent, AgentDefault, launch.agent)
                /\ agent.allow =
                     {Canonical(o.value) : o \in {p \in ToSet(launch.agent) : p.name = "allow"}}
                     \cup {Canonical(Value(FileOf(launch.agent)[i])) :
                             i \in LinesFor(launch.agent, "allow")}
           /\ tunnel.ok =>
                /\ GoesBy(TunnelProgram, tunnel, TunnelDefault, launch.tunnel)
                /\ tunnel.tls => tunnel.value["tls_cert"] # <<>> /\ tunnel.value["tls_key"] # <<>>
<1>1. Listing(launch.agent) /\ Listing(launch.tunnel)
  BY DEF Launched, Given
<1>2. /\ agent = parse_args(AgentProgram, AgentDefault, launch.agent)
      /\ tunnel = parse_args(TunnelProgram, TunnelDefault, launch.tunnel)
  BY DEF Started
<1>3. ASSUME tunnel.ok
      PROVE  /\ GoesBy(TunnelProgram, tunnel, TunnelDefault, launch.tunnel)
             /\ tunnel.tls => tunnel.value["tls_cert"] # <<>> /\ tunnel.value["tls_key"] # <<>>
  <2>1. TunnelProgram.endpoints \cap {"secret"} = {}
    BY Defaults
  <2>2. GoesBy(TunnelProgram, tunnel, TunnelDefault, launch.tunnel)
    BY <1>1, <1>2, <1>3, <2>1, Programs, Defaults, LastWordWins DEF FilesAndDefaults
  <2>3. tunnel.tls => \A n \in TunnelProgram.withTls : tunnel.value[n] # <<>>
    BY <1>1, <1>2, <1>3, <2>1, Programs, Defaults, AllOptions DEF FilesAndDefaults
  <2> QED BY <2>2, <2>3, Defaults
<1> QED BY <1>1, <1>2, <1>3, ListIsGiven

\* Each program that starts goes by the last option with a name, else by the last
\* line of its file, else by its default; the agent's list has what its options
\* and lines name and no more (parse_args and load_config_file of both programs).
THEOREM LastWordCounts ==
    ASSUME FilesAndDefaults, \A k \in Cases : Given(k)
    PROVE  Spec => []SettingsAsGiven
<1>1. Init => Started /\ Launched
  BY DEF Init, Started, Launched
<1>2. Started /\ Launched => SettingsAsGiven
  BY StartedFits DEF SettingsAsGiven
<1> QED BY <1>1, <1>2, StartedKeeps, PTL DEF Spec


\* A text that names an endpoint has a host and a port with numerals.
LEMMA CutIsText ==
    ASSUME NEW v \in Text, Cut(v)[1] # <<>>
    PROVE  Cut(v)[1] \in Text
<1>1. PICK n \in Nat : n = Len(v) /\ DOMAIN v = 1..n
  BY DEF Text
<1>2. \A a \in 1..n + 1, b \in Nat : a - 1 <= b /\ b <= n => SubSeq(v, a, b) \in Text
  BY <1>1 DEF Text
<1>3. CASE v # <<>> /\ Head(v) = "["
  <2>1. Cut(v) = CutBracketed(v) /\ v[1] = "["
    BY <1>3 DEF Cut
  <2>2. PICK rest, k : k = FirstPlace("]", v) /\ rest = After(k, v)
    OBVIOUS
  <2>3. ~(Places("]", v) = {} \/ (rest # <<>> /\ Head(rest) # ":"))
        /\ Cut(v) = <<SubSeq(v, 2, k - 1), After(1, rest)>>
    BY <2>1, <2>2 DEF CutBracketed
  <2>4. k \in Places("]", v)
    <3>1. Places("]", v) \in SUBSET Nat /\ Places("]", v) # {}
      BY <1>1, <2>3 DEF Places
    <3>2. \E i \in Places("]", v) : \A j \in Places("]", v) : i <= j
      BY <3>1, LeastOf
    <3> QED BY <2>2, <3>2 DEF FirstPlace
  <2>5. k \in 2..n
    BY <1>1, <2>1, <2>4 DEF Places
  <2>6. SubSeq(v, 2, k - 1) \in Text
    <3>1. 2 \in 1..n + 1 /\ k - 1 \in Nat /\ 2 - 1 <= k - 1 /\ k - 1 <= n
      BY <2>5
    <3> QED BY <1>2, <3>1
  <2> QED BY <2>3, <2>6
<1>4. CASE ~(v # <<>> /\ Head(v) = "[")
  <2>1. Cut(v) = CutAtLast(v)
    BY <1>4 DEF Cut
  <2>2. CASE Places(":", v) = {}
    BY <2>1, <2>2 DEF CutAtLast
  <2>3. CASE Places(":", v) # {}
    <3>1. PICK k : k = LastPlace(":", v)
      OBVIOUS
    <3>2. Cut(v)[1] = SubSeq(v, 1, k - 1)
      <4>1. Cut(v) = <<Before(k, v), After(k, v)>>
        BY <2>1, <2>3, <3>1 DEF CutAtLast
      <4>2. \A x, y : <<x, y>>[1] = x
        OBVIOUS
      <4>3. PICK before, after, cut : before = Before(k, v) /\ after = After(k, v) /\ cut = Cut(v)
        OBVIOUS
      <4>4. cut[1] = before
        BY <4>1, <4>2, <4>3
      <4>5. before = SubSeq(v, 1, k - 1)
        BY <4>3, Zenon DEF Before
      <4> QED BY <4>3, <4>4, <4>5, Zenon
    <3>3. Places(":", v) \in SUBSET (1..n)
      BY <1>1 DEF Places
    <3>4. \E i \in Places(":", v) : \A j \in Places(":", v) : j <= i
      BY <2>3, <3>3, GreatestOf
    <3>5. k \in 1..n
      BY <3>1, <3>3, <3>4 DEF LastPlace
    <3>6. SubSeq(v, 1, k - 1) \in Text
      BY <1>2, <3>5
    <3> QED BY <3>2, <3>6
  <2> QED BY <2>2, <2>3
<1> QED BY <1>3, <1>4

\* std::to_string prints every port that a text can give.
PortsPrinted == \A t \in DOMAIN Numeral : Numeral[t] \in Ports => Numeral[t] \in DOMAIN Decimal

\* The text of an endpoint that a client can ask for is that of no other one.
LEMMA TextTellsEndpoint ==
    ASSUME NEW v \in Text, NEW e, Sayable(e), e = Endpoint(e.host, e.port), PortsPrinted,
           Canonical(v) = endpoint_to_string(e.host, e.port)
    PROVE  parse_host_port(v, 0) = e
<1>1. PICK f : f = parse_host_port(v, 0)
  OBVIOUS
<1>2. PICK a, b : a = e.host /\ b = Decimal[e.port]
  OBVIOUS
<1>3. a \in Text /\ a # <<>> /\ e.port \in Ports /\ e.port \in DOMAIN Decimal /\ Numeral[b] = e.port
  BY <1>2, DecimalAssumption DEF Sayable
<1>4. f.host \o <<":", Decimal[f.port]>> = a \o <<":", b>>
  BY <1>1, <1>2 DEF Canonical, endpoint_to_string, Joined
<1>5. CASE f = Invalid
  <2>1. f.host = <<>>
    BY <1>5 DEF Invalid, Endpoint
  <2>2. PICK d : d = Decimal[f.port]
    OBVIOUS
  <2>3. Len(<<>> \o <<":", d>>) = 2
    OBVIOUS
  <2>4. Len(a \o <<":", b>>) = Len(a) + 2 /\ Len(a) \in Nat /\ Len(a) # 0
    BY <1>3 DEF Text
  <2>5. Len(a) + 2 # 2
    BY <2>4
  <2> QED BY <1>4, <2>1, <2>2, <2>3, <2>4, <2>5
<1>6. CASE f # Invalid
  <2>1. PICK host, port : host = Cut(v)[1] /\ port = Port(Cut(v)[2], 0)
    OBVIOUS
  <2>2. f = Endpoint(host, port) /\ host # <<>> /\ port # 0
    BY <1>1, <1>6, <2>1 DEF parse_host_port
  <2>3. f.host = host /\ f.port = port /\ host \in Text
    BY <2>1, <2>2, CutIsText DEF Endpoint
  <2>4. port \in Ports /\ \E t \in DOMAIN Numeral : Numeral[t] = port
    <3>1. PICK text : text = Cut(v)[2]
      OBVIOUS
    <3>2. port = Stoi(text) /\ Stoi(text) \in Ports
      BY <2>1, <2>2, <3>1 DEF Port
    <3>3. Stoi(text) # 0
      BY <2>2, <3>2
    <3> QED BY <3>2, <3>3 DEF Stoi
  <2>5. PICK d : d = Decimal[port]
    OBVIOUS
  <2>6. Numeral[d] = port
    BY <2>4, <2>5, DecimalAssumption DEF PortsPrinted
  <2>7. PICK s : s = host \o <<":", d>> /\ s = a \o <<":", b>>
    BY <1>4, <2>3, <2>5
  <2>8. /\ Len(host) \in Nat /\ Len(a) \in Nat
        /\ Len(s) = Len(host) + 2 /\ Len(s) = Len(a) + 2
        /\ \A i \in 1..Len(host) : s[i] = host[i]
        /\ \A i \in 1..Len(a) : s[i] = a[i]
        /\ s[Len(host) + 2] = d /\ s[Len(a) + 2] = b
    BY <1>3, <2>3, <2>7 DEF Text
  <2>9. Len(host) = Len(a) /\ d = b
    BY <2>8
  <2>10. host = a
    BY <1>3, <2>3, <2>8, <2>9 DEF Text
  <2> QED BY <1>1, <1>2, <1>3, <2>2, <2>6, <2>9, <2>10
<1> QED BY <1>5, <1>6

\* What options, and lines of a file that loads, name for the list are texts.
ListedTexts ==
    /\ \A k \in Cases : \A o \in ToSet(k.launch.agent) : o.name = "allow" => o.value \in Text
    /\ \A p \in DOMAIN Files : load_config_file(p) =>
         \A i \in DOMAIN Files[p] : Says(Files[p][i], "allow") => Value(Files[p][i]) \in Text

\* The agent connects to an endpoint only if an option or a line of the file it
\* was started with names it.
OnlyListed ==
    dialled # Invalid =>
        \/ \E o \in ToSet(launch.agent) : o.name = "allow" /\ parse_host_port(o.value, 0) = dialled
        \/ \E i \in LinesFor(launch.agent, "allow") :
             parse_host_port(Value(FileOf(launch.agent)[i]), 0) = dialled

\* A program that was not refused found its file.
LEMMA FileIsThere ==
    ASSUME NEW options, Listing(options), FilesAndDefaults,
           NEW c, c = parse_args(AgentProgram, AgentDefault, options), c.ok, FileOf(options) # <<>>
    PROVE  \E p \in DOMAIN Files : load_config_file(p) /\ FileOf(options) = Files[p]
<1> DEFINE paths == {i \in DOMAIN options : options[i].name = "config"}
           first == CHOOSE i \in paths : \A j \in paths : i <= j
<1>1. PICK c0 : c0 = load_config_arg(AgentProgram, AgentDefault, options)
  OBVIOUS
<1>2. c0.ok
  BY <1>1, Programs, Defaults, AllOptions DEF FilesAndDefaults, Applying
<1>3. PICK path : path = options[first].value
  OBVIOUS
<1>4. paths # {} /\ FileOf(options) = Files[path]
  BY <1>3 DEF FileOf
<1>5. load_config_file(path)
  <2>1. Refused(AgentDefault).ok = FALSE
    BY Defaults, RefusedShape
  <2>2. c0 = IF ~load_config_file(path) THEN Refused(AgentDefault)
             ELSE WithFile(AgentProgram, AgentDefault, Files[path])
    BY <1>1, <1>3, <1>4 DEF load_config_arg
  <2> QED BY <1>2, <2>1, <2>2
<1> QED BY <1>4, <1>5 DEF load_config_file

LEMMA DialledIsListed ==
    ASSUME Path, Started, Launched, FilesAndDefaults, \A k \in Cases : Given(k),
           PortsPrinted, ListedTexts
    PROVE  OnlyListed
<1> SUFFICES ASSUME dialled # Invalid
             PROVE  \/ \E o \in ToSet(launch.agent) :
                         o.name = "allow" /\ parse_host_port(o.value, 0) = dialled
                    \/ \E i \in LinesFor(launch.agent, "allow") :
                         parse_host_port(Value(FileOf(launch.agent)[i]), 0) = dialled
  BY DEF OnlyListed
<1>1. /\ endpoint_to_string(dialled.host, dialled.port) \in agent.allow
      /\ Sayable(dialled) /\ dialled = Endpoint(dialled.host, dialled.port)
  <2>1. request.ok /\ dialled = request.endpoint /\ Allowed(dialled)
    BY DEF Path, Opens
  <2>2. Sayable(dialled)
    BY <2>1 DEF Path, Heard
  <2> QED BY <2>1, <2>2 DEF Allowed, Sayable, Endpoint
<1>2. phase = "joined"
  BY DEF Path, Heard, Untouched
<1>3. agent.ok /\ agent = parse_args(AgentProgram, AgentDefault, launch.agent)
  BY <1>2 DEF Started
<1>4. agent.allow = {Canonical(o.value) : o \in {p \in ToSet(launch.agent) : p.name = "allow"}}
                    \cup {Canonical(Value(FileOf(launch.agent)[i])) :
                            i \in LinesFor(launch.agent, "allow")}
  BY <1>2, <1>3, StartedFits
<1>5. ASSUME NEW o \in ToSet(launch.agent), o.name = "allow",
             Canonical(o.value) = endpoint_to_string(dialled.host, dialled.port)
      PROVE  parse_host_port(o.value, 0) = dialled
  <2>1. o.value \in Text
    BY <1>5 DEF ListedTexts, Launched
  <2> QED BY <1>1, <1>5, <2>1, TextTellsEndpoint
<1>6. ASSUME NEW i \in LinesFor(launch.agent, "allow"),
             Canonical(Value(FileOf(launch.agent)[i])) = endpoint_to_string(dialled.host, dialled.port)
      PROVE  parse_host_port(Value(FileOf(launch.agent)[i]), 0) = dialled
  <2>1. PICK line : line = FileOf(launch.agent)[i]
    OBVIOUS
  <2>2. Value(line) \in Text
    <3>1. Says(line, "allow") /\ i \in DOMAIN FileOf(launch.agent)
      BY <2>1 DEF LinesFor, Says
    <3>2. \E p \in DOMAIN Files : load_config_file(p) /\ FileOf(launch.agent) = Files[p]
      <4>1. Listing(launch.agent) /\ FileOf(launch.agent) # <<>>
        BY <3>1 DEF Launched, Given
      <4> QED BY <1>3, <4>1, FileIsThere
    <3> QED BY <2>1, <3>1, <3>2 DEF ListedTexts
  <2> QED BY <1>1, <1>6, <2>1, <2>2, TextTellsEndpoint
<1> QED BY <1>1, <1>4, <1>5, <1>6

\* The agent connects only to an endpoint that the operator named for its list,
\* in an option or in a line of its file, and the client asked for; no other
\* text of the list is taken for it (parse_args, handle_open, endpoint_to_string).
THEOREM OnlyTheListedIsDialled ==
    ASSUME FramesFit, \A k \in Cases : Understood(k.ask) /\ Given(k),
           FilesAndDefaults, PortsPrinted, ListedTexts
    PROVE  Spec => [](OnlyListed /\ (dialled # Invalid => dialled = ask.means))
<1>1. Init => Path /\ Started /\ Launched
  BY InitPath DEF Init, Started, Launched
<1>2. Path /\ [Next]_vars => Path'
  BY NextPath
<1>3. Path /\ Started /\ Launched => OnlyListed /\ (dialled # Invalid => dialled = ask.means)
  BY DialledIsListed DEF Path, Opens, Heard
<1> QED BY <1>1, <1>2, <1>3, StartedKeeps, PTL DEF Spec

=============================================================================
