--------------------------- MODULE ProxyRequests ---------------------------
(***************************************************************************)
(* What the controller makes of the bytes a proxy client sends: the header *)
(* in a stream that arrives in pieces, and the request in the header.      *)
(* A line of the header, without its line end, is one token; so are CR,    *)
(* LF and each byte of a body.                                             *)
(***************************************************************************)
EXTENDS Endpoints, SequencesExt

Token(kind) == [kind |-> kind]
CR == Token("CR")
LF == Token("LF")
HeaderLine(name, value) == [kind |-> "header", name |-> name, value |-> value]
RequestLine(method, url) == [kind |-> "request", method |-> method, url |-> url]
Url(scheme, authority, path) == [scheme |-> scheme, authority |-> authority, path |-> path]

\* Where the header's end starts.
Marker == <<CR, LF, CR, LF>>
Markers(stream) == {i \in 1..Len(stream) - 3 : SubSeq(stream, i, i + 3) = Marker}

HasHeader(stream) == Markers(stream) # {}
HeaderEnd(stream) == 3 + CHOOSE i \in Markers(stream) : \A j \in Markers(stream) : i <= j
Header(stream) == SubSeq(stream, 1, HeaderEnd(stream))
Leftover(stream) == SubSeq(stream, HeaderEnd(stream) + 1, Len(stream))

\* split_lines, without the lines that are empty.
Lines(header) == SelectSeq(header, LAMBDA t : t.kind \in {"header", "request"})

Bad == [ok |-> FALSE, connect |-> FALSE, endpoint |-> Invalid, data |-> <<>>]

find_host_header(lines) ==
    LET hosts == SelectSeq(lines, LAMBDA t : t.kind = "header" /\ t.name = "host")
    IN IF hosts = <<>> THEN <<>> ELSE Head(hosts).value

\* Where the request goes: what CONNECT or the absolute URL names, or the
\* first Host header.
Destination(lines) ==
    LET first == Head(lines) IN
    CASE first.method = "CONNECT" -> parse_host_port(first.url.authority, 443)
      [] first.url.scheme = "http" -> parse_http_url(first.url)
      [] first.url.scheme = "https" -> Invalid
      [] OTHER -> parse_host_port(find_host_header(lines), 80)

\* The header as the target gets it: the path alone, the Host an absolute URL
\* names, a Host in any case, nothing that is for the proxy.
Rewritten(lines, endpoint) ==
    LET first == Head(lines)
        host == HeaderLine("host", endpoint_to_string(endpoint.host, endpoint.port))
        absolute == first.url.scheme = "http"
        kept == SelectSeq(Tail(lines), LAMBDA t : t.name # "proxy-connection")
        fields == [i \in DOMAIN kept |->
                     IF absolute /\ kept[i].name = "host" THEN host ELSE kept[i]]
    IN <<RequestLine(first.method, Url("none", <<>>, first.url.path))>> \o fields
       \o (IF \E i \in DOMAIN kept : kept[i].name = "host" THEN <<>> ELSE <<host>>)
       \o <<Token("end")>>

\* Bug: what was read behind the header is forgotten.
LeftoverForgotten(header, leftover) ==
    LET lines == Lines(header)
    IN IF lines = <<>> \/ header[1].kind # "request" \/ Destination(lines) = Invalid THEN Bad
       ELSE [ok |-> TRUE, connect |-> Head(lines).method = "CONNECT",
             endpoint |-> Destination(lines),
             data |-> Rewritten(lines, Destination(lines))]

\* For CONNECT there is no initial data: what was read behind the header is
\* dropped.
parse_proxy_request(header, leftover) ==
    LET lines == Lines(header)
        connect == Head(lines).method = "CONNECT"
    IN IF lines = <<>> \/ header[1].kind # "request" \/ Destination(lines) = Invalid THEN Bad
       ELSE [ok |-> TRUE, connect |-> connect, endpoint |-> Destination(lines),
             data |-> IF connect THEN <<>>
                      ELSE Rewritten(lines, Destination(lines)) \o leftover]
=============================================================================
