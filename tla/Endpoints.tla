----------------------------- MODULE Endpoints -----------------------------
(***************************************************************************)
(* Endpoints as text: "host:port" in options, files, requests, URLs and in *)
(* the Open frame.  A text is a sequence of tokens: separators, numerals,  *)
(* and names, which stand for runs of other characters.                    *)
(***************************************************************************)
EXTENDS Integers, Sequences

CONSTANTS
    Tokens,   \* separators, numerals and names
    Numeral,  \* what the numeral tokens denote
    Decimal   \* the token std::to_string makes of a number

Separators == {":", "[", "]", "\n"}
Ports == 1..65535

ASSUME TokensAssumption == Separators \subseteq Tokens
ASSUME NumeralAssumption ==
    \A t \in DOMAIN Numeral : t \in Tokens \ Separators /\ Numeral[t] \in Int
ASSUME DecimalAssumption ==
    \A p \in DOMAIN Decimal : Decimal[p] \in DOMAIN Numeral /\ Numeral[Decimal[p]] = p

Text == Seq(Tokens)

Endpoint(host, port) == [host |-> host, port |-> port]
Invalid == Endpoint(<<>>, 0)

Places(c, text) == {i \in DOMAIN text : text[i] = c}
FirstPlace(c, text) == CHOOSE i \in Places(c, text) : \A j \in Places(c, text) : i <= j
LastPlace(c, text) == CHOOSE i \in Places(c, text) : \A j \in Places(c, text) : j <= i

Before(i, text) == SubSeq(text, 1, i - 1)
After(i, text) == SubSeq(text, i + 1, Len(text))

\* std::stoi takes the numeral in front and ignores what follows it; where it
\* throws, 0 is as good: no caller accepts either as a port.
Stoi(text) ==
    IF text # <<>> /\ Head(text) \in DOMAIN Numeral THEN Numeral[Head(text)] ELSE 0

Port(text, default) ==
    IF text = <<>> THEN default
    ELSE IF Stoi(text) \in Ports THEN Stoi(text) ELSE 0

\* Host and port text.  The last colon separates them, or the one behind a
\* host in brackets.
CutBracketed(value) ==
    LET rest == After(FirstPlace("]", value), value)
    IN IF Places("]", value) = {} \/ (rest # <<>> /\ Head(rest) # ":")
       THEN <<<<>>, <<>>>>
       ELSE <<SubSeq(value, 2, FirstPlace("]", value) - 1), After(1, rest)>>

CutAtLast(value) ==
    IF Places(":", value) = {} THEN <<value, <<>>>>
    ELSE <<Before(LastPlace(":", value), value), After(LastPlace(":", value), value)>>

Cut(value) ==
    IF value # <<>> /\ Head(value) = "[" THEN CutBracketed(value) ELSE CutAtLast(value)

parse_host_port(value, default) ==
    LET host == Cut(value)[1]
        port == Port(Cut(value)[2], default)
    IN IF host = <<>> \/ port = 0 THEN Invalid ELSE Endpoint(host, port)

Joined(host, separator, token) == host \o <<separator, token>>

endpoint_to_string(host, port) == Joined(host, ":", Decimal[port])

\* The payload of an Open frame.
make_open_payload(host, port) == Joined(host, "\n", Decimal[port])

parse_open_payload(payload) ==
    LET host == Before(FirstPlace("\n", payload), payload)
        port == Port(After(FirstPlace("\n", payload), payload), 0)
    IN IF Places("\n", payload) = {} \/ host = <<>> \/ port = 0 THEN Invalid
       ELSE Endpoint(host, port)

\* A URL is its scheme, what comes before the first slash behind it, and the
\* rest; an empty path is "/".
parse_http_url(url) ==
    IF url.scheme = "http" THEN parse_host_port(url.authority, 80) ELSE Invalid
=============================================================================
