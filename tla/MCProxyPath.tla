---------------------------- MODULE MCProxyPath ----------------------------
(***************************************************************************)
(* Command lines, files and requests for ProxyPath: every form a setting   *)
(* or a request has, each against one sound choice of the others.          *)
(***************************************************************************)
EXTENDS ProxyPath, TLC

MCNumeral ==
    "80" :> 80 @@ "080" :> 80 @@ "443" :> 443 @@ "8000" :> 8000 @@ "9700" :> 9700
    @@ "9080" :> 9080 @@ "0" :> 0 @@ "65616" :> 65616
MCDecimal ==
    80 :> "80" @@ 443 :> "443" @@ 8000 :> "8000" @@ 9700 :> "9700" @@ 9080 :> "9080"

MCTokens == Separators \cup DOMAIN MCNumeral
            \cup {"app", "gate", "db", "other", "old", "1", "x"}

App == <<"app", ":", "8000">>
Loop == <<"[", ":", ":", "1", "]">>
Gate == <<"gate", ":", "9700">>

MCFiles ==
    <<"agent.conf">> :>
      <<<<"#", "tunnel", "=", "old", ":", "9700">>, <<"tunnel", "=">> \o Gate, <<>>,
        <<"secret", "=", "s0">>, <<"secret", "=", "s1", ";", "new">>,
        <<"allow", "=">> \o App, <<"allow", "=">> \o Loop \o <<":", "080", "x">>>>
    @@ <<"legacy.conf">> :>
      <<<<"tunnel", "=">> \o Gate, <<"secret", "=", "s0">>, <<"secret", "=">>,
        <<"token", "=", "s1">>, <<"tls", "=", "yes">>, <<"tls_insecure", "=", "false">>>>
    @@ <<"ca.conf">> :> <<<<"tunnel", "=">> \o Gate, <<"tls_ca", "=", "own.crt">>,
                          <<"tls_insecure", "=", "false">>>>
    @@ <<"cut.conf">> :> <<<<"tunnel", "=">> \o Gate, <<"id">>>>
    @@ <<"keyless.conf">> :> <<<<"=", "s1">>>>
    @@ <<"port.conf">> :> <<<<"allow", "=", "app">>>>
    @@ <<"tunnel.conf">> :>
      <<<<"control", "=", "gate", ":", "9700">>, <<"secret", "=", "s1">>, <<"state", "=", "f">>>>
    @@ <<"tls.conf">> :>
      <<<<"secret", "=", "s1">>, <<"tls_cert", "=", "gate.crt">>, <<"tls_key", "=", "gate.key">>>>
    @@ <<"half.conf">> :> <<<<"tls_cert", "=", "gate.crt">>>>

MCCertificates ==
    <<"gate.crt">> :> [key |-> <<"gate.key">>, issuer |-> "public", name |-> <<"gate">>]
    @@ <<"own.crt">> :> [key |-> <<"own.key">>, issuer |-> "own", name |-> <<"gate">>]
    @@ <<"other.crt">> :> [key |-> <<"own.key">>, issuer |-> "public", name |-> <<"other">>]
MCAuthorities == <<"own.crt">> :> "own"

O(name, value) == [name |-> name, value |-> value]

Bases == {<<>>, <<O("tunnel", Gate), O("secret", <<"s1">>)>>}
         \cup {<<O("config", <<f>>)>> : f \in {"agent.conf", "legacy.conf", "ca.conf", "cut.conf",
                                              "keyless.conf", "port.conf", "none.conf"}}
Further ==
    {O("tunnel", <<"other", ":", "9700">>), O("tunnel", <<"other">>), O("id", <<"a">>),
     O("id", <<>>), O("token", <<"s1">>), O("secret", <<"s2">>), O("allow", App),
     O("allow", <<"db", ":", "8000">>), O("allow", <<"app", ":", "0">>), O("tls", <<>>),
     O("tls_insecure", <<>>), O("tls_ca", <<"own.crt">>), O("help", <<>>),
     O("config", <<"ca.conf">>)}

AgentLines == Bases \cup {b \o <<o>> : b \in Bases, o \in Further}
                    \cup {<<o>> \o b : b \in Bases, o \in Further}
                    \cup {<<O("tunnel", Gate)>> \o <<o, p>> : o, p \in Further}

OwnTls == <<O("tls_cert", <<"own.crt">>), O("tls_key", <<"own.key">>)>>
TunnelLines ==
    {<<>>, <<O("config", <<"tunnel.conf">>)>>, <<O("config", <<"tls.conf">>)>>,
     <<O("config", <<"half.conf">>)>>, <<O("config", <<"half.conf">>), O("tls_key", <<"own.key">>)>>,
     <<O("secret", <<"s1">>)>> \o OwnTls,
     <<O("secret", <<"s1">>), O("tls_cert", <<"other.crt">>), O("tls_key", <<"own.key">>)>>,
     <<O("proxy", <<"gate", ":", "9080">>), O("secret", <<"s2">>), O("secret", <<"s1">>)>>,
     <<O("proxy", <<"gate">>)>>, <<O("selected_agent", <<>>)>>,
     <<O("auth_url", <<"http">>), O("auth_token", <<"t">>), O("secret", <<"s2">>)>>}

SoundAgent == <<O("config", <<"agent.conf">>)>>
SoundTunnel == <<O("config", <<"tunnel.conf">>)>>

-----------------------------------------------------------------------------

Crlf == <<CR, LF>>
Byte(i) == Token(i)
End == <<Token("end")>>
Agree == HeaderLine("accept", <<>>)
ForProxy == HeaderLine("proxy-connection", <<"close">>)
Host(value) == HeaderLine("host", value)
Path(path) == Url("none", <<>>, path)

RECURSIVE Ends(_)
Ends(lines) == IF lines = <<>> THEN <<>> ELSE <<Head(lines)>> \o Crlf \o Ends(Tail(lines))
Sends(lines, body) == Ends(lines) \o Crlf \o body

Ask(lines, body, later, means, rewritten) ==
    [stream |-> Sends(lines, body), body |-> body, later |-> later, means |-> means,
     rewritten |-> rewritten]

Plain ==
    Ask(<<RequestLine("POST", Url("http", App, "/p")), Host(<<"old">>), ForProxy>>,
        <<Byte("1"), Byte("2")>>, <<>>, Endpoint(<<"app">>, 8000),
        <<RequestLine("POST", Path("/p")), Host(App)>> \o End)

Asks ==
    {Plain,
     Ask(<<RequestLine("POST", Url("http", Loop, "/"))>>, <<Byte("1")>>, <<>>,
         Endpoint(<<":", ":", "1">>, 80),
         <<RequestLine("POST", Path("/")), Host(<<":", ":", "1", ":", "80">>)>> \o End),
     Ask(<<RequestLine("GET", Path("/q")), Agree, Host(App), Host(<<"db", ":", "8000">>)>>, <<>>, <<>>,
         Endpoint(<<"app">>, 8000),
         <<RequestLine("GET", Path("/q")), Agree, Host(App), Host(<<"db", ":", "8000">>)>> \o End),
     Ask(<<RequestLine("GET", Path("/q")), Host(<<"db", ":", "8000">>)>>, <<>>, <<>>,
         Endpoint(<<"db">>, 8000),
         <<RequestLine("GET", Path("/q")), Host(<<"db", ":", "8000">>)>> \o End),
     Ask(<<RequestLine("GET", Path("/q")), Agree>>, <<>>, <<>>, Invalid, <<>>),
     Ask(<<RequestLine("GET", Path("/q")), Host(<<"app", ":", "65616">>)>>, <<>>, <<>>, Invalid, <<>>),
     Ask(<<RequestLine("GET", Url("https", App, "/"))>>, <<>>, <<>>, Invalid, <<>>),
     Ask(<<RequestLine("CONNECT", Url("none", App, ""))>>, <<Byte("1"), Byte("2")>>,
         <<Byte("3")>>, Endpoint(<<"app">>, 8000), <<>>),
     Ask(<<RequestLine("CONNECT", Url("none", <<"app">>, ""))>>, <<>>, <<Byte("3")>>,
         Endpoint(<<"app">>, 443), <<>>),
     Ask(<<RequestLine("GET", Path("/q")), Agree, Agree, Host(App)>>, <<>>, <<>>,
         Endpoint(<<"app">>, 8000),
         <<RequestLine("GET", Path("/q")), Agree, Agree, Host(App)>> \o End),
     Ask(<<>>, <<Byte("1")>>, <<>>, Invalid, <<>>)}

Pair(a, t) == [agent |-> a, tunnel |-> t]

MCCases ==
    {[launch |-> Pair(a, SoundTunnel), ask |-> Ask(<<>>, <<>>, <<>>, Invalid, <<>>)] : a \in AgentLines}
    \cup {[launch |-> Pair(a, t), ask |-> Ask(<<>>, <<>>, <<>>, Invalid, <<>>)] :
            a \in Bases \cup {<<O("tunnel", Gate), O("secret", <<"s1">>), O("tls_insecure", <<>>)>>,
                              <<O("tunnel", <<"other", ":", "9700">>), O("secret", <<"s1">>), O("tls", <<>>)>>},
            t \in TunnelLines}
    \cup {[launch |-> Pair(SoundAgent, SoundTunnel), ask |-> a] : a \in Asks}

MCRivalFrame == [type |-> "Data", id |-> 2, payload |-> <<Token("r1"), Token("r2")>>]
=============================================================================
