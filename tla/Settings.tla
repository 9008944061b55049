------------------------------ MODULE Settings ------------------------------
(***************************************************************************)
(* How the two tunnel programs get their settings: defaults, then the file *)
(* of the first --config option, then the other options in their order.    *)
(* Both do it in the same way with other names, so a program is a record   *)
(* of names.  A line of a file is a text; case and surrounding blanks      *)
(* make no difference and are left out.  An option is a name without its   *)
(* dashes and a value, empty if there is none.  A setting that is an       *)
(* endpoint is kept as the text endpoint_to_string makes of it.            *)
(***************************************************************************)
EXTENDS Endpoints, SequencesExt

CONSTANT Files   \* the lines of each file that can be opened, by its path

AgentProgram ==
    [endpoints |-> {"tunnel"}, filled |-> {"id", "secret"}, free |-> {"tls_ca"},
     implyTls |-> {"tls_ca"}, flags |-> {"tls", "tls_insecure"}, lists |-> {"allow"},
     required |-> {"tunnel"}, withTls |-> {}]

TunnelProgram ==
    [endpoints |-> {"control", "proxy"}, filled |-> {"secret", "selected_agent"},
     free |-> {"state", "auth_url", "auth_token", "status_url", "status_token",
               "tls_cert", "tls_key"},
     implyTls |-> {"tls_cert", "tls_key"}, flags |-> {}, lists |-> {},
     required |-> {}, withTls |-> {"tls_cert", "tls_key"}]

Single(prog) == prog.endpoints \cup prog.filled \cup prog.free

AgentDefault ==
    [ok |-> TRUE, tls |-> FALSE, insecure |-> FALSE, allow |-> {},
     value |-> [n \in Single(AgentProgram) |->
                  CASE n = "id" -> <<"agent-01">> [] n = "secret" -> <<"dev-secret">>
                    [] OTHER -> <<>>]]

TunnelDefault ==
    [ok |-> TRUE, tls |-> FALSE, insecure |-> FALSE, allow |-> {},
     value |-> [n \in Single(TunnelProgram) |->
                  CASE n = "control" -> <<"0.0.0.0", ":", "9700">>
                    [] n = "proxy" -> <<"127.0.0.1", ":", "9080">>
                    [] n = "secret" -> <<"dev-secret">>
                    [] n = "state" -> <<"webhookops-tunnel.state">>
                    [] OTHER -> <<>>]]

Refused(cfg) == [cfg EXCEPT !.ok = FALSE]

ValidEndpoint(text) == parse_host_port(text, 0) # Invalid
Canonical(text) ==
    LET e == parse_host_port(text, 0) IN endpoint_to_string(e.host, e.port)

-----------------------------------------------------------------------------
(* Files.                                                                   *)

\* What is left of a line in front of a comment, wherever it starts.
Content(line) ==
    LET marks == Places("#", line) \cup Places(";", line)
    IN IF marks = {} THEN line ELSE Before(CHOOSE i \in marks : \A j \in marks : i <= j, line)

WellFormed(line) ==
    Content(line) # <<>> =>
        Places("=", Content(line)) # {} /\ FirstPlace("=", Content(line)) > 1

Key(line) == Before(FirstPlace("=", Content(line)), Content(line))
Value(line) == After(FirstPlace("=", Content(line)), Content(line))

\* Every line that is not blank is key=value, or the file is refused.
load_config_file(path) == path \in DOMAIN Files /\ \A i \in DOMAIN Files[path] : WellFormed(Files[path][i])

config_get_all(lines, name) ==
    LET values[i \in 0..Len(lines)] ==
          IF i = 0 THEN <<>>
          ELSE IF Content(lines[i]) # <<>> /\ Key(lines[i]) = <<name>>
               THEN Append(values[i - 1], Value(lines[i]))
               ELSE values[i - 1]
    IN values[Len(lines)]

\* Bug: the first value of a key.
FirstValue(lines, name) ==
    LET values == config_get_all(lines, name)
    IN IF values = <<>> THEN <<>> ELSE Head(values)

\* The last value of a key; an empty one counts.
config_get(lines, name) ==
    LET values == config_get_all(lines, name)
    IN IF values = <<>> THEN <<>> ELSE values[Len(values)]

Truthy == {<<"true">>, <<"1">>, <<"yes">>}

\* apply_node_config and apply_controller_config; an empty value sets nothing.
WithFile(prog, cfg, lines) ==
    LET Get(n) == config_get(lines, n)
        Secret == IF Get("secret") # <<>> THEN Get("secret") ELSE Get("token")
        Listed == UNION {ToSet(config_get_all(lines, n)) : n \in prog.lists}
        Given(n) == IF n = "secret" THEN Secret ELSE Get(n)
    IN [ok |-> /\ \A n \in prog.endpoints : Get(n) = <<>> \/ ValidEndpoint(Get(n))
               /\ \A text \in Listed : ValidEndpoint(text),
        tls |-> \/ \E n \in prog.flags : Get(n) \in Truthy
                \/ \E n \in prog.implyTls : Get(n) # <<>>,
        insecure |-> "tls_insecure" \in prog.flags /\ Get("tls_insecure") \in Truthy,
        allow |-> {Canonical(text) : text \in {t \in Listed : ValidEndpoint(t)}},
        value |-> [n \in Single(prog) |->
                     CASE Given(n) = <<>> -> cfg.value[n]
                       [] n \in prog.endpoints /\ ValidEndpoint(Given(n)) -> Canonical(Given(n))
                       [] OTHER -> Given(n)]]

-----------------------------------------------------------------------------
(* Options.                                                                 *)

\* load_config_arg: only the first --config counts.
load_config_arg(prog, default, options) ==
    LET paths == {i \in DOMAIN options : options[i].name = "config"}
        path == options[CHOOSE i \in paths : \A j \in paths : i <= j].value
    IN IF paths = {} THEN default
       ELSE IF ~load_config_file(path) THEN Refused(default)
       ELSE WithFile(prog, default, Files[path])

Named(prog, name) == IF name = "token" THEN "secret" ELSE name

WithOption(prog, cfg, o) ==
    LET n == Named(prog, o.name) IN
    CASE n = "config" -> cfg
      [] n \in prog.endpoints ->
           IF ValidEndpoint(o.value) THEN [cfg EXCEPT !.value[n] = Canonical(o.value)]
           ELSE Refused(cfg)
      [] n \in prog.lists ->
           IF ValidEndpoint(o.value) THEN [cfg EXCEPT !.allow = @ \cup {Canonical(o.value)}]
           ELSE Refused(cfg)
      [] n \in prog.filled ->
           IF o.value # <<>> THEN [cfg EXCEPT !.value[n] = o.value] ELSE Refused(cfg)
      [] n \in prog.free ->
           [cfg EXCEPT !.value[n] = o.value, !.tls = @ \/ n \in prog.implyTls]
      [] n \in prog.flags ->
           [cfg EXCEPT !.tls = TRUE, !.insecure = @ \/ n = "tls_insecure"]
      [] OTHER -> Refused(cfg)

parse_args(prog, default, options) ==
    LET after[i \in 0..Len(options)] ==
          IF i = 0 THEN load_config_arg(prog, default, options)
          ELSE WithOption(prog, after[i - 1], options[i])
        cfg == after[Len(options)]
    IN IF /\ \A n \in prog.required : cfg.value[n] # <<>>
          /\ cfg.tls => \A n \in prog.withTls : cfg.value[n] # <<>>
       THEN cfg ELSE Refused(cfg)
=============================================================================
